----------------------------- MODULE MCJsReport -----------------------------
(* Instances of JsReport for TLC. *)
EXTENDS JsReport

====
