---------------------------- MODULE MCWarnQueue ----------------------------
(* Instances of WarnQueue for TLC. *)
EXTENDS WarnQueue

====
