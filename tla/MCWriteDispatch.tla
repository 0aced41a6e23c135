-------------------------- MODULE MCWriteDispatch --------------------------
(* Instances of WriteDispatch for TLC. *)
EXTENDS WriteDispatch

====
