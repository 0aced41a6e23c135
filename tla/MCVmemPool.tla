----------------------------- MODULE MCVmemPool -----------------------------
(* Small instances of VmemPool for TLC. *)
EXTENDS VmemPool, TLC

CONSTANTS p1, p2, v1, v2

(* Behaviours are followed until exclusion is given up for the first time. *)
UntilTaint == taint = {}

Symmetry == Permutations(Procs)
====
