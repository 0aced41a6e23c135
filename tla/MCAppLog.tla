------------------------------ MODULE MCAppLog ------------------------------
(* Small instances of AppLog for TLC. *)
EXTENDS AppLog, TLC

CONSTANTS w1, w2, ag

(* Behaviours are followed until exclusion is given up for the first time. *)
UntilTaint == taint = {}

Symmetry == Permutations(Writers)
====
