---------------------------- MODULE MCAttrReport ----------------------------
(* Instances of AttrReport for TLC. *)
EXTENDS AttrReport, TLC

CONSTANTS w1, w2

Symmetry == Permutations(Writers)

(* Behaviours are followed until a value is lost for the first time. *)
UntilLoss == taint = {}

====
