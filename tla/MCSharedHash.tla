---------------------------- MODULE MCSharedHash ----------------------------
(* Instances of SharedHash for TLC. *)
EXTENDS SharedHash, TLC

CONSTANTS w1, w2, ag

(* The writers are alike. *)
Symmetry == Permutations(Writers)

(* Behaviours are followed until the flag is cleared under a live holder, a node is linked *)
(* twice, or a holder dies: nothing is claimed of such a table.                            *)
Held == taint = {}

====
