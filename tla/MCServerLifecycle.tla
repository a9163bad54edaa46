------------------------- MODULE MCServerLifecycle --------------------------
(* Instances of ServerLifecycle for TLC. *)
EXTENDS ServerLifecycle, TLC

(* a server is told from another only by what it has done *)
ServerSymmetry == Permutations(Servers)
=============================================================================
