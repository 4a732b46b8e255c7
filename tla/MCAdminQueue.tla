---------------------------- MODULE MCAdminQueue ----------------------------
(* Instances of AdminQueue for TLC. *)
EXTENDS AdminQueue, TLC

Symmetry == Permutations(Admin) \cup Permutations(Card) \cup Permutations(Proc)
=============================================================================
