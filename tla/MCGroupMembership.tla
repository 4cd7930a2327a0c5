-------------------------- MODULE MCGroupMembership --------------------------
(* An instance of GroupMembership for TLC. *)
EXTENDS GroupMembership, TLC

Symmetry == Permutations(Users) \cup Permutations(Calls)
=============================================================================
