------------------------- MODULE MCGroupMembership -------------------------
(* GroupMembership for TLC: ids of one kind are interchangeable.           *)
EXTENDS GroupMembership, TLC

Symmetry == Permutations(Processes) \cup Permutations(Users)
            \cup Permutations(Groups) \cup Permutations(Spaces)
=============================================================================
