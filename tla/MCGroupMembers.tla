--------------------------- MODULE MCGroupMembers ---------------------------
(* Small instances of GroupMembers.                                        *)
EXTENDS GroupMembers, TLC

CONSTANTS u1, u2, u3, g1, c1, c2

UserSymmetry == Permutations(Users) \union Permutations(Calls)
=============================================================================
