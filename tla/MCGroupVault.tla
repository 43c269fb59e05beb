---------------------------- MODULE MCGroupVault ----------------------------
(* Small instances of GroupVault.                                          *)
EXTENDS GroupVault, TLC

CONSTANTS m1, m2, m3, x1, d1, d2

TwoDeposits == d1 :> 1 @@ d2 :> 2
\* Everybody can pay one of each deposit; the stranger has one token to give.
Purse == [h \in Holders |-> IF h \in Members THEN 3 ELSE IF h = x1 THEN 1 ELSE 0]

MemberSymmetry == Permutations(Members)
=============================================================================
