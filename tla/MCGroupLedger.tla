---------------------------- MODULE MCGroupLedger ---------------------------
(* Small instances of GroupLedger.                                         *)
EXTENDS GroupLedger, TLC

CONSTANTS u1, u2, u3, g1, c1, e1, e2, q1, q2, t1, t2, r1, h1, h2

LedgerSymmetry ==
    Permutations(Users) \union Permutations(Expenses) \union Permutations(Quotes)
    \union Permutations(Payments) \union Permutations(Handlers)
=============================================================================
