------------------------ MODULE MCPaymentOperations ------------------------
(* Small instances of PaymentOperations for TLC.                           *)
EXTENDS PaymentInvariant, TLC

CONSTANTS a1, a2, o1, o2, o3, t1, t2, p1, p2, s1, s2

OneAccount == {a1}
TwoAccounts == {a1, a2}

\* Both payments go to one payee: the service cannot tell them apart.
OnePayee == (p1 :> "alice") @@ (p2 :> "alice")
\* Only the first payment can be recorded by asset.
OneListed == (p1 :> "alice") @@ (p2 :> None)

\* Accounts, operations, transactions and slots are interchangeable.
Interchangeable == Permutations(Accounts) \union Permutations(Ops)
                   \union Permutations(Txs) \union Permutations(Slots)
=============================================================================
