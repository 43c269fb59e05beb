---------------------------- MODULE MCPhoneForms ----------------------------
(***************************************************************************)
(* Three parts of the phone that share nothing: the form of an expense     *)
(* (ExpenseSplit), the list of accounts (PhoneAccounts) and the search of  *)
(* the chain (ChainSearch).  One of them is in use in a behaviour and the  *)
(* others stay as they begin.                                              *)
(* Two users: the first has two passkeys, the second only Google.          *)
(***************************************************************************)
EXTENDS MCExpenseSplit, PhoneAccounts, ChainSearch, TLC

CONSTANTS u1, u2, k1, k2, e1, e2, e3, o1, o2, a1, a2, p1, p2

VARIABLE part   \* the part in use

\* The transactions that may carry o1, in the order of their logs: after a payment of the same
\* account that is the same, or another; before one; with the payment twice, and a log that is
\* no transfer; from another account, or by one; reverted.
Event(op, wallet, ok) == [kind |-> "event", by |-> op, sender |-> wallet, ok |-> ok]
Move(op, wallet, payment) == [kind |-> "transfer", by |-> op, from |-> wallet, pays |-> payment]
Other(op) == [kind |-> "other", by |-> op]

Bundles ==
    {<<Move(o2, a1, p1), Event(o2, a1, TRUE), Move(o1, a1, p1), Event(o1, a1, TRUE)>>,
     <<Move(o2, a1, p1), Event(o2, a1, TRUE), Move(o1, a1, p2), Move(o1, a1, p1), Event(o1, a1, TRUE)>>,
     <<Move(o1, a1, p1), Event(o1, a1, TRUE), Move(o2, a1, p2), Event(o2, a1, TRUE)>>,
     <<Move(o1, a1, p1), Move(o1, a1, p1), Other(o1), Event(o1, a1, TRUE)>>,
     <<Move(o1, a2, p1), Event(o1, a1, TRUE)>>,
     <<Move(o1, a1, p1), Event(o1, a2, TRUE)>>,
     <<Move(o2, a2, p1), Event(o2, a2, TRUE), Event(o1, a1, FALSE)>>}

PasskeyOwner == k1 :> u1 @@ k2 :> u1

EntrySymmetry == Permutations(Keys) \cup Permutations(Passkeys)

FormsInit ==
    /\ part \in {"split", "accounts", "search"}
    /\ Init /\ AccountsInit /\ SearchInit
    /\ part # "search" => head = 0
    /\ part # "accounts" => joined = {}

FormsNext ==
    \/ part = "split" /\ Next /\ UNCHANGED <<part, accountVars, searchVars>>
    \/ part = "accounts" /\ AccountsNext /\ UNCHANGED <<part, vars, searchVars>>
    \/ part = "search" /\ SearchNext /\ UNCHANGED <<part, vars, accountVars>>

FormsSpec == FormsInit /\ [][FormsNext]_<<part, vars, accountVars, searchVars>>
=============================================================================
