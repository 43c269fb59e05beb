-------------------------- MODULE PaymentInvariant --------------------------
(***************************************************************************)
(* The inductive invariant behind NoPaymentOutOfSight, for transactions    *)
(* that carry one operation of this phone each.                            *)
(***************************************************************************)
EXTENDS PaymentOperations

\* Places where the holder of a lock works on the pending record.
Held == {"gateClear", "begun", "awaiting", "polling", "sendClear", "sendAbandon",
         "checking", "checkClear", "releaseClear"}

\* Whoever works on the pending record has one.
HoldsRecord == \A a \in Accounts : at[a] \in Held => pending[a] \in Ops

\* A transaction carries one operation, and every landed operation has one.
OneOpPerTx ==
    /\ \A o \in Ops : tx[o] # None <=> net[o] = "landed"
    /\ \A o, p \in Ops : tx[o] # None /\ tx[o] = tx[p] => o = p

\* What an account keeps, in storage or in memory, are its own operations.
OwnOperations ==
    /\ \A o \in Ops : from[o] = None <=> net[o] = "unused"
    /\ \A a \in Accounts : pending[a] # None => from[pending[a]] = a
    /\ \A a \in Accounts : \A o \in Elements(watched[a]) \union Elements(todo[a])
                                        \union Elements(kept[a]) : from[o] = a

\* An entry, a request and a row are about the operation their transaction carries.
EntriesMatch ==
    /\ \A a \in Accounts, t \in Txs : outbox[a][t] # None =>
           tx[outbox[a][t].op] = t /\ from[outbox[a][t].op] = a
    /\ \A s \in Slots : slot[s] # None =>
           /\ tx[slot[s].entry.op] = slot[s].tx
           /\ from[slot[s].entry.op] = slot[s].account
           /\ slot[s].answer = "recorded" => rows[slot[s].tx] # None
    /\ \A t \in Txs : rows[t] # None => tx[rows[t].op] = t

\* Nothing is left to do about an operation.
Settled(o) ==
    \/ net[o] \in {"reverted", "dropped"}
    \/ net[o] = "landed" /\ o \in reported /\ (Recorded(o) \/ pays[o] \in Opaque)

\* What the holder of a wallet's lock may rely on where it is.
PlaceAt(a) ==
    /\ at[a] \in {"others", "prepare"} => ~Unresolved(a)
    /\ at[a] = "begun" => net[pending[a]] = "begun"
    /\ at[a] \in {"gateClear", "sendClear", "checkClear"} =>
           /\ net[pending[a]] = "landed"
           /\ Recorded(pending[a]) \/ pays[pending[a]] \in Opaque
    /\ at[a] = "sendAbandon" => pending[a] \in failed
    /\ at[a] = "releaseClear" => pending[a] \in Elements(watched[a]) \union forgotten
    /\ at[a] = "watching" =>
           \A o \in Elements(watched[a]) :
               \/ o \in Elements(todo[a]) \union Elements(kept[a]) \union forgotten
               \/ Settled(o)

PlacesHold == \A a \in Accounts : PlaceAt(a)

SafetyInv ==
    /\ HoldsRecord /\ OneOpPerTx /\ OwnOperations /\ EntriesMatch
    /\ FailedMovedNothing /\ PlacesHold /\ NoPaymentOutOfSight
=============================================================================
