------------------------- MODULE PaymentOperations -------------------------
(***************************************************************************)
(* The payment state machine of the phone:                                 *)
(*   frontend/services/paymentOperations.ts   what is stored, and when     *)
(*   frontend/services/paymentSubmission.ts   how one payment is sent      *)
(*   frontend/utils/operationRecord.ts, operationOutbox.ts                 *)
(*   frontend/utils/exclusiveOperation.ts     the lock of one wallet       *)
(*                                                                         *)
(* A payment becomes a user operation.  While its outcome is unknown, the  *)
(* account keeps one pending record.  A proven payment is put in the       *)
(* outbox and from there recorded with the service.  A payment nobody can  *)
(* prove may be released by its owner to a watch list.  The process can    *)
(* die at any await: storage survives, everything else does not.           *)
(*                                                                         *)
(* Each action is the code between two awaits whose effect another actor,  *)
(* or a crash, can observe.  Evidence trails, wording, clocks and backoff  *)
(* are left out: a wait that may have elapsed is a choice.                 *)
(***************************************************************************)
EXTENDS Naturals, Sequences

CONSTANTS
    Accounts,       \* smart accounts on this phone; each is also its ATARA user
    Payments,       \* what can be paid (asset, recipient, amount)
    Opaque,         \* payments whose calls do not read as one transfer
    Payee,          \* by payment, the recipient and asset, which is all the service
                    \* compares; None for an asset the app does not list
    Ops,            \* user operations; each send attempt uses a fresh one
    Txs,            \* transactions that can carry user operations
    Slots,          \* recording requests that can be under way at once
    MaxWatched,     \* the watch list keeps this many released payments
    SharedBundles,  \* whether one transaction may carry several operations
    LeaveMidway,    \* whether the owner may sign out while a wallet is busy
    MaxCrashes,     \* bound: how often the process dies
    None

ASSUME NoneAssumption ==
    None \notin Accounts \union Payments \union Ops \union Txs \union Slots
ASSUME PaymentAssumption ==
    Opaque \subseteq Payments /\ Payments \subseteq DOMAIN Payee
ASSUME BoundAssumption ==
    MaxWatched \in Nat \ {0} /\ MaxCrashes \in Nat
    /\ SharedBundles \in BOOLEAN /\ LeaveMidway \in BOOLEAN

VARIABLES
    \* The network: provider, bundler and chain.
    net,        \* where an operation is
    from,       \* the account an operation spends from
    pays,       \* the payment an operation makes
    tx,         \* the transaction that carried it, once it landed
    \* Storage of the phone.
    pending,    \* the operation in an account's pending record, or None
    clue,       \* what a record says of its operation: nothing, its hash, its call id
    failed,     \* operations whose record is in phase "failed"
    watched,    \* the watch list of an account, oldest first
    outbox,     \* by account, then transaction, the transfer queued for recording
    \* Memory of the process.
    session,    \* the account signed in, or None
    at,         \* how far the holder of a wallet's lock is; "idle": the lock is free
    wants,      \* the payment being sent under the lock
    todo, kept, \* the watch list being looked through, and what stays on it
    tail,       \* send flows past the lock, busy with recording their payment
    slot,       \* recording requests and enrichments under way
    \* The service.
    rows,       \* by transaction, the recorded transfer
    \* Bookkeeping of the model.
    reported,   \* operations whose confirmation was reported to the owner
    forgotten,  \* operations pushed off a watch list, or there for too long
    crashes

network  == <<net, from, pays, tx>>
storage  == <<pending, clue, failed, watched, outbox>>
lockVars == <<at, wants, todo, kept>>
history  == <<reported, forgotten, crashes>>
vars == <<network, storage, session, lockVars, tail, slot, rows, history>>

-----------------------------------------------------------------------------

NetStates == {"unused", "begun", "wired", "inflight",
              "landed", "reverted", "dropped", "refused"}
Accepted  == {"inflight", "landed", "reverted", "dropped"}
MayPay    == {"wired", "inflight", "landed"}

Places == {"idle", "gate", "gateClear", "others", "prepare", "begun", "awaiting",
           "polling", "sendClear", "sendAbandon",
           "checking", "checkClear", "releaseClear", "watching"}

Entry == [op : Ops, user : Accounts \union {None}, note : BOOLEAN,
          state : {"queued", "rejected"}]
Row   == [op : Ops, note : BOOLEAN]
Work  == [kind : {"flush", "enrich"}, account : Accounts, tx : Txs,
          entry : Entry, answer : {"none", "recorded", "rejected", "retry"}]

ASSUME NoRecordAssumption == None \notin Entry \union Work \union Row

Elements(s) == {s[i] : i \in 1..Len(s)}
LastOf(s, n) == IF Len(s) <= n THEN s ELSE SubSeq(s, Len(s) - n + 1, Len(s))

Unresolved(a) == pending[a] # None /\ pending[a] \notin failed

\* Two payments the service cannot tell apart by recipient and asset.
SameTransfer(p, q) == Payee[p] = Payee[q]

Init ==
    /\ net = [o \in Ops |-> "unused"]
    /\ from = [o \in Ops |-> None]
    /\ pays = [o \in Ops |-> None]
    /\ tx = [o \in Ops |-> None]
    /\ pending = [a \in Accounts |-> None]
    /\ clue = [o \in Ops |-> "none"]
    /\ failed = {}
    /\ watched = [a \in Accounts |-> << >>]
    /\ outbox = [a \in Accounts |-> [t \in Txs |-> None]]
    /\ session = None
    /\ at = [a \in Accounts |-> "idle"]
    /\ wants = [a \in Accounts |-> None]
    /\ todo = [a \in Accounts |-> << >>]
    /\ kept = [a \in Accounts |-> << >>]
    /\ tail = [a \in Accounts |-> [t \in Txs |-> "none"]]
    /\ slot = [s \in Slots |-> None]
    /\ rows = [t \in Txs |-> None]
    /\ reported = {}
    /\ forgotten = {}
    /\ crashes = 0

-----------------------------------------------------------------------------
(* The network.  It answers truthfully or not at all: "confirmed" only for *)
(* an operation that landed, "failed" only for one that never will.        *)

ProviderSays(o) ==
    IF clue[o] # "id" THEN {"open"}
    ELSE {"open"} \union (IF net[o] = "landed" THEN {"confirmed"} ELSE {})
                  \union (IF net[o] \in {"reverted", "dropped"} THEN {"failed"} ELSE {})

ChainSays(o) ==
    IF clue[o] = "none" THEN {"open"}
    ELSE {"open"} \union (IF net[o] = "landed" THEN {"confirmed"} ELSE {})
                  \union (IF net[o] = "reverted" THEN {"failed"} ELSE {})

\* What reconciling can conclude.  "open" stands for pending and for unknown.
Verdicts(o, useChain) ==
    ProviderSays(o) \union (IF useChain THEN ChainSays(o) ELSE {})

ProviderAnswers(o) ==
    /\ net[o] = "wired"
    /\ \E s \in {"inflight", "refused"} : net' = [net EXCEPT ![o] = s]
    /\ UNCHANGED <<from, pays, tx, storage, session, lockVars, tail, slot, rows, history>>

\* A bundle is mined: one new transaction carries all its operations.
Land(S, t) ==
    /\ S # {} /\ \A o \in S : net[o] = "inflight"
    /\ SharedBundles \/ \E o \in Ops : S = {o}
    /\ \A o \in Ops : tx[o] # t
    /\ net' = [o \in Ops |-> IF o \in S THEN "landed" ELSE net[o]]
    /\ tx' = [o \in Ops |-> IF o \in S THEN t ELSE tx[o]]
    /\ UNCHANGED <<from, pays, storage, session, lockVars, tail, slot, rows, history>>

Fall(o) ==
    /\ net[o] = "inflight"
    /\ \E s \in {"reverted", "dropped"} : net' = [net EXCEPT ![o] = s]
    /\ UNCHANGED <<from, pays, tx, storage, session, lockVars, tail, slot, rows, history>>

-----------------------------------------------------------------------------
(* Pieces of the settling code.                                            *)

\* queueRecording: an entry already there for the transaction is left alone.
Queue(a, o) ==
    outbox' = IF outbox[a][tx[o]] # None THEN outbox
              ELSE [outbox EXCEPT ![a][tx[o]] =
                        [op |-> o, user |-> session, note |-> FALSE, state |-> "queued"]]

\* A payment that cannot be read is queued only if the chain told what it was.
QueueIfReadable(a, o) ==
    \/ Queue(a, o)
    \/ pays[o] \in Opaque /\ UNCHANGED outbox

ClearRecord(a) == pending' = [pending EXCEPT ![a] = None]

\* Returning gives the lock back; what was being sent is then out of scope.
Goto(a, place) ==
    /\ at' = [at EXCEPT ![a] = place]
    /\ wants' = IF place = "idle" THEN [wants EXCEPT ![a] = None] ELSE wants

\* runExclusiveOperation: a second operation on the wallet is refused.
TakeLock(a) == at[a] = "idle" /\ session = a

\* Reconcile the pending record and settle the verdict, up to the first write.
Settle(a, v, confirmedAt, failedAt, openAt) ==
    \/ /\ v = "confirmed"
       /\ QueueIfReadable(a, pending[a])
       /\ Goto(a, confirmedAt)
       /\ UNCHANGED failed
    \/ /\ v = "failed"
       /\ failed' = failed \union {pending[a]}
       /\ Goto(a, failedAt)
       /\ UNCHANGED outbox
    \/ /\ v = "open"
       /\ Goto(a, openAt)
       /\ UNCHANGED <<failed, outbox>>

\* The second write: the confirmed record goes, and its owner is told.
ClearConfirmed(a) ==
    /\ reported' = reported \union {pending[a]}
    /\ ClearRecord(a)
    /\ Goto(a, "idle")
    /\ UNCHANGED <<network, clue, failed, watched, outbox, session, todo, kept,
                   slot, rows, forgotten, crashes>>

-----------------------------------------------------------------------------
(* Sending: submitAndConfirm, which holds the lock to its end.             *)

Send(a, p) ==
    /\ TakeLock(a)
    /\ at' = [at EXCEPT ![a] = "gate"]
    /\ wants' = [wants EXCEPT ![a] = p]
    /\ UNCHANGED <<network, storage, session, todo, kept, tail, slot, rows, history>>

\* Defect: an unresolved payment does not hold up the next one.
GateOpen(a) ==
    /\ at[a] = "gate"
    /\ Goto(a, "others")
    /\ UNCHANGED <<network, storage, session, todo, kept, tail, slot, rows, history>>

\* beforeSend, first half: settle what this account already has.
Gate(a) ==
    /\ at[a] = "gate"
    /\ \/ /\ ~Unresolved(a)
          /\ Goto(a, "others")
          /\ UNCHANGED <<failed, outbox>>
       \/ /\ Unresolved(a)
          /\ \E v \in Verdicts(pending[a], TRUE) : Settle(a, v, "gateClear", "others", "idle")
    /\ UNCHANGED <<network, pending, clue, watched, session, todo, kept,
                   tail, slot, rows, history>>

\* The earlier payment went through: it answers a retry of the same payment.
GateClear(a) ==
    /\ at[a] = "gateClear"
    /\ ClearConfirmed(a)
    /\ tail' = IF pays[pending[a]] = wants[a]
               THEN [tail EXCEPT ![a][tx[pending[a]]] = "enrich"] ELSE tail

\* Defect: the other accounts of the phone are not looked at.
HeldNowhere(a) == FALSE

\* Another account of this phone already has this payment unresolved.
HeldElsewhere(a) ==
    /\ wants[a] \notin Opaque
    /\ \E b \in Accounts \ {a} : Unresolved(b) /\ pays[pending[b]] = wants[a]

\* beforeSend, second half.
GateOthers(a) ==
    /\ at[a] = "others"
    /\ Goto(a, IF HeldElsewhere(a) THEN "idle" ELSE "prepare")
    /\ UNCHANGED <<network, storage, session, todo, kept, tail, slot, rows, history>>

\* Preparing fails, the fee guard stops it, or the record cannot be written.
PrepareFails(a) ==
    /\ at[a] = "prepare"
    /\ Goto(a, "idle")
    /\ UNCHANGED <<network, storage, session, todo, kept, tail, slot, rows, history>>

\* begin: the intent is written before anything is signed or sent.
Begin(a, o) ==
    /\ at[a] = "prepare"
    /\ net[o] = "unused"
    /\ net' = [net EXCEPT ![o] = "begun"]
    /\ from' = [from EXCEPT ![o] = a]
    /\ pays' = [pays EXCEPT ![o] = wants[a]]
    /\ \E c \in {"none", "hash"} : clue' = [clue EXCEPT ![o] = c]
    /\ pending' = [pending EXCEPT ![a] = o]
    /\ Goto(a, "begun")
    /\ UNCHANGED <<tx, failed, watched, outbox, session, todo, kept,
                   tail, slot, rows, history>>

\* The owner declines to sign: nothing was sent, the intent is abandoned.
SignDeclined(a) ==
    /\ at[a] = "begun"
    /\ clue[pending[a]] = "hash"
    /\ ClearRecord(a)
    /\ Goto(a, "idle")
    /\ UNCHANGED <<network, clue, failed, watched, outbox, session, todo, kept,
                   tail, slot, rows, history>>

\* The request leaves the phone.  It may arrive at any time, or never.
SendRequest(a) ==
    /\ at[a] = "begun"
    /\ net' = [net EXCEPT ![pending[a]] = "wired"]
    /\ Goto(a, "awaiting")
    /\ UNCHANGED <<from, pays, tx, storage, session, todo, kept,
                   tail, slot, rows, history>>

\* The call id comes back.  A failure to write it down is ignored.
ReplyId(a) ==
    /\ at[a] = "awaiting"
    /\ net[pending[a]] \in Accepted
    /\ \E c \in {"id", clue[pending[a]]} : clue' = [clue EXCEPT ![pending[a]] = c]
    /\ Goto(a, "polling")
    /\ UNCHANGED <<network, pending, failed, watched, outbox, session, todo, kept,
                   tail, slot, rows, history>>

ReplyRefused(a) ==
    /\ at[a] = "awaiting"
    /\ net[pending[a]] = "refused"
    /\ ClearRecord(a)
    /\ Goto(a, "idle")
    /\ UNCHANGED <<network, clue, failed, watched, outbox, session, todo, kept,
                   tail, slot, rows, history>>

\* Defect: a timeout is taken for a refusal.
ReplyLostClears(a) ==
    /\ at[a] = "awaiting"
    /\ ClearRecord(a)
    /\ Goto(a, "idle")
    /\ UNCHANGED <<network, clue, failed, watched, outbox, session, todo, kept,
                   tail, slot, rows, history>>

\* A timeout or a lost connection says nothing: the intent stays.
ReplyLost(a) ==
    /\ at[a] = "awaiting"
    /\ Goto(a, "idle")
    /\ UNCHANGED <<network, storage, session, todo, kept, tail, slot, rows, history>>

\* Defect: the wait has no deadline.
PollForEver(a) ==
    /\ at[a] = "polling"
    /\ \E v \in Verdicts(pending[a], FALSE) :
          Settle(a, v, "sendClear", "sendAbandon", "polling")
    /\ UNCHANGED <<network, pending, clue, watched, session, todo, kept,
                   tail, slot, rows, history>>

\* One round of waiting; the chain is asked in the last one only.
Poll(a) ==
    /\ at[a] = "polling"
    /\ \E last \in BOOLEAN : \E v \in Verdicts(pending[a], last) :
          Settle(a, v, "sendClear", "sendAbandon", IF last THEN "idle" ELSE "polling")
    /\ UNCHANGED <<network, pending, clue, watched, session, todo, kept,
                   tail, slot, rows, history>>

SendClear(a) ==
    /\ at[a] = "sendClear"
    /\ ClearConfirmed(a)
    /\ tail' = [tail EXCEPT ![a][tx[pending[a]]] = "enrich"]

SendAbandon(a) ==
    /\ at[a] = "sendAbandon"
    /\ ClearRecord(a)
    /\ Goto(a, "idle")
    /\ UNCHANGED <<network, clue, failed, watched, outbox, session, todo, kept,
                   tail, slot, rows, history>>

-----------------------------------------------------------------------------
(* What the owner, or opening the Activity screen, starts.                 *)

Check(a) ==
    /\ TakeLock(a)
    /\ Goto(a, "checking")
    /\ Unresolved(a)
    /\ UNCHANGED <<network, storage, session, todo, kept, tail, slot, rows, history>>

CheckAnswer(a) ==
    /\ at[a] = "checking"
    /\ \E v \in Verdicts(pending[a], TRUE) : Settle(a, v, "checkClear", "idle", "idle")
    /\ UNCHANGED <<network, pending, clue, watched, session, todo, kept,
                   tail, slot, rows, history>>

CheckClear(a) ==
    /\ at[a] = "checkClear"
    /\ ClearConfirmed(a)
    /\ UNCHANGED tail

\* release, first write: the payment moves to the watch list.
Release(a) ==
    /\ TakeLock(a)
    /\ Goto(a, "releaseClear")
    /\ Unresolved(a)
    /\ LET all == Append(watched[a], pending[a])
           stays == LastOf(all, MaxWatched)
       IN /\ watched' = [watched EXCEPT ![a] = stays]
          /\ forgotten' = forgotten \union (Elements(all) \ Elements(stays))
    /\ UNCHANGED <<network, pending, clue, failed, outbox, session, todo, kept,
                   tail, slot, rows, reported, crashes>>

ReleaseClear(a) ==
    /\ at[a] = "releaseClear"
    /\ ClearRecord(a)
    /\ Goto(a, "idle")
    /\ UNCHANGED <<network, clue, failed, watched, outbox, session, todo, kept,
                   tail, slot, rows, history>>

\* Dismissing, or releasing, the note of a failed payment.
Dismiss(a) ==
    /\ TakeLock(a)
    /\ pending[a] \in failed
    /\ ClearRecord(a)
    /\ UNCHANGED <<network, clue, failed, watched, outbox, session, lockVars,
                   tail, slot, rows, history>>

\* checkReleased: every watched payment in turn, then one write of what stays.
Watch(a) ==
    /\ TakeLock(a)
    /\ Goto(a, "watching")
    /\ todo' = [todo EXCEPT ![a] = watched[a]]
    /\ kept' = [kept EXCEPT ![a] = << >>]
    /\ UNCHANGED <<network, storage, session, tail, slot, rows, history>>

WatchNext(a) ==
    /\ at[a] = "watching"
    /\ todo[a] # << >>
    /\ LET o == Head(todo[a]) IN
       \/ /\ forgotten' = forgotten \union {o}      \* on the list for 14 days
          /\ UNCHANGED <<outbox, kept, reported>>
       \/ /\ "confirmed" \in Verdicts(o, TRUE)
          /\ QueueIfReadable(a, o)
          /\ reported' = reported \union {o}
          /\ UNCHANGED <<kept, forgotten>>
       \/ /\ "failed" \in Verdicts(o, TRUE)
          /\ UNCHANGED <<outbox, kept, reported, forgotten>>
       \/ /\ kept' = [kept EXCEPT ![a] = Append(@, o)]
          /\ UNCHANGED <<outbox, reported, forgotten>>
    /\ todo' = [todo EXCEPT ![a] = Tail(@)]
    /\ UNCHANGED <<network, pending, clue, failed, watched, session, at, wants,
                   tail, slot, rows, crashes>>

\* Defect: what is still open does not stay on the list.
WatchDoneDrops(a) ==
    /\ at[a] = "watching"
    /\ todo[a] = << >>
    /\ watched' = [watched EXCEPT ![a] = << >>]
    /\ kept' = [kept EXCEPT ![a] = << >>]
    /\ Goto(a, "idle")
    /\ UNCHANGED <<network, pending, clue, failed, outbox, session, todo,
                   tail, slot, rows, history>>

WatchDone(a) ==
    /\ at[a] = "watching"
    /\ todo[a] = << >>
    /\ watched' = [watched EXCEPT ![a] = kept[a]]
    /\ kept' = [kept EXCEPT ![a] = << >>]
    /\ Goto(a, "idle")
    /\ UNCHANGED <<network, pending, clue, failed, outbox, session, todo,
                   tail, slot, rows, history>>

-----------------------------------------------------------------------------
(* Recording.  None of it takes the lock of the wallet.                    *)

\* enrichRecording and flushRecordings both hold an entry over an await.
TakeEntry(s, kind, a, t) ==
    /\ slot[s] = None
    /\ outbox[a][t] # None
    /\ slot' = [slot EXCEPT ![s] = [kind |-> kind, account |-> a, tx |-> t,
                                    entry |-> outbox[a][t], answer |-> "none"]]

\* The send flow adds the note to the entry its payment was queued under.
EnrichRead(s, a, t) ==
    /\ tail[a][t] = "enrich"
    /\ \/ TakeEntry(s, "enrich", a, t)
       \/ outbox[a][t] = None /\ UNCHANGED slot
    /\ tail' = [tail EXCEPT ![a][t] = "record"]
    /\ UNCHANGED <<network, storage, session, lockVars, rows, history>>

EnrichWrite(s) ==
    /\ slot[s] # None /\ slot[s].kind = "enrich"
    /\ outbox' = [outbox EXCEPT ![slot[s].account][slot[s].tx] =
                      [slot[s].entry EXCEPT !.note = TRUE]]
    /\ slot' = [slot EXCEPT ![s] = None]
    /\ UNCHANGED <<network, pending, clue, failed, watched, session, lockVars,
                   tail, rows, history>>

\* The send flow gives up after five attempts, or its payment is recorded.
TailEnds(a, t) ==
    /\ tail[a][t] = "record"
    /\ tail' = [tail EXCEPT ![a][t] = "none"]
    /\ UNCHANGED <<network, storage, session, lockVars, slot, rows, history>>

\* Flushing is started by the account on screen, or by the end of a send flow.
FlushRead(s, a, t) ==
    /\ session = a \/ \E u \in Txs : tail[a][u] = "record"
    /\ TakeEntry(s, "flush", a, t)
    /\ outbox[a][t].state = "queued"
    /\ UNCHANGED <<network, storage, session, lockVars, tail, rows, history>>

\* The transfers to the payee of p that transaction t made from user u.
Matching(u, t, p) == {o \in Ops : tx[o] = t /\ from[o] = u /\ SameTransfer(pays[o], p)}

MayPost(e) == session # None /\ e.user \in {None, session}

\* postRecording and syncTransaction.  The request or its answer may be lost.
Post(s) ==
    /\ slot[s] # None /\ slot[s].kind = "flush" /\ slot[s].answer = "none"
    /\ LET e == slot[s].entry
           t == slot[s].tx
           p == pays[e.op]
           Answer(v) == slot' = [slot EXCEPT ![s].answer = v]
       IN \/ Answer("retry") /\ UNCHANGED rows
          \/ MayPost(e) /\ Payee[p] = None /\ Answer("rejected") /\ UNCHANGED rows
          \/ /\ MayPost(e) /\ Payee[p] # None /\ rows[t] # None
             /\ Answer(IF from[rows[t].op] = session /\ SameTransfer(pays[rows[t].op], p)
                       THEN "recorded" ELSE "rejected")
             /\ UNCHANGED rows
          \/ /\ MayPost(e) /\ Payee[p] # None /\ rows[t] = None
             /\ \/ \E o \in Ops :
                      /\ Matching(session, t, p) = {o}
                      /\ \E r \in {"recorded", "retry"} : Answer(r)
                      /\ rows' = [rows EXCEPT ![t] = [op |-> o, note |-> e.note]]
                \/ /\ \A o \in Ops : Matching(session, t, p) # {o}
                   /\ Answer("rejected")
                   /\ UNCHANGED rows
    /\ UNCHANGED <<network, storage, session, lockVars, tail, history>>

\* Defect: an entry the service rejected is dropped.
AnsweredDrops(s) ==
    /\ slot[s] # None /\ slot[s].kind = "flush" /\ slot[s].answer # "none"
    /\ outbox' = [outbox EXCEPT ![slot[s].account][slot[s].tx] =
                      IF slot[s].answer = "retry" THEN slot[s].entry ELSE None]
    /\ slot' = [slot EXCEPT ![s] = None]
    /\ UNCHANGED <<network, pending, clue, failed, watched, session, lockVars,
                   tail, rows, history>>

\* The entry as it was read decides what is written.
Answered(s) ==
    /\ slot[s] # None /\ slot[s].kind = "flush" /\ slot[s].answer # "none"
    /\ LET w == slot[s] IN
       outbox' = [outbox EXCEPT ![w.account][w.tx] =
           CASE w.answer = "recorded" -> None
             [] w.answer = "rejected" -> [w.entry EXCEPT !.state = "rejected"]
             [] OTHER                 -> w.entry]
    /\ slot' = [slot EXCEPT ![s] = None]
    /\ UNCHANGED <<network, pending, clue, failed, watched, session, lockVars,
                   tail, rows, history>>

-----------------------------------------------------------------------------
(* The process.                                                            *)

\* Signing out stops nothing that is under way.
ChangeSession(u) ==
    /\ session # u
    /\ session = None \/ u = None
    /\ LeaveMidway \/ \A a \in Accounts : at[a] = "idle"
    /\ session' = u
    /\ UNCHANGED <<network, storage, lockVars, tail, slot, rows, history>>

Crash ==
    /\ crashes < MaxCrashes
    /\ crashes' = crashes + 1
    /\ at' = [a \in Accounts |-> "idle"]
    /\ wants' = [a \in Accounts |-> None]
    /\ todo' = [a \in Accounts |-> << >>]
    /\ kept' = [a \in Accounts |-> << >>]
    /\ tail' = [a \in Accounts |-> [t \in Txs |-> "none"]]
    /\ slot' = [s \in Slots |-> None]
    /\ UNCHANGED <<network, storage, session, rows, reported, forgotten>>

-----------------------------------------------------------------------------

\* The holder of a wallet's lock goes on.
Continue(a) ==
    \/ Gate(a) \/ GateClear(a) \/ GateOthers(a) \/ PrepareFails(a)
    \/ \E o \in Ops : Begin(a, o)
    \/ SignDeclined(a) \/ SendRequest(a)
    \/ ReplyId(a) \/ ReplyRefused(a) \/ ReplyLost(a)
    \/ Poll(a) \/ SendClear(a) \/ SendAbandon(a)
    \/ CheckAnswer(a) \/ CheckClear(a) \/ ReleaseClear(a)
    \/ WatchNext(a) \/ WatchDone(a)

Start(a) ==
    \/ \E p \in Payments : Send(a, p)
    \/ Check(a) \/ Release(a) \/ Watch(a) \/ Dismiss(a)

Network ==
    \/ \E o \in Ops : ProviderAnswers(o) \/ Fall(o)
    \/ \E S \in SUBSET Ops, t \in Txs : Land(S, t)

Recording ==
    \/ \E s \in Slots, a \in Accounts, t \in Txs : EnrichRead(s, a, t) \/ FlushRead(s, a, t)
    \/ \E s \in Slots : EnrichWrite(s) \/ Post(s) \/ Answered(s)
    \/ \E a \in Accounts, t \in Txs : TailEnds(a, t)

Next ==
    \/ \E a \in Accounts : Start(a) \/ Continue(a)
    \/ Network
    \/ Recording
    \/ \E u \in Accounts \union {None} : ChangeSession(u)
    \/ Crash

Spec == Init /\ [][Next]_vars

-----------------------------------------------------------------------------
(* What must hold.                                                         *)

\* Every variable has its type: records, lists, outbox and requests under way hold
\* what the code may put there.
TypeOK ==
    /\ net \in [Ops -> NetStates]
    /\ from \in [Ops -> Accounts \union {None}]
    /\ pays \in [Ops -> Payments \union {None}]
    /\ tx \in [Ops -> Txs \union {None}]
    /\ pending \in [Accounts -> Ops \union {None}]
    /\ clue \in [Ops -> {"none", "hash", "id"}]
    /\ failed \subseteq Ops
    /\ watched \in [Accounts -> Seq(Ops)]
    /\ outbox \in [Accounts -> [Txs -> Entry \union {None}]]
    /\ session \in Accounts \union {None}
    /\ at \in [Accounts -> Places]
    /\ wants \in [Accounts -> Payments \union {None}]
    /\ todo \in [Accounts -> Seq(Ops)]
    /\ kept \in [Accounts -> Seq(Ops)]
    /\ tail \in [Accounts -> [Txs -> {"none", "enrich", "record"}]]
    /\ slot \in [Slots -> Work \union {None}]
    /\ rows \in [Txs -> Row \union {None}]
    /\ reported \subseteq Ops
    /\ forgotten \subseteq Ops
    /\ crashes \in 0..MaxCrashes

\* What is left of a landed payment once its pending record is gone.
Recorded(o) ==
    \/ outbox[from[o]][tx[o]] # None /\ outbox[from[o]][tx[o]].op = o
    \/ rows[tx[o]] # None /\ rows[tx[o]].op = o

\* Where a payment can be: it is the pending record of its account, on the
\* watch list, let go by the limits of the list, or reported and recorded.
InSight(o) ==
    \/ pending[from[o]] = o /\ o \notin failed
    \/ o \in Elements(watched[from[o]])
    \/ o \in forgotten
    \/ net[o] = "landed" /\ o \in reported /\ (Recorded(o) \/ pays[o] \in Opaque)

\* Whatever fails, dies or is refused, a payment that was made, or may still be
\* made, is never out of sight; one that was reported is queued for recording or
\* recorded ("queued for recording BEFORE its pending record is removed").
NoPaymentOutOfSight == \A o \in Ops : net[o] \in MayPay => InSight(o)

\* A payment whose outcome the owner has not been told, and has not let go of.
Open(o) == /\ net[o] \in MayPay
           /\ o \notin reported \union forgotten \union Elements(watched[from[o]])

\* "Unresolved blocks the next payment": an account never has two payments that
\* can both move money, unless its owner released the first.
OneOpenPayment ==
    \A o, p \in Ops : Open(o) /\ Open(p) /\ from[o] = from[p] => o = p

\* The two sources differ: a payment the phone shows as failed moved no money
\* and never will, so "you can send it again" is safe.
FailedMovedNothing == \A o \in failed : net[o] \in {"reverted", "dropped"}

\* An entry leaves the outbox only when the service holds that very payment,
\* however many flushes, enrichments and restarts overlap.
EntryLeavesWhenRecorded ==
    [][\A a \in Accounts, t \in Txs :
          outbox[a][t] # None /\ outbox'[a][t] = None
              => rows[t] # None /\ rows[t].op = outbox[a][t].op]_vars

\* The same payment is refused from another account of the phone while one has
\* it unresolved, so the two can never both be open.
SamePaymentOpenOnce ==
    \A o, p \in Ops :
        Open(o) /\ Open(p) /\ pays[o] = pays[p] /\ pays[o] \notin Opaque => o = p

\* A confirmed transfer is recorded under the account that made it: its entry
\* names that account's user, or nobody.
QueuedUnderPayer ==
    \A a \in Accounts, t \in Txs :
        outbox[a][t] # None => outbox[a][t].user \in {None, a}

\* A recorded payment appears in history with its note.
RecordedWithNote == \A t \in Txs : rows[t] # None => rows[t].note

-----------------------------------------------------------------------------
(* Fairness.  The code goes on as long as the process lives, and gives up  *)
(* on every wait.  The owner stays signed in from some time on, opens      *)
(* Activity now and then and keeps the app running; when asked often       *)
(* enough, provider and chain tell what they know and the service answers. *)

Goes(a) == WF_vars(Continue(a))

StaysIn == <>[](session # None)

OpensActivity(a) ==
    /\ SF_vars(Check(a)) /\ SF_vars(Watch(a))
    /\ SF_vars(CheckAnswer(a) /\ at'[a] = "checkClear")
    /\ SF_vars(WatchNext(a) /\ reported' # reported)

Flushes ==
    /\ \A s \in Slots, a \in Accounts, t \in Txs : SF_vars(FlushRead(s, a, t))
    /\ \A s \in Slots : /\ SF_vars(Post(s) /\ slot'[s].answer = "recorded")
                         /\ WF_vars(Post(s)) /\ WF_vars(Answered(s)) /\ WF_vars(EnrichWrite(s))

FairSpec == /\ Spec /\ StaysIn
            /\ \A a \in Accounts : Goes(a) /\ OpensActivity(a)
            /\ Flushes

\* No answer, crash or refusal leaves a wallet busy for ever.
WalletBecomesFree == \A a \in Accounts : at[a] # "idle" ~> at[a] = "idle"

\* A payment that landed, and whose record knows what to look for, is recorded
\* in the end, or its owner let it go from the watch list.
LandedIsRecorded ==
    \A o \in Ops :
        net[o] = "landed" /\ clue[o] # "none" /\ pays[o] \notin Opaque
            ~> (o \in forgotten \/ \E t \in Txs : tx[o] = t /\ rows[t] # None)
=============================================================================
