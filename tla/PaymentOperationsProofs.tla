---------------------- MODULE PaymentOperationsProofs ----------------------
(***************************************************************************)
(* Theorems about PaymentOperations, for every number of accounts,         *)
(* payments, operations, transactions and recording requests, every bound  *)
(* on the watch list and every number of crashes.  First that it is type   *)
(* correct; then, provided a transaction carries one operation of this     *)
(* phone, that no payment gets out of sight, that an account has one open  *)
(* payment and that an entry leaves the outbox only when it is recorded.   *)
(* SafetyInv of PaymentInvariant is shown to be inductive, one lemma per   *)
(* kind of step.  Last, provided that nobody signs out during a send, that *)
(* no two accounts have the same payment open.                             *)
(***************************************************************************)
EXTENDS PaymentInvariant, TLAPS

-----------------------------------------------------------------------------

TypeInv == TypeOK /\ HoldsRecord

LEMMA TypeInit == Init => TypeInv
BY NoneAssumption, BoundAssumption
   DEF Init, TypeInv, TypeOK, HoldsRecord, Held, NetStates, Places

\* Moving on keeps the type of the lock's state.
LEMMA GotoType ==
    ASSUME TypeOK, NEW a \in Accounts, NEW q \in Places, Goto(a, q)
    PROVE  /\ at' \in [Accounts -> Places]
           /\ wants' \in [Accounts -> Payments \union {None}]
           /\ at' = [at EXCEPT ![a] = q]
BY DEF TypeOK, Goto

LEMMA EntrySet ==
    ASSUME NEW E, NEW f \in [Accounts -> [Txs -> E]], NEW a \in Accounts, NEW t \in Txs,
           NEW e \in E
    PROVE  [f EXCEPT ![a][t] = e] \in [Accounts -> [Txs -> E]]
OBVIOUS

LEMMA QueueType ==
    ASSUME TypeOK, NEW a \in Accounts, NEW o \in Ops, QueueIfReadable(a, o)
    PROVE  outbox' \in [Accounts -> [Txs -> Entry \union {None}]]
<1>1. [op |-> o, user |-> session, note |-> FALSE, state |-> "queued"] \in Entry
  BY DEF TypeOK, Entry
<1>2. CASE UNCHANGED outbox
  BY <1>2 DEF TypeOK
<1>3. CASE Queue(a, o)
  BY <1>1, <1>3 DEF TypeOK, Queue
<1> QED
  BY <1>2, <1>3 DEF QueueIfReadable

LEMMA SettleType ==
    ASSUME TypeOK, NEW a \in Accounts, pending[a] \in Ops, NEW v,
           NEW q1 \in Places, NEW q2 \in Places, NEW q3 \in Places,
           Settle(a, v, q1, q2, q3)
    PROVE  /\ outbox' \in [Accounts -> [Txs -> Entry \union {None}]]
           /\ failed' \subseteq Ops
           /\ at' \in [Accounts -> Places]
           /\ wants' \in [Accounts -> Payments \union {None}]
           /\ \E q \in Places : at' = [at EXCEPT ![a] = q]
<1>1. CASE v = "confirmed" /\ QueueIfReadable(a, pending[a]) /\ Goto(a, q1) /\ UNCHANGED failed
  <2>1. outbox' \in [Accounts -> [Txs -> Entry \union {None}]]
    BY <1>1, QueueType
  <2> QED
    BY <1>1, <2>1, GotoType DEF TypeOK
<1>2. CASE v = "failed" /\ failed' = failed \union {pending[a]} /\ Goto(a, q2) /\ UNCHANGED outbox
  BY <1>2, GotoType DEF TypeOK
<1>3. CASE v = "open" /\ Goto(a, q3) /\ UNCHANGED <<failed, outbox>>
  BY <1>3, GotoType DEF TypeOK
<1> QED
  BY <1>1, <1>2, <1>3 DEF Settle

\* Steps that change one wallet's place and neither its record nor any other's.
LEMMA HeldStays ==
    ASSUME TypeInv, NEW a \in Accounts, pending[a] \in Ops, UNCHANGED pending,
           NEW q, at' = [at EXCEPT ![a] = q]
    PROVE  HoldsRecord'
BY DEF TypeInv, TypeOK, HoldsRecord

LEMMA NotHeld ==
    ASSUME TypeInv, NEW a \in Accounts, NEW q, q \notin Held, at' = [at EXCEPT ![a] = q],
           \A b \in Accounts \ {a} : pending'[b] = pending[b]
    PROVE  HoldsRecord'
BY DEF TypeInv, TypeOK, HoldsRecord

\* Clearing a record that is then reported keeps every type.
LEMMA ClearConfirmedType ==
    ASSUME TypeInv, NEW a \in Accounts, pending[a] \in Ops, ClearConfirmed(a),
           tail' \in [Accounts -> [Txs -> {"none", "enrich", "record"}]]
    PROVE  TypeInv'
<1>1. Goto(a, "idle") /\ "idle" \in Places
  BY DEF ClearConfirmed, Places
<1>2. HoldsRecord'
  BY <1>1, NotHeld, GotoType DEF ClearConfirmed, ClearRecord, Held, TypeInv, TypeOK
<1>3. TypeOK'
  BY <1>1, GotoType DEF ClearConfirmed, ClearRecord, TypeInv, TypeOK, network
<1> QED
  BY <1>2, <1>3 DEF TypeInv

LEMMA TGate ==
    ASSUME TypeInv, NEW a \in Accounts, Gate(a) PROVE TypeInv'
<1> USE DEF TypeInv
<1>1. CASE /\ ~Unresolved(a)
           /\ Goto(a, "others")
           /\ UNCHANGED <<failed, outbox>>
  <2>1. HoldsRecord'
    BY <1>1, NotHeld, GotoType DEF Gate, storage, Places, Held
  <2>2. TypeOK'
    BY <1>1, GotoType DEF Gate, network, history, TypeOK, Places
  <2> QED
    BY <2>1, <2>2
<1>2. CASE /\ Unresolved(a)
           /\ \E v \in Verdicts(pending[a], TRUE) : Settle(a, v, "gateClear", "others", "idle")
  <2>1. pending[a] \in Ops
    BY <1>2 DEF TypeOK, Unresolved
  <2>2. /\ outbox' \in [Accounts -> [Txs -> Entry \union {None}]]
        /\ failed' \subseteq Ops
        /\ at' \in [Accounts -> Places]
        /\ wants' \in [Accounts -> Payments \union {None}]
        /\ \E q \in Places : at' = [at EXCEPT ![a] = q]
    BY <1>2, <2>1, SettleType DEF Places
  <2>3. HoldsRecord'
    BY <2>1, <2>2, HeldStays DEF Gate
  <2>4. TypeOK'
    BY <2>2 DEF Gate, network, history, TypeOK
  <2> QED
    BY <2>3, <2>4
<1> QED
  BY <1>1, <1>2 DEF Gate

LEMMA TGateClear ==
    ASSUME TypeInv, NEW a \in Accounts, GateClear(a) PROVE TypeInv'
<1>1. pending[a] \in Ops
  BY DEF GateClear, TypeInv, HoldsRecord, Held
<1>2. tail' \in [Accounts -> [Txs -> {"none", "enrich", "record"}]]
  BY DEF GateClear, TypeInv, TypeOK
<1> QED
  BY <1>1, <1>2, ClearConfirmedType DEF GateClear

LEMMA TSendClear ==
    ASSUME TypeInv, NEW a \in Accounts, SendClear(a) PROVE TypeInv'
<1>1. pending[a] \in Ops
  BY DEF SendClear, TypeInv, HoldsRecord, Held
<1>2. tail' \in [Accounts -> [Txs -> {"none", "enrich", "record"}]]
  BY DEF SendClear, TypeInv, TypeOK
<1> QED
  BY <1>1, <1>2, ClearConfirmedType DEF SendClear

LEMMA TCheckClear ==
    ASSUME TypeInv, NEW a \in Accounts, CheckClear(a) PROVE TypeInv'
<1>1. pending[a] \in Ops
  BY DEF CheckClear, TypeInv, HoldsRecord, Held
<1>2. tail' \in [Accounts -> [Txs -> {"none", "enrich", "record"}]]
  BY DEF CheckClear, TypeInv, TypeOK
<1> QED
  BY <1>1, <1>2, ClearConfirmedType DEF CheckClear

LEMMA TPoll ==
    ASSUME TypeInv, NEW a \in Accounts, Poll(a) PROVE TypeInv'
<1>1. pending[a] \in Ops
  BY DEF Poll, TypeInv, HoldsRecord, Held
<1>2. PICK last \in BOOLEAN : \E v \in Verdicts(pending[a], last) :
          Settle(a, v, "sendClear", "sendAbandon", IF last THEN "idle" ELSE "polling")
  BY DEF Poll
<1>3. /\ outbox' \in [Accounts -> [Txs -> Entry \union {None}]]
      /\ failed' \subseteq Ops
      /\ at' \in [Accounts -> Places]
      /\ wants' \in [Accounts -> Payments \union {None}]
      /\ \E q \in Places : at' = [at EXCEPT ![a] = q]
  BY <1>1, <1>2, SettleType DEF Places, TypeInv
<1>4. HoldsRecord'
  BY <1>1, <1>3, HeldStays DEF Poll
<1>5. TypeOK'
  BY <1>3 DEF Poll, network, history, TypeOK, TypeInv
<1> QED
  BY <1>4, <1>5 DEF TypeInv

LEMMA TCheckAnswer ==
    ASSUME TypeInv, NEW a \in Accounts, CheckAnswer(a) PROVE TypeInv'
<1>1. pending[a] \in Ops
  BY DEF CheckAnswer, TypeInv, HoldsRecord, Held
<1>2. PICK v \in Verdicts(pending[a], TRUE) : Settle(a, v, "checkClear", "idle", "idle")
  BY DEF CheckAnswer
<1>3. /\ outbox' \in [Accounts -> [Txs -> Entry \union {None}]]
      /\ failed' \subseteq Ops
      /\ at' \in [Accounts -> Places]
      /\ wants' \in [Accounts -> Payments \union {None}]
      /\ \E q \in Places : at' = [at EXCEPT ![a] = q]
  BY <1>1, <1>2, SettleType DEF Places, TypeInv
<1>4. HoldsRecord'
  BY <1>1, <1>3, HeldStays DEF CheckAnswer
<1>5. TypeOK'
  BY <1>3 DEF CheckAnswer, network, history, TypeOK, TypeInv
<1> QED
  BY <1>4, <1>5 DEF TypeInv

LEMMA TSend ==
    ASSUME TypeInv, NEW a \in Accounts, NEW p \in Payments, Send(a, p) PROVE TypeInv'
BY NoneAssumption DEF Send, TakeLock, TypeInv, TypeOK, HoldsRecord, Held, Places,
   network, storage, history

LEMMA TGateOthers ==
    ASSUME TypeInv, NEW a \in Accounts, GateOthers(a) PROVE TypeInv'
BY NoneAssumption DEF GateOthers, Goto, TypeInv, TypeOK, HoldsRecord, Held, Places,
   network, storage, history

LEMMA TPrepareFails ==
    ASSUME TypeInv, NEW a \in Accounts, PrepareFails(a) PROVE TypeInv'
BY NoneAssumption DEF PrepareFails, Goto, TypeInv, TypeOK, HoldsRecord, Held, Places,
   network, storage, history

LEMMA TReplyLost ==
    ASSUME TypeInv, NEW a \in Accounts, ReplyLost(a) PROVE TypeInv'
BY NoneAssumption DEF ReplyLost, Goto, TypeInv, TypeOK, HoldsRecord, Held, Places,
   network, storage, history

LEMMA TCheck ==
    ASSUME TypeInv, NEW a \in Accounts, Check(a) PROVE TypeInv'
BY NoneAssumption DEF Check, Goto, TakeLock, Unresolved, TypeInv, TypeOK, HoldsRecord, Held, Places,
   network, storage, history

LEMMA TSignDeclined ==
    ASSUME TypeInv, NEW a \in Accounts, SignDeclined(a) PROVE TypeInv'
BY NoneAssumption DEF SignDeclined, Goto, ClearRecord, TypeInv, TypeOK, HoldsRecord, Held, Places,
   network, storage, history

LEMMA TReplyRefused ==
    ASSUME TypeInv, NEW a \in Accounts, ReplyRefused(a) PROVE TypeInv'
BY NoneAssumption DEF ReplyRefused, Goto, ClearRecord, TypeInv, TypeOK, HoldsRecord, Held, Places,
   network, storage, history

LEMMA TSendAbandon ==
    ASSUME TypeInv, NEW a \in Accounts, SendAbandon(a) PROVE TypeInv'
BY NoneAssumption DEF SendAbandon, Goto, ClearRecord, TypeInv, TypeOK, HoldsRecord, Held, Places,
   network, storage, history

LEMMA TReleaseClear ==
    ASSUME TypeInv, NEW a \in Accounts, ReleaseClear(a) PROVE TypeInv'
BY NoneAssumption DEF ReleaseClear, Goto, ClearRecord, TypeInv, TypeOK, HoldsRecord, Held, Places,
   network, storage, history

LEMMA TSendRequest ==
    ASSUME TypeInv, NEW a \in Accounts, SendRequest(a) PROVE TypeInv'
BY NoneAssumption DEF SendRequest, Goto, NetStates, TypeInv, TypeOK, HoldsRecord, Held, Places,
   network, storage, history

LEMMA TReplyId ==
    ASSUME TypeInv, NEW a \in Accounts, ReplyId(a) PROVE TypeInv'
<1>1. Goto(a, "polling") /\ "polling" \in Places /\ pending[a] \in Ops
  BY DEF ReplyId, Places, TypeInv, HoldsRecord, Held
<1>2. clue' \in [Ops -> {"none", "hash", "id"}]
  BY <1>1 DEF ReplyId, TypeInv, TypeOK
<1>3. HoldsRecord'
  BY <1>1, GotoType, HeldStays DEF ReplyId, TypeInv
<1>4. TypeOK'
  BY <1>1, <1>2, GotoType DEF ReplyId, TypeInv, TypeOK, network, history
<1> QED
  BY <1>3, <1>4 DEF TypeInv

LEMMA TBegin ==
    ASSUME TypeInv, NEW a \in Accounts, NEW o \in Ops, Begin(a, o) PROVE TypeInv'
BY NoneAssumption DEF Begin, Goto, NetStates, TypeInv, TypeOK, HoldsRecord, Held, Places,
   network, storage, history

LEMMA TDismiss ==
    ASSUME TypeInv, NEW a \in Accounts, Dismiss(a) PROVE TypeInv'
BY NoneAssumption DEF Dismiss, ClearRecord, TakeLock, lockVars, TypeInv, TypeOK, HoldsRecord, Held, Places,
   network, storage, history

LEMMA TWatch ==
    ASSUME TypeInv, NEW a \in Accounts, Watch(a) PROVE TypeInv'
BY NoneAssumption DEF Watch, Goto, TakeLock, TypeInv, TypeOK, HoldsRecord, Held, Places,
   network, storage, history

LEMMA TProviderAnswers ==
    ASSUME TypeInv, NEW o \in Ops, ProviderAnswers(o) PROVE TypeInv'
BY NoneAssumption DEF ProviderAnswers, NetStates, lockVars, TypeInv, TypeOK, HoldsRecord, Held, Places,
   network, storage, history

LEMMA TFall ==
    ASSUME TypeInv, NEW o \in Ops, Fall(o) PROVE TypeInv'
BY NoneAssumption DEF Fall, NetStates, lockVars, TypeInv, TypeOK, HoldsRecord, Held, Places,
   network, storage, history

LEMMA TLand ==
    ASSUME TypeInv, NEW S \in SUBSET Ops, NEW t \in Txs, Land(S, t) PROVE TypeInv'
BY NoneAssumption DEF Land, NetStates, lockVars, TypeInv, TypeOK, HoldsRecord, Held, Places,
   network, storage, history

LEMMA TChangeSession ==
    ASSUME TypeInv, NEW u \in Accounts \union {None}, ChangeSession(u) PROVE TypeInv'
BY NoneAssumption DEF ChangeSession, lockVars, TypeInv, TypeOK, HoldsRecord, Held, Places,
   network, storage, history

LEMMA TCrash ==
    ASSUME TypeInv, Crash PROVE TypeInv'
BY NoneAssumption, BoundAssumption DEF Crash, TypeInv, TypeOK, HoldsRecord, Held, Places,
   network, storage, history

-----------------------------------------------------------------------------
(* The watch list.                                                         *)

LEMMA LastOfType ==
    ASSUME NEW s \in Seq(Ops), NEW n \in Nat PROVE LastOf(s, n) \in Seq(Ops)
<1>1. CASE Len(s) <= n
  BY <1>1 DEF LastOf
<1>2. CASE Len(s) > n
  <2>1. LastOf(s, n) = SubSeq(s, Len(s) - n + 1, Len(s))
    BY <1>2 DEF LastOf
  <2>2. \A i \in (Len(s) - n + 1)..Len(s) : s[i] \in Ops
    BY <1>2
  <2> QED
    BY <1>2, <2>1, <2>2
<1> QED
  BY <1>1, <1>2

LEMMA TRelease ==
    ASSUME TypeInv, NEW a \in Accounts, Release(a) PROVE TypeInv'
<1> DEFINE all == Append(watched[a], pending[a])
           stays == LastOf(all, MaxWatched)
<1>1. pending[a] \in Ops
  BY DEF Release, Unresolved, TypeInv, TypeOK
<1>2. all \in Seq(Ops)
  BY <1>1 DEF TypeInv, TypeOK
<1>3. stays \in Seq(Ops)
  BY <1>2, LastOfType, BoundAssumption
<1>4. Elements(all) \subseteq Ops
  BY <1>2 DEF Elements
<1>5. Goto(a, "releaseClear") /\ "releaseClear" \in Places
  BY DEF Release, Places
<1>6. HoldsRecord'
  BY <1>1, <1>5, GotoType, HeldStays DEF Release, TypeInv
<1>7. watched' \in [Accounts -> Seq(Ops)] /\ forgotten' \subseteq Ops
  <2> HIDE DEF all, stays
  <2>1. /\ watched' = [watched EXCEPT ![a] = stays]
        /\ forgotten' = forgotten \union (Elements(all) \ Elements(stays))
    BY DEF Release, all, stays
  <2> QED
    BY <1>3, <1>4, <2>1 DEF TypeInv, TypeOK
<1>8. TypeOK'
  BY <1>5, <1>7, GotoType DEF Release, TypeInv, TypeOK, network
<1> QED
  BY <1>6, <1>8 DEF TypeInv

LEMMA TWatchNext ==
    ASSUME TypeInv, NEW a \in Accounts, WatchNext(a) PROVE TypeInv'
<1> DEFINE o == Head(todo[a])
<1>1. todo[a] \in Seq(Ops) /\ o \in Ops /\ Tail(todo[a]) \in Seq(Ops)
  BY DEF WatchNext, TypeInv, TypeOK
<1>2. outbox' \in [Accounts -> [Txs -> Entry \union {None}]]
  BY <1>1, QueueType DEF WatchNext, TypeInv, TypeOK
<1>3. todo' \in [Accounts -> Seq(Ops)]
  BY <1>1 DEF WatchNext, TypeInv, TypeOK
<1>4. kept' \in [Accounts -> Seq(Ops)] /\ reported' \subseteq Ops /\ forgotten' \subseteq Ops
  <2>1. \/ kept' = kept \/ kept' = [kept EXCEPT ![a] = Append(kept[a], o)]
    BY DEF WatchNext
  <2>2. Append(kept[a], o) \in Seq(Ops) /\ kept \in [Accounts -> Seq(Ops)]
    BY <1>1 DEF TypeInv, TypeOK
  <2>3. kept' \in [Accounts -> Seq(Ops)]
    <3> HIDE DEF o
    <3> QED
      BY <2>1, <2>2
  <2>4. reported' \subseteq reported \union {o} /\ forgotten' \subseteq forgotten \union {o}
    BY DEF WatchNext
  <2> QED
    BY <1>1, <2>3, <2>4 DEF TypeInv, TypeOK
<1>5. TypeOK'
  BY <1>2, <1>3, <1>4 DEF WatchNext, TypeInv, TypeOK, network
<1>6. HoldsRecord'
  BY DEF WatchNext, TypeInv, HoldsRecord
<1> QED
  BY <1>5, <1>6 DEF TypeInv

LEMMA TWatchDone ==
    ASSUME TypeInv, NEW a \in Accounts, WatchDone(a) PROVE TypeInv'
<1>1. Goto(a, "idle") /\ "idle" \in Places
  BY DEF WatchDone, Places
<1>2. HoldsRecord'
  BY <1>1, NotHeld, GotoType DEF WatchDone, Held, TypeInv
<1>3. watched' \in [Accounts -> Seq(Ops)] /\ kept' \in [Accounts -> Seq(Ops)]
  BY DEF WatchDone, TypeInv, TypeOK
<1>4. TypeOK'
  BY <1>1, <1>3, GotoType DEF WatchDone, TypeInv, TypeOK, network, history
<1> QED
  BY <1>2, <1>4 DEF TypeInv

-----------------------------------------------------------------------------
(* Recording.                                                              *)

LEMMA TakeEntryType ==
    ASSUME TypeInv, NEW s \in Slots, NEW kind \in {"flush", "enrich"},
           NEW a \in Accounts, NEW t \in Txs, TakeEntry(s, kind, a, t)
    PROVE  slot' \in [Slots -> Work \union {None}]
<1>1. outbox[a][t] \in Entry
  BY DEF TakeEntry, TypeInv, TypeOK
<1>2. [kind |-> kind, account |-> a, tx |-> t, entry |-> outbox[a][t], answer |-> "none"] \in Work
  BY <1>1 DEF Work
<1> QED
  BY <1>2 DEF TakeEntry, TypeInv, TypeOK

LEMMA TEnrichRead ==
    ASSUME TypeInv, NEW s \in Slots, NEW a \in Accounts, NEW t \in Txs, EnrichRead(s, a, t)
    PROVE  TypeInv'
<1>1. slot' \in [Slots -> Work \union {None}]
  BY TakeEntryType DEF EnrichRead, TypeInv, TypeOK
<1>2. tail' \in [Accounts -> [Txs -> {"none", "enrich", "record"}]]
  BY DEF EnrichRead, TypeInv, TypeOK
<1> QED
  BY <1>1, <1>2 DEF EnrichRead, TypeInv, TypeOK, HoldsRecord, network, storage, lockVars, history

LEMMA TFlushRead ==
    ASSUME TypeInv, NEW s \in Slots, NEW a \in Accounts, NEW t \in Txs, FlushRead(s, a, t)
    PROVE  TypeInv'
<1>1. slot' \in [Slots -> Work \union {None}]
  BY TakeEntryType DEF FlushRead
<1> QED
  BY <1>1 DEF FlushRead, TypeInv, TypeOK, HoldsRecord, network, storage, lockVars, history

LEMMA TTailEnds ==
    ASSUME TypeInv, NEW a \in Accounts, NEW t \in Txs, TailEnds(a, t) PROVE TypeInv'
BY DEF TailEnds, TypeInv, TypeOK, HoldsRecord, network, storage, lockVars, history

\* What a slot holds while it holds anything.
LEMMA WorkType ==
    ASSUME TypeInv, NEW s \in Slots, slot[s] # None
    PROVE  /\ slot[s] \in Work
           /\ slot[s].account \in Accounts /\ slot[s].tx \in Txs /\ slot[s].entry \in Entry
BY DEF TypeInv, TypeOK, Work

LEMMA TEnrichWrite ==
    ASSUME TypeInv, NEW s \in Slots, EnrichWrite(s) PROVE TypeInv'
<1> DEFINE e == [slot[s].entry EXCEPT !.note = TRUE]
<1>1. e \in Entry
  BY WorkType DEF EnrichWrite, Entry
<1>2. outbox' \in [Accounts -> [Txs -> Entry \union {None}]]
  <2> HIDE DEF e
  <2>1. outbox' = [outbox EXCEPT ![slot[s].account][slot[s].tx] = e]
    BY DEF EnrichWrite, e
  <2>2. slot[s].account \in Accounts /\ slot[s].tx \in Txs
    BY WorkType DEF EnrichWrite
  <2>3. outbox \in [Accounts -> [Txs -> Entry \union {None}]] /\ e \in Entry \union {None}
    BY <1>1 DEF TypeInv, TypeOK
  <2> QED
    BY <2>1, <2>2, <2>3, EntrySet
<1>3. slot' \in [Slots -> Work \union {None}]
  BY DEF EnrichWrite, TypeInv, TypeOK
<1> QED
  BY <1>2, <1>3 DEF EnrichWrite, TypeInv, TypeOK, HoldsRecord, network, lockVars, history

LEMMA TPost ==
    ASSUME TypeInv, NEW s \in Slots, Post(s) PROVE TypeInv'
<1>1. slot[s] \in Work /\ slot[s].tx \in Txs /\ slot[s].entry.note \in BOOLEAN
  BY WorkType DEF Post, Entry
<1>2. \E v \in {"recorded", "rejected", "retry"} : slot' = [slot EXCEPT ![s].answer = v]
  BY DEF Post
<1>3. slot' \in [Slots -> Work \union {None}]
  <2> PICK v \in {"recorded", "rejected", "retry"} : slot' = [slot EXCEPT ![s].answer = v]
    BY <1>2
  <2>1. [slot[s] EXCEPT !.answer = v] \in Work
    BY <1>1 DEF Work
  <2>2. slot' = [slot EXCEPT ![s] = [slot[s] EXCEPT !.answer = v]]
    OBVIOUS
  <2> QED
    BY <2>1, <2>2 DEF TypeInv, TypeOK
<1>4. \/ UNCHANGED rows
      \/ \E o \in Ops : rows' = [rows EXCEPT ![slot[s].tx] = [op |-> o, note |-> slot[s].entry.note]]
  BY DEF Post
<1>5. rows' \in [Txs -> Row \union {None}]
  <2>1. \A o \in Ops : [op |-> o, note |-> slot[s].entry.note] \in Row
    BY <1>1 DEF Row
  <2> QED
    BY <1>1, <1>4, <2>1 DEF TypeInv, TypeOK
<1> QED
  BY <1>3, <1>5 DEF Post, TypeInv, TypeOK, HoldsRecord, network, storage, lockVars, history

LEMMA TAnswered ==
    ASSUME TypeInv, NEW s \in Slots, Answered(s) PROVE TypeInv'
<1>1. slot[s].entry \in Entry /\ [slot[s].entry EXCEPT !.state = "rejected"] \in Entry
  BY WorkType DEF Answered, Entry
<1>2. \E e \in Entry \union {None} : outbox' = [outbox EXCEPT ![slot[s].account][slot[s].tx] = e]
  BY <1>1 DEF Answered
<1>3. outbox' \in [Accounts -> [Txs -> Entry \union {None}]]
  <2> PICK e \in Entry \union {None} : outbox' = [outbox EXCEPT ![slot[s].account][slot[s].tx] = e]
    BY <1>2
  <2>1. slot[s].account \in Accounts /\ slot[s].tx \in Txs
    BY WorkType DEF Answered
  <2>2. outbox \in [Accounts -> [Txs -> Entry \union {None}]]
    BY DEF TypeInv, TypeOK
  <2> QED
    BY <2>1, <2>2, EntrySet
<1>4. slot' \in [Slots -> Work \union {None}]
  BY DEF Answered, TypeInv, TypeOK
<1> QED
  BY <1>3, <1>4 DEF Answered, TypeInv, TypeOK, HoldsRecord, network, lockVars, history

-----------------------------------------------------------------------------

LEMMA TypeStep == TypeInv /\ [Next]_vars => TypeInv'
<1> SUFFICES ASSUME TypeInv, [Next]_vars PROVE TypeInv'
  OBVIOUS
<1>1. CASE UNCHANGED vars
  BY <1>1 DEF vars, network, storage, lockVars, history, TypeInv, TypeOK, HoldsRecord
<1>2. ASSUME NEW a \in Accounts, Start(a) PROVE TypeInv'
  BY <1>2, TSend, TCheck, TRelease, TWatch, TDismiss DEF Start
<1>3. ASSUME NEW a \in Accounts, Continue(a) PROVE TypeInv'
  BY <1>3, TGate, TGateClear, TGateOthers, TPrepareFails, TBegin, TSignDeclined,
     TSendRequest, TReplyId, TReplyRefused, TReplyLost, TPoll, TSendClear, TSendAbandon,
     TCheckAnswer, TCheckClear, TReleaseClear, TWatchNext, TWatchDone DEF Continue
<1>4. CASE Network
  BY <1>4, TProviderAnswers, TFall, TLand DEF Network
<1>5. CASE Recording
  BY <1>5, TEnrichRead, TFlushRead, TEnrichWrite, TPost, TAnswered, TTailEnds DEF Recording
<1> QED
  BY <1>1, <1>2, <1>3, <1>4, <1>5, TChangeSession, TCrash DEF Next

\* Every variable keeps its type: pending records, watch lists, outboxes and
\* recording requests hold what frontend/utils/operationRecord.ts and
\* operationOutbox.ts say, whatever overlaps, fails or dies.
THEOREM TypeCorrect == Spec => []TypeOK
<1>1. TypeInv /\ [Next]_vars => TypeInv'
  BY TypeStep
<1>2. TypeInv => TypeOK
  BY DEF TypeInv
<1> QED
  BY TypeInit, <1>1, <1>2, PTL DEF Spec

-----------------------------------------------------------------------------
(* Safety.                                                                 *)

SafeInv == TypeInv /\ SafetyInv

-----------------------------------------------------------------------------
(* The elements of a sequence.                                             *)

LEMMA ElementsEmpty == Elements(<< >>) = {}
BY DEF Elements

LEMMA ElementsAppend ==
    ASSUME NEW s \in Seq(Ops), NEW o \in Ops
    PROVE  Elements(Append(s, o)) = Elements(s) \union {o}
<1>1. \A p : p \in Elements(Append(s, o)) => p \in Elements(s) \union {o}
  BY DEF Elements
<1>2. \A p \in Elements(s) : p \in Elements(Append(s, o))
  <2> SUFFICES ASSUME NEW i \in 1..Len(s) PROVE s[i] \in Elements(Append(s, o))
    BY DEF Elements
  <2>1. Append(s, o)[i] = s[i] /\ i \in 1..Len(Append(s, o))
    OBVIOUS
  <2> QED
    BY <2>1 DEF Elements
<1>3. o \in Elements(Append(s, o))
  <2>1. Append(s, o)[Len(s) + 1] = o /\ Len(s) + 1 \in 1..Len(Append(s, o))
    OBVIOUS
  <2> QED
    BY <2>1 DEF Elements
<1> QED
  BY <1>1, <1>2, <1>3

LEMMA ElementsHead ==
    ASSUME NEW s \in Seq(Ops), s # << >>
    PROVE  Elements(s) \subseteq {Head(s)} \union Elements(Tail(s))
           /\ Elements(Tail(s)) \subseteq Elements(s) /\ Head(s) \in Elements(s)
<1>1. Len(s) \in Nat /\ Len(s) > 0 /\ Len(Tail(s)) = Len(s) - 1
  OBVIOUS
<1>2. \A i \in 1..Len(s) : s[i] \in {Head(s)} \union Elements(Tail(s))
  <2> SUFFICES ASSUME NEW i \in 1..Len(s), i # 1 PROVE s[i] \in Elements(Tail(s))
    OBVIOUS
  <2>1. i - 1 \in 1..Len(Tail(s)) /\ Tail(s)[i - 1] = s[i]
    BY <1>1
  <2> QED
    BY <2>1 DEF Elements
<1>3. \A i \in 1..Len(Tail(s)) : Tail(s)[i] = s[i + 1] /\ i + 1 \in 1..Len(s)
  BY <1>1
<1>4. Head(s) = s[1] /\ 1 \in 1..Len(s)
  BY <1>1
<1> QED
  BY <1>2, <1>3, <1>4 DEF Elements

LEMMA ElementsLast ==
    ASSUME NEW s \in Seq(Ops), NEW n \in Nat
    PROVE  Elements(LastOf(s, n)) \subseteq Elements(s)
<1>1. CASE Len(s) <= n
  BY <1>1 DEF LastOf
<1>2. CASE Len(s) > n
  <2> DEFINE l == SubSeq(s, Len(s) - n + 1, Len(s))
  <2>1. LastOf(s, n) = l
    BY <1>2 DEF LastOf
  <2>2. Len(l) = n
    BY <1>2
  <2>3. \A i \in 1..n : l[i] = s[Len(s) - n + i] /\ Len(s) - n + i \in 1..Len(s)
    BY <1>2
  <2> HIDE DEF l
  <2> QED
    BY <2>1, <2>2, <2>3 DEF Elements
<1> QED
  BY <1>1, <1>2

-----------------------------------------------------------------------------
(* What most steps share.                                                  *)

\* The other wallets are not touched.
OnlyBy(a) ==
    \A b \in Accounts \ {a} :
        /\ pending'[b] = pending[b] /\ at'[b] = at[b] /\ watched'[b] = watched[b]
        /\ todo'[b] = todo[b] /\ kept'[b] = kept[b]

\* The network stays as it is, and what was said or given up stays so.
Frame == /\ UNCHANGED network
         /\ reported \subseteq reported' /\ forgotten \subseteq forgotten'
         /\ failed \subseteq failed'

\* What is recorded stays recorded.
RecordedStays == \A o \in Ops : net[o] = "landed" /\ Recorded(o) => Recorded(o)'

LEMMA PlaceFacts ==
    ASSUME SafeInv, NEW a \in Accounts
    PROVE  /\ PlaceAt(a)
           /\ at[a] \in Held => pending[a] \in Ops
           /\ Elements(watched[a]) \subseteq Ops
<1>1. PlaceAt(a)
  BY DEF SafeInv, SafetyInv, PlacesHold
<1>2. at[a] \in Held => pending[a] \in Ops
  BY DEF SafeInv, SafetyInv, HoldsRecord
<1>3. Elements(watched[a]) \subseteq Ops
  BY DEF SafeInv, TypeInv, TypeOK, Elements
<1> QED
  BY <1>1, <1>2, <1>3

LEMMA PlaceFrame ==
    ASSUME SafeInv, Frame, RecordedStays, NEW a \in Accounts, OnlyBy(a), PlaceAt(a)'
    PROVE  PlacesHold'
<1> SUFFICES ASSUME NEW b \in Accounts \ {a} PROVE PlaceAt(b)'
  BY DEF PlacesHold
<1>1. PlaceAt(b) /\ pending'[b] = pending[b] /\ at'[b] = at[b] /\ watched'[b] = watched[b]
      /\ todo'[b] = todo[b] /\ kept'[b] = kept[b]
  BY DEF SafeInv, SafetyInv, PlacesHold, OnlyBy
<1>2. net' = net /\ pays' = pays /\ \A o \in Ops : Settled(o) => Settled(o)'
  BY DEF Frame, network, RecordedStays, Settled
<1>3. at[b] \in Held => pending[b] \in Ops
  BY DEF SafeInv, SafetyInv, HoldsRecord
<1>4. Elements(watched[b]) \subseteq Ops
  BY DEF SafeInv, TypeInv, TypeOK, Elements
<1>5. (Elements(watched[b]))' = Elements(watched[b])
      /\ (Elements(todo[b]) \union Elements(kept[b]))' = Elements(todo[b]) \union Elements(kept[b])
  BY <1>1 DEF Elements
<1>6. (at[b] \in {"others", "prepare"} => ~Unresolved(b))'
  BY <1>1 DEF PlaceAt, Unresolved, Frame
<1>7. (at[b] = "begun" => net[pending[b]] = "begun")'
  BY <1>1, <1>2 DEF PlaceAt
<1>8. (at[b] \in {"gateClear", "sendClear", "checkClear"} =>
           /\ net[pending[b]] = "landed"
           /\ Recorded(pending[b]) \/ pays[pending[b]] \in Opaque)'
  <2> SUFFICES ASSUME at[b] \in {"gateClear", "sendClear", "checkClear"}
               PROVE  net'[pending[b]] = "landed"
                      /\ (Recorded(pending[b])' \/ pays'[pending[b]] \in Opaque)
    BY <1>1 DEF Recorded
  <2> QED
    BY <1>1, <1>2, <1>3 DEF PlaceAt, Held, RecordedStays
<1>9. (at[b] = "sendAbandon" => pending[b] \in failed)'
  BY <1>1 DEF PlaceAt, Frame
<1>10. (at[b] = "releaseClear" => pending[b] \in Elements(watched[b]) \union forgotten)'
  BY <1>1, <1>5 DEF PlaceAt, Frame
<1>11. (at[b] = "watching" =>
           \A o \in Elements(watched[b]) :
               \/ o \in Elements(todo[b]) \union Elements(kept[b]) \union forgotten
               \/ Settled(o))'
  BY <1>1, <1>2, <1>4, <1>5 DEF PlaceAt, Frame
<1> QED
  BY <1>6, <1>7, <1>8, <1>9, <1>10, <1>11 DEF PlaceAt

LEMMA SightFrame ==
    ASSUME SafeInv, Frame, RecordedStays, FailedMovedNothing', NEW a \in Accounts, OnlyBy(a),
           \A o \in Ops : from[o] = a /\ net[o] \in MayPay /\ InSight(o) => InSight(o)'
    PROVE  NoPaymentOutOfSight'
<1> SUFFICES ASSUME NEW o \in Ops, net[o] \in MayPay PROVE InSight(o)'
  BY DEF NoPaymentOutOfSight, Frame, network
<1>1. InSight(o)
  BY DEF SafeInv, SafetyInv, NoPaymentOutOfSight
<1>2. CASE from[o] = a
  BY <1>1, <1>2
<1>3. CASE from[o] # a
  <2>1. from[o] \in Accounts \ {a}
    BY <1>3 DEF SafeInv, TypeInv, TypeOK, SafetyInv, OwnOperations, MayPay
  <2>2. pending'[from[o]] = pending[from[o]] /\ watched'[from[o]] = watched[from[o]]
    BY <2>1 DEF OnlyBy
  <2>3. o \notin failed' /\ from' = from /\ net' = net /\ pays' = pays
    BY DEF FailedMovedNothing, MayPay, Frame, network
  <2>4. (Elements(watched[from[o]]))' = Elements(watched[from[o]])
    BY <2>2, <2>3 DEF Elements
  <2> QED
    BY <1>1, <2>2, <2>3, <2>4 DEF InSight, Frame, RecordedStays
<1> QED
  BY <1>2, <1>3

LEMMA OwnFrame ==
    ASSUME SafeInv, Frame, NEW a \in Accounts, OnlyBy(a),
           pending'[a] \in {pending[a], None},
           \A o \in (Elements(watched[a]) \union Elements(todo[a]) \union Elements(kept[a]))' :
               \/ o \in Elements(watched[a]) \union Elements(todo[a]) \union Elements(kept[a])
               \/ o # None /\ o = pending[a]
    PROVE  OwnOperations' /\ OneOpPerTx'
<1>1. from' = from /\ net' = net /\ tx' = tx
  BY DEF Frame, network
<1>2. \A b \in Accounts : pending'[b] # None => from[pending'[b]] = b
  BY DEF OnlyBy, SafeInv, SafetyInv, OwnOperations
<1>3. ASSUME NEW b \in Accounts,
             NEW o \in (Elements(watched[b]) \union Elements(todo[b]) \union Elements(kept[b]))'
      PROVE  from[o] = b
  <2>1. CASE b = a
    BY <2>1, <1>3 DEF SafeInv, SafetyInv, OwnOperations
  <2>2. CASE b # a
    BY <2>2, <1>3 DEF SafeInv, SafetyInv, OwnOperations, OnlyBy, Elements
  <2> QED
    BY <2>1, <2>2
<1> QED
  BY <1>1, <1>2, <1>3 DEF SafeInv, SafetyInv, OwnOperations, OneOpPerTx

\* Steps that leave outbox, requests and rows alone.
LEMMA EntriesFrame ==
    ASSUME SafeInv, Frame, UNCHANGED <<outbox, slot, rows>>
    PROVE  EntriesMatch' /\ RecordedStays
BY DEF SafeInv, SafetyInv, EntriesMatch, Frame, network, RecordedStays, Recorded

\* Queueing a landed payment of the account leaves it recorded, unless its calls
\* could not be read, and takes nothing from any other.
LEMMA QueueRecords ==
    ASSUME SafeInv, Frame, NEW a \in Accounts, NEW o \in Ops, net[o] = "landed", from[o] = a,
           QueueIfReadable(a, o), UNCHANGED <<slot, rows>>
    PROVE  EntriesMatch' /\ RecordedStays /\ (Recorded(o)' \/ pays[o] \in Opaque)
<1>1. CASE pays[o] \in Opaque /\ UNCHANGED outbox
  BY <1>1, EntriesFrame
<1>2. CASE Queue(a, o)
  <2> DEFINE t == tx[o]
  <2>1. t \in Txs /\ tx' = tx /\ from' = from
    BY DEF SafeInv, SafetyInv, OneOpPerTx, TypeInv, TypeOK, Frame, network
  <2>2. CASE outbox[a][t] # None
    <3>1. outbox[a][t].op = o
      <4>1. outbox[a][t].op \in Ops /\ tx[outbox[a][t].op] = t
        BY <2>1, <2>2 DEF SafeInv, SafetyInv, EntriesMatch, TypeInv, TypeOK, Entry
      <4> QED
        BY <2>1, <4>1, NoneAssumption DEF SafeInv, SafetyInv, OneOpPerTx
    <3>2. UNCHANGED outbox
      BY <1>2, <2>2 DEF Queue
    <3>3. Recorded(o)'
      BY <2>1, <2>2, <3>1, <3>2 DEF Recorded
    <3> QED
      BY <3>2, <3>3, EntriesFrame
  <2>3. CASE outbox[a][t] = None
    <3> DEFINE e == [op |-> o, user |-> session, note |-> FALSE, state |-> "queued"]
    <3>1. outbox' = [outbox EXCEPT ![a][t] = e]
      BY <1>2, <2>3 DEF Queue
    <3>2. e # None /\ e.op = o
      <4>1. e \in Entry
        BY DEF Entry, SafeInv, TypeInv, TypeOK
      <4> QED
        BY <4>1, NoRecordAssumption
    <3> HIDE DEF e
    <3>3. outbox'[a][t] = e /\ t \in Txs
      BY <2>1, <3>1 DEF SafeInv, TypeInv, TypeOK
    <3>4. \A b \in Accounts, u \in Txs : <<b, u>> # <<a, t>> => outbox'[b][u] = outbox[b][u]
      BY <3>1 DEF SafeInv, TypeInv, TypeOK
    <3>5. Recorded(o)'
      BY <2>1, <3>2, <3>3 DEF Recorded
    <3>6. RecordedStays
      <4> SUFFICES ASSUME NEW p \in Ops, net[p] = "landed", Recorded(p) PROVE Recorded(p)'
        BY DEF RecordedStays
      <4>1. tx[p] \in Txs /\ from[p] \in Accounts
        BY DEF SafeInv, SafetyInv, OneOpPerTx, OwnOperations, TypeInv, TypeOK
      <4>2. CASE <<from[p], tx[p]>> = <<a, t>>
        <5>1. p = o
          BY <2>1, <4>2, NoneAssumption DEF SafeInv, SafetyInv, OneOpPerTx
        <5> QED
          BY <3>5, <5>1
      <4>3. CASE <<from[p], tx[p]>> # <<a, t>>
        BY <2>1, <3>4, <4>1, <4>3 DEF Recorded
      <4> QED
        BY <4>2, <4>3
    <3>7. \A b \in Accounts, u \in Txs : outbox'[b][u] # None =>
              tx[outbox'[b][u].op] = u /\ from[outbox'[b][u].op] = b
      BY <3>2, <3>3, <3>4 DEF SafeInv, SafetyInv, EntriesMatch
    <3>8. EntriesMatch'
      BY <2>1, <3>7 DEF SafeInv, SafetyInv, EntriesMatch
    <3> QED
      BY <3>5, <3>6, <3>8
  <2> QED
    BY <2>2, <2>3
<1> QED
  BY <1>1, <1>2 DEF QueueIfReadable

-----------------------------------------------------------------------------
(* Steps of the holder of one wallet's lock.                               *)

\* The holder moves on and changes nothing but its place.
LEMMA MoveStep ==
    ASSUME SafeInv, TypeInv', NEW a \in Accounts, NEW q, at' = [at EXCEPT ![a] = q],
           UNCHANGED <<network, pending, failed, watched, outbox, todo, kept, slot, rows,
                       reported, forgotten>>,
           PlaceAt(a)'
    PROVE  SafeInv'
<1>1. Frame /\ OnlyBy(a) /\ FailedMovedNothing'
  BY DEF Frame, OnlyBy, SafeInv, SafetyInv, FailedMovedNothing, network, TypeInv, TypeOK
<1>2. EntriesMatch' /\ RecordedStays
  BY <1>1, EntriesFrame
<1>3. PlacesHold'
  BY <1>1, <1>2, PlaceFrame
<1>4. NoPaymentOutOfSight'
  <2>1. \A o \in Ops : InSight(o) => InSight(o)'
    BY DEF InSight, Recorded, Elements, network
  <2> QED
    BY <1>1, <1>2, <2>1, SightFrame
<1>5. OwnOperations' /\ OneOpPerTx'
  BY <1>1, OwnFrame DEF Elements
<1> QED
  BY <1>1, <1>2, <1>3, <1>4, <1>5 DEF SafeInv, SafetyInv, TypeInv

\* A verdict is true of the operation it is about.
LEMMA VerdictsTrue ==
    ASSUME NEW o \in Ops, NEW chain, NEW v \in Verdicts(o, chain)
    PROVE  /\ v = "confirmed" => net[o] = "landed"
           /\ v = "failed" => net[o] \in {"reverted", "dropped"}
BY DEF Verdicts, ProviderSays, ChainSays

\* The pending record is reconciled and its verdict settled.
LEMMA SettleStep ==
    ASSUME SafeInv, TypeInv', NEW a \in Accounts, pending[a] \in Ops,
           NEW chain, NEW v \in Verdicts(pending[a], chain),
           NEW q1 \in {"gateClear", "sendClear", "checkClear"},
           NEW q2 \in {"others", "sendAbandon", "idle"}, NEW q3 \in {"polling", "idle"},
           Settle(a, v, q1, q2, q3),
           UNCHANGED <<network, pending, watched, todo, kept, slot, rows, reported, forgotten>>
    PROVE  SafeInv'
<1> DEFINE o == pending[a]
<1>1. from[o] = a /\ net' = net /\ pays' = pays
  BY NoneAssumption DEF SafeInv, SafetyInv, OwnOperations, network
<1>2. CASE v = "confirmed" /\ QueueIfReadable(a, o) /\ Goto(a, q1) /\ UNCHANGED failed
  <2>1. net[o] = "landed"
    BY <1>2, VerdictsTrue
  <2>2. Frame /\ OnlyBy(a) /\ FailedMovedNothing' /\ at'[a] = q1
    BY <1>2 DEF Frame, OnlyBy, SafeInv, SafetyInv, FailedMovedNothing, network, TypeInv, TypeOK,
       Goto
  <2>3. EntriesMatch' /\ RecordedStays /\ (Recorded(o)' \/ pays[o] \in Opaque)
    BY <1>1, <1>2, <2>1, <2>2, QueueRecords
  <2>4. PlaceAt(a)'
    BY <1>1, <2>1, <2>2, <2>3 DEF PlaceAt, Recorded
  <2>5. PlacesHold'
    BY <2>2, <2>3, <2>4, PlaceFrame
  <2>6. \A p \in Ops : InSight(p) => InSight(p)'
    BY <1>2, <2>3 DEF InSight, RecordedStays, Elements, network
  <2>7. NoPaymentOutOfSight'
    BY <2>2, <2>3, <2>6, SightFrame
  <2>8. OwnOperations' /\ OneOpPerTx'
    BY <2>2, OwnFrame DEF Elements
  <2> QED
    BY <2>2, <2>3, <2>5, <2>7, <2>8 DEF SafeInv, SafetyInv, TypeInv
<1>3. CASE v = "failed" /\ failed' = failed \union {o} /\ Goto(a, q2) /\ UNCHANGED outbox
  <2>1. net[o] \in {"reverted", "dropped"}
    BY <1>3, VerdictsTrue
  <2>2. Frame /\ OnlyBy(a) /\ at'[a] = q2
    BY <1>3 DEF Frame, OnlyBy, SafeInv, network, TypeInv, TypeOK, Goto
  <2>3. FailedMovedNothing'
    BY <1>1, <1>3, <2>1 DEF SafeInv, SafetyInv, FailedMovedNothing
  <2>4. EntriesMatch' /\ RecordedStays
    BY <1>3, <2>2, EntriesFrame
  <2>5. PlaceAt(a)'
    BY <1>3, <2>2 DEF PlaceAt, Unresolved
  <2>6. PlacesHold'
    BY <2>2, <2>4, <2>5, PlaceFrame
  <2>7. \A p \in Ops : net[p] \in MayPay /\ InSight(p) => InSight(p)'
    BY <1>3, <2>1, <2>4 DEF InSight, RecordedStays, Elements, network, MayPay
  <2>8. NoPaymentOutOfSight'
    BY <2>2, <2>3, <2>4, <2>7, SightFrame
  <2>9. OwnOperations' /\ OneOpPerTx'
    BY <2>2, OwnFrame DEF Elements
  <2> QED
    BY <2>2, <2>3, <2>4, <2>6, <2>8, <2>9 DEF SafeInv, SafetyInv, TypeInv
<1>4. CASE v = "open" /\ Goto(a, q3) /\ UNCHANGED <<failed, outbox>>
  <2>1. at' = [at EXCEPT ![a] = q3] /\ at'[a] = q3
    BY <1>4 DEF Goto, SafeInv, TypeInv, TypeOK
  <2>2. PlaceAt(a)'
    BY <2>1 DEF PlaceAt
  <2> QED
    BY <1>4, <2>1, <2>2, MoveStep
<1> QED
  BY <1>2, <1>3, <1>4 DEF Settle

\* The pending record goes: its operation must be safe without it.
LEMMA ClearStep ==
    ASSUME SafeInv, TypeInv', NEW a \in Accounts, pending[a] \in Ops,
           pending' = [pending EXCEPT ![a] = None], at'[a] = "idle",
           \A b \in Accounts \ {a} : at'[b] = at[b],
           UNCHANGED <<network, failed, watched, outbox, todo, kept, slot, rows, forgotten>>,
           reported \subseteq reported',
           net[pending[a]] \in MayPay =>
               \/ pending[a] \in Elements(watched[a]) \union forgotten
               \/ /\ net[pending[a]] = "landed" /\ pending[a] \in reported'
                  /\ Recorded(pending[a]) \/ pays[pending[a]] \in Opaque
    PROVE  SafeInv'
<1> DEFINE o == pending[a]
<1>1. Frame /\ OnlyBy(a) /\ FailedMovedNothing' /\ pending'[a] = None
  BY DEF Frame, OnlyBy, SafeInv, SafetyInv, FailedMovedNothing, network, TypeInv, TypeOK
<1>2. EntriesMatch' /\ RecordedStays
  BY <1>1, EntriesFrame
<1>3. PlaceAt(a)'
  BY DEF PlaceAt
<1>4. PlacesHold'
  BY <1>1, <1>2, <1>3, PlaceFrame
<1>5. ASSUME NEW p \in Ops, from[p] = a, net[p] \in MayPay, InSight(p)
      PROVE  InSight(p)'
  <2>1. from' = from /\ net' = net /\ pays' = pays /\ Elements(watched[a])' = Elements(watched[a])
    BY DEF network, Elements
  <2>2. Recorded(p) => Recorded(p)'
    BY DEF Recorded, network
  <2>3. CASE p = o
    BY <1>5, <2>1, <2>2, <2>3 DEF InSight
  <2>4. CASE p # o
    BY <1>5, <2>1, <2>2, <2>4 DEF InSight
  <2> QED
    BY <2>3, <2>4
<1>6. NoPaymentOutOfSight'
  BY <1>1, <1>2, <1>5, SightFrame
<1>7. OwnOperations' /\ OneOpPerTx'
  BY <1>1, OwnFrame DEF Elements
<1> QED
  BY <1>1, <1>2, <1>4, <1>6, <1>7 DEF SafeInv, SafetyInv, TypeInv

\* A recording step touches the outbox, the requests and the rows only.
LEMMA RecordStep ==
    ASSUME SafeInv, TypeInv', EntriesMatch', RecordedStays,
           UNCHANGED <<network, pending, clue, failed, watched, lockVars, history>>
    PROVE  SafeInv'
<1>1. \A o \in Ops : net[o] = "landed" /\ Recorded(o) => Recorded(o)'
  BY DEF RecordedStays
<1>2. NoPaymentOutOfSight'
  BY <1>1 DEF SafeInv, SafetyInv, NoPaymentOutOfSight, InSight, Elements, network, history
<1>3. OneOpPerTx' /\ OwnOperations' /\ FailedMovedNothing'
  BY DEF SafeInv, SafetyInv, OneOpPerTx, OwnOperations, FailedMovedNothing, Elements, network,
     lockVars
<1>4. ASSUME NEW a \in Accounts PROVE PlaceAt(a)'
  <2>1. Frame /\ OnlyBy(a)
    BY DEF Frame, OnlyBy, lockVars, history
  <2>2. PlaceAt(a) /\ (at[a] \in Held => pending[a] \in Ops) /\ Elements(watched[a]) \subseteq Ops
    BY PlaceFacts
  <2>3. \A o \in Ops : Settled(o) => Settled(o)'
    BY <1>1 DEF Settled, network, history
  <2> QED
    BY <1>1, <2>2, <2>3 DEF PlaceAt, Held, Unresolved, Elements, network, lockVars, history
<1> QED
  BY <1>2, <1>3, <1>4 DEF SafeInv, SafetyInv, PlacesHold, TypeInv

-----------------------------------------------------------------------------
(* Sending and checking.                                                   *)

LEMMA SSend ==
    ASSUME SafeInv, TypeInv', NEW a \in Accounts, NEW p \in Payments, Send(a, p) PROVE SafeInv'
<1>1. at' = [at EXCEPT ![a] = "gate"] /\ at'[a] = "gate"
  BY DEF Send, Goto, SafeInv, TypeInv, TypeOK
<1>2. PlaceAt(a)'
  BY <1>1 DEF PlaceAt
<1> QED
  BY <1>1, <1>2, MoveStep DEF Send, storage, network, history

LEMMA SPrepareFails ==
    ASSUME SafeInv, TypeInv', NEW a \in Accounts, PrepareFails(a) PROVE SafeInv'
<1>1. at' = [at EXCEPT ![a] = "idle"] /\ at'[a] = "idle"
  BY DEF PrepareFails, Goto, SafeInv, TypeInv, TypeOK
<1>2. PlaceAt(a)'
  BY <1>1 DEF PlaceAt
<1> QED
  BY <1>1, <1>2, MoveStep DEF PrepareFails, storage, network, history

LEMMA SReplyLost ==
    ASSUME SafeInv, TypeInv', NEW a \in Accounts, ReplyLost(a) PROVE SafeInv'
<1>1. at' = [at EXCEPT ![a] = "idle"] /\ at'[a] = "idle"
  BY DEF ReplyLost, Goto, SafeInv, TypeInv, TypeOK
<1>2. PlaceAt(a)'
  BY <1>1 DEF PlaceAt
<1> QED
  BY <1>1, <1>2, MoveStep DEF ReplyLost, storage, network, history

LEMMA SReplyId ==
    ASSUME SafeInv, TypeInv', NEW a \in Accounts, ReplyId(a) PROVE SafeInv'
<1>1. at' = [at EXCEPT ![a] = "polling"] /\ at'[a] = "polling"
  BY DEF ReplyId, Goto, SafeInv, TypeInv, TypeOK
<1>2. PlaceAt(a)'
  BY <1>1 DEF PlaceAt
<1> QED
  BY <1>1, <1>2, MoveStep DEF ReplyId, storage, network, history

LEMMA SCheck ==
    ASSUME SafeInv, TypeInv', NEW a \in Accounts, Check(a) PROVE SafeInv'
<1>1. at' = [at EXCEPT ![a] = "checking"] /\ at'[a] = "checking"
  BY DEF Check, Goto, SafeInv, TypeInv, TypeOK
<1>2. PlaceAt(a)'
  BY <1>1 DEF PlaceAt
<1> QED
  BY <1>1, <1>2, MoveStep DEF Check, storage, network, history

LEMMA SGateOthers ==
    ASSUME SafeInv, TypeInv', NEW a \in Accounts, GateOthers(a) PROVE SafeInv'
<1>1. PICK q \in {"idle", "prepare"} : at' = [at EXCEPT ![a] = q]
  BY DEF GateOthers, Goto
<1>2. ~Unresolved(a) /\ at'[a] = q
  BY <1>1 DEF GateOthers, SafeInv, SafetyInv, PlacesHold, PlaceAt, TypeInv, TypeOK
<1>3. PlaceAt(a)'
  BY <1>2 DEF PlaceAt, Unresolved, GateOthers, storage
<1> QED
  BY <1>1, <1>3, MoveStep DEF GateOthers, storage, network, history

LEMMA SGate ==
    ASSUME SafeInv, TypeInv', NEW a \in Accounts, Gate(a) PROVE SafeInv'
<1>1. CASE ~Unresolved(a) /\ Goto(a, "others") /\ UNCHANGED <<failed, outbox>>
  <2>1. at' = [at EXCEPT ![a] = "others"] /\ at'[a] = "others"
    BY <1>1 DEF Goto, SafeInv, TypeInv, TypeOK
  <2>2. PlaceAt(a)'
    BY <1>1, <2>1 DEF PlaceAt, Unresolved, Gate
  <2> QED
    BY <1>1, <2>1, <2>2, MoveStep DEF Gate, network, history
<1>2. CASE /\ Unresolved(a)
           /\ \E v \in Verdicts(pending[a], TRUE) : Settle(a, v, "gateClear", "others", "idle")
  <2>1. pending[a] \in Ops
    BY <1>2 DEF SafeInv, TypeInv, TypeOK, Unresolved
  <2> QED
    BY <1>2, <2>1, SettleStep DEF Gate, history
<1> QED
  BY <1>1, <1>2 DEF Gate

LEMMA SPoll ==
    ASSUME SafeInv, TypeInv', NEW a \in Accounts, Poll(a) PROVE SafeInv'
<1>1. pending[a] \in Ops
  BY DEF Poll, SafeInv, TypeInv, HoldsRecord, Held
<1>2. PICK last \in BOOLEAN : \E v \in Verdicts(pending[a], last) :
          Settle(a, v, "sendClear", "sendAbandon", IF last THEN "idle" ELSE "polling")
  BY DEF Poll
<1> QED
  BY <1>1, <1>2, SettleStep DEF Poll, history

LEMMA SCheckAnswer ==
    ASSUME SafeInv, TypeInv', NEW a \in Accounts, CheckAnswer(a) PROVE SafeInv'
<1>1. pending[a] \in Ops
  BY DEF CheckAnswer, SafeInv, TypeInv, HoldsRecord, Held
<1> QED
  BY <1>1, SettleStep DEF CheckAnswer, history

LEMMA SSignDeclined ==
    ASSUME SafeInv, TypeInv', NEW a \in Accounts, SignDeclined(a) PROVE SafeInv'
<1>1. pending[a] \in Ops /\ PlaceAt(a)
  BY DEF SignDeclined, SafeInv, TypeInv, HoldsRecord, Held, SafetyInv, PlacesHold
<1>2. at'[a] = "idle" /\ \A b \in Accounts \ {a} : at'[b] = at[b]
  BY DEF SignDeclined, Goto, SafeInv, TypeInv, TypeOK
<1>3. net[pending[a]] \notin MayPay
  BY <1>1 DEF SignDeclined, PlaceAt, SafeInv, SafetyInv, FailedMovedNothing, MayPay
<1> QED
  BY <1>1, <1>2, <1>3, ClearStep DEF SignDeclined, ClearRecord, history

LEMMA SReplyRefused ==
    ASSUME SafeInv, TypeInv', NEW a \in Accounts, ReplyRefused(a) PROVE SafeInv'
<1>1. pending[a] \in Ops /\ PlaceAt(a)
  BY DEF ReplyRefused, SafeInv, TypeInv, HoldsRecord, Held, SafetyInv, PlacesHold
<1>2. at'[a] = "idle" /\ \A b \in Accounts \ {a} : at'[b] = at[b]
  BY DEF ReplyRefused, Goto, SafeInv, TypeInv, TypeOK
<1>3. net[pending[a]] \notin MayPay
  BY <1>1 DEF ReplyRefused, PlaceAt, SafeInv, SafetyInv, FailedMovedNothing, MayPay
<1> QED
  BY <1>1, <1>2, <1>3, ClearStep DEF ReplyRefused, ClearRecord, history

LEMMA SSendAbandon ==
    ASSUME SafeInv, TypeInv', NEW a \in Accounts, SendAbandon(a) PROVE SafeInv'
<1>1. pending[a] \in Ops /\ PlaceAt(a)
  BY DEF SendAbandon, SafeInv, TypeInv, HoldsRecord, Held, SafetyInv, PlacesHold
<1>2. at'[a] = "idle" /\ \A b \in Accounts \ {a} : at'[b] = at[b]
  BY DEF SendAbandon, Goto, SafeInv, TypeInv, TypeOK
<1>3. net[pending[a]] \notin MayPay
  BY <1>1 DEF SendAbandon, PlaceAt, SafeInv, SafetyInv, FailedMovedNothing, MayPay
<1> QED
  BY <1>1, <1>2, <1>3, ClearStep DEF SendAbandon, ClearRecord, history

LEMMA SReleaseClear ==
    ASSUME SafeInv, TypeInv', NEW a \in Accounts, ReleaseClear(a) PROVE SafeInv'
<1>1. pending[a] \in Ops /\ PlaceAt(a)
  BY DEF ReleaseClear, SafeInv, TypeInv, HoldsRecord, Held, SafetyInv, PlacesHold
<1>2. at'[a] = "idle" /\ \A b \in Accounts \ {a} : at'[b] = at[b]
  BY DEF ReleaseClear, Goto, SafeInv, TypeInv, TypeOK
<1>3. pending[a] \in Elements(watched[a]) \union forgotten
  BY <1>1 DEF ReleaseClear, PlaceAt, SafeInv, SafetyInv, FailedMovedNothing, MayPay
<1> QED
  BY <1>1, <1>2, <1>3, ClearStep DEF ReleaseClear, ClearRecord, history

LEMMA SDismiss ==
    ASSUME SafeInv, TypeInv', NEW a \in Accounts, Dismiss(a) PROVE SafeInv'
<1>1. pending[a] \in Ops /\ net[pending[a]] \notin MayPay /\ at[a] = "idle"
  BY DEF Dismiss, TakeLock, SafeInv, SafetyInv, TypeInv, TypeOK, FailedMovedNothing, MayPay
<1> QED
  BY <1>1, ClearStep DEF Dismiss, ClearRecord, lockVars, history

LEMMA SClearConfirmed ==
    ASSUME SafeInv, TypeInv', NEW a \in Accounts,
           at[a] \in {"gateClear", "sendClear", "checkClear"}, ClearConfirmed(a)
    PROVE  SafeInv'
<1>1. pending[a] \in Ops /\ PlaceAt(a)
  BY DEF SafeInv, TypeInv, HoldsRecord, Held, SafetyInv, PlacesHold
<1>2. at'[a] = "idle" /\ \A b \in Accounts \ {a} : at'[b] = at[b]
  BY DEF ClearConfirmed, Goto, SafeInv, TypeInv, TypeOK
<1>3. /\ net[pending[a]] = "landed" /\ pending[a] \in reported'
      /\ Recorded(pending[a]) \/ pays[pending[a]] \in Opaque
  BY <1>1 DEF ClearConfirmed, PlaceAt
<1> QED
  BY <1>1, <1>2, <1>3, ClearStep DEF ClearConfirmed, ClearRecord

-----------------------------------------------------------------------------
(* Releasing and watching.                                                 *)

LEMMA SRelease ==
    ASSUME SafeInv, TypeInv', NEW a \in Accounts, Release(a) PROVE SafeInv'
<1> DEFINE all == Append(watched[a], pending[a])
           stays == LastOf(all, MaxWatched)
<1>1. pending[a] \in Ops /\ from[pending[a]] = a
  BY NoneAssumption DEF Release, Unresolved, SafeInv, SafetyInv, OwnOperations, TypeInv, TypeOK
<1>2. /\ watched' = [watched EXCEPT ![a] = stays]
      /\ forgotten' = forgotten \union (Elements(all) \ Elements(stays))
      /\ at' = [at EXCEPT ![a] = "releaseClear"]
  BY DEF Release, Goto
<1>3. watched[a] \in Seq(Ops) /\ all \in Seq(Ops) /\ MaxWatched \in Nat
  BY <1>1, BoundAssumption DEF SafeInv, TypeInv, TypeOK
<1>4. Elements(all) = Elements(watched[a]) \union {pending[a]} /\ Elements(stays) \subseteq Elements(all)
  BY <1>1, <1>3, ElementsAppend, ElementsLast
<1> HIDE DEF all, stays
<1>5. watched'[a] = stays /\ at'[a] = "releaseClear"
  BY <1>2 DEF SafeInv, TypeInv, TypeOK
<1>6. Frame /\ OnlyBy(a) /\ FailedMovedNothing'
  BY <1>2 DEF Release, Frame, OnlyBy, SafeInv, SafetyInv, FailedMovedNothing, network, TypeInv,
     TypeOK
<1>7. EntriesMatch' /\ RecordedStays
  BY <1>6, EntriesFrame DEF Release
<1>8. Elements(watched[a])' = Elements(stays)
  BY <1>5 DEF Elements
<1>9. PlaceAt(a)'
  BY <1>2, <1>4, <1>5, <1>8 DEF PlaceAt, Release
<1>10. PlacesHold'
  BY <1>6, <1>7, <1>9, PlaceFrame
<1>11. ASSUME NEW p \in Ops, from[p] = a, InSight(p) PROVE InSight(p)'
  <2>1. UNCHANGED <<from, net, pays, tx, pending, failed, reported>> /\ (Recorded(p) => Recorded(p)')
    BY DEF Release, network, Recorded
  <2>2. p \in Elements(watched[a]) => p \in Elements(stays) \union forgotten'
    BY <1>2, <1>4
  <2> QED
    BY <1>6, <1>8, <1>11, <2>1, <2>2 DEF InSight, Frame
<1>12. NoPaymentOutOfSight'
  BY <1>6, <1>7, <1>11, SightFrame
<1>13. OwnOperations' /\ OneOpPerTx'
  <2>1. (Elements(todo[a]) \union Elements(kept[a]))' = Elements(todo[a]) \union Elements(kept[a])
    BY DEF Release, Elements
  <2>2. pending' = pending /\ pending[a] # None
    BY <1>1, NoneAssumption DEF Release
  <2> QED
    BY <1>4, <1>6, <1>8, <2>1, <2>2, OwnFrame
<1> QED
  BY <1>6, <1>7, <1>10, <1>12, <1>13 DEF SafeInv, SafetyInv, TypeInv

LEMMA SWatch ==
    ASSUME SafeInv, TypeInv', NEW a \in Accounts, Watch(a) PROVE SafeInv'
<1>1. todo'[a] = watched[a] /\ kept'[a] = << >> /\ at'[a] = "watching" /\ UNCHANGED watched
  BY DEF Watch, Goto, SafeInv, TypeInv, TypeOK, storage
<1>2. Frame /\ OnlyBy(a) /\ FailedMovedNothing'
  BY DEF Watch, Goto, Frame, OnlyBy, SafeInv, SafetyInv, FailedMovedNothing, network, storage, history,
     TypeInv, TypeOK
<1>3. EntriesMatch' /\ RecordedStays
  BY <1>2, EntriesFrame DEF Watch, storage
<1>4. Elements(watched[a])' = Elements(watched[a]) /\ Elements(todo[a])' = Elements(watched[a])
      /\ Elements(kept[a])' = {}
  BY <1>1, ElementsEmpty DEF Elements
<1>5. PlaceAt(a)'
  BY <1>1, <1>4 DEF PlaceAt
<1>6. PlacesHold'
  BY <1>2, <1>3, <1>5, PlaceFrame
<1>7. \A p \in Ops : InSight(p) => InSight(p)'
  BY DEF Watch, storage, network, history, InSight, Recorded, Elements
<1>8. NoPaymentOutOfSight'
  BY <1>2, <1>3, <1>7, SightFrame
<1>9. OwnOperations' /\ OneOpPerTx'
  BY <1>2, <1>4, OwnFrame DEF Watch, storage
<1> QED
  BY <1>2, <1>3, <1>6, <1>8, <1>9 DEF SafeInv, SafetyInv, TypeInv

LEMMA SWatchNext ==
    ASSUME SafeInv, TypeInv', NEW a \in Accounts, WatchNext(a) PROVE SafeInv'
<1>0. Head(todo[a]) \in Ops
  BY DEF WatchNext, SafeInv, TypeInv, TypeOK
<1> PICK o \in Ops : o = Head(todo[a])
  BY <1>0
<1>1. /\ todo[a] \in Seq(Ops) /\ todo[a] # << >> /\ kept[a] \in Seq(Ops) /\ at[a] = "watching"
      /\ o \in Ops /\ todo'[a] = Tail(todo[a])
  BY DEF WatchNext, SafeInv, TypeInv, TypeOK
<1>2. Elements(todo[a]) \subseteq {o} \union Elements(Tail(todo[a]))
      /\ Elements(Tail(todo[a])) \subseteq Elements(todo[a]) /\ o \in Elements(todo[a])
  BY <1>1, ElementsHead
<1>3. from[o] = a
  BY <1>2 DEF SafeInv, SafetyInv, OwnOperations
<1>4. Frame /\ OnlyBy(a) /\ FailedMovedNothing' /\ UNCHANGED <<at, watched, pending, failed, slot, rows>>
  BY DEF WatchNext, Frame, OnlyBy, SafeInv, SafetyInv, FailedMovedNothing, network,
     TypeInv, TypeOK
<1>5. kept'[a] \in {kept[a], Append(kept[a], o)}
  BY DEF WatchNext, SafeInv, TypeInv, TypeOK
<1>6. Elements(kept[a]) \subseteq Elements(kept[a])' /\ Elements(kept[a])' \subseteq Elements(kept[a]) \union {o}
  <2>1. Elements(Append(kept[a], o)) = Elements(kept[a]) \union {o}
    BY <1>1, ElementsAppend
  <2>2. Elements(kept'[a]) \in {Elements(kept[a]), Elements(Append(kept[a], o))}
    BY <1>5
  <2>3. Elements(kept[a])' = Elements(kept'[a])
    BY DEF Elements
  <2> QED
    BY <2>1, <2>2, <2>3
<1>7. EntriesMatch' /\ RecordedStays
      /\ (o \in forgotten' \/ o \in Elements(kept[a])' \/ Settled(o)')
  <2>1. CASE forgotten' = forgotten \union {o} /\ UNCHANGED <<outbox, kept, reported>>
    BY <2>1, <1>4, EntriesFrame
  <2>2. CASE /\ "confirmed" \in Verdicts(o, TRUE) /\ QueueIfReadable(a, o)
             /\ reported' = reported \union {o} /\ UNCHANGED <<kept, forgotten>>
    <3>1. net[o] = "landed"
      BY <2>2, <1>1, VerdictsTrue
    <3>2. EntriesMatch' /\ RecordedStays /\ (Recorded(o)' \/ pays[o] \in Opaque)
      BY <2>2, <3>1, <1>1, <1>3, <1>4, QueueRecords
    <3>3. Settled(o)'
      <4>1. net'[o] = "landed" /\ o \in reported' /\ (Recorded(o)' \/ pays'[o] \in Opaque)
        BY <2>2, <3>1, <3>2, <1>4 DEF Frame, network
      <4>2. (Recorded(o))' => Settled(o)'
        BY <4>1 DEF Settled
      <4>3. pays'[o] \in Opaque => Settled(o)'
        BY <4>1 DEF Settled
      <4> QED
        BY <4>1, <4>2, <4>3
    <3> QED
      BY <3>2, <3>3
  <2>3. CASE /\ "failed" \in Verdicts(o, TRUE)
             /\ UNCHANGED <<outbox, kept, reported, forgotten>>
    <3>1. net[o] \in {"reverted", "dropped"}
      BY <2>3, <1>1, VerdictsTrue
    <3>2. Settled(o)'
      BY <3>1, <1>4 DEF Settled, Frame, network
    <3> QED
      BY <2>3, <3>2, <1>4, EntriesFrame
  <2>4. CASE kept' = [kept EXCEPT ![a] = Append(@, o)] /\ UNCHANGED <<outbox, reported, forgotten>>
    <3>1. kept'[a] = Append(kept[a], o)
      BY <2>4 DEF SafeInv, TypeInv, TypeOK
    <3>2. Elements(kept[a])' = Elements(Append(kept[a], o))
      BY <3>1 DEF Elements
    <3> QED
      BY <2>4, <3>2, <1>1, <1>4, EntriesFrame, ElementsAppend
  <2> QED
    BY <2>1, <2>2, <2>3, <2>4 DEF WatchNext
<1>8. Elements(todo[a])' = Elements(Tail(todo[a])) /\ Elements(watched[a])' = Elements(watched[a])
  BY <1>1, <1>4 DEF Elements
<1>9. PlaceAt(a)'
  <2>1. at'[a] = "watching"
    BY <1>1, <1>4
  <2>2. ASSUME NEW p \in Elements(watched[a])
        PROVE  \/ p \in Elements(Tail(todo[a])) \union Elements(kept[a])' \union forgotten'
               \/ Settled(p)'
    <3>1. p \in Ops
      BY DEF SafeInv, TypeInv, TypeOK, Elements
    <3>2. \/ p \in Elements(todo[a]) \union Elements(kept[a]) \union forgotten
          \/ Settled(p)
      BY <1>1 DEF SafeInv, SafetyInv, PlacesHold, PlaceAt
    <3>3. Settled(p) => Settled(p)'
      BY <3>1, <1>4, <1>7 DEF Settled, Frame, network, RecordedStays
    <3> QED
      BY <3>2, <3>3, <1>2, <1>4, <1>6, <1>7 DEF Frame
  <2> QED
    BY <2>1, <2>2, <1>8 DEF PlaceAt
<1>10. PlacesHold'
  BY <1>4, <1>7, <1>9, PlaceFrame
<1>11. \A p \in Ops : InSight(p) => InSight(p)'
  BY <1>4, <1>7 DEF InSight, Frame, network, RecordedStays, Elements
<1>12. NoPaymentOutOfSight'
  BY <1>4, <1>7, <1>11, SightFrame
<1>13. OwnOperations' /\ OneOpPerTx'
  BY <1>2, <1>4, <1>6, <1>8, OwnFrame
<1> QED
  BY <1>4, <1>7, <1>10, <1>12, <1>13 DEF SafeInv, SafetyInv, TypeInv

LEMMA SWatchDone ==
    ASSUME SafeInv, TypeInv', NEW a \in Accounts, WatchDone(a) PROVE SafeInv'
<1>1. /\ at[a] = "watching" /\ todo[a] = << >> /\ watched'[a] = kept[a] /\ kept'[a] = << >>
      /\ todo' = todo /\ at'[a] = "idle"
  BY DEF WatchDone, Goto, SafeInv, TypeInv, TypeOK
<1>2. Frame /\ OnlyBy(a) /\ FailedMovedNothing'
  BY DEF WatchDone, Goto, Frame, OnlyBy, SafeInv, SafetyInv, FailedMovedNothing, network, history,
     TypeInv, TypeOK
<1>3. EntriesMatch' /\ RecordedStays
  BY <1>2, EntriesFrame DEF WatchDone
<1>4. Elements(watched[a])' = Elements(kept[a]) /\ Elements(todo[a]) = {} /\ Elements(todo[a])' = {}
      /\ Elements(kept[a])' = {}
  BY <1>1, ElementsEmpty DEF Elements
<1>5. PlaceAt(a)'
  BY <1>1 DEF PlaceAt
<1>6. PlacesHold'
  BY <1>2, <1>3, <1>5, PlaceFrame
<1>7. ASSUME NEW p \in Ops, from[p] = a, net[p] \in MayPay, InSight(p) PROVE InSight(p)'
  <2>1. UNCHANGED <<from, net, pays, tx, pending, failed, reported, forgotten>>
        /\ (Recorded(p) => Recorded(p)')
    BY DEF WatchDone, network, history, Recorded
  <2>2. CASE p \in Elements(watched[a])
    <3>1. p \in Elements(kept[a]) \union forgotten \/ Settled(p)
      BY <2>2, <1>1, <1>4 DEF SafeInv, SafetyInv, PlacesHold, PlaceAt
    <3> QED
      BY <3>1, <2>1, <1>4, <1>7 DEF InSight, Settled, MayPay
  <2>3. CASE p \notin Elements(watched[a])
    BY <2>3, <2>1, <1>7 DEF InSight
  <2> QED
    BY <2>2, <2>3
<1>8. NoPaymentOutOfSight'
  BY <1>2, <1>3, <1>7, SightFrame
<1>9. OwnOperations' /\ OneOpPerTx'
  BY <1>2, <1>4, OwnFrame DEF WatchDone
<1> QED
  BY <1>2, <1>3, <1>6, <1>8, <1>9 DEF SafeInv, SafetyInv, TypeInv

-----------------------------------------------------------------------------
(* The network moves on.                                                   *)

\* One operation changes state, short of landing, and no record of it changes.
LEMMA NetStep ==
    ASSUME SafeInv, TypeInv', NEW o \in Ops, NEW q \in {"wired", "inflight", "refused", "reverted", "dropped"},
           net[o] \in {"begun", "wired", "inflight"}, net' = [net EXCEPT ![o] = q],
           net[o] = "begun" => InSight(o),
           UNCHANGED <<from, pays, tx, pending, failed, watched, outbox, todo, kept, slot, rows, history>>,
           \A a \in Accounts : PlaceAt(a)'
    PROVE  SafeInv'
<1>1. /\ net'[o] = q /\ \A p \in Ops \ {o} : net'[p] = net[p]
  BY DEF SafeInv, TypeInv, TypeOK
<1>2. OneOpPerTx' /\ OwnOperations' /\ FailedMovedNothing'
  BY <1>1 DEF SafeInv, SafetyInv, OneOpPerTx, OwnOperations, FailedMovedNothing, Elements
<1>3. EntriesMatch'
  BY DEF SafeInv, SafetyInv, EntriesMatch
<1>4. ASSUME NEW p \in Ops, net'[p] \in MayPay PROVE InSight(p)'
  <2>1. InSight(p) /\ net'[p] = "landed" => net[p] = "landed"
    BY <1>1, <1>4 DEF SafeInv, SafetyInv, NoPaymentOutOfSight, MayPay
  <2>2. InSight(p)
    BY <1>1, <1>4 DEF SafeInv, SafetyInv, NoPaymentOutOfSight, MayPay
  <2>3. net[p] = "landed" => net'[p] = "landed"
    BY <1>1
  <2> QED
    BY <2>2, <2>3 DEF InSight, Recorded, Elements, history
<1> QED
  BY <1>2, <1>3, <1>4 DEF SafeInv, SafetyInv, TypeInv, PlacesHold, NoPaymentOutOfSight

\* Where the holders of the other locks are does not depend on an operation that
\* is on its way.
LEMMA PlaceOnTheWay ==
    ASSUME SafeInv, NEW o \in Ops, net[o] \in {"wired", "inflight"},
           NEW q \in NetStates, net' = [net EXCEPT ![o] = q], NEW a \in Accounts,
           UNCHANGED <<from, pays, tx, pending, failed, watched, outbox, at, todo, kept, rows, history>>
    PROVE  PlaceAt(a)'
<1>1. PlaceAt(a) /\ (at[a] \in Held => pending[a] \in Ops) /\ Elements(watched[a]) \subseteq Ops
  BY PlaceFacts
<1>2. net'[o] = q /\ \A p \in Ops \ {o} : net'[p] = net[p]
  BY DEF SafeInv, TypeInv, TypeOK
<1>3. \A p \in Ops : Settled(p) => Settled(p)'
  BY <1>2 DEF Settled, Recorded, history
<1> QED
  BY <1>1, <1>2, <1>3 DEF PlaceAt, Held, Unresolved, Recorded, Elements, history

LEMMA SProviderAnswers ==
    ASSUME SafeInv, TypeInv', NEW o \in Ops, ProviderAnswers(o) PROVE SafeInv'
<1>1. PICK q \in {"inflight", "refused"} : net' = [net EXCEPT ![o] = q]
  BY DEF ProviderAnswers
<1>2. \A a \in Accounts : PlaceAt(a)'
  BY <1>1, PlaceOnTheWay DEF ProviderAnswers, storage, lockVars, NetStates
<1> QED
  BY <1>1, <1>2, NetStep DEF ProviderAnswers, storage, lockVars

LEMMA SFall ==
    ASSUME SafeInv, TypeInv', NEW o \in Ops, Fall(o) PROVE SafeInv'
<1>1. PICK q \in {"reverted", "dropped"} : net' = [net EXCEPT ![o] = q]
  BY DEF Fall
<1>2. \A a \in Accounts : PlaceAt(a)'
  BY <1>1, PlaceOnTheWay DEF Fall, storage, lockVars, NetStates
<1> QED
  BY <1>1, <1>2, NetStep DEF Fall, storage, lockVars

LEMMA SSendRequest ==
    ASSUME SafeInv, TypeInv', NEW a \in Accounts, SendRequest(a) PROVE SafeInv'
<1> PICK o \in Ops : o = pending[a]
  BY DEF SendRequest, SafeInv, SafetyInv, HoldsRecord, Held
<1>1. net[o] = "begun" /\ net' = [net EXCEPT ![o] = "wired"] /\ from[o] = a
  BY NoneAssumption DEF SendRequest, SafeInv, SafetyInv, PlacesHold, PlaceAt, OwnOperations
<1>2. net'[o] = "wired" /\ \A p \in Ops \ {o} : net'[p] = net[p]
  BY <1>1 DEF SafeInv, TypeInv, TypeOK
<1>3. InSight(o)
  BY <1>1 DEF InSight, SafeInv, SafetyInv, FailedMovedNothing
<1>4. at'[a] = "awaiting" /\ \A b \in Accounts \ {a} : at'[b] = at[b]
  BY DEF SendRequest, Goto, SafeInv, TypeInv, TypeOK
<1>5. ASSUME NEW b \in Accounts PROVE PlaceAt(b)'
  <2>1. CASE b = a
    BY <2>1, <1>4 DEF PlaceAt
  <2>2. CASE b # a
    <3>1. PlaceAt(b) /\ (at[b] \in Held => pending[b] \in Ops) /\ Elements(watched[b]) \subseteq Ops
      BY PlaceFacts
    <3>2. pending[b] # o
      BY <2>2, <1>1, NoneAssumption DEF SafeInv, SafetyInv, OwnOperations
    <3>3. \A p \in Ops : Settled(p) => Settled(p)'
      BY <1>1, <1>2 DEF SendRequest, Settled, Recorded, storage, history
    <3> QED
      BY <2>2, <1>2, <1>4, <3>1, <3>2, <3>3
      DEF SendRequest, PlaceAt, Held, Unresolved, Recorded, Elements, storage, history
  <2> QED
    BY <2>1, <2>2
<1> QED
  BY <1>1, <1>3, <1>5, NetStep DEF SendRequest, storage

LEMMA SLand ==
    ASSUME SafeInv, TypeInv', ~SharedBundles, NEW S \in SUBSET Ops, NEW t \in Txs, Land(S, t)
    PROVE  SafeInv'
<1> PICK o \in Ops : S = {o}
  BY DEF Land
<1>1. /\ net[o] = "inflight" /\ net'[o] = "landed" /\ tx'[o] = t /\ \A p \in Ops : tx[p] # t
      /\ \A p \in Ops \ {o} : net'[p] = net[p] /\ tx'[p] = tx[p]
  BY DEF Land
<1>2. tx[o] = None /\ t # None
  BY <1>1, NoneAssumption DEF SafeInv, SafetyInv, OneOpPerTx
<1>3. \A p \in Ops : net[p] = "landed" => p # o
  BY <1>1
<1>4. OneOpPerTx' /\ FailedMovedNothing'
  <2>1. \A p \in Ops : tx'[p] # None <=> net'[p] = "landed"
    BY <1>1, <1>2 DEF SafeInv, SafetyInv, OneOpPerTx
  <2>2. \A p, q \in Ops : tx'[p] # None /\ tx'[p] = tx'[q] => p = q
    BY <1>1 DEF SafeInv, SafetyInv, OneOpPerTx
  <2>3. FailedMovedNothing'
    <3>1. failed' = failed /\ failed \subseteq Ops /\ o \notin failed
      BY <1>1 DEF SafeInv, SafetyInv, FailedMovedNothing, Land, storage, TypeInv, TypeOK
    <3> QED
      BY <3>1, <1>1 DEF SafeInv, SafetyInv, FailedMovedNothing
  <2> QED
    BY <2>1, <2>2, <2>3 DEF OneOpPerTx
<1>5. OwnOperations'
  BY <1>1 DEF SafeInv, SafetyInv, OwnOperations, Elements, Land, storage, lockVars
<1>6. EntriesMatch'
  <2>1. \A u \in Txs : u # None
    BY NoneAssumption
  <2>2. ASSUME NEW b \in Accounts, NEW u \in Txs, outbox[b][u] # None
        PROVE  tx'[outbox[b][u].op] = u /\ from[outbox[b][u].op] = b
    <3>1. outbox[b][u].op \in Ops /\ tx[outbox[b][u].op] = u /\ from[outbox[b][u].op] = b
      BY <2>2 DEF SafeInv, SafetyInv, EntriesMatch, TypeInv, TypeOK, Entry
    <3> QED
      BY <3>1, <2>1, <1>1, <1>2
  <2>3. ASSUME NEW s \in Slots, slot[s] # None
        PROVE  tx'[slot[s].entry.op] = slot[s].tx
    <3>1. slot[s].entry.op \in Ops /\ tx[slot[s].entry.op] = slot[s].tx /\ slot[s].tx \in Txs
      BY <2>3, WorkType DEF SafeInv, SafetyInv, EntriesMatch, Entry
    <3> QED
      BY <3>1, <2>1, <1>1, <1>2
  <2>4. ASSUME NEW u \in Txs, rows[u] # None
        PROVE  tx'[rows[u].op] = u
    <3>1. rows[u].op \in Ops /\ tx[rows[u].op] = u
      BY <2>4 DEF SafeInv, SafetyInv, EntriesMatch, TypeInv, TypeOK, Row
    <3> QED
      BY <3>1, <2>1, <1>1, <1>2
  <2> QED
    BY <2>2, <2>3, <2>4 DEF SafeInv, SafetyInv, EntriesMatch, Land, storage
<1>7. \A p \in Ops : net[p] = "landed" /\ Recorded(p) => Recorded(p)'
  BY <1>1, <1>3 DEF Recorded, Land, storage
<1>8. NoPaymentOutOfSight'
  <2> SUFFICES ASSUME NEW p \in Ops, net'[p] \in MayPay PROVE InSight(p)'
    BY DEF NoPaymentOutOfSight
  <2>1. InSight(p)
    BY <1>1 DEF SafeInv, SafetyInv, NoPaymentOutOfSight, MayPay
  <2> QED
    BY <2>1, <1>1, <1>3, <1>7 DEF InSight, Elements, Land, storage, history
<1>9. ASSUME NEW a \in Accounts PROVE PlaceAt(a)'
  <2>1. PlaceAt(a) /\ (at[a] \in Held => pending[a] \in Ops) /\ Elements(watched[a]) \subseteq Ops
    BY PlaceFacts
  <2>2. \A p \in Ops : Settled(p) => Settled(p)'
    BY <1>1, <1>3, <1>7 DEF Settled, Land, history
  <2>3. (at[a] \in {"gateClear", "sendClear", "checkClear"} =>
           /\ net[pending[a]] = "landed"
           /\ Recorded(pending[a]) \/ pays[pending[a]] \in Opaque)'
    BY <2>1, <1>1, <1>3, <1>7 DEF PlaceAt, Held, Recorded, Land, storage, lockVars
  <2> QED
    BY <2>1, <2>2, <2>3, <1>1 DEF PlaceAt, Held, Unresolved, Elements, Land, storage, lockVars, history
<1> QED
  BY <1>4, <1>5, <1>6, <1>8, <1>9 DEF SafeInv, SafetyInv, TypeInv, PlacesHold

LEMMA SBegin ==
    ASSUME SafeInv, TypeInv', NEW a \in Accounts, NEW o \in Ops, Begin(a, o) PROVE SafeInv'
<1>1. /\ net[o] = "unused" /\ from[o] = None /\ tx[o] = None
      /\ net'[o] = "begun" /\ from'[o] = a /\ pending'[a] = o /\ at'[a] = "begun"
      /\ \A p \in Ops \ {o} : net'[p] = net[p] /\ from'[p] = from[p] /\ pays'[p] = pays[p]
      /\ \A b \in Accounts \ {a} : pending'[b] = pending[b] /\ at'[b] = at[b]
  BY DEF Begin, Goto, SafeInv, SafetyInv, OneOpPerTx, OwnOperations, TypeInv, TypeOK
<1>2. ~Unresolved(a)
  BY PlaceFacts DEF PlaceAt, Begin
<1>3. \A b \in Accounts : b # None /\ pending[b] # o /\ o \notin Elements(watched[b])
           /\ o \notin Elements(todo[b]) /\ o \notin Elements(kept[b])
  BY <1>1, NoneAssumption DEF SafeInv, SafetyInv, OwnOperations
<1>4. UNCHANGED <<tx, failed, watched, outbox, todo, kept, slot, rows, reported, forgotten>>
  BY DEF Begin, history
<1>5. \A p \in Ops : net[p] = "landed" => p # o
  BY <1>1
<1>6. \A p \in Ops : net[p] = "landed" /\ Recorded(p) => Recorded(p)'
  BY <1>1, <1>4, <1>5 DEF Recorded
<1>7. OneOpPerTx'
  BY <1>1, <1>4 DEF SafeInv, SafetyInv, OneOpPerTx
<1>8. FailedMovedNothing'
  <2>1. failed \subseteq Ops /\ o \notin failed
    BY <1>1 DEF SafeInv, SafetyInv, FailedMovedNothing, TypeInv, TypeOK
  <2> QED
    BY <2>1, <1>1, <1>4 DEF SafeInv, SafetyInv, FailedMovedNothing
<1>9. OwnOperations'
  <2>1. \A p \in Ops : from'[p] = None <=> net'[p] = "unused"
    BY <1>1, <1>3 DEF SafeInv, SafetyInv, OwnOperations
  <2>2. ASSUME NEW b \in Accounts, pending'[b] # None PROVE from'[pending'[b]] = b
    <3>1. CASE b = a
      BY <3>1, <1>1
    <3>2. CASE b # a
      <4>1. pending'[b] = pending[b] /\ pending[b] # o /\ pending[b] \in Ops
        BY <2>2, <3>2, <1>1, <1>3 DEF SafeInv, TypeInv, TypeOK
      <4>2. from[pending[b]] = b
        BY <4>1, <2>2 DEF SafeInv, SafetyInv, OwnOperations
      <4> QED
        BY <4>1, <4>2, <1>1
    <3> QED
      BY <3>1, <3>2
  <2>3. ASSUME NEW b \in Accounts,
               NEW p \in Elements(watched[b]) \union Elements(todo[b]) \union Elements(kept[b])
        PROVE  from'[p] = b
    <3>1. p \in Ops /\ from[p] = b
      BY <2>3 DEF SafeInv, SafetyInv, OwnOperations, TypeInv, TypeOK, Elements
    <3> QED
      BY <3>1, <1>1, <1>3
  <2> QED
    BY <2>1, <2>2, <2>3, <1>4 DEF OwnOperations, Elements
<1>10. EntriesMatch'
  <2>1. ASSUME NEW b \in Accounts, NEW u \in Txs, outbox[b][u] # None
        PROVE  from'[outbox[b][u].op] = b
    <3>1. outbox[b][u].op \in Ops /\ from[outbox[b][u].op] = b
      BY <2>1 DEF SafeInv, SafetyInv, EntriesMatch, TypeInv, TypeOK, Entry
    <3> QED
      BY <3>1, <1>1, <1>3
  <2>2. ASSUME NEW s \in Slots, slot[s] # None
        PROVE  from'[slot[s].entry.op] = slot[s].account
    <3>1. slot[s].entry.op \in Ops /\ from[slot[s].entry.op] = slot[s].account
          /\ slot[s].account \in Accounts
      BY <2>2, WorkType DEF SafeInv, SafetyInv, EntriesMatch, Entry
    <3> QED
      BY <3>1, <1>1, <1>3
  <2> QED
    BY <2>1, <2>2, <1>4 DEF SafeInv, SafetyInv, EntriesMatch
<1>11. NoPaymentOutOfSight'
  <2> SUFFICES ASSUME NEW p \in Ops, net'[p] \in MayPay PROVE InSight(p)'
    BY DEF NoPaymentOutOfSight
  <2>1. p # o /\ net[p] \in MayPay /\ InSight(p)
    BY <1>1 DEF SafeInv, SafetyInv, NoPaymentOutOfSight, MayPay
  <2>2. from[p] \in Accounts /\ p \notin failed /\ p # None
    <3>1. net[p] # "unused" /\ net[p] \notin {"reverted", "dropped"}
      BY <2>1 DEF MayPay
    <3>2. from[p] \in Accounts
      BY <3>1 DEF SafeInv, SafetyInv, OwnOperations, TypeInv, TypeOK
    <3>3. p \notin failed
      BY <3>1 DEF SafeInv, SafetyInv, FailedMovedNothing
    <3> QED
      BY <3>2, <3>3, NoneAssumption
  <2>3. pending[from[p]] = p => from[p] # a
    BY <2>2, <1>2 DEF Unresolved
  <2>4. (Elements(watched[from[p]]))' = Elements(watched[from[p]])
    BY <2>1, <1>1, <1>4 DEF Elements
  <2> QED
    BY <2>1, <2>2, <2>3, <2>4, <1>1, <1>4, <1>6 DEF InSight
<1>12. ASSUME NEW b \in Accounts PROVE PlaceAt(b)'
  <2>1. CASE b = a
    BY <2>1, <1>1 DEF PlaceAt
  <2>2. CASE b # a
    <3>1. PlaceAt(b) /\ (at[b] \in Held => pending[b] \in Ops) /\ Elements(watched[b]) \subseteq Ops
      BY PlaceFacts
    <3>2. \A p \in Ops : Settled(p) => Settled(p)'
      BY <1>1, <1>4, <1>5, <1>6 DEF Settled
    <3>3. pending'[b] = pending[b] /\ at'[b] = at[b] /\ pending[b] # o
      BY <2>2, <1>1, <1>3
    <3>4. (at[b] \in {"gateClear", "sendClear", "checkClear"} =>
               /\ net[pending[b]] = "landed"
               /\ Recorded(pending[b]) \/ pays[pending[b]] \in Opaque)'
      BY <3>1, <3>3, <1>1, <1>6 DEF PlaceAt, Held, Recorded
    <3> QED
      BY <3>1, <3>2, <3>3, <3>4, <1>1, <1>4 DEF PlaceAt, Held, Unresolved, Elements
  <2> QED
    BY <2>1, <2>2
<1> QED
  BY <1>7, <1>8, <1>9, <1>10, <1>11, <1>12 DEF SafeInv, SafetyInv, TypeInv, PlacesHold

-----------------------------------------------------------------------------
(* Recording, signing in and out, and the end of the process.              *)

\* What one request holds, and what its transaction carries.
LEMMA WorkFacts ==
    ASSUME SafeInv, NEW s \in Slots, slot[s] # None
    PROVE  /\ slot[s].account \in Accounts /\ slot[s].tx \in Txs /\ slot[s].entry \in Entry
           /\ slot[s].entry.op \in Ops /\ tx[slot[s].entry.op] = slot[s].tx
           /\ from[slot[s].entry.op] = slot[s].account
           /\ slot[s].answer = "recorded" => rows[slot[s].tx] # None
<1>1. slot[s].account \in Accounts /\ slot[s].tx \in Txs /\ slot[s].entry \in Entry
  BY WorkType DEF SafeInv
<1>2. slot[s].entry.op \in Ops
  BY <1>1 DEF Entry
<1>3. /\ tx[slot[s].entry.op] = slot[s].tx /\ from[slot[s].entry.op] = slot[s].account
      /\ slot[s].answer = "recorded" => rows[slot[s].tx] # None
  BY DEF SafeInv, SafetyInv, EntriesMatch
<1> QED
  BY <1>1, <1>2, <1>3

\* A transaction stands for one operation wherever it is named.
LEMMA SameTxSameOp ==
    ASSUME SafeInv, NEW o \in Ops, NEW p \in Ops, tx[o] = tx[p], tx[o] \in Txs PROVE o = p
BY NoneAssumption DEF SafeInv, SafetyInv, OneOpPerTx

LEMMA STakeEntry ==
    ASSUME SafeInv, NEW s \in Slots, NEW kind \in {"flush", "enrich"}, NEW a \in Accounts,
           NEW t \in Txs, TakeEntry(s, kind, a, t), UNCHANGED <<network, outbox, rows>>
    PROVE  EntriesMatch' /\ RecordedStays
<1> DEFINE w == [kind |-> kind, account |-> a, tx |-> t, entry |-> outbox[a][t], answer |-> "none"]
<1>1. outbox[a][t] # None /\ tx[outbox[a][t].op] = t /\ from[outbox[a][t].op] = a
  BY DEF TakeEntry, SafeInv, SafetyInv, EntriesMatch
<1>2. slot'[s] = w /\ \A r \in Slots \ {s} : slot'[r] = slot[r]
  BY DEF TakeEntry, SafeInv, TypeInv, TypeOK
<1>3. w.account = a /\ w.tx = t /\ w.entry = outbox[a][t] /\ w.answer = "none"
  OBVIOUS
<1> HIDE DEF w
<1>4. \A r \in Slots : slot'[r] # None =>
          /\ tx[slot'[r].entry.op] = slot'[r].tx
          /\ from[slot'[r].entry.op] = slot'[r].account
          /\ slot'[r].answer = "recorded" => rows[slot'[r].tx] # None
  BY <1>1, <1>2, <1>3 DEF SafeInv, SafetyInv, EntriesMatch
<1>5. EntriesMatch'
  BY <1>4 DEF SafeInv, SafetyInv, EntriesMatch, network
<1> QED
  BY <1>5 DEF RecordedStays, Recorded, network

LEMMA SEnrichRead ==
    ASSUME SafeInv, TypeInv', NEW s \in Slots, NEW a \in Accounts, NEW t \in Txs,
           EnrichRead(s, a, t)
    PROVE  SafeInv'
<1>1. UNCHANGED <<network, pending, clue, failed, watched, outbox, lockVars, rows, history>>
  BY DEF EnrichRead, storage
<1>2. CASE TakeEntry(s, "enrich", a, t)
  BY <1>1, <1>2, STakeEntry, RecordStep
<1>3. CASE UNCHANGED slot
  <2>1. Frame
    BY <1>1 DEF Frame, history
  <2> QED
    BY <1>1, <1>3, <2>1, EntriesFrame, RecordStep
<1> QED
  BY <1>2, <1>3 DEF EnrichRead

LEMMA SFlushRead ==
    ASSUME SafeInv, TypeInv', NEW s \in Slots, NEW a \in Accounts, NEW t \in Txs,
           FlushRead(s, a, t)
    PROVE  SafeInv'
BY STakeEntry, RecordStep DEF FlushRead, storage

LEMMA STailEnds ==
    ASSUME SafeInv, TypeInv', NEW a \in Accounts, NEW t \in Txs, TailEnds(a, t) PROVE SafeInv'
<1>1. UNCHANGED <<network, pending, clue, failed, watched, outbox, lockVars, slot, rows, history>>
  BY DEF TailEnds, storage
<1>2. Frame
  BY <1>1 DEF Frame, history
<1> QED
  BY <1>1, <1>2, EntriesFrame, RecordStep

LEMMA SChangeSession ==
    ASSUME SafeInv, TypeInv', NEW u \in Accounts \union {None}, ChangeSession(u) PROVE SafeInv'
<1>1. UNCHANGED <<network, pending, clue, failed, watched, outbox, lockVars, slot, rows, history>>
  BY DEF ChangeSession, storage
<1>2. Frame
  BY <1>1 DEF Frame, history
<1> QED
  BY <1>1, <1>2, EntriesFrame, RecordStep

\* One entry is written, about the operation its transaction carries, or taken
\* away when its row is there; the request that did it is over.
LEMMA WriteStep ==
    ASSUME SafeInv, NEW s \in Slots, slot[s] # None, UNCHANGED <<network, rows>>,
           slot' = [slot EXCEPT ![s] = None],
           NEW e \in Entry \union {None},
           outbox' = [outbox EXCEPT ![slot[s].account][slot[s].tx] = e],
           e # None => e.op = slot[s].entry.op,
           e = None => rows[slot[s].tx] # None
    PROVE  EntriesMatch' /\ RecordedStays
<1> DEFINE a == slot[s].account
           t == slot[s].tx
           o == slot[s].entry.op
<1>1. a \in Accounts /\ t \in Txs /\ o \in Ops /\ tx[o] = t /\ from[o] = a
  BY WorkFacts
<1>2. slot'[s] = None /\ \A r \in Slots \ {s} : slot'[r] = slot[r]
  BY DEF SafeInv, TypeInv, TypeOK
<1>3. outbox'[a][t] = e /\ \A b \in Accounts, u \in Txs : <<b, u>> # <<a, t>> => outbox'[b][u] = outbox[b][u]
  BY <1>1 DEF SafeInv, TypeInv, TypeOK
<1>4. EntriesMatch'
  <2>1. \A b \in Accounts, u \in Txs : outbox'[b][u] # None =>
            tx[outbox'[b][u].op] = u /\ from[outbox'[b][u].op] = b
    BY <1>1, <1>3 DEF SafeInv, SafetyInv, EntriesMatch
  <2> QED
    BY <1>2, <2>1 DEF SafeInv, SafetyInv, EntriesMatch, network
<1>5. RecordedStays
  <2> SUFFICES ASSUME NEW p \in Ops, net[p] = "landed", Recorded(p) PROVE Recorded(p)'
    BY DEF RecordedStays
  <2>1. tx' = tx /\ from' = from /\ tx[p] \in Txs /\ from[p] \in Accounts
    BY DEF network, SafeInv, SafetyInv, OneOpPerTx, OwnOperations, TypeInv, TypeOK
  <2>2. CASE <<from[p], tx[p]>> = <<a, t>>
    <3>1. p = o
      BY <1>1, <2>1, <2>2, SameTxSameOp
    <3>2. CASE e # None
      BY <3>1, <3>2, <2>1, <2>2, <1>3 DEF Recorded
    <3>3. CASE e = None
      <4>1. rows[t] # None /\ rows[t].op \in Ops /\ tx[rows[t].op] = t
        BY <3>3, <1>1 DEF SafeInv, SafetyInv, EntriesMatch, TypeInv, TypeOK, Row
      <4>2. rows[t].op = p
        BY <4>1, <3>1, <1>1, SameTxSameOp
      <4> QED
        BY <4>1, <4>2, <2>1, <2>2 DEF Recorded
    <3> QED
      BY <3>2, <3>3
  <2>3. CASE <<from[p], tx[p]>> # <<a, t>>
    BY <2>1, <2>3, <1>3 DEF Recorded
  <2> QED
    BY <2>2, <2>3
<1> QED
  BY <1>4, <1>5

LEMMA SEnrichWrite ==
    ASSUME SafeInv, TypeInv', NEW s \in Slots, EnrichWrite(s) PROVE SafeInv'
<1> DEFINE e == [slot[s].entry EXCEPT !.note = TRUE]
<1>1. slot[s] # None /\ slot[s].entry \in Entry
  BY WorkFacts DEF EnrichWrite
<1>2. e \in Entry /\ e.op = slot[s].entry.op
  BY <1>1 DEF Entry
<1>3. e # None
  BY <1>2, NoRecordAssumption
<1>4. /\ outbox' = [outbox EXCEPT ![slot[s].account][slot[s].tx] = e]
      /\ slot' = [slot EXCEPT ![s] = None]
      /\ UNCHANGED <<network, pending, clue, failed, watched, lockVars, rows, history>>
  BY DEF EnrichWrite
<1> HIDE DEF e
<1>5. EntriesMatch' /\ RecordedStays
  BY <1>1, <1>2, <1>3, <1>4, WriteStep
<1> QED
  BY <1>4, <1>5, RecordStep

LEMMA SAnswered ==
    ASSUME SafeInv, TypeInv', NEW s \in Slots, Answered(s) PROVE SafeInv'
<1>1. /\ slot[s] # None /\ slot[s].entry \in Entry
      /\ slot[s].answer = "recorded" => rows[slot[s].tx] # None
  BY WorkFacts DEF Answered
<1>2. /\ slot' = [slot EXCEPT ![s] = None]
      /\ UNCHANGED <<network, pending, clue, failed, watched, lockVars, rows, history>>
  BY DEF Answered
<1>3. [slot[s].entry EXCEPT !.state = "rejected"] \in Entry
      /\ [slot[s].entry EXCEPT !.state = "rejected"].op = slot[s].entry.op
  BY <1>1 DEF Entry
<1>4. PICK e \in Entry \union {None} :
          /\ outbox' = [outbox EXCEPT ![slot[s].account][slot[s].tx] = e]
          /\ e # None => e.op = slot[s].entry.op
          /\ e = None => slot[s].answer = "recorded"
  <2>1. CASE slot[s].answer = "recorded"
    BY <2>1 DEF Answered
  <2>2. CASE slot[s].answer = "rejected"
    BY <2>2, <1>3, NoRecordAssumption DEF Answered
  <2>3. CASE slot[s].answer \notin {"recorded", "rejected"}
    <3>1. outbox' = [outbox EXCEPT ![slot[s].account][slot[s].tx] = slot[s].entry]
      BY <2>3 DEF Answered
    <3>2. slot[s].entry # None
      BY <1>1, NoRecordAssumption
    <3> QED
      BY <1>1, <3>1, <3>2
  <2> QED
    BY <2>1, <2>2, <2>3
<1>5. EntriesMatch' /\ RecordedStays
  BY <1>1, <1>2, <1>4, WriteStep
<1> QED
  BY <1>2, <1>5, RecordStep

LEMMA SPost ==
    ASSUME SafeInv, TypeInv', NEW s \in Slots, Post(s) PROVE SafeInv'
<1> DEFINE t == slot[s].tx
<1>1. slot[s] # None /\ t \in Txs
  BY WorkFacts DEF Post
<1>2. UNCHANGED <<network, pending, clue, failed, watched, outbox, lockVars, history>>
  BY DEF Post, storage
<1>3. PICK v \in {"recorded", "rejected", "retry"} : slot' = [slot EXCEPT ![s].answer = v]
  BY DEF Post
<1>4. /\ slot'[s].entry = slot[s].entry /\ slot'[s].tx = t /\ slot'[s].account = slot[s].account
      /\ slot'[s].answer = v /\ \A r \in Slots \ {s} : slot'[r] = slot[r]
  BY <1>1, <1>3, WorkType DEF SafeInv, TypeInv, TypeOK, Work
<1>5. /\ v = "recorded" => rows'[t] # None
      /\ \A u \in Txs : rows[u] # None => rows'[u] = rows[u]
      /\ \A u \in Txs : rows'[u] # None => tx[rows'[u].op] = u
  <2>1. CASE UNCHANGED rows
    <3>1. v = "recorded" => rows[t] # None
      <4>1. ASSUME NEW r, slot' = [slot EXCEPT ![s].answer = r] PROVE v = r
        BY <4>1, <1>1, <1>4, WorkType DEF SafeInv, TypeInv, TypeOK, Work
      <4>2. ASSUME NEW o \in Ops,
                   rows' = [rows EXCEPT ![t] = [op |-> o, note |-> slot[s].entry.note]]
            PROVE  rows[t] # None
        <5>1. [op |-> o, note |-> slot[s].entry.note] \in Row
          BY <1>1, WorkType DEF Row, Entry, SafeInv
        <5> QED
          BY <2>1, <4>2, <5>1, <1>1, NoRecordAssumption DEF SafeInv, TypeInv, TypeOK
      <4> QED
        BY <4>1, <4>2 DEF Post
    <3> QED
      BY <2>1, <3>1 DEF SafeInv, SafetyInv, EntriesMatch
  <2>2. CASE ~UNCHANGED rows
    <3>1. PICK o \in Ops :
              /\ rows[t] = None
              /\ Matching(session, t, pays[slot[s].entry.op]) = {o}
              /\ rows' = [rows EXCEPT ![t] = [op |-> o, note |-> slot[s].entry.note]]
      BY <2>2 DEF Post
    <3>2. tx[o] = t
      BY <3>1 DEF Matching
    <3>3. [op |-> o, note |-> slot[s].entry.note] \in Row
      BY <1>1, WorkType DEF Row, Entry, SafeInv
    <3>4. rows'[t] # None /\ rows'[t].op = o /\ \A u \in Txs \ {t} : rows'[u] = rows[u]
      BY <3>1, <3>3, <1>1, NoRecordAssumption DEF SafeInv, TypeInv, TypeOK
    <3> QED
      BY <3>1, <3>2, <3>4 DEF SafeInv, SafetyInv, EntriesMatch
  <2> QED
    BY <2>1, <2>2
<1>6. EntriesMatch'
  <2>1. ASSUME NEW r \in Slots, slot'[r] # None
        PROVE  /\ tx[slot'[r].entry.op] = slot'[r].tx
               /\ from[slot'[r].entry.op] = slot'[r].account
               /\ slot'[r].answer = "recorded" => rows'[slot'[r].tx] # None
    <3>1. CASE r = s
      BY <3>1, <1>1, <1>4, <1>5, WorkFacts
    <3>2. CASE r # s
      BY <3>2, <2>1, <1>4, <1>5, WorkFacts
    <3> QED
      BY <3>1, <3>2
  <2> QED
    BY <1>2, <1>5, <2>1 DEF SafeInv, SafetyInv, EntriesMatch, network
<1>7. RecordedStays
  <2> SUFFICES ASSUME NEW p \in Ops, net[p] = "landed", Recorded(p) PROVE Recorded(p)'
    BY DEF RecordedStays
  <2>1. tx[p] \in Txs
    BY DEF SafeInv, SafetyInv, OneOpPerTx, TypeInv, TypeOK
  <2> QED
    BY <2>1, <1>2, <1>5 DEF Recorded, network
<1> QED
  BY <1>2, <1>6, <1>7, RecordStep

LEMMA SCrash ==
    ASSUME SafeInv, TypeInv', Crash PROVE SafeInv'
<1>1. /\ \A a \in Accounts : at'[a] = "idle" /\ todo'[a] = << >> /\ kept'[a] = << >>
      /\ \A s \in Slots : slot'[s] = None
      /\ UNCHANGED <<network, storage, rows, reported, forgotten>>
  BY DEF Crash
<1>2. EntriesMatch'
  BY <1>1 DEF SafeInv, SafetyInv, EntriesMatch, network, storage
<1>3. NoPaymentOutOfSight'
  BY <1>1 DEF SafeInv, SafetyInv, NoPaymentOutOfSight, InSight, Recorded, Elements, network, storage
<1>4. OneOpPerTx' /\ FailedMovedNothing'
  BY <1>1 DEF SafeInv, SafetyInv, OneOpPerTx, FailedMovedNothing, network, storage
<1>5. OwnOperations'
  <2>1. \A a \in Accounts : /\ Elements(watched[a])' = Elements(watched[a])
                            /\ Elements(todo[a])' = {} /\ Elements(kept[a])' = {}
    BY <1>1, ElementsEmpty DEF Elements, storage
  <2> QED
    BY <1>1, <2>1 DEF SafeInv, SafetyInv, OwnOperations, network, storage
<1>6. PlacesHold'
  BY <1>1 DEF PlacesHold, PlaceAt
<1> QED
  BY <1>2, <1>3, <1>4, <1>5, <1>6 DEF SafeInv, SafetyInv, TypeInv

-----------------------------------------------------------------------------

LEMMA SafeInit == Init => SafeInv
<1> SUFFICES ASSUME Init PROVE SafetyInv
  BY TypeInit DEF SafeInv
<1>1. HoldsRecord
  BY TypeInit DEF TypeInv
<1>2. OneOpPerTx /\ EntriesMatch /\ FailedMovedNothing /\ NoPaymentOutOfSight
  BY DEF Init, OneOpPerTx, EntriesMatch, FailedMovedNothing, NoPaymentOutOfSight, MayPay
<1>3. OwnOperations
  BY ElementsEmpty DEF Init, OwnOperations
<1>4. PlacesHold
  BY DEF Init, PlacesHold, PlaceAt
<1> QED
  BY <1>1, <1>2, <1>3, <1>4 DEF SafetyInv

LEMMA SafeStep ==
    ASSUME ~SharedBundles PROVE SafeInv /\ [Next]_vars => SafeInv'
<1> SUFFICES ASSUME SafeInv, [Next]_vars PROVE SafeInv'
  OBVIOUS
<1>1. TypeInv'
  BY TypeStep DEF SafeInv
<1>2. CASE UNCHANGED vars
  <2>1. UNCHANGED <<network, pending, clue, failed, watched, outbox, lockVars, slot, rows, history>>
    BY <1>2 DEF vars, storage
  <2>2. Frame
    BY <2>1 DEF Frame, history
  <2> QED
    BY <1>1, <2>1, <2>2, EntriesFrame, RecordStep
<1>3. ASSUME NEW a \in Accounts, Start(a) PROVE SafeInv'
  BY <1>1, <1>3, SSend, SCheck, SRelease, SWatch, SDismiss DEF Start
<1>4. ASSUME NEW a \in Accounts, Continue(a) PROVE SafeInv'
  <2>1. CASE GateClear(a) \/ SendClear(a) \/ CheckClear(a)
    BY <1>1, <2>1, SClearConfirmed DEF GateClear, SendClear, CheckClear
  <2> QED
    BY <1>1, <1>4, <2>1, SGate, SGateOthers, SPrepareFails, SBegin, SSignDeclined, SSendRequest,
       SReplyId, SReplyRefused, SReplyLost, SPoll, SSendAbandon, SCheckAnswer, SReleaseClear,
       SWatchNext, SWatchDone DEF Continue
<1>5. CASE Network
  BY <1>1, <1>5, SProviderAnswers, SFall, SLand DEF Network
<1>6. CASE Recording
  BY <1>1, <1>6, SEnrichRead, SFlushRead, SEnrichWrite, SPost, SAnswered, STailEnds DEF Recording
<1> QED
  BY <1>1, <1>2, <1>3, <1>4, <1>5, <1>6, SChangeSession, SCrash DEF Next

\* A payment that was made, or may still be made, is never out of sight: whatever
\* overlaps, crashes, times out or is refused in paymentOperations.ts and
\* paymentSubmission.ts, it is pending, watched, or reported and recorded.
THEOREM NeverOutOfSight ==
    ASSUME ~SharedBundles PROVE Spec => []NoPaymentOutOfSight
<1>1. SafeInv /\ [Next]_vars => SafeInv'
  BY SafeStep
<1>2. SafeInv => NoPaymentOutOfSight
  BY DEF SafeInv, SafetyInv
<1> QED
  BY SafeInit, <1>1, <1>2, PTL DEF Spec

\* "Unresolved blocks the next payment": two payments of an account are never
\* both open, because the pending record holds one and an open one is in it.
THEOREM OneOpenAtATime ==
    ASSUME ~SharedBundles PROVE Spec => []OneOpenPayment
<1>1. SafeInv /\ [Next]_vars => SafeInv'
  BY SafeStep
<1>2. SafeInv => OneOpenPayment
  <2> SUFFICES ASSUME SafeInv, NEW o \in Ops, NEW p \in Ops, Open(o), Open(p), from[o] = from[p]
               PROVE  o = p
    BY DEF OneOpenPayment
  <2>1. pending[from[o]] = o /\ pending[from[p]] = p
    BY DEF SafeInv, SafetyInv, NoPaymentOutOfSight, InSight, Open
  <2> QED
    BY <2>1
<1> QED
  BY SafeInit, <1>1, <1>2, PTL DEF Spec

\* What the phone shows as failed moved no money, so sending it again is safe.
THEOREM FailedIsFailed ==
    ASSUME ~SharedBundles PROVE Spec => []FailedMovedNothing
<1>1. SafeInv /\ [Next]_vars => SafeInv'
  BY SafeStep
<1>2. SafeInv => FailedMovedNothing
  BY DEF SafeInv, SafetyInv
<1> QED
  BY SafeInit, <1>1, <1>2, PTL DEF Spec

-----------------------------------------------------------------------------
(* Entries leave the outbox when they are recorded.                        *)

LEMMA QueueKeeps ==
    ASSUME SafeInv, NEW b \in Accounts, NEW o \in Ops, QueueIfReadable(b, o),
           NEW a \in Accounts, NEW t \in Txs, outbox[a][t] # None
    PROVE  outbox'[a][t] # None
<1> DEFINE e == [op |-> o, user |-> session, note |-> FALSE, state |-> "queued"]
<1>1. e # None
  <2>1. e \in Entry
    BY DEF Entry, SafeInv, TypeInv, TypeOK
  <2> QED
    BY <2>1, NoRecordAssumption
<1>2. UNCHANGED outbox \/ outbox' = [outbox EXCEPT ![b][tx[o]] = e]
  BY DEF QueueIfReadable, Queue
<1> HIDE DEF e
<1>3. outbox \in [Accounts -> [Txs -> Entry \union {None}]]
  BY DEF SafeInv, TypeInv, TypeOK
<1>4. CASE outbox' = [outbox EXCEPT ![b][tx[o]] = e]
  <2>1. CASE a = b
    <3>1. outbox'[a] = [outbox[a] EXCEPT ![tx[o]] = e]
      BY <1>3, <1>4, <2>1
    <3> QED
      BY <1>1, <1>3, <3>1
  <2>2. CASE a # b
    BY <1>3, <1>4, <2>2
  <2> QED
    BY <2>1, <2>2
<1> QED
  BY <1>2, <1>4

LEMMA LeavesStep ==
    ASSUME SafeInv, [Next]_vars, NEW a \in Accounts, NEW t \in Txs,
           outbox[a][t] # None, outbox'[a][t] = None
    PROVE  rows[t] # None /\ rows[t].op = outbox[a][t].op
<1>1. UNCHANGED outbox => FALSE
  OBVIOUS
<1>2. \A b \in Accounts : pending[b] \in Ops => ~QueueIfReadable(b, pending[b])
  BY QueueKeeps
<1>3. ASSUME NEW b \in Accounts, Start(b) PROVE FALSE
  BY <1>1, <1>3 DEF Start, Send, Check, Release, Watch, Dismiss, storage
<1>4. ASSUME NEW b \in Accounts, Continue(b) PROVE FALSE
  <2>1. CASE Gate(b)
    <3>1. Unresolved(b) => pending[b] \in Ops
      BY DEF Unresolved, SafeInv, TypeInv, TypeOK
    <3> QED
      BY <2>1, <3>1, <1>1, <1>2 DEF Gate, Settle
  <2>2. CASE Poll(b) \/ CheckAnswer(b)
    <3>1. pending[b] \in Ops
      BY <2>2, PlaceFacts DEF Poll, CheckAnswer, Held
    <3> QED
      BY <2>2, <3>1, <1>1, <1>2 DEF Poll, CheckAnswer, Settle
  <2>3. CASE WatchNext(b)
    <3>1. Head(todo[b]) \in Ops
      BY <2>3 DEF WatchNext, SafeInv, TypeInv, TypeOK
    <3> QED
      BY <2>3, <3>1, <1>1, QueueKeeps DEF WatchNext
  <2> QED
    BY <1>1, <1>4, <2>1, <2>2, <2>3 DEF Continue, GateClear, GateOthers, PrepareFails, Begin,
       SignDeclined, SendRequest, ReplyId, ReplyRefused, ReplyLost, SendClear, SendAbandon,
       CheckClear, ReleaseClear, WatchDone, ClearConfirmed, storage
<1>5. CASE Network
  BY <1>1, <1>5 DEF Network, ProviderAnswers, Fall, Land, storage
<1>6. ASSUME NEW s \in Slots, EnrichWrite(s) \/ Answered(s)
      PROVE  rows[t] # None /\ rows[t].op = outbox[a][t].op
  <2> DEFINE b == slot[s].account
             u == slot[s].tx
  <2>1. slot[s] # None
    BY <1>6 DEF EnrichWrite, Answered
  <2>2. b \in Accounts /\ u \in Txs /\ slot[s].entry \in Entry
        /\ (slot[s].answer = "recorded" => rows[u] # None)
    BY <2>1, WorkFacts
  <2>3. [slot[s].entry EXCEPT !.note = TRUE] \in Entry /\ [slot[s].entry EXCEPT !.state = "rejected"] \in Entry
    BY <2>2 DEF Entry
  <2>4. PICK e \in Entry \union {None} :
            /\ outbox' = [outbox EXCEPT ![b][u] = e]
            /\ e = None => slot[s].answer = "recorded"
    <3>1. CASE EnrichWrite(s)
      BY <3>1, <2>3, NoRecordAssumption DEF EnrichWrite
    <3>2. CASE Answered(s) /\ slot[s].answer = "recorded"
      BY <3>2 DEF Answered
    <3>3. CASE Answered(s) /\ slot[s].answer = "rejected"
      BY <3>3, <2>3, NoRecordAssumption DEF Answered
    <3>4. CASE Answered(s) /\ slot[s].answer \notin {"recorded", "rejected"}
      <4>1. outbox' = [outbox EXCEPT ![slot[s].account][slot[s].tx] = slot[s].entry]
        BY <3>4 DEF Answered
      <4> QED
        BY <4>1, <2>2, NoRecordAssumption
    <3> QED
      BY <1>6, <3>1, <3>2, <3>3, <3>4
  <2>5. b = a /\ u = t /\ e = None
    BY <2>2, <2>4 DEF SafeInv, TypeInv, TypeOK
  <2>6. rows[t] # None
    BY <2>2, <2>4, <2>5
  <2>7. /\ outbox[a][t].op \in Ops /\ tx[outbox[a][t].op] = t
        /\ rows[t].op \in Ops /\ tx[rows[t].op] = t
    BY <2>6 DEF SafeInv, SafetyInv, EntriesMatch, TypeInv, TypeOK, Entry, Row
  <2> QED
    BY <2>6, <2>7, SameTxSameOp
<1>7. CASE Recording
  BY <1>1, <1>6, <1>7 DEF Recording, EnrichRead, FlushRead, Post, TailEnds, storage
<1>8. ASSUME NEW u \in Accounts \union {None}, ChangeSession(u) PROVE FALSE
  BY <1>1, <1>8 DEF ChangeSession, storage
<1>9. CASE Crash \/ UNCHANGED vars
  BY <1>1, <1>9 DEF Crash, vars, storage
<1> QED
  BY <1>3, <1>4, <1>5, <1>7, <1>8, <1>9 DEF Next

\* However many flushes, enrichments, crashes and sessions overlap, an entry of
\* the outbox goes only when the service holds the row of that very payment.
THEOREM EntriesLeaveRecorded ==
    ASSUME ~SharedBundles PROVE Spec => EntryLeavesWhenRecorded
<1>1. SafeInv /\ [Next]_vars => SafeInv'
  BY SafeStep
<1>2. SafeInv /\ [Next]_vars
      => [\A a \in Accounts, t \in Txs :
             outbox[a][t] # None /\ outbox'[a][t] = None
                 => rows[t] # None /\ rows[t].op = outbox[a][t].op]_vars
  BY LeavesStep
<1> QED
  BY SafeInit, <1>1, <1>2, PTL DEF Spec, EntryLeavesWhenRecorded

-----------------------------------------------------------------------------
(* The same payment from two accounts, when the owner signs out between    *)
(* sends only: the lock of one wallet then holds for the whole phone, and  *)
(* what a send saw of the other accounts is still so when it begins.       *)

OneAtWork == \A a \in Accounts : at[a] # "idle" => session = a

Vetted == \A a \in Accounts : at[a] = "prepare" => ~HeldElsewhere(a)

Apart ==
    \A a, b \in Accounts :
        a # b /\ Unresolved(a) /\ Unresolved(b) /\ pays[pending[a]] \notin Opaque
            => pays[pending[a]] # pays[pending[b]]

SameInv == OneAtWork /\ Vetted /\ Apart

LEMMA SameInit == Init => SameInv
  BY DEF Init, SameInv, OneAtWork, Vetted, Apart, Unresolved

\* Any step but the beginning of a payment: no record is added.
LEMMA SameFrame ==
    ASSUME SameInv, UNCHANGED pays, failed \subseteq failed',
           \A b \in Accounts : pending'[b] \in {pending[b], None},
           \A b \in Accounts : at'[b] = "prepare" =>
               ~HeldElsewhere(b) /\ wants'[b] = wants[b],
           \A b \in Accounts : at'[b] # "idle" => session' = b
    PROVE  SameInv'
<1>1. \A b \in Accounts : Unresolved(b)' => Unresolved(b) /\ pending'[b] = pending[b]
  BY DEF Unresolved
<1>2. Apart'
  BY <1>1 DEF SameInv, Apart
<1>3. Vetted'
  BY <1>1 DEF Vetted, HeldElsewhere
<1> QED
  BY <1>2, <1>3 DEF SameInv, OneAtWork

\* The holder of a lock moves on, past no check.
LEMMA SameMove ==
    ASSUME TypeOK, SameInv, NEW a \in Accounts, at[a] # "idle" \/ session = a,
           NEW q \in Places \ {"prepare"}, Goto(a, q), UNCHANGED <<pays, session>>,
           failed \subseteq failed', \A b \in Accounts : pending'[b] \in {pending[b], None}
    PROVE  SameInv'
<1>1. /\ \A b \in Accounts : at'[b] = IF b = a THEN q ELSE at[b]
      /\ \A b \in Accounts : b # a => wants'[b] = wants[b]
  BY DEF Goto, TypeOK
<1>2. \A b \in Accounts : at'[b] # "idle" => session' = b
  BY <1>1 DEF SameInv, OneAtWork
<1>3. \A b \in Accounts : at'[b] = "prepare" => ~HeldElsewhere(b) /\ wants'[b] = wants[b]
  BY <1>1 DEF SameInv, Vetted
<1> QED
  BY <1>2, <1>3, SameFrame

LEMMA SameRest ==
    ASSUME SameInv, UNCHANGED <<pays, pending, session, at, wants>>, failed \subseteq failed'
    PROVE  SameInv'
  BY SameFrame DEF SameInv, Vetted, OneAtWork

LEMMA SameBegin ==
    ASSUME SafeInv, SameInv, NEW a \in Accounts, NEW o \in Ops, Begin(a, o)
    PROVE  SameInv'
<1>1. TypeOK /\ OwnOperations /\ FailedMovedNothing
  BY DEF SafeInv, SafetyInv, TypeInv
<1>2. /\ at[a] = "prepare" /\ net[o] = "unused" /\ UNCHANGED <<session, failed>>
      /\ \A p \in Ops : pays'[p] = IF p = o THEN wants[a] ELSE pays[p]
      /\ \A b \in Accounts : pending'[b] = IF b = a THEN o ELSE pending[b]
      /\ \A b \in Accounts : at'[b] = IF b = a THEN "begun" ELSE at[b]
      /\ UNCHANGED wants
  BY <1>1 DEF Begin, TypeOK, Goto
<1>3. \A b \in Accounts : pending[b] # None => pending[b] \in Ops /\ pending[b] # o
  <2>1. from[o] = None
    BY <1>1, <1>2 DEF OwnOperations
  <2> QED
    BY <1>1, <2>1, NoneAssumption DEF OwnOperations, TypeOK
<1>4. \A b \in Accounts \ {a} :
         /\ Unresolved(b)' <=> Unresolved(b)
         /\ Unresolved(b) => pays'[pending'[b]] = pays[pending[b]]
  BY <1>2, <1>3 DEF Unresolved
<1>5. pays'[pending'[a]] = wants[a]
  BY <1>2
<1>6. \A b \in Accounts \ {a} : at[b] = "idle"
  BY <1>2 DEF SameInv, OneAtWork
<1>7. ~HeldElsewhere(a)
  BY <1>2 DEF SameInv, Vetted
<1>8. ASSUME NEW b \in Accounts, NEW c \in Accounts, b # c, Unresolved(b)', Unresolved(c)',
             pays'[pending'[b]] \notin Opaque, pays'[pending'[b]] = pays'[pending'[c]]
      PROVE  FALSE
  <2>1. CASE b = a
    BY <1>4, <1>5, <1>7, <1>8, <2>1 DEF HeldElsewhere, Unresolved
  <2>2. CASE c = a
    BY <1>4, <1>5, <1>7, <1>8, <2>2 DEF HeldElsewhere, Unresolved
  <2>3. CASE b # a /\ c # a
    BY <1>4, <1>8, <2>3 DEF SameInv, Apart, Unresolved
  <2> QED
    BY <2>1, <2>2, <2>3
<1>9. OneAtWork' /\ Vetted'
  BY <1>2, <1>6 DEF SameInv, OneAtWork, Vetted
<1> QED
  BY <1>8, <1>9 DEF SameInv, Apart

LEMMA SameContinue ==
    ASSUME SafeInv, SameInv, NEW a \in Accounts, Continue(a)
    PROVE  SameInv'
<1>1. TypeOK
  BY DEF SafeInv, TypeInv
<1>2. CASE GateOthers(a)
  <2>1. CASE HeldElsewhere(a)
    BY <1>1, <1>2, <2>1, SameMove DEF GateOthers, Places, storage, network
  <2>2. CASE ~HeldElsewhere(a)
    <3>1. /\ at[a] = "others" /\ UNCHANGED <<pays, pending, failed, session, wants>>
          /\ \A b \in Accounts : at'[b] = IF b = a THEN "prepare" ELSE at[b]
      BY <1>1, <1>2, <2>2 DEF GateOthers, Goto, TypeOK, storage, network
    <3>2. \A b \in Accounts : at'[b] = "prepare" => ~HeldElsewhere(b) /\ wants'[b] = wants[b]
      BY <2>2, <3>1 DEF SameInv, Vetted
    <3>3. \A b \in Accounts : at'[b] # "idle" => session' = b
      BY <3>1 DEF SameInv, OneAtWork
    <3> QED
      BY <3>1, <3>2, <3>3, SameFrame
  <2> QED
    BY <2>1, <2>2
<1>3. CASE \E o \in Ops : Begin(a, o)
  BY <1>3, SameBegin
<1>4. CASE Gate(a) \/ Poll(a) \/ CheckAnswer(a)
  <2>1. /\ at[a] # "idle" /\ UNCHANGED <<pays, session, pending>>
        /\ failed \subseteq failed'
        /\ \E q \in Places \ {"prepare"} : Goto(a, q)
    BY <1>4 DEF Gate, Poll, CheckAnswer, Settle, Places, network
  <2> QED
    BY <1>1, <2>1, SameMove
<1>5. CASE GateClear(a) \/ SendClear(a) \/ CheckClear(a)
  <2>1. /\ at[a] # "idle" /\ UNCHANGED <<pays, session, failed>>
        /\ ClearRecord(a) /\ Goto(a, "idle")
    BY <1>5 DEF GateClear, SendClear, CheckClear, ClearConfirmed, network
  <2>2. \A b \in Accounts : pending'[b] \in {pending[b], None}
    BY <1>1, <2>1 DEF ClearRecord, TypeOK
  <2> QED
    BY <1>1, <2>1, <2>2, SameMove DEF Places
<1>6. CASE SignDeclined(a) \/ ReplyRefused(a) \/ SendAbandon(a) \/ ReleaseClear(a)
  <2>1. /\ at[a] # "idle" /\ UNCHANGED <<pays, session, failed>>
        /\ ClearRecord(a) /\ Goto(a, "idle")
    BY <1>6 DEF SignDeclined, ReplyRefused, SendAbandon, ReleaseClear, network
  <2>2. \A b \in Accounts : pending'[b] \in {pending[b], None}
    BY <1>1, <2>1 DEF ClearRecord, TypeOK
  <2> QED
    BY <1>1, <2>1, <2>2, SameMove DEF Places
<1>7. CASE PrepareFails(a) \/ ReplyLost(a) \/ WatchDone(a) \/ SendRequest(a) \/ ReplyId(a)
  <2>1. /\ at[a] # "idle" /\ UNCHANGED <<pays, session, failed, pending>>
        /\ \E q \in Places \ {"prepare"} : Goto(a, q)
    BY <1>7 DEF PrepareFails, ReplyLost, WatchDone, SendRequest, ReplyId, Places, network, storage
  <2> QED
    BY <1>1, <2>1, SameMove
<1>8. CASE WatchNext(a)
  BY <1>8, SameRest DEF WatchNext, network
<1> QED
  BY <1>2, <1>3, <1>4, <1>5, <1>6, <1>7, <1>8 DEF Continue

LEMMA SameStart ==
    ASSUME TypeOK, SameInv, NEW a \in Accounts, Start(a)
    PROVE  SameInv'
<1>1. ASSUME NEW p \in Payments, Send(a, p)
      PROVE  SameInv'
  <2>1. /\ UNCHANGED <<pays, pending, failed, session>> /\ session = a
        /\ \A b \in Accounts : at'[b] = IF b = a THEN "gate" ELSE at[b]
        /\ \A b \in Accounts : b # a => wants'[b] = wants[b]
    BY <1>1 DEF Send, TakeLock, TypeOK, network, storage
  <2>2. \A b \in Accounts : at'[b] = "prepare" => ~HeldElsewhere(b) /\ wants'[b] = wants[b]
    BY <2>1 DEF SameInv, Vetted
  <2>3. \A b \in Accounts : at'[b] # "idle" => session' = b
    BY <2>1 DEF SameInv, OneAtWork
  <2> QED
    BY <2>1, <2>2, <2>3, SameFrame
<1>2. CASE Check(a) \/ Release(a) \/ Watch(a)
  <2>1. /\ session = a /\ UNCHANGED <<pays, session, failed, pending>>
        /\ \E q \in Places \ {"prepare"} : Goto(a, q)
    BY <1>2 DEF Check, Release, Watch, TakeLock, Places, network, storage
  <2> QED
    BY <2>1, SameMove
<1>3. CASE Dismiss(a)
  <2>1. /\ UNCHANGED <<pays, session, failed, at, wants>>
        /\ \A b \in Accounts : pending'[b] \in {pending[b], None}
    BY <1>3 DEF Dismiss, ClearRecord, TypeOK, network, lockVars
  <2> QED
    BY <2>1, SameFrame DEF SameInv, Vetted, OneAtWork
<1> QED
  BY <1>1, <1>2, <1>3 DEF Start

LEMMA SameStep ==
    ASSUME ~LeaveMidway, SafeInv, SameInv, [Next]_vars
    PROVE  SameInv'
<1>1. TypeOK
  BY DEF SafeInv, TypeInv
<1>2. CASE Network
  BY <1>2, SameRest DEF Network, ProviderAnswers, Fall, Land, storage, lockVars
<1>3. CASE Recording
  BY <1>3, SameRest DEF Recording, EnrichRead, FlushRead, EnrichWrite, Post, Answered, TailEnds,
     network, storage, lockVars
<1>4. ASSUME NEW u \in Accounts \union {None}, ChangeSession(u)
      PROVE  SameInv'
  <2>1. /\ \A a \in Accounts : at'[a] = "idle"
        /\ UNCHANGED <<pays, pending, failed>>
    BY <1>4 DEF ChangeSession, network, storage, lockVars
  <2> QED
    BY <2>1, SameFrame
<1>5. CASE Crash
  <2>1. /\ \A a \in Accounts : at'[a] = "idle"
        /\ UNCHANGED <<pays, pending, failed>>
    BY <1>5 DEF Crash, network, storage
  <2> QED
    BY <2>1, SameFrame
<1>6. CASE UNCHANGED vars
  BY <1>6, SameRest DEF vars, network, storage, lockVars
<1> QED
  BY <1>1, <1>2, <1>3, <1>4, <1>5, <1>6, SameContinue, SameStart DEF Next

\* Two accounts of one phone never have the same payment open at once, provided that the
\* owner lets a send end before signing out; otherwise the check of the other accounts and
\* the writing of the record are not one step (HeldElsewhere, Begin).
THEOREM SamePaymentOnce ==
    ASSUME ~SharedBundles, ~LeaveMidway PROVE Spec => []SamePaymentOpenOnce
<1>1. SafeInv /\ [Next]_vars => SafeInv'
  BY SafeStep
<1>2. SafeInv /\ SameInv /\ [Next]_vars => SameInv'
  BY SameStep
<1>3. SafeInv /\ SameInv => SamePaymentOpenOnce
  <2> SUFFICES ASSUME SafeInv, SameInv, NEW o \in Ops, NEW p \in Ops, Open(o), Open(p),
                      pays[o] = pays[p], pays[o] \notin Opaque, o # p
               PROVE  FALSE
    BY DEF SamePaymentOpenOnce
  <2>1. /\ pending[from[o]] = o /\ o \notin failed
        /\ pending[from[p]] = p /\ p \notin failed
    BY DEF SafeInv, SafetyInv, NoPaymentOutOfSight, InSight, Open
  <2>2. from[o] \in Accounts /\ from[p] \in Accounts
    BY DEF SafeInv, SafetyInv, TypeInv, TypeOK, OwnOperations, Open, MayPay
  <2>3. Unresolved(from[o]) /\ Unresolved(from[p])
    BY <2>1, NoneAssumption DEF Unresolved
  <2> QED
    BY <2>1, <2>2, <2>3 DEF SameInv, Apart
<1> QED
  BY SafeInit, SameInit, <1>1, <1>2, <1>3, PTL DEF Spec
=============================================================================
