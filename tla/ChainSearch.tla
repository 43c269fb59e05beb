---------------------------- MODULE ChainSearch ----------------------------
(***************************************************************************)
(* Asking the chain what became of one operation: the windows of logs that *)
(* frontend/services/userOperationChain.ts looks through, the transfers it *)
(* takes for the operation's own, and what reconcile in                    *)
(* frontend/services/paymentOperations.ts concludes.                       *)
(*                                                                         *)
(* The nodes are external.  They tell the truth about the blocks they have *)
(* and may be Behind blocks behind, refuse a window or not answer; the     *)
(* chain goes on while it is searched.  Time is counted in blocks.         *)
(***************************************************************************)
EXTENDS Integers, Sequences, FiniteSets

CONSTANTS
    Ops,            \* operations that share a transaction
    Ours,           \* the one that is looked for
    Wallets,        \* accounts on the chain
    Account,        \* the one that sent it, for all the phone knows
    Payments,       \* token, recipient and amount
    Receipts,       \* the logs of the transactions that may carry the operation
    Ages,           \* how long ago the phone believes it was sent, Nil for unknown
    Behind,         \* by how many blocks a node may lag
    MaxHead         \* bound: the last block

CONSTANTS UnknownAge, MaxLookback, Margin, Floor, MaxRequests     \* as in the code
CONSTANTS Nil, Native, Unread      \* a payment in the native coin; one the phone cannot read

\* A window that is refused again and again is down at Floor before the requests are spent.
\* In the code, two million blocks halved twelve times are less than 500, of 60 requests.
RequestsOutlast(w) ==
    /\ w[0] = MaxLookback + 1
    /\ \A n \in 0 .. MaxRequests - 2 : w[n + 1] = w[n] \div 2
    /\ w[MaxRequests - 1] <= Floor

ASSUME SearchAssumption ==
    /\ UnknownAge \in Nat /\ MaxLookback \in Nat /\ Margin \in Nat /\ Behind \in Nat /\ MaxHead \in Nat
    /\ Floor \in Nat \ {0} /\ MaxRequests \in Nat \ {0}
    /\ Ages \subseteq Nat \union {Nil} /\ Nil \notin Nat
    /\ Ours \in Ops /\ Account \in Wallets
    /\ {Native, Unread, Nil} \intersect Payments = {} /\ Unread # Native
    /\ \E w \in [0 .. MaxRequests - 1 -> 0 .. MaxLookback + 1] : RequestsOutlast(w)

Logs ==
    [kind : {"event"}, by : Ops, sender : Wallets, ok : BOOLEAN]
    \union [kind : {"transfer"}, by : Ops, from : Wallets, pays : Payments]
    \union [kind : {"other"}, by : Ops]

IsEvent(log, op) == log.kind = "event" /\ log.by = op

\* What an EntryPoint does: it runs the operations of a bundle one after the other and closes
\* each with its event.  "by" is the operation that wrote a log, which nobody can read off it.
ASSUME ReceiptAssumption ==
    \A r \in Receipts :
        /\ r \in Seq(Logs)
        /\ \E i \in DOMAIN r : IsEvent(r[i], Ours)
        /\ \A i \in DOMAIN r : \E j \in i .. Len(r) :
              /\ IsEvent(r[j], r[i].by)
              /\ \A k \in i .. j : r[k].by = r[i].by
        /\ \A i, j \in DOMAIN r : i < j /\ r[i].kind = "event" => r[j].by # r[i].by

VARIABLES
    head,           \* the last block
    sent,           \* the last block when the operation was sent
    mined,          \* the block it is in, or Nil
    receipt,        \* the logs of its transaction
    asked,          \* what the search is told: age and payment
    searching,
    latest, lowest, to, size, scannedFrom, requests,     \* as in findUserOperation
    answer

chain == <<head, sent, mined, receipt>>
search == <<asked, latest, lowest>>
loop == <<to, size, scannedFrom>>
searchVars == <<chain, search, loop, searching, requests, answer>>

-----------------------------------------------------------------------------
(* The transfers of an operation.                                          *)

\* Defect: every log before the event is the operation's own.
AllBefore(r, i) == 1 .. i - 1

\* The logs between the event before and the operation's own, at i.
Between(r, i) == {j \in 1 .. i - 1 : \A k \in j .. i - 1 : r[k].kind # "event"}

\* The transfers of the account among the logs S.
Transfers(r, S) == {j \in S : r[j].kind = "transfer" /\ r[j].from = Account}

Check(kind, pays) == [kind |-> kind, pays |-> pays]

\* What is made of the transfers that may be the payment.
TransferCheck(r, matching, payment) ==
    CASE payment # Native /\ Cardinality(matching) = 1 ->
                Check("matched", r[CHOOSE j \in matching : TRUE].pays)
      [] payment \in Payments /\ matching = {} -> Check("missing", Nil)
      [] payment \in Payments /\ Cardinality(matching) > 1 -> Check("ambiguous", Nil)
      [] OTHER -> Check("not-applicable", Nil)

\* A payment that can be read is looked for; else a transfer that stands alone is taken for it.
checkTransfer(r, i, payment) ==
    TransferCheck(r, {j \in Transfers(r, Between(r, i)) : payment = Unread \/ r[j].pays = payment}, payment)

-----------------------------------------------------------------------------
(* The search.                                                             *)

Unreadable(first, last) == [status |-> "unreadable", from |-> first, to |-> last]
Found(success, transfer) == [status |-> "found", success |-> success, transfer |-> transfer]
NotFound(first) ==
    [status |-> "not-found", from |-> IF first > latest THEN latest ELSE first, to |-> latest,
     complete |-> first <= lowest]

\* Half a million blocks for an unknown age; else the age, a margin and two in a hundred.
span(age) ==
    LET estimated == IF age = Nil THEN UnknownAge ELSE age + Margin
        widened == (102 * estimated + 99) \div 100
    IN IF widened < MaxLookback THEN widened ELSE MaxLookback

\* The first block of the window.
from == IF to - size + 1 > lowest THEN to - size + 1 ELSE lowest

\* The answers to an event that was found, at i of the receipt, with the receipt or without.
describeHit(i) ==
    IF receipt[i].sender # Account THEN {Unreadable(Nil, Nil)}
    ELSE IF ~receipt[i].ok THEN {Found(FALSE, Check("not-applicable", Nil))}
    ELSE {Found(TRUE, checkTransfer(receipt, i, asked.payment)),
          Found(TRUE, Check("not-applicable", Nil))}

SearchInit ==
    /\ head \in 0 .. MaxHead /\ sent = head
    /\ mined = Nil /\ receipt = << >>
    /\ asked = Nil /\ searching = FALSE /\ answer = Nil
    /\ latest = 0 /\ lowest = 0 /\ to = 0 /\ size = 0 /\ scannedFrom = 0 /\ requests = 0

\* The next block, with the operation or without.
Grow ==
    /\ head < MaxHead
    /\ head' = head + 1
    /\ \/ UNCHANGED <<mined, receipt>>
       \/ mined = Nil /\ mined' = head' /\ receipt' \in Receipts
    /\ UNCHANGED <<sent, search, loop, searching, requests, answer>>

Begin(age, payment) ==
    /\ ~searching
    /\ asked' = [age |-> age, payment |-> payment]
    /\ latest' \in {head - lag : lag \in 0 .. Behind} \intersect Nat
    /\ lowest' = IF latest' > span(age) THEN latest' - span(age) ELSE 0
    /\ size' = latest' - lowest' + 1 /\ to' = latest' /\ scannedFrom' = latest' + 1
    /\ requests' = 0 /\ searching' = TRUE /\ answer' = Nil
    /\ UNCHANGED chain

\* The number of the last block cannot be read.
BeginFails ==
    /\ ~searching
    /\ answer' = Unreadable(Nil, Nil)
    /\ UNCHANGED <<chain, search, loop, searching, requests>>

\* The loop ends, or goes on.
Ends(answers) == searching' = FALSE /\ answer' \in answers
GoesOn == searching' = TRUE /\ UNCHANGED answer

\* The node refuses the window or chokes on it: the next one is half as wide.
WindowRefused ==
    /\ searching /\ size > Floor
    /\ requests' = requests + 1
    /\ size' = IF size \div 2 > Floor THEN size \div 2 ELSE Floor
    /\ IF requests' = MaxRequests THEN Ends({NotFound(scannedFrom)}) ELSE GoesOn
    /\ UNCHANGED <<chain, search, to, scannedFrom>>

NodeFails ==
    /\ searching
    /\ requests' = requests + 1
    /\ Ends({IF scannedFrom <= latest THEN Unreadable(scannedFrom, latest) ELSE Unreadable(Nil, latest)})
    /\ UNCHANGED <<chain, search, loop>>

\* A node that lags by "lag" has the operation in the window.
Has(lag) == mined # Nil /\ mined \in from .. to /\ mined <= head - lag

WindowHasIt ==
    /\ searching /\ Has(0)
    /\ requests' = requests + 1
    /\ \E i \in DOMAIN receipt : IsEvent(receipt[i], Ours) /\ Ends(describeHit(i))
    /\ UNCHANGED <<chain, search, loop>>

\* Defect: the next window ends a block too early.
SkippingWindow ==
    /\ searching /\ ~Has(Behind)
    /\ requests' = requests + 1
    /\ scannedFrom' = from
    /\ to' = from - 2
    /\ IF from = lowest \/ requests' = MaxRequests THEN Ends({NotFound(from)}) ELSE GoesOn
    /\ UNCHANGED <<chain, search, size>>

WindowIsEmpty ==
    /\ searching /\ ~Has(Behind)
    /\ requests' = requests + 1
    /\ scannedFrom' = from
    /\ to' = IF from = lowest THEN to ELSE from - 1
    /\ IF from = lowest \/ requests' = MaxRequests THEN Ends({NotFound(from)}) ELSE GoesOn
    /\ UNCHANGED <<chain, search, size>>

SearchNext ==
    \/ Grow
    \/ \E age \in Ages, payment \in Payments \union {Native, Unread} : Begin(age, payment)
    \/ BeginFails
    \/ WindowRefused
    \/ NodeFails
    \/ WindowHasIt
    \/ WindowIsEmpty

SearchSpec == SearchInit /\ [][SearchNext]_searchVars

\* What reconcile makes of the answer.
Verdict ==
    IF answer.status # "found" THEN "open"
    ELSE IF ~answer.success THEN "failed"
    ELSE IF answer.transfer.kind \in {"missing", "ambiguous"} THEN "open"
    ELSE "confirmed"

-----------------------------------------------------------------------------
(* Properties.                                                             *)

\* The transfers the operation itself made from the account, by what they pay.
Made(pays) ==
    {i \in Transfers(receipt, DOMAIN receipt) : receipt[i].by = Ours /\ receipt[i].pays = pays}

\* The operation is in a block, was sent by the account that asks, and ran or reverted.
Ran(ok) ==
    mined # Nil /\ \E i \in DOMAIN receipt : /\ IsEvent(receipt[i], Ours) /\ receipt[i].ok = ok
                                            /\ receipt[i].sender = Account

\* A payment is confirmed or failed only if its operation ran or reverted, for this account;
\* and what is said of its transfer is so in the operation's own logs, whoever else is in the
\* bundle and however alike the payments are (describeHit, checkTransfer, reconcile).
VerdictIsTrue ==
    answer # Nil /\ answer.status = "found" =>
        LET transfer == answer.transfer
        IN /\ Verdict = "confirmed" => Ran(TRUE)
           /\ Verdict = "failed" => Ran(FALSE)
           /\ transfer.kind = "matched" => /\ Cardinality(Made(transfer.pays)) = 1
                                          /\ asked.payment \in {transfer.pays, Unread}
           /\ transfer.kind = "missing" => Made(asked.payment) = {}
           /\ transfer.kind = "ambiguous" => Cardinality(Made(asked.payment)) > 1

\* The operation is in none of the blocks, if every node has them.
Outside(first, last) == mined # Nil => mined \notin first .. last - Behind

\* The phone's clock is right, to the margin, and the payment is not too old to be looked for.
ClockIsRight ==
    /\ asked.age # Nil /\ latest <= sent + asked.age + Margin
    /\ span(asked.age) < MaxLookback

\* Whatever windows were refused, narrowed or not reached: an operation that was not found is
\* not in the blocks the answer says were searched; and if it says that they are all, then it
\* was in no block when the search began (findUserOperation).
NothingIsSkipped ==
    answer # Nil /\ answer.status # "found" /\ answer.from # Nil =>
        /\ Outside(answer.from, answer.to)
        /\ answer.status = "not-found" /\ answer.complete /\ ClockIsRight => Outside(0, latest)

\* Whatever the phone is told of its operation is so.
AnswerIsTrue == VerdictIsTrue /\ NothingIsSkipped
=============================================================================
