----------------------------- MODULE GroupScreen ------------------------------
(***************************************************************************)
(* The page of a group, and how a payment made from it is settled:         *)
(*   frontend/app/group-details.tsx, components/groupDetails/*             *)
(*   frontend/services/settlementRecovery.service.ts    the queue          *)
(*   frontend/services/transaction.service.ts           what fills it      *)
(*                                                                         *)
(* One share is owed on this phone, to one other member; how the service   *)
(* keeps shares and quotes is GroupLedger, of which only what one phone    *)
(* can see is here.  The transfer itself is PaymentOperations.             *)
(***************************************************************************)
EXTENDS Integers, FiniteSets, ScreenCommon

CONSTANTS
    Debtor,         \* the person who owes the share
    Others,         \* whoever else signs in on this phone
    Settlements,    \* bound: payments of the share
    Starts          \* bound: how the group may be when the phone first sees it

ASSUME GroupScreenAssumption ==
    /\ Debtor \notin Others /\ None \notin {Debtor} \cup Others \cup Settlements
    /\ \A s \in Starts : s.members = 1 => s.decision = "NONE" /\ ~s.owedToMe

VARIABLES
    user,           \* who is signed in on the phone
    owed,           \* the service: the share, its quote, the group
    page,           \* the page of the group
    transfer,       \* transfer[t]: how far the payment t is, and whether it was mined in time
    queue,          \* storage: payments still to be settled, each under a person's key
    pass            \* the pass over the queue that is under way

groupVars == <<user, owed, page, transfer, queue, pass>>

-----------------------------------------------------------------------------
Decisions == {"ACCEPTED", "DISPUTED"}
NoTransfer == [at |-> "none", inTime |-> FALSE, recorded |-> FALSE]

\* What the page holds of the group when it was last read.
Detail == [owedByMe |-> owed.decision = "ACCEPTED" /\ owed.by = None,
           owedToMe |-> owed.owedToMe, decision |-> owed.decision, settled |-> owed.by # None,
           members |-> owed.members, invited |-> owed.invited]

NoPage == [detail |-> None, load |-> "done", sheet |-> FALSE, busy |-> None]

Begun(s) == [decision |-> s.decision, by |-> None, quote |-> "none", owedToMe |-> s.owedToMe,
             members |-> s.members, invited |-> FALSE, creator |-> s.creator,
             archived |-> FALSE, gone |-> FALSE]

GroupScreenInit ==
    /\ user = None
    /\ owed \in {Begun(s) : s \in Starts}
    /\ page = NoPage
    /\ transfer = [t \in Settlements |-> NoTransfer]
    /\ queue = {}
    /\ pass = None

-----------------------------------------------------------------------------
\* What the page shows, and what it offers.

\* groupLifecycle.ts: the phone only says it first; the service has the last word.
deleteGuard == owed.creator /\ ~page.detail.owedByMe /\ ~page.detail.owedToMe

BalanceRow ==
    IF page.detail.owedByMe THEN "Settle" ELSE IF page.detail.owedToMe THEN "Share a reminder"
    ELSE "No accepted shares to pay"

ShareOffers == IF page.detail.settled \/ page.detail.decision = "NONE" THEN {}
               ELSE Decisions \ {page.detail.decision}

Alone == page.detail # None /\ page.detail.members = 1 /\ ~page.detail.invited

PeopleShown == (page.detail.members - 1) + IF page.detail.invited THEN 1 ELSE 0

\* The list of expenses, the skeleton or the error; the button at the bottom invites whoever is alone.
PageShows ==
    IF page.load # "done" THEN page.load ELSE IF page.detail = None THEN "nothing" ELSE "expenses"
AddButton == IF Alone THEN "invite" ELSE "add expense"

-----------------------------------------------------------------------------
\* The service, as this phone meets it.

Answerable == user = Debtor /\ ~owed.gone
QuoteRunning == owed.quote = "running"

\* The invitation is accepted, an expense with a share comes in, or what is owed here is paid.
OthersChange ==
    /\ ~owed.gone
    /\ \/ owed.invited /\ owed' = [owed EXCEPT !.invited = FALSE, !.members = 2]
       \/ /\ owed.members = 2 /\ owed.decision = "NONE"
          /\ owed' = [owed EXCEPT !.decision = "PENDING"]
       \/ owed.owedToMe /\ owed' = [owed EXCEPT !.owedToMe = FALSE]
    /\ UNCHANGED <<user, page, transfer, queue, pass>>

QuoteExpires == /\ QuoteRunning /\ owed' = [owed EXCEPT !.quote = "none"]
                /\ UNCHANGED <<user, page, transfer, queue, pass>>

-----------------------------------------------------------------------------
\* The page. bound: no answer comes after the page is closed (in ScreenLists it may); one that comes
\* after the sign-out is dropped.

SignsInAs(p) ==
    /\ user # p /\ user' = p
    /\ page' = NoPage
    /\ UNCHANGED <<owed, transfer, queue, pass>>

\* fetchGroupDetail, on opening, after a change, with the retry and when the page is pulled down;
\* when that fails, what stands on the page stays.
fetchDetail == /\ user = Debtor /\ page.busy = None /\ pass = None /\ page.load # "loading"
               /\ page' = [page EXCEPT !.load = "loading"]
               /\ UNCHANGED <<user, owed, transfer, queue, pass>>

DetailRead ==
    /\ page.load = "loading"
    /\ page' \in {[page EXCEPT !.load = "error"]} \cup
                 (IF page.detail # None THEN {[page EXCEPT !.load = "done"]} ELSE {}) \cup
                 (IF Answerable THEN {[page EXCEPT !.load = "done", !.detail = Detail]} ELSE {})
    /\ UNCHANGED <<user, owed, transfer, queue, pass>>

ClosePage == /\ page # NoPage /\ page' = NoPage
             /\ UNCHANGED <<user, owed, transfer, queue, pass>>

\* bound: the person begins nothing on the page while a pass is on its way.
Ready == page.detail # None /\ page.busy = None /\ pass = None

\* decide, archive, remove and the invitation: one call at a time.
decide(d) == /\ Ready /\ d \in ShareOffers
             /\ page' = [page EXCEPT !.busy = d]
             /\ UNCHANGED <<user, owed, transfer, queue, pass>>
archive == /\ Ready /\ page' = [page EXCEPT !.busy = "archive"]
           /\ UNCHANGED <<user, owed, transfer, queue, pass>>
remove == /\ Ready /\ owed.creator
          /\ deleteGuard /\ page' = [page EXCEPT !.busy = "delete"]
          /\ UNCHANGED <<user, owed, transfer, queue, pass>>
invite == /\ Ready /\ Alone
          /\ page' = [page EXCEPT !.busy = "invite"]
          /\ UNCHANGED <<user, owed, transfer, queue, pass>>

\* SettleBottomSheet: open on the copy the page has, it asks for a quote and leaves for "Send".
onSettle == /\ Ready /\ page.detail.owedByMe /\ ~page.sheet /\ page' = [page EXCEPT !.sheet = TRUE]
            /\ UNCHANGED <<user, owed, transfer, queue, pass>>
CloseSheet == /\ page.sheet /\ page' = [page EXCEPT !.sheet = FALSE]
              /\ UNCHANGED <<user, owed, transfer, queue, pass>>
handleSendAndSettle == /\ page.sheet /\ Ready /\ page' = [page EXCEPT !.busy = "quote"]
                       /\ UNCHANGED <<user, owed, transfer, queue, pass>>

\* What the service does with the call, if it lets it. A running quote is handed out again.
Handled(what) ==
    CASE what \in {"ACCEPTED", "DISPUTED"} ->
            IF owed.by = None /\ ~QuoteRunning /\ owed.decision # "NONE" THEN [owed EXCEPT !.decision = what] ELSE None
      [] what = "archive" -> [owed EXCEPT !.archived = TRUE]
      [] what = "invite" -> [owed EXCEPT !.invited = TRUE]
      [] what = "delete" -> IF (owed.decision = "NONE" \/ owed.by # None) /\ ~owed.owedToMe
                               /\ ~QuoteRunning THEN [owed EXCEPT !.gone = TRUE] ELSE None
      [] OTHER -> IF QuoteRunning THEN owed
                  ELSE IF owed.decision = "ACCEPTED" /\ owed.by = None
                  THEN [owed EXCEPT !.quote = "running"] ELSE None

CallAnswers ==
    /\ page.busy # None /\ Answerable /\ Handled(page.busy) # None
    /\ owed' = Handled(page.busy)
    /\ CASE page.busy \in {"archive", "delete"} -> page' = NoPage /\ UNCHANGED transfer
         [] page.busy = "quote" ->
               /\ page' = NoPage
               /\ \E t \in Settlements : /\ transfer[t].at = "none"
                                         /\ transfer' = [transfer EXCEPT ![t].at = "review"]
         [] OTHER -> /\ page' = [page EXCEPT !.busy = None, !.load = "loading"]
                     /\ UNCHANGED transfer
    /\ UNCHANGED <<user, queue, pass>>

\* Refused, lost on the way, or handled with the answer lost.
CallFails ==
    /\ page.busy # None
    /\ page' = [page EXCEPT !.busy = None]
    /\ \/ UNCHANGED owed
       \/ Answerable /\ Handled(page.busy) # None /\ owed' = Handled(page.busy)
    /\ UNCHANGED <<user, transfer, queue, pass>>

-----------------------------------------------------------------------------
\* "Send": the quote is looked at when the payment is confirmed; it may lapse before it is mined.

ConfirmSettlement(t) ==
    /\ user = Debtor /\ transfer[t].at = "review"
    /\ transfer' = [transfer EXCEPT ![t].at = IF QuoteRunning THEN "sending" ELSE "none"]
    /\ UNCHANGED <<user, owed, page, queue, pass>>

Mined(t) ==
    /\ transfer[t].at = "sending"
    /\ transfer' = [transfer EXCEPT ![t] = [@ EXCEPT !.at = "mined", !.inTime = QuoteRunning]]
    /\ UNCHANGED <<user, owed, page, queue, pass>>

NotSent(t) == /\ transfer[t].at \in {"review", "sending"}
              /\ transfer' = [transfer EXCEPT ![t].at = "none"]
              /\ UNCHANGED <<user, owed, page, queue, pass>>

\* queueSettlement: under the key of whoever is signed in by then; with nobody signed in, or when
\* the write fails, only the receipt is left. The payment is recorded by way of its own outbox.
queueSettlement(t) ==
    /\ transfer[t].at = "mined"
    /\ transfer' = [transfer EXCEPT ![t].at = "returned"]
    /\ \/ queue' = queue \cup {[of |-> user, pays |-> t] : p \in {user} \ {None}}
       \/ UNCHANGED queue
    /\ UNCHANGED <<user, owed, page, pass>>

-----------------------------------------------------------------------------
\* settlementRecovery.service.ts: at every sign-in, after a payment, and with "Check pending
\* payments"; one pass at a time.

retryPendingSettlements ==
    /\ user # None /\ pass = None
    /\ pass' = [of |-> user, left |-> {e.pays : e \in {q \in queue : q.of = user}}, on |-> None, step |-> "next"]
    /\ UNCHANGED <<user, owed, page, transfer, queue>>

\* The next key; another person signed in ends the pass.
PassTakes(t) ==
    /\ pass # None /\ pass.step = "next" /\ user = pass.of /\ t \in pass.left
    /\ pass' = [pass EXCEPT !.left = @ \ {t}, !.on = t, !.step = "sync"]
    /\ UNCHANGED <<user, owed, page, transfer, queue>>

PassEnds == /\ pass # None /\ pass.step = "next" /\ (user # pass.of \/ pass.left = {})
            /\ pass' = None
            /\ UNCHANGED <<user, owed, page, transfer, queue>>

\* Both requests go out with the token of whoever is signed in then.
Synced(t) == /\ pass # None /\ pass.step = "sync" /\ pass.on = t /\ user = Debtor
             /\ transfer' = [transfer EXCEPT ![t].recorded = TRUE]
             /\ pass' = [pass EXCEPT !.step = "settle"]
             /\ UNCHANGED <<user, owed, page, queue>>

\* Defect: a payment settles only while its quote runs.
SettleableInTime(t) == /\ user = Debtor /\ transfer[t].recorded /\ transfer[t].inTime
                       /\ owed.by = t \/ (owed.by = None /\ QuoteRunning)

\* settleAllWithMemberByInternalTx: what was settled with this payment is settled again at no cost.
Settleable(t) == /\ user = Debtor /\ transfer[t].recorded /\ transfer[t].inTime
                 /\ owed.by = t \/ (owed.by = None /\ owed.decision = "ACCEPTED")

Settled(t) == /\ pass # None /\ pass.step = "settle" /\ pass.on = t /\ Settleable(t)
              /\ owed' = [owed EXCEPT !.by = t, !.quote = "none"]
              /\ queue' = queue \ {[of |-> pass.of, pays |-> t]}
              /\ pass' = [pass EXCEPT !.step = "next"]
              /\ UNCHANGED <<user, page, transfer>>

\* Defect: a key that failed is taken off the queue.
KeyIsForgotten ==
    /\ pass # None /\ pass.step \in {"sync", "settle"}
    /\ queue' = queue \ {[of |-> pass.of, pays |-> pass.on]}
    /\ pass' = [pass EXCEPT !.step = "next"]
    /\ UNCHANGED <<user, owed, page, transfer>>

\* Refused, not reached, or handled with the answer lost: the key stays for the next pass.
KeyFails ==
    /\ pass # None /\ pass.step \in {"sync", "settle"}
    /\ \/ UNCHANGED <<owed, transfer>>
       \/ /\ pass.step = "sync" /\ user = Debtor
          /\ transfer' = [transfer EXCEPT ![pass.on].recorded = TRUE] /\ UNCHANGED owed
       \/ /\ pass.step = "settle" /\ Settleable(pass.on)
          /\ owed' = [owed EXCEPT !.by = pass.on, !.quote = "none"] /\ UNCHANGED transfer
    /\ pass' = [pass EXCEPT !.step = "next"]
    /\ UNCHANGED <<user, page, queue>>

\* The process dies: what is queued survives, a payment that had not returned is not queued.
GroupAppDies ==
    /\ page' = NoPage /\ pass' = None
    /\ transfer' = [t \in Settlements |-> IF transfer[t].at \in {"sending", "mined"}
                                          THEN [transfer[t] EXCEPT !.at = "returned"]
                                          ELSE IF transfer[t].at = "review" THEN NoTransfer ELSE transfer[t]]
    /\ <<page', pass', transfer'>> # <<page, pass, transfer>>
    /\ UNCHANGED <<user, owed, queue>>

-----------------------------------------------------------------------------
PassStep == PassEnds \/ KeyFails \/ \E t \in Settlements : PassTakes(t) \/ Synced(t) \/ Settled(t)
GroupCall == DetailRead \/ CallAnswers \/ CallFails

GroupPageNext ==
    \/ fetchDetail \/ ClosePage \/ archive \/ remove \/ invite \/ onSettle \/ CloseSheet
    \/ handleSendAndSettle \/ \E d \in Decisions : decide(d)

GroupScreenNext ==
    \/ OthersChange \/ QuoteExpires \/ (\E p \in {Debtor, None} \cup Others : SignsInAs(p))
    \/ GroupPageNext \/ GroupCall \/ GroupAppDies
    \/ \E t \in Settlements : ConfirmSettlement(t) \/ Mined(t) \/ NotSent(t) \/ queueSettlement(t)
    \/ retryPendingSettlements \/ PassStep

-----------------------------------------------------------------------------
\* Properties.

StillQueued(t) == \E e \in queue : e.pays = t /\ e.of = Debtor
Unsettled == owed.by = None /\ owed.decision = "ACCEPTED" /\ user = Debtor

\* What the page says of the share is so, although it was read earlier and others change the
\* group: paid is paid, and who is asked to invite somebody is alone.
PageTellsTruth ==
    /\ PageShows = "expenses" => user = Debtor
    /\ page.detail # None =>
          /\ page.detail.settled => (owed.by # None /\ ShareOffers = {} /\ BalanceRow # "Settle")
          /\ AddButton = "invite" => PeopleShown = 0

\* An entry leaves the queue only when its payment has settled the share, whoever signs in or out
\* while a pass is on its way and whatever is lost.
EntryLeavesWhenSettled == [][\A e \in queue : e \notin queue' => owed'.by = e.pays]_groupVars

\* A payment mined while its quote ran, and queued under whoever made it, settles the share in the
\* end, also after the quote has run out, unless they sign out or dispute the share.
QueuedIsSettled == \A t \in Settlements : (StillQueued(t) /\ transfer[t].inTime /\ Unsettled) ~> ~Unsettled
=============================================================================
