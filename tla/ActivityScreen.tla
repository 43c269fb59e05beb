---------------------------- MODULE ActivityScreen ----------------------------
(***************************************************************************)
(* "Activity": the cards about payments that are not settled.              *)
(*   frontend/hooks/usePaymentOperations.ts      what the screen holds     *)
(*   frontend/utils/operationPresentation.ts     what a card says          *)
(*   frontend/components/activity/OperationCards.tsx                       *)
(*                                                                         *)
(* The tab stays mounted while other screens pay, so what it holds is a    *)
(* copy.  How a payment is sent and found is PaymentOperations; here it is *)
(* only what changes the stored record of one account.  An answer of the   *)
(* provider or the chain is true or says nothing, every payment reads as   *)
(* one transfer, and none stays released for two weeks.                    *)
(***************************************************************************)
EXTENDS Integers, FiniteSets, ScreenCommon

CONSTANTS
    Operations,     \* payments of the account
    Aging           \* bound: those of them that grow old while they are looked at

RecordPhases == {"submitting", "submitted", "failed"}

ASSUME ActivityAssumption ==
    /\ None \notin Operations \cup {"confirmed", "failed"} \cup [op : Operations, phase : RecordPhases]
    /\ Aging \subseteq Operations /\ IsFiniteSet(Aging)

VARIABLES
    fate,           \* fate[o]: what became of o on the chain
    age,            \* age[o]: 1 after half an hour, 2 after two hours
    phone,          \* storage: the record, the watch list, the outbox; and the lock of the wallet
    books,          \* what the service has recorded, and what of it the history lists
    tab             \* what the screen holds

activityVars == <<fate, age, phone, books, tab>>

-----------------------------------------------------------------------------
\* operationRecord.ts

StillOpen(o) == fate[o] = "open"

isUnresolved(record) == record # None /\ record.phase # "failed"

\* A payment nobody can find waits half an hour, one the provider has two hours. A record of an
\* earlier version has no time and is taken to be older than that.
releaseAllowed(o, kind) == age[o] >= IF kind = "pending" THEN 2 ELSE 1

\* classifyProviderError, interpretCallsStatus: only an explicit answer settles a payment.
VerdictsOn(o) ==
    {"pending", "unknown"} \cup (CASE fate[o] = "landed" -> {"confirmed"}
                                   [] fate[o] = "reverted" -> {"failed"}
                                   [] OTHER -> {})

-----------------------------------------------------------------------------
\* operationPresentation.ts: what a card says, of which payment, and what it offers.

OperationCard(says, of, offers) == [says |-> says, of |-> of, offers |-> offers]

ReportNone == [status |-> None, of |-> None, releasable |-> FALSE]
Report(status, of, releasable) == [status |-> status, of |-> of, releasable |-> releasable]

cardForReport(report) ==
    OperationCard(report.status, report.of,
        CASE report.status = "busy" -> {"check"}
          [] report.status \in {"confirmed", "failed"} -> {"dismiss"}
          [] OTHER -> {"check"} \cup (IF report.releasable THEN {"release"} ELSE {}))

cardForRecord(record) ==
    IF record.phase = "failed" THEN cardForReport(Report("failed", record.op, FALSE))
    ELSE OperationCard(record.phase, record.op, {"check"})

cardForOutbox(entry) ==
    OperationCard(entry.state, entry.op, IF entry.state = "rejected" THEN {} ELSE {"retry-recording"})

hideRecorded(entries) == {entry \in entries : entry.op \notin books.listed}

\* What was reported last comes before what is stored; a confirmed payment has the card of its
\* recording, and a released one that landed has a card of its own.
Cards ==
    LET below == hideRecorded(tab.outbox)
    IN  (IF tab.report.status # None
         THEN {cardForReport(r) : r \in {q \in {tab.report} : ~(q.status = "confirmed"
                                         /\ \E entry \in below : entry.op = q.of)}}
         ELSE {cardForRecord(r) : r \in {tab.record} \ {None}})
        \cup {OperationCard("landed", o, {"dismiss"}) : o \in tab.landed}
        \cup {cardForOutbox(entry) : entry \in below}

\* unsettledPayments.ts: the line an account carries in the list of accounts.
badgeFor == IF isUnresolved(phone.record) THEN "waiting to be verified"
            ELSE IF phone.outbox # {} THEN "not yet in history" ELSE "none"

-----------------------------------------------------------------------------
Unmounted == [account |-> None, record |-> None, report |-> ReportNone, outbox |-> {}, landed |-> {},
              checking |-> FALSE, visit |-> "done", asks |-> FALSE]

\* The record may be one that an earlier version of the app has left.
ActivityInit ==
    /\ \E left \in SUBSET Aging :
          /\ Cardinality(left) <= 1
          /\ fate = [o \in Operations |-> IF o \in left THEN "open" ELSE "unused"]
          /\ age = [o \in Operations |-> IF o \in left THEN 2 ELSE 0]
          /\ phone = [record |-> IF left = {} THEN None
                                 ELSE [op |-> CHOOSE o \in left : TRUE, phase |-> "submitted"],
                      watched |-> {}, outbox |-> {}, lock |-> "free"]
    /\ books = [recorded |-> {}, listed |-> {}]
    /\ tab = Unmounted

\* The chain and the clock.
Settles(o) == /\ StillOpen(o)
              /\ \E end \in {"landed", "reverted"} : fate' = [fate EXCEPT ![o] = end]
              /\ UNCHANGED <<age, phone, books, tab>>

Ages(o) == /\ o \in Aging /\ fate[o] # "unused" /\ age[o] < 2
           /\ age' = [age EXCEPT ![o] = @ + 1]
           /\ UNCHANGED <<fate, phone, books, tab>>

\* settle: the verdict on the record, its storage, and what is reported of it.
Queued(ph, o) == [ph EXCEPT !.outbox = IF \E entry \in @ : entry.op = o THEN @
                                       ELSE @ \cup {[op |-> o, state |-> "queued"]}]
settle(ph, verdict) ==
    CASE verdict = "confirmed" -> [Queued(ph, ph.record.op) EXCEPT !.record = None]
      [] verdict = "failed" -> [ph EXCEPT !.record.phase = "failed"]
      [] OTHER -> ph
reportOf(record, verdict) ==
    Report(verdict, record.op, verdict \in {"pending", "unknown"} /\ releaseAllowed(record.op, verdict))

\* A payment from "Send": the gate settles the one before, which may hold it up.
PayStarts == /\ phone.lock = "free" /\ tab.account # "other"
             /\ phone' = [phone EXCEPT !.lock = "gate"]
             /\ UNCHANGED <<fate, age, books, tab>>

beforeSend(o) ==
    /\ phone.lock = "gate" /\ fate[o] = "unused"
    /\ LET begun == [op |-> o, phase |-> "submitting"]
       IN \E verdict \in IF isUnresolved(phone.record) THEN VerdictsOn(phone.record.op) ELSE {"failed"} :
             IF verdict = "failed"
             THEN /\ phone' = [phone EXCEPT !.record = begun, !.lock = "send"]
                  /\ fate' = [fate EXCEPT ![o] = "open"]
             ELSE /\ phone' = [settle(phone, verdict) EXCEPT !.lock = "free"]
                  /\ UNCHANGED fate
    /\ UNCHANGED <<age, books, tab>>

\* The reply with the call id, then the end of the wait: settled, refused, or not known.
PaySubmitted == /\ phone.lock = "send" /\ phone.record.phase = "submitting"
                /\ phone' = [phone EXCEPT !.record.phase = "submitted"]
                /\ UNCHANGED <<fate, age, books, tab>>

PayEnds ==
    /\ phone.lock = "send"
    /\ \E verdict \in VerdictsOn(phone.record.op) :
          phone' = IF verdict = "failed" THEN [phone EXCEPT !.record = None, !.lock = "free"]
                   ELSE [settle(phone, verdict) EXCEPT !.lock = "free"]
    /\ UNCHANGED <<fate, age, books, tab>>

-----------------------------------------------------------------------------
\* The screen. "own" is the account with these payments, "other" one without any.

Mine == tab.account = "own"

\* refresh: the record and the outbox of the account in view.
ReadFrom(ph, t) == [t EXCEPT !.record = IF t.account = "own" THEN ph.record ELSE None,
                             !.outbox = IF t.account = "own" THEN ph.outbox ELSE {}]

\* Opened, or the account switched while it is mounted: nothing of the account before remains, and
\* the visit begins.
Shows(account) ==
    /\ account # tab.account
    /\ tab' = IF account = None THEN Unmounted
              ELSE ReadFrom(phone, [Unmounted EXCEPT !.account = account, !.checking = tab.checking,
                                                     !.visit = "peek"])
    /\ UNCHANGED <<fate, age, phone, books>>

\* Pulled down, or the flush when the app comes back from the background finds nothing to record.
PullToRefresh == /\ tab.account # None /\ tab' = ReadFrom(phone, tab)
                 /\ books' = [books EXCEPT !.listed = books.recorded]
                 /\ UNCHANGED <<fate, age, phone>>

\* check: one per account at a time; a second one reports that the wallet is busy.
Checks(t) == IF phone.lock = "free" THEN [t EXCEPT !.checking = TRUE]
             ELSE ReadFrom(phone, [t EXCEPT !.report = Report("busy", None, FALSE)])
check == /\ Mine /\ ~tab.checking /\ \E card \in Cards : "check" \in card.offers
         /\ tab' = Checks(tab)
         /\ phone' = [phone EXCEPT !.lock = IF @ = "free" THEN "check" ELSE @]
         /\ UNCHANGED <<fate, age, books>>

\* The answer; for an account that is no longer in view it only counts in storage.
CheckAnswers ==
    /\ phone.lock = "check"
    /\ LET record == phone.record
           closes(ph, report) == IF Mine THEN ReadFrom(ph, [tab EXCEPT !.checking = FALSE, !.report = report])
                                 ELSE [tab EXCEPT !.checking = FALSE]
       IN IF record = None
          THEN phone' = [phone EXCEPT !.lock = "free"] /\ tab' = closes(phone', ReportNone)
          ELSE \E verdict \in IF isUnresolved(record) THEN VerdictsOn(record.op) ELSE {"failed"} :
                  /\ phone' = [settle(phone, verdict) EXCEPT !.lock = "free"]
                  /\ tab' = closes(phone', reportOf(record, verdict))
    /\ UNCHANGED <<fate, age, books>>

\* The storage of the phone fails: that says nothing of the payment, whichever account is in view.
CheckFails ==
    /\ phone.lock = "check"
    /\ phone' = [phone EXCEPT !.lock = "free"]
    /\ tab' = IF tab.account = None THEN tab
              ELSE [tab EXCEPT !.checking = FALSE, !.report = Report("unknown", None, FALSE)]
    /\ UNCHANGED <<fate, age, books>>

\* Once a visit: a check when something waits, then the released payments, then the recordings.
VisitPeeks ==
    /\ tab.visit = "peek" /\ ~tab.checking
    /\ IF Mine /\ phone.record # None
       THEN /\ tab' = [Checks(tab) EXCEPT !.visit = "released"]
            /\ phone' = [phone EXCEPT !.lock = IF @ = "free" THEN "check" ELSE @]
       ELSE /\ tab' = [tab EXCEPT !.visit = IF Mine THEN "released" ELSE "done"]
            /\ UNCHANGED phone
    /\ UNCHANGED <<fate, age, books>>

\* checkReleased: with the wallet busy the visit ends here. The owner may have paid again since.
VisitLooksAgain ==
    /\ tab.visit = "released" /\ ~tab.checking
    /\ IF phone.lock # "free"
       THEN tab' = [tab EXCEPT !.visit = "done"] /\ UNCHANGED phone
       ELSE \E said \in [phone.watched -> {"pending", "unknown", "confirmed", "failed"}] :
               /\ \A o \in phone.watched : said[o] \in VerdictsOn(o)
               /\ LET landed == {o \in phone.watched : said[o] = "confirmed"}
                  IN /\ phone' = [phone EXCEPT
                           !.watched = {o \in phone.watched : said[o] \in {"pending", "unknown"}},
                           !.outbox = @ \cup {[op |-> o, state |-> "queued"] : o \in
                                                {q \in landed : \A entry \in @ : entry.op # q}}]
                     /\ tab' = [tab EXCEPT !.visit = "flush", !.landed = IF landed = {} THEN @ ELSE landed]
    /\ UNCHANGED <<fate, age, books>>

VisitFlushes == /\ tab.visit = "flush" /\ tab' = ReadFrom(phone, [tab EXCEPT !.visit = "done"])
                /\ UNCHANGED <<fate, age, phone, books>>

\* flush: at the end of a visit, back from the background, or "Record it now". The service records
\* an entry, refuses it for good, or is not reached; the history is read again.
flush(entry) ==
    /\ Mine /\ entry \in phone.outbox /\ entry.state = "queued"
    /\ \/ /\ phone' = [phone EXCEPT !.outbox = @ \ {entry}]
          /\ books' = [books EXCEPT !.recorded = @ \cup {entry.op}]
       \/ /\ phone' = [phone EXCEPT !.outbox = (@ \ {entry}) \cup {[entry EXCEPT !.state = "rejected"]}]
          /\ UNCHANGED books
    /\ tab' = ReadFrom(phone', tab)
    /\ UNCHANGED <<fate, age>>

HistoryReads == /\ books' = [books EXCEPT !.listed = books.recorded]
                /\ UNCHANGED <<fate, age, phone, tab>>

\* confirmRelease: the alert, which stays up whatever happens behind it, and its answer.
confirmRelease == /\ \E card \in Cards : "release" \in card.offers
                  /\ tab' = [tab EXCEPT !.asks = TRUE]
                  /\ UNCHANGED <<fate, age, phone, books>>

KeepWaiting == /\ tab.asks /\ tab' = [tab EXCEPT !.asks = FALSE]
               /\ UNCHANGED <<fate, age, phone, books>>

\* Whatever the account has on record then is what moves to the watch list.
release ==
    /\ tab.asks
    /\ IF phone.lock # "free"
       THEN tab' = [tab EXCEPT !.asks = FALSE] /\ UNCHANGED phone
       ELSE /\ phone' = [phone EXCEPT !.record = None,
                           !.watched = @ \cup (IF isUnresolved(phone.record) THEN {phone.record.op} ELSE {})]
            /\ tab' = ReadFrom(phone', [tab EXCEPT !.asks = FALSE, !.report = ReportNone])
    /\ UNCHANGED <<fate, age, books>>

\* "Done" and "Got it": the note of a failed payment goes, unless the wallet is busy.
dismiss ==
    /\ \E card \in Cards : "dismiss" \in card.offers
    /\ LET clears == tab.report.status # "confirmed"
       IN /\ clears => phone.lock = "free"
          /\ phone' = IF clears /\ phone.record # None /\ phone.record.phase = "failed"
                      THEN [phone EXCEPT !.record = None] ELSE phone
    /\ tab' = ReadFrom(phone', [tab EXCEPT !.report = ReportNone])
    /\ UNCHANGED <<fate, age, books>>

\* The process dies: storage survives.
AppDies == /\ tab.account # None
           /\ phone' = [phone EXCEPT !.lock = "free"]
           /\ books' = [books EXCEPT !.listed = {}]
           /\ tab' = Unmounted
           /\ UNCHANGED <<fate, age>>

-----------------------------------------------------------------------------
Paying == PayStarts \/ PaySubmitted \/ PayEnds \/ \E o \in Operations : beforeSend(o) \/ Settles(o) \/ Ages(o)
Visit == VisitPeeks \/ VisitLooksAgain \/ VisitFlushes
ActivityNext ==
    \/ Paying \/ Visit \/ PullToRefresh \/ HistoryReads
    \/ \E account \in {"own", "other", None} : Shows(account)
    \/ check \/ CheckAnswers \/ CheckFails
    \/ \E entry \in phone.outbox : flush(entry)
    \/ confirmRelease \/ KeepWaiting \/ release \/ dismiss \/ AppDies

ActivitySpec == ActivityInit /\ [][ActivityNext]_activityVars

-----------------------------------------------------------------------------
\* Properties.

\* The screen never says more than is known: "did not go through" only of a payment that reverted,
\* "confirmed", "went through" and "made" only of one that landed; no payment is shown under an
\* account that did not make it; and an account without a badge has no payment that may still go
\* through and is not watched.
ActivityTellsTruth ==
    /\ \A card \in Cards :
          /\ card.says = "failed" => fate[card.of] = "reverted"
          /\ card.says \in {"confirmed", "landed", "queued", "rejected"} => fate[card.of] = "landed"
          /\ card.of # None => Mine
    /\ badgeFor = "none" => \A o \in Operations : StillOpen(o) => o \in phone.watched

\* "A payment nobody can find can be released this long after it was sent"
\* (utils/operationRecord.ts:214).
ReleasedIsOld == [][\A o \in phone'.watched \ phone.watched : age[o] >= 1]_activityVars
=============================================================================
