---------------------------- MODULE ScreenProofs ----------------------------
(***************************************************************************)
(* The screens of the phone, for any people, tokens, fees, addresses,      *)
(* wallets and handles, and any number of calls under way:                 *)
(*   Send               what is signed, and whose fee is on the screen;    *)
(*   Add money          only a checkout of the sandbox opens;              *)
(*   Receive            an address that is shown is derived or unchecked;  *)
(*   External wallet    signed out is signed out;                          *)
(*   Choosing a handle  an answer is about the handle that stands there;   *)
(*   Lists              nothing on screen is another person's, and what    *)
(*                      stands gives way only to what is newer;            *)
(*   Activity           what is said of a payment became of it;            *)
(*   Page of a group    a share that is settled is settled.                *)
(* Each has an inductive invariant over the variables of its own module.   *)
(* One area of the app moves at a time, so a step of ScreensNext is a step *)
(* of that module or leaves its variables alone (the lemmas ...Moves), and *)
(* the theorems are about ScreensSpec, as the run of MCScreens is.         *)
(***************************************************************************)
EXTENDS Screens, FiniteSetTheorems, TLAPS

-----------------------------------------------------------------------------
(* Send, and paying a merchant.                                            *)

Subjects == Recipients \X Tokens

Quotes == {quote \in [status : {"idle", "loading", "ready", "unavailable"}, fee : Fees \cup {NoFee},
                      of : Subjects \cup {None}] : quote.status = "ready" => quote.fee \in Fees}
Places == {"home", "recipient", "amount", "merchant"}
Swipes == {"rest", "timer", "done"}
Typed == Nat \cup {None, TooFine}
MaybeRuns == Runs \cup {None}
MaybePayments == Payments \cup {None}

\* What is in view. A quote called ready holds a real fee.
Screen == [at : Places, to : Recipients \cup {None}, token : Tokens, amount : Typed,
           fixed : BOOLEAN, lapsed : BOOLEAN, quote : Quotes, newest : MaybeRuns, review : BOOLEAN,
           swipe : Swipes, mine : MaybePayments, last : MaybePayments, unknown : BOOLEAN, wallet : BOOLEAN]

\* A payment the wallet is asked for, and one that is over.
Requested == [from : {"amount", "merchant"}, to : Recipients, token : Tokens, amount : Nat \cup {TooFine},
          fee : Fees \cup {NoFee}, funds : [Tokens -> Nat], step : {"asked", "signed", "accepted"},
          cost : Fees \cup {NoFee}]
Ended == [step : {"refused", "failed", "unknown", "done"}]

Balances == [Tokens -> Nat \cup {Unread}]
Estimators == [Runs -> Subjects \cup {None}]

ShownIsTyped == shown \in Screen
PaidIsTyped == paid \in [Payments -> {None} \cup Requested \cup Ended]
OtherTypes == balance \in Balances /\ asked \in Estimators

SendInv == ShownIsTyped /\ PaidIsTyped /\ OtherTypes /\ NothingAboveShown

-----------------------------------------------------------------------------
\* What an estimator leaves behind.
LEMMA Estimated ==
    ASSUME SendAssumption, OtherTypes, NEW sheet, sheet \in Screen, Estimating(sheet)
    PROVE  shown' \in Screen /\ asked' \in Estimators
<1>1. CASE sheet.to = None \/ ~sheet.wallet
  <2>1. Idle \in Quotes /\ None \in MaybeRuns
    BY SendAssumption DEF Idle, Quote, Quotes, MaybeRuns
  <2>2. shown' \in Screen
    BY <1>1, <2>1 DEF Estimating, Screen
  <2> QED BY <1>1, <2>2 DEF Estimating, OtherTypes
<1>2. CASE ~(sheet.to = None \/ ~sheet.wallet)
  <2>1. NextRun \in Runs
    BY <1>2 DEF Estimating, NextRun, FreeRuns
  <2>2. <<sheet.to, sheet.token>> \in Subjects
    BY <1>2 DEF Screen, Subjects
  <2>3. Quote("loading", NoFee, <<sheet.to, sheet.token>>) \in Quotes /\ NextRun \in MaybeRuns
    BY <2>1, <2>2 DEF Quote, Quotes, MaybeRuns
  <2>4. shown' \in Screen
    BY <1>2, <2>3 DEF Estimating, Screen
  <2>5. asked' \in Estimators
    BY <1>2, <2>1, <2>2 DEF Estimating, OtherTypes, Estimators
  <2> QED BY <2>4, <2>5
<1> QED BY <1>1, <1>2

LEMMA Edited ==
    ASSUME SendAssumption, OtherTypes, NEW sheet, sheet \in Screen, Edit(sheet)
    PROVE  shown' \in Screen /\ asked' \in Estimators
BY Estimated DEF Edit, OtherTypes

LEMMA Refreshed ==
    ASSUME SendAssumption, OtherTypes, NEW sheet, sheet \in Screen, Refresh(sheet)
    PROVE  shown' \in Screen /\ asked' \in Estimators
BY Estimated DEF Refresh, OtherTypes

\* What is left of a balance after the fee is a number, where a fee is known.
LEMMA MaxIsNumber ==
    ASSUME SendAssumption, ShownIsTyped, OtherTypes, MaxFee # NoFee, balance[FeeToken] # Unread
    PROVE  maxSendable(balance[FeeToken], MaxFee) \in Nat
<1>1. MaxFee \in Nat
  BY DEF MaxFee, ShownIsTyped, Quotes, Screen, SendAssumption
<1>2. balance[FeeToken] \in Nat
  BY DEF OtherTypes, Balances, SendAssumption
<1> QED BY <1>1, <1>2 DEF maxSendable, Max0

\* What an answer puts in the place of a quote.
LEMMA QuoteReplaced ==
    ASSUME NEW sheet \in Screen, NEW quote \in Quotes, NEW newest \in MaybeRuns
    PROVE  [sheet EXCEPT !.quote = quote, !.newest = newest] \in Screen
BY Zenon DEF Screen

LEMMA EstimateIsQuote ==
    ASSUME SendAssumption, NEW fee \in Estimates, NEW of \in Subjects
    PROVE  Quote(IF isUsableFee(fee) THEN "ready" ELSE "unavailable", fee, of) \in Quotes
BY DEF Estimates, isUsableFee, Quote, Quotes, SendAssumption

-----------------------------------------------------------------------------
\* The sheet: whatever is typed, chosen, pasted, or answered leaves a screen.

LEMMA ClosedIsScreen == SendAssumption => Closed \in Screen
<1> SUFFICES ASSUME SendAssumption PROVE Closed \in Screen
  OBVIOUS
<1>1. Idle \in Quotes
  BY DEF Idle, Quote, Quotes
<1> QED BY <1>1 DEF Closed, Screen, Places, Swipes, Typed, MaybeRuns, MaybePayments, SendAssumption

LEMMA OpeningKeeps ==
    ASSUME SendAssumption, SendInv,
           \/ OpenSend \/ OpenMerchant \/ handleBack \/ handleClose
           \/ \E to \in Recipients : handleSelectRecipient(to)
    PROVE  shown' \in Screen /\ asked' \in Estimators /\ UNCHANGED <<balance, paid>>
<1> USE DEF SendInv
<1>1. ASSUME NEW at \in {"amount", "recipient", "merchant"}, NEW to \in Recipients \cup {None},
             NEW amount \in Amounts \cup {None}, Open(at, to, amount)
      PROVE  shown' \in Screen
  BY <1>1, ClosedIsScreen, Zenon DEF Open, Screen, Places, Typed, SendAssumption
<1>2. CASE OpenSend \/ OpenMerchant
  BY <1>1, <1>2 DEF OpenSend, OpenMerchant, Open, OtherTypes
<1>3. CASE handleBack \/ handleClose
  BY <1>3, ClosedIsScreen DEF handleBack, handleClose, OtherTypes, Screen, Places
<1>4. ASSUME NEW to \in Recipients, handleSelectRecipient(to)
      PROVE  shown' \in Screen /\ asked' \in Estimators /\ UNCHANGED <<balance, paid>>
  <2>1. [Closed EXCEPT !.at = "amount", !.to = to] \in Screen
    BY ClosedIsScreen, Zenon DEF Screen, Places
  <2> QED BY <1>4, <2>1, Edited DEF handleSelectRecipient
<1> QED BY <1>2, <1>3, <1>4

LEMMA TypingKeeps ==
    ASSUME SendAssumption, SendInv,
           \/ \E amount \in Amounts \cup {None, TooFine} : handleAmountChange(amount)
           \/ handleQuickAmount \/ SendMax
           \/ \E token \in Tokens : handleTokenSelect(token)
           \/ \E to \in Recipients \cup {None} : TypeRecipient(to)
           \/ \E request \in PaymentRequests : pastePaymentRequest(request)
    PROVE  shown' \in Screen /\ asked' \in Estimators /\ UNCHANGED <<balance, paid>>
<1> USE DEF SendInv
<1>1. ASSUME NEW amount \in Amounts \cup {None, TooFine}, handleAmountChange(amount)
      PROVE  shown' \in Screen /\ asked' \in Estimators /\ UNCHANGED <<balance, paid>>
  BY <1>1 DEF handleAmountChange, ShownIsTyped, OtherTypes, Screen, Typed, SendAssumption
<1>2. ASSUME NEW amount \in Typed, shown' = [shown EXCEPT !.amount = amount]
      PROVE  shown' \in Screen
  BY <1>2 DEF ShownIsTyped, Screen
<1>3. CASE handleQuickAmount
  <2> DEFINE most == IF shown.token = FeeToken THEN maxSendable(balance[FeeToken], MaxFee) ELSE balance[shown.token]
  <2>1. most \in Nat
    <3>1. CASE shown.token = FeeToken
      <4>1. shown.quote.status = "ready"
        BY <1>3, <3>1 DEF handleQuickAmount, QuickOffers
      <4>2. MaxFee # NoFee
        BY <4>1 DEF MaxFee, ShownIsTyped, Screen, Quotes, SendAssumption
      <4>3. balance[FeeToken] # Unread
        BY <1>3, <3>1 DEF handleQuickAmount
      <4> QED BY <3>1, <4>2, <4>3, MaxIsNumber
    <3>2. CASE shown.token # FeeToken
      <4>1. shown.token \in Tokens
        BY DEF ShownIsTyped, Screen
      <4> QED BY <1>3, <3>2, <4>1 DEF handleQuickAmount, OtherTypes, Balances
    <3> QED BY <3>1, <3>2
  <2>2. (IF most = 0 THEN None ELSE most) \in Typed
    BY <2>1 DEF Typed
  <2>3. shown' = [shown EXCEPT !.amount = IF most = 0 THEN None ELSE most]
    BY <1>3 DEF handleQuickAmount
  <2> HIDE DEF most
  <2> QED BY <1>2, <1>3, <2>2, <2>3 DEF handleQuickAmount, OtherTypes
<1>4. CASE SendMax
  <2>1. MaxFee # NoFee
    BY <1>4 DEF SendMax, FundsMessage, assessSend, isUsableFee
  <2>2. balance[FeeToken] # Unread
    BY <1>4 DEF SendMax, Affordable
  <2>3. maxSendable(balance[FeeToken], MaxFee) \in Typed
    BY <2>1, <2>2, MaxIsNumber DEF Typed
  <2> QED BY <1>2, <1>4, <2>3 DEF SendMax, OtherTypes
<1>5. ASSUME NEW token \in Tokens, handleTokenSelect(token)
      PROVE  shown' \in Screen /\ asked' \in Estimators /\ UNCHANGED <<balance, paid>>
  <2> DEFINE amount == IF shown.at = "merchant" THEN None ELSE shown.amount
  <2>1. amount \in Typed
    BY DEF Typed, ShownIsTyped, Screen
  <2>2. Edit([shown EXCEPT !.token = token, !.amount = amount])
    BY <1>5 DEF handleTokenSelect
  <2> HIDE DEF amount
  <2>3. [shown EXCEPT !.token = token, !.amount = amount] \in Screen
    BY <2>1, Zenon DEF ShownIsTyped, Screen
  <2> QED BY <1>5, <2>2, <2>3, Edited DEF handleTokenSelect
<1>6. ASSUME NEW to \in Recipients \cup {None}, TypeRecipient(to)
      PROVE  shown' \in Screen /\ asked' \in Estimators /\ UNCHANGED <<balance, paid>>
  <2>1. [shown EXCEPT !.to = to] \in Screen
    BY DEF ShownIsTyped, Screen
  <2> QED BY <1>6, <2>1, Edited DEF TypeRecipient
<1>7. ASSUME NEW request \in PaymentRequests, pastePaymentRequest(request)
      PROVE  shown' \in Screen /\ asked' \in Estimators /\ UNCHANGED <<balance, paid>>
  <2> DEFINE amount == IF request.amount = None THEN shown.amount ELSE request.amount
  <2>1. amount \in Typed
    BY DEF Typed, ShownIsTyped, Screen, PaymentRequests, SendAssumption
  <2>2. Edit([shown EXCEPT !.to = request.to, !.token = request.token, !.amount = amount])
    BY <1>7 DEF pastePaymentRequest
  <2>3. request.to \in Recipients \cup {None} /\ request.token \in Tokens
    BY DEF PaymentRequests
  <2> HIDE DEF amount
  <2>4. [shown EXCEPT !.to = request.to, !.token = request.token, !.amount = amount] \in Screen
    BY <2>1, <2>3, Zenon DEF ShownIsTyped, Screen
  <2> QED BY <1>7, <2>2, <2>4, Edited DEF pastePaymentRequest
<1> QED BY <1>1, <1>3, <1>4, <1>5, <1>6, <1>7

LEMMA ReviewKeeps ==
    ASSUME SendAssumption, SendInv,
           QuoteLapses \/ refreshFee \/ Swipe \/ openReview \/ closeAddressReview \/ handleSendComplete
    PROVE  shown' \in Screen /\ asked' \in Estimators /\ UNCHANGED <<balance, paid>>
<1> USE DEF SendInv
<1>1. CASE QuoteLapses
  BY <1>1 DEF QuoteLapses, ShownIsTyped, OtherTypes, Screen
<1>2. CASE refreshFee
  BY <1>2, Refreshed DEF refreshFee, ShownIsTyped
<1>3. CASE Swipe
  BY <1>3 DEF Swipe, ShownIsTyped, OtherTypes, Screen, Swipes
<1>4. CASE openReview
  <2>1. [shown EXCEPT !.review = TRUE] \in Screen
    BY DEF ShownIsTyped, Screen
  <2> QED BY <1>4, <2>1, Refreshed DEF openReview
<1>5. CASE closeAddressReview
  <2>1. [shown EXCEPT !.review = FALSE, !.swipe = "rest"] \in Screen
    BY Zenon DEF ShownIsTyped, Screen, Swipes
  <2> QED BY <1>5, <2>1 DEF closeAddressReview, OtherTypes
<1>6. CASE handleSendComplete
  <2>1. /\ [shown EXCEPT !.swipe = "rest"] \in Screen
        /\ [shown EXCEPT !.swipe = "done"] \in Screen
    BY DEF ShownIsTyped, Screen, Swipes
  <2>2. [shown EXCEPT !.swipe = "done", !.review = TRUE] \in Screen
    BY Zenon DEF ShownIsTyped, Screen, Swipes
  <2> QED BY <1>6, <2>1, <2>2, Refreshed DEF handleSendComplete, OtherTypes
<1> QED BY <1>1, <1>2, <1>3, <1>4, <1>5, <1>6

LEMMA AnswersKeep ==
    ASSUME SendAssumption, SendInv,
           \/ \E built \in BOOLEAN : ServiceChanges(built)
           \/ \E read \in Wallets : BalancesRead(read)
           \/ \E r \in Runs, fee \in Estimates : EstimateAnswers(r, fee)
    PROVE  shown' \in Screen /\ OtherTypes' /\ UNCHANGED paid
<1> USE DEF SendInv
<1>1. ASSUME NEW built \in BOOLEAN, ServiceChanges(built)
      PROVE  shown' \in Screen /\ OtherTypes' /\ UNCHANGED paid
  <2>1. [shown EXCEPT !.wallet = built] \in Screen
    BY DEF ShownIsTyped, Screen
  <2> QED BY <1>1, <2>1, Estimated DEF ServiceChanges, OtherTypes
<1>2. ASSUME NEW read \in Wallets, BalancesRead(read)
      PROVE  shown' \in Screen /\ OtherTypes' /\ UNCHANGED paid
  BY <1>2 DEF BalancesRead, ShownIsTyped, OtherTypes, Balances, SendAssumption
<1>3. ASSUME NEW r \in Runs, NEW fee \in Estimates, EstimateAnswers(r, fee)
      PROVE  shown' \in Screen /\ OtherTypes' /\ UNCHANGED paid
  <2> DEFINE quote == Quote(IF isUsableFee(fee) THEN "ready" ELSE "unavailable", fee, asked[r])
  <2>1. asked[r] \in Subjects
    BY <1>3 DEF EstimateAnswers, OtherTypes, Estimators
  <2>2. quote \in Quotes
    BY <2>1, EstimateIsQuote
  <2>3. shown' = IF r = shown.newest THEN [shown EXCEPT !.quote = quote, !.newest = None] ELSE shown
    BY <1>3 DEF EstimateAnswers
  <2> HIDE DEF quote
  <2>4. None \in MaybeRuns
    BY DEF MaybeRuns
  <2>5. shown' \in Screen
    BY <2>2, <2>3, <2>4, QuoteReplaced DEF ShownIsTyped
  <2>6. OtherTypes'
    BY <1>3 DEF EstimateAnswers, OtherTypes, Estimators
  <2> QED BY <1>3, <2>5, <2>6 DEF EstimateAnswers
<1> QED BY <1>1, <1>2, <1>3

-----------------------------------------------------------------------------
\* The payments.

\* What is true of a payment that is signed: the property, of one payment.
Within(payment) ==
    /\ payment.fee # NoFee /\ payment.amount # TooFine
    /\ 100 * payment.cost <= 125 * payment.fee
    /\ payment.token = FeeToken => payment.amount + payment.cost <= payment.funds[FeeToken]
    /\ payment.cost <= payment.funds[FeeToken]

\* A request that is confirmed names an amount, and a fee if one was shown.
LEMMA RequestIsTyped ==
    ASSUME SendAssumption, SendInv, CanSend, shown.at \in {"amount", "merchant"}
    PROVE  Request \in Requested /\ Request.step = "asked"
<1> USE DEF SendInv
<1>1. shown.to \in Recipients /\ shown.token \in Tokens
  BY DEF CanSend, ShownIsTyped, Screen
<1>2. shown.amount \in Nat \cup {TooFine}
  BY DEF CanSend, Affordable, ShownIsTyped, Screen, Typed
<1>3. MaxFee \in Fees \cup {NoFee}
  BY DEF MaxFee, ShownIsTyped, Screen, Quotes
<1>4. [t \in Tokens |-> IF balance[t] = Unread THEN 0 ELSE balance[t]] \in [Tokens -> Nat]
  BY DEF OtherTypes, Balances
<1> QED BY <1>1, <1>2, <1>3, <1>4 DEF Request, Requested

\* The check of the prepared payment: what passes costs no more than was shown, and fits.
LEMMA PreparedFits ==
    ASSUME SendAssumption, NEW fee \in Fees \cup {NoFee}, NEW guard \in Requested,
           checkPreparedFee(fee, guard) = "ok"
    PROVE  /\ fee \in Fees /\ guard.fee \in Fees /\ guard.amount \in Nat
           /\ 100 * fee <= 125 * guard.fee
           /\ guard.token = FeeToken => guard.amount + fee <= guard.funds[FeeToken]
           /\ fee <= guard.funds[FeeToken]
<1>1. /\ fee # NoFee /\ guard.amount # TooFine /\ guard.fee # NoFee
      /\ ~feeChangedTooMuch(guard.fee, fee)
      /\ checkFunds(guard.amount, guard.token, guard.funds, fee) = "ok"
  BY DEF checkPreparedFee, isUsableFee
<1>2. fee \in Fees /\ guard.fee \in Fees /\ guard.amount \in Nat /\ guard.funds \in [Tokens -> Nat]
  BY <1>1 DEF Requested
<1>3. fee \in Nat /\ guard.fee \in Nat /\ guard.funds[FeeToken] \in Nat
  BY <1>2 DEF SendAssumption
<1>4. 100 * fee <= 125 * guard.fee
  BY <1>1, <1>3 DEF feeChangedTooMuch, Tolerance
<1>5. /\ guard.token = FeeToken => guard.amount + fee <= guard.funds[FeeToken]
      /\ fee <= guard.funds[FeeToken]
  BY <1>1, <1>2, <1>3 DEF checkFunds
<1> QED BY <1>2, <1>4, <1>5

\* One payment changes to something sound, the others stay.
LEMMA OnePaymentChanges ==
    ASSUME SendInv, NEW p \in Payments, NEW payment \in Requested \cup Ended,
           paid' = [paid EXCEPT ![p] = payment],
           payment.step \in {"signed", "accepted"} => Within(payment)
    PROVE  PaidIsTyped' /\ NothingAboveShown'
<1> USE DEF SendInv
<1>1. PaidIsTyped'
  BY DEF PaidIsTyped
<1>2. ASSUME NEW q \in Payments, Signed(q)'
      PROVE  Within(paid'[q])
  <2>1. paid'[q].step \in {"signed", "accepted"} /\ paid'[q] # None
    BY <1>2 DEF Signed, Waits
  <2>2. CASE q = p
    <3>1. paid'[q] = payment
      BY <2>2 DEF PaidIsTyped
    <3> QED BY <2>1, <3>1
  <2>3. CASE q # p
    <3>1. paid'[q] = paid[q]
      BY <2>3 DEF PaidIsTyped
    <3>2. Signed(q)
      BY <2>1, <3>1 DEF Signed, Waits
    <3> QED BY <3>1, <3>2 DEF NothingAboveShown, Within
  <2> QED BY <2>2, <2>3
<1>3. NothingAboveShown'
  BY <1>2 DEF NothingAboveShown, Within
<1> QED BY <1>1, <1>3

\* A payment the wallet works on is one that was asked for, and one that is over is none.
LEMMA WaitingIsOpen ==
    ASSUME SendInv, NEW p \in Payments, Waits(p)
    PROVE  paid[p] \in Requested
BY DEF SendInv, PaidIsTyped, Waits, Ended

LEMMA OverIsSound ==
    ASSUME SendInv, NEW p \in Payments, NEW step \in {"refused", "failed", "unknown", "done"}, Over(p, step)
    PROVE  PaidIsTyped' /\ NothingAboveShown'
<1>1. [step |-> step] \in Ended /\ [step |-> step].step \notin {"signed", "accepted"}
  BY DEF Ended
<1> QED BY <1>1, OnePaymentChanges DEF Over

LEMMA ConfirmationKeeps ==
    ASSUME SendAssumption, SendInv, NEW p \in Payments, handleConfirmAddressAndSend(p) \/ pay(p)
    PROVE  SendInv'
<1> USE DEF SendInv
<1>1. OtherTypes'
  BY DEF handleConfirmAddressAndSend, pay, OtherTypes
<1>2. CASE Confirmed(p)
  <2>1. CanSend /\ shown.at \in {"amount", "merchant"}
    BY DEF handleConfirmAddressAndSend, pay
  <2>2. Request \in Requested \cup Ended /\ Request.step \notin {"signed", "accepted"}
    BY <2>1, RequestIsTyped
  <2>3. PaidIsTyped' /\ NothingAboveShown'
    BY <1>2, <2>2, OnePaymentChanges DEF Confirmed
  <2>4. shown' \in Screen
    BY <1>2, Zenon DEF Confirmed, ShownIsTyped, Screen, MaybePayments
  <2> QED BY <1>1, <2>3, <2>4 DEF ShownIsTyped
<1>3. CASE shown' = [shown EXCEPT !.review = FALSE, !.swipe = "rest"] /\ UNCHANGED paid
  <2>1. shown' \in Screen
    BY <1>3, Zenon DEF ShownIsTyped, Screen, Swipes
  <2>2. PaidIsTyped' /\ NothingAboveShown'
    BY <1>3 DEF PaidIsTyped, NothingAboveShown, Signed, Waits
  <2> QED BY <1>1, <2>1, <2>2 DEF ShownIsTyped
<1> QED BY <1>2, <1>3 DEF handleConfirmAddressAndSend, pay

LEMMA RefusalKeeps ==
    ASSUME SendAssumption, SendInv, NEW p \in Payments, NEW fee \in Fees \cup {NoFee}, NEW verdict,
           Waits(p), Refused(p, verdict, fee), verdict = "FEE_CONFIRM" => fee \in Fees,
           UNCHANGED balance
    PROVE  SendInv'
<1> USE DEF SendInv
<1>1. PaidIsTyped' /\ NothingAboveShown'
  BY OverIsSound DEF Refused
<1>2. [Answered EXCEPT !.review = TRUE] \in Screen
  <2>1. Answered \in Screen
    BY DEF Answered, ShownIsTyped, Screen, MaybePayments
  <2> QED BY <2>1 DEF Screen
<1>3. CASE ~Here(p)
  BY <1>1, <1>3 DEF Refused, OtherTypes, ShownIsTyped
<1>4. CASE Here(p) /\ verdict = "FEE_CONFIRM"
  <2> DEFINE quote == Quote("ready", fee, <<paid[p].to, paid[p].token>>)
  <2>1. quote \in Quotes
    BY <1>4, WaitingIsOpen DEF Quote, Quotes, Subjects, Requested
  <2>2. None \in MaybeRuns
    BY DEF MaybeRuns
  <2>3. shown' = [[Answered EXCEPT !.review = TRUE] EXCEPT !.quote = quote, !.newest = None] /\ UNCHANGED asked
    BY <1>4, Zenon DEF Refused, Accept
  <2> HIDE DEF quote
  <2>4. shown' \in Screen
    BY <1>2, <2>1, <2>2, <2>3, QuoteReplaced
  <2> QED BY <1>1, <2>3, <2>4 DEF OtherTypes, ShownIsTyped
<1>5. CASE Here(p) /\ verdict # "FEE_CONFIRM"
  BY <1>1, <1>2, <1>5, Refreshed DEF Refused, OtherTypes, ShownIsTyped
<1> QED BY <1>3, <1>4, <1>5

LEMMA PreparationKeeps ==
    ASSUME SendAssumption, SendInv, NEW p \in Payments, NEW fee \in Fees \cup {NoFee}, Prepared(p, fee)
    PROVE  SendInv'
<1> USE DEF SendInv
<1> DEFINE verdict == checkPreparedFee(fee, paid[p])
<1>1. paid[p] \in Requested
  BY WaitingIsOpen DEF Prepared
<1>2. CASE verdict = "ok"
  <2> DEFINE payment == [paid[p] EXCEPT !.step = "signed", !.cost = fee]
  <2>1. /\ paid' = [paid EXCEPT ![p].step = "signed", ![p].cost = fee]
        /\ UNCHANGED <<shown, asked, balance>>
    BY <1>2 DEF Prepared
  <2>2. paid' = [paid EXCEPT ![p] = payment]
    BY <2>1 DEF PaidIsTyped
  <2>3. payment \in Requested
    BY <1>1 DEF Requested
  <2>4. /\ payment.fee = paid[p].fee /\ payment.amount = paid[p].amount /\ payment.token = paid[p].token
        /\ payment.funds = paid[p].funds /\ payment.cost = fee
    BY <1>1 DEF Requested
  <2>5. Within(payment)
    <3>1. /\ fee \in Fees /\ paid[p].fee \in Fees /\ paid[p].amount \in Nat
          /\ 100 * fee <= 125 * paid[p].fee
          /\ paid[p].token = FeeToken => paid[p].amount + fee <= paid[p].funds[FeeToken]
          /\ fee <= paid[p].funds[FeeToken]
      BY <1>1, <1>2, PreparedFits
    <3>2. paid[p].fee # NoFee /\ paid[p].amount # TooFine
      BY <1>2 DEF checkPreparedFee
    <3> HIDE DEF payment
    <3> QED BY <2>4, <3>1, <3>2 DEF Within
  <2> HIDE DEF payment
  <2>6. PaidIsTyped' /\ NothingAboveShown'
    BY <2>2, <2>3, <2>5, OnePaymentChanges
  <2> QED BY <2>1, <2>6 DEF ShownIsTyped, OtherTypes
<1>3. CASE verdict # "ok"
  <2>1. verdict = "FEE_CONFIRM" => fee \in Fees
    BY DEF checkPreparedFee, isUsableFee
  <2>2. Waits(p) /\ Refused(p, verdict, fee) /\ UNCHANGED balance
    BY <1>3 DEF Prepared
  <2> HIDE DEF verdict
  <2> QED BY <2>1, <2>2, RefusalKeeps
<1> QED BY <1>2, <1>3

LEMMA AcceptanceKeeps ==
    ASSUME SendAssumption, SendInv, NEW p \in Payments, Accepted(p)
    PROVE  SendInv'
<1> USE DEF SendInv
<1> DEFINE payment == [paid[p] EXCEPT !.step = "accepted"]
<1>1. paid[p] \in Requested
  BY WaitingIsOpen DEF Accepted
<1>2. paid' = [paid EXCEPT ![p] = payment]
  BY DEF Accepted, PaidIsTyped
<1>3. payment \in Requested
  BY <1>1 DEF Requested
<1>4. /\ payment.fee = paid[p].fee /\ payment.amount = paid[p].amount /\ payment.token = paid[p].token
      /\ payment.funds = paid[p].funds /\ payment.cost = paid[p].cost
  BY <1>1 DEF Requested
<1>5. Within(payment)
  <2>1. Signed(p)
    BY DEF Accepted, Signed
  <2> HIDE DEF payment
  <2> QED BY <1>4, <2>1 DEF NothingAboveShown, Within
<1> HIDE DEF payment
<1>6. PaidIsTyped' /\ NothingAboveShown'
  BY <1>2, <1>3, <1>5, OnePaymentChanges
<1>7. shown' \in Screen
  BY ClosedIsScreen DEF Accepted, leaveSendFlow, ShownIsTyped
<1> QED BY <1>6, <1>7 DEF Accepted, ShownIsTyped, OtherTypes

LEMMA EndKeeps ==
    ASSUME SendAssumption, SendInv, NEW p \in Payments,
           Fails(p) \/ StaysUnknown(p) \/ Succeeds(p)
    PROVE  SendInv'
<1> USE DEF SendInv
<1>1. PaidIsTyped' /\ NothingAboveShown'
  BY OverIsSound DEF Fails, StaysUnknown, Succeeds
<1>2. Answered \in Screen
  BY DEF Answered, ShownIsTyped, Screen, MaybePayments
<1>3. OtherTypes'
  BY DEF Fails, StaysUnknown, Succeeds, OtherTypes
<1>4. CASE Fails(p)
  <2>1. [Answered EXCEPT !.swipe = "rest"] \in Screen
    BY <1>2 DEF Screen, Swipes
  <2> QED BY <1>1, <1>3, <1>4, <2>1 DEF Fails, ShownIsTyped
<1>5. CASE StaysUnknown(p)
  <2>1. [Answered EXCEPT !.unknown = TRUE, !.swipe = "rest"] \in Screen
    BY <1>2, Zenon DEF Screen, Swipes
  <2> QED BY <1>1, <1>3, <1>5, <2>1 DEF StaysUnknown, ShownIsTyped
<1>6. CASE Succeeds(p)
  <2>1. [Answered EXCEPT !.amount = None] \in Screen
    BY <1>2 DEF Screen, Typed
  <2> QED BY <1>1, <1>3, <1>6, <2>1, ClosedIsScreen DEF Succeeds, leaveSendFlow, ShownIsTyped
<1> QED BY <1>4, <1>5, <1>6

-----------------------------------------------------------------------------
LEMMA InitSound == SendAssumption /\ SendInit => SendInv
<1> SUFFICES ASSUME SendAssumption, SendInit PROVE SendInv
  OBVIOUS
<1>1. ShownIsTyped
  BY ClosedIsScreen DEF SendInit, ShownIsTyped
<1>2. PaidIsTyped /\ OtherTypes
  BY DEF SendInit, PaidIsTyped, OtherTypes, Balances, Estimators
<1>3. NothingAboveShown
  BY DEF SendInit, NothingAboveShown, Signed, Waits
<1> QED BY <1>1, <1>2, <1>3 DEF SendInv

LEMMA StepSound == SendAssumption /\ SendInv /\ [SendNext]_sendVars => SendInv'
<1> SUFFICES ASSUME SendAssumption, SendInv, [SendNext]_sendVars PROVE SendInv'
  OBVIOUS
<1>1. ASSUME shown' \in Screen, OtherTypes', UNCHANGED paid
      PROVE  SendInv'
  BY <1>1 DEF SendInv, ShownIsTyped, PaidIsTyped, NothingAboveShown, Signed, Waits
<1>2. ASSUME shown' \in Screen, asked' \in Estimators, UNCHANGED <<balance, paid>>
      PROVE  SendInv'
  BY <1>1, <1>2 DEF SendInv, OtherTypes
<1>3. CASE SendForm
  <2>1. CASE \E p \in Payments : handleConfirmAddressAndSend(p) \/ pay(p)
    BY <2>1, ConfirmationKeeps
  <2>2. CASE OpenSend \/ OpenMerchant \/ handleBack \/ handleClose
             \/ (\E to \in Recipients : handleSelectRecipient(to))
    BY <1>2, <2>2, OpeningKeeps
  <2>3. CASE \/ \E amount \in Amounts \cup {None, TooFine} : handleAmountChange(amount)
             \/ handleQuickAmount \/ SendMax
             \/ \E token \in Tokens : handleTokenSelect(token)
             \/ \E to \in Recipients \cup {None} : TypeRecipient(to)
             \/ \E request \in PaymentRequests : pastePaymentRequest(request)
    BY <1>2, <2>3, TypingKeeps
  <2>4. CASE QuoteLapses \/ refreshFee \/ Swipe \/ openReview \/ closeAddressReview
    BY <1>2, <2>4, ReviewKeeps
  <2> QED BY <1>3, <2>1, <2>2, <2>3, <2>4 DEF SendForm
<1>4. CASE Answers
  <2>1. CASE handleSendComplete
    BY <1>2, <2>1, ReviewKeeps
  <2>2. CASE \/ \E built \in BOOLEAN : ServiceChanges(built)
             \/ \E read \in Wallets : BalancesRead(read)
             \/ \E r \in Runs, fee \in Estimates : EstimateAnswers(r, fee)
    BY <1>1, <2>2, AnswersKeep
  <2> QED BY <1>4, <2>1, <2>2 DEF Answers
<1>5. ASSUME NEW p \in Payments, Outcome(p)
      PROVE  SendInv'
  <2>1. ASSUME NEW fee \in Fees \cup {NoFee}, Prepared(p, fee) PROVE SendInv'
    BY <2>1, PreparationKeeps
  <2>2. CASE FeeRefused(p)
    BY <2>2, RefusalKeeps DEF FeeRefused
  <2>3. CASE Fails(p) \/ StaysUnknown(p) \/ Succeeds(p)
    BY <2>3, EndKeeps
  <2> QED BY <1>5, <2>1, <2>2, <2>3 DEF Outcome
<1>6. ASSUME NEW p \in Payments, Accepted(p)
      PROVE  SendInv'
  BY <1>6, AcceptanceKeeps
<1>7. CASE UNCHANGED sendVars
  BY <1>1, <1>7 DEF sendVars, SendInv, ShownIsTyped, OtherTypes
<1> QED BY <1>3, <1>4, <1>5, <1>6, <1>7 DEF SendNext

\* Whatever the wallet names as the fee, and however forms, balances, estimates and payments
\* overlap: what is signed costs no more than a quarter above the fee the review showed, and fits
\* the balances the review was checked against (checkPreparedFee; "Send" and "Pay a merchant").
THEOREM NothingSignedAboveShown == SendSpec => []NothingAboveShown
<1>1. SendInit => SendInv
  BY InitSound, SendAssumption
<1>2. SendInv /\ [SendNext]_sendVars => SendInv'
  BY StepSound, SendAssumption
<1>3. SendInv => NothingAboveShown
  BY DEF SendInv
<1> QED BY <1>1, <1>2, <1>3, PTL DEF SendSpec

\* What the screen holds is always a sheet with a quote; a quote called ready has a real fee
\* (useNetworkFee), whatever answered and whenever.
THEOREM SendTypeCorrect == SendSpec => []SendTypeOK
<1>1. SendInit => SendInv
  BY InitSound, SendAssumption
<1>2. SendInv /\ [SendNext]_sendVars => SendInv'
  BY StepSound, SendAssumption
<1>3. SendInv => SendTypeOK
  BY DEF SendInv, ShownIsTyped, OtherTypes, Balances, Estimators, SendTypeOK, Screen, Places, Typed, Quotes, Subjects
<1> QED BY <1>1, <1>2, <1>3, PTL DEF SendSpec

-----------------------------------------------------------------------------
\* Whose fee it is. A quote, and the estimate that is waited for, are of the sheet's recipient and
\* token; the payment the screen waits for is one the wallet works on, of the sheet that asked.
OfForm(sheet, runs) ==
    /\ (sheet.at = "amount" /\ sheet.quote.fee # NoFee) => sheet.quote.of = <<sheet.to, sheet.token>>
    /\ sheet.newest # None => (runs[sheet.newest] = <<sheet.to, sheet.token>> /\ sheet.quote.status = "loading")

OfPayment(sheet, payments) ==
    \A p \in Payments : sheet.mine = p =>
        /\ payments[p] \in Requested /\ payments[p].from = sheet.at
        /\ sheet.at = "amount" => /\ <<payments[p].to, payments[p].token>> = <<sheet.to, sheet.token>>
                                 /\ payments[p].step # "accepted"

FeeInv == SendInv /\ OfForm(shown, asked) /\ OfPayment(shown, paid)

\* What two forms share that OfPayment speaks of.
SamePlace(sheet, other) == sheet.at = other.at /\ sheet.to = other.to /\ sheet.token = other.token /\ sheet.mine = other.mine

LEMMA SamePlaceSamePayment ==
    ASSUME NEW sheet, NEW other, NEW payments, SamePlace(sheet, other), OfPayment(other, payments)
    PROVE  OfPayment(sheet, payments)
BY DEF SamePlace, OfPayment

LEMMA EstimatedIsOfForm ==
    ASSUME SendAssumption, OtherTypes, NEW sheet, sheet \in Screen, Estimating(sheet)
    PROVE  OfForm(shown', asked') /\ SamePlace(shown', sheet)
<1>1. CASE sheet.to = None \/ ~sheet.wallet
  <2>1. shown' = [sheet EXCEPT !.quote = Idle, !.newest = None]
    BY <1>1 DEF Estimating
  <2>2. /\ shown'.quote = Idle /\ shown'.newest = None /\ shown'.at = sheet.at
        /\ shown'.to = sheet.to /\ shown'.token = sheet.token /\ shown'.mine = sheet.mine
    BY <2>1, Zenon DEF Screen
  <2> QED BY <2>2 DEF OfForm, SamePlace, Idle, Quote
<1>2. CASE ~(sheet.to = None \/ ~sheet.wallet)
  <2>1. NextRun \in Runs /\ NextRun # None
    BY <1>2 DEF Estimating, NextRun, FreeRuns, SendAssumption
  <2> DEFINE quote == Quote("loading", NoFee, <<sheet.to, sheet.token>>)
  <2>2. /\ shown' = [sheet EXCEPT !.quote = quote, !.newest = NextRun]
        /\ asked' = [asked EXCEPT ![NextRun] = <<sheet.to, sheet.token>>]
    BY <1>2 DEF Estimating
  <2>3. quote.fee = NoFee /\ quote.status = "loading"
    BY DEF Quote
  <2> HIDE DEF quote
  <2>4. /\ shown'.quote = quote /\ shown'.newest = NextRun /\ shown'.at = sheet.at
        /\ shown'.to = sheet.to /\ shown'.token = sheet.token /\ shown'.mine = sheet.mine
    BY <2>2, Zenon DEF Screen
  <2>5. asked'[NextRun] = <<sheet.to, sheet.token>>
    BY <2>1, <2>2 DEF OtherTypes, Estimators
  <2> QED BY <2>3, <2>4, <2>5 DEF OfForm, SamePlace
<1> QED BY <1>1, <1>2

LEMMA EditedIsOfForm ==
    ASSUME SendAssumption, OtherTypes, NEW sheet, sheet \in Screen, Edit(sheet),
           <<sheet.to, sheet.token>> = Subject => OfForm(sheet, asked)
    PROVE  OfForm(shown', asked') /\ SamePlace(shown', sheet)
<1>1. CASE <<sheet.to, sheet.token>> = Subject
  BY <1>1 DEF Edit, SamePlace
<1>2. CASE <<sheet.to, sheet.token>> # Subject
  BY <1>2, EstimatedIsOfForm DEF Edit
<1> QED BY <1>1, <1>2

LEMMA RefreshedIsOfForm ==
    ASSUME SendAssumption, OtherTypes, NEW sheet, sheet \in Screen, Refresh(sheet), OfForm(sheet, asked)
    PROVE  OfForm(shown', asked') /\ SamePlace(shown', sheet)
<1>1. CASE sheet.wallet /\ sheet.to # None
  BY <1>1, EstimatedIsOfForm DEF Refresh
<1>2. CASE ~(sheet.wallet /\ sheet.to # None)
  BY <1>2 DEF Refresh, SamePlace
<1> QED BY <1>1, <1>2

\* A sheet with no payment and no quote is of whatever it says.
LEMMA NewFormIsOfForm ==
    ASSUME SendAssumption, NEW sheet, sheet.quote = Idle, sheet.newest = None, sheet.mine = None, NEW runs, NEW payments
    PROVE  OfForm(sheet, runs) /\ OfPayment(sheet, payments)
BY DEF OfForm, OfPayment, Idle, Quote, SendAssumption

\* A sheet that differs only in its other fields.
LEMMA SameFormIsOfForm ==
    ASSUME NEW sheet, NEW other, NEW runs, SamePlace(sheet, other), sheet.quote = other.quote,
           sheet.newest = other.newest, OfForm(other, runs)
    PROVE  OfForm(sheet, runs)
BY DEF OfForm, SamePlace

OfFormNow == OfForm(shown, asked) /\ OfPayment(shown, paid)

\* Whatever leaves the payments alone.
LEMMA FormKeepsFee ==
    ASSUME SendAssumption, FeeInv, UNCHANGED paid, OfForm(shown', asked'),
           SamePlace(shown', shown) \/ shown'.mine = None
    PROVE  OfFormNow'
<1>1. CASE SamePlace(shown', shown)
  BY <1>1 DEF FeeInv, OfFormNow, OfPayment, SamePlace
<1>2. CASE shown'.mine = None
  BY <1>2 DEF OfFormNow, OfPayment, SendAssumption
<1> QED BY <1>1, <1>2

LEMMA OpeningKeepsFee ==
    ASSUME SendAssumption, FeeInv,
           \/ OpenSend \/ OpenMerchant \/ handleBack \/ handleClose
           \/ \E to \in Recipients : handleSelectRecipient(to)
    PROVE  OfFormNow'
<1> USE DEF FeeInv, SendInv
<1>1. ASSUME NEW at, NEW to, NEW amount, Open(at, to, amount)
      PROVE  OfFormNow'
  <2>1. shown'.quote = Idle /\ shown'.newest = None /\ shown'.mine = None
    BY <1>1, Zenon DEF Open, Closed
  <2> QED BY <2>1, NewFormIsOfForm DEF OfFormNow
<1>2. CASE OpenSend \/ OpenMerchant
  BY <1>1, <1>2 DEF OpenSend, OpenMerchant
<1>3. CASE handleBack \/ handleClose
  <2>1. shown'.quote = Idle /\ shown'.newest = None /\ shown'.mine = None
    BY <1>3 DEF handleBack, handleClose, Closed
  <2> QED BY <2>1, NewFormIsOfForm DEF OfFormNow
<1>4. ASSUME NEW to \in Recipients, handleSelectRecipient(to)
      PROVE  OfFormNow'
  <2> DEFINE sheet == [Closed EXCEPT !.at = "amount", !.to = to]
  <2>1. sheet \in Screen
    BY ClosedIsScreen, Zenon DEF Screen, Places
  <2>2. sheet.quote = Idle /\ sheet.newest = None /\ sheet.mine = None
    BY Zenon DEF Closed
  <2>3. Edit(sheet) /\ UNCHANGED paid
    BY <1>4 DEF handleSelectRecipient
  <2> HIDE DEF sheet
  <2>4. OfForm(shown', asked') /\ shown'.mine = None
    BY <2>1, <2>2, <2>3, NewFormIsOfForm, EditedIsOfForm DEF SamePlace
  <2> QED BY <2>3, <2>4, FormKeepsFee
<1> QED BY <1>2, <1>3, <1>4

\* Only other fields of the sheet change.
LEMMA OtherFieldsKeepFee ==
    ASSUME SendAssumption, FeeInv, UNCHANGED <<asked, paid>>, SamePlace(shown', shown),
           shown'.quote = shown.quote, shown'.newest = shown.newest
    PROVE  OfFormNow'
BY FormKeepsFee, SameFormIsOfForm DEF FeeInv

LEMMA TypingKeepsFee ==
    ASSUME SendAssumption, FeeInv,
           \/ \E amount \in Amounts \cup {None, TooFine} : handleAmountChange(amount)
           \/ handleQuickAmount \/ SendMax
           \/ \E token \in Tokens : handleTokenSelect(token)
           \/ \E to \in Recipients \cup {None} : TypeRecipient(to)
           \/ \E request \in PaymentRequests : pastePaymentRequest(request)
    PROVE  OfFormNow'
<1> USE DEF FeeInv, SendInv
<1>1. ASSUME NEW amount, shown' = [shown EXCEPT !.amount = amount], UNCHANGED <<asked, paid>>
      PROVE  OfFormNow'
  <2>1. SamePlace(shown', shown) /\ shown'.quote = shown.quote /\ shown'.newest = shown.newest
    BY <1>1 DEF SamePlace, ShownIsTyped, Screen
  <2> QED BY <1>1, <2>1, OtherFieldsKeepFee
<1>2. CASE \/ \E amount \in Amounts \cup {None, TooFine} : handleAmountChange(amount)
           \/ handleQuickAmount \/ SendMax
  BY <1>1, <1>2, Zenon DEF handleAmountChange, handleQuickAmount, SendMax
<1>3. ASSUME NEW sheet \in Screen, Edit(sheet), UNCHANGED paid,
             <<sheet.to, sheet.token>> = Subject => OfForm(sheet, asked),
             sheet.mine = shown.mine, sheet.at = shown.at, shown.at = "amount" => shown.mine = None
      PROVE  OfFormNow'
  <2>1. OfForm(shown', asked') /\ SamePlace(shown', sheet)
    BY <1>3, EditedIsOfForm
  <2>2. OfPayment(shown', paid')
    BY <1>3, <2>1 DEF OfPayment, SamePlace, SendAssumption
  <2> QED BY <2>1, <2>2 DEF OfFormNow
<1>4. ASSUME NEW token \in Tokens, handleTokenSelect(token)
      PROVE  OfFormNow'
  <2> DEFINE amount == IF shown.at = "merchant" THEN None ELSE shown.amount
             sheet == [shown EXCEPT !.token = token, !.amount = amount]
  <2>1. amount \in Typed
    BY DEF Typed, ShownIsTyped, Screen
  <2>2. Edit(sheet) /\ UNCHANGED paid /\ Editable /\ token # shown.token
    BY <1>4 DEF handleTokenSelect
  <2> HIDE DEF amount
  <2>3. sheet \in Screen
    BY <2>1, Zenon DEF ShownIsTyped, Screen
  <2>4. sheet.token = token /\ sheet.mine = shown.mine /\ sheet.at = shown.at
    BY Zenon DEF ShownIsTyped, Screen
  <2> HIDE DEF sheet
  <2>5. shown.at = "amount" => shown.mine = None
    BY <2>2 DEF Editable, Busy
  <2> QED BY <1>3, <2>2, <2>3, <2>4, <2>5 DEF Subject
<1>5. ASSUME NEW to \in Recipients \cup {None}, TypeRecipient(to)
      PROVE  OfFormNow'
  <2> DEFINE sheet == [shown EXCEPT !.to = to]
  <2>1. sheet \in Screen /\ sheet.to = to /\ sheet.token = shown.token /\ sheet.mine = shown.mine /\ sheet.at = shown.at
        /\ sheet.quote = shown.quote /\ sheet.newest = shown.newest
    BY DEF ShownIsTyped, Screen
  <2>2. Edit(sheet) /\ UNCHANGED paid /\ shown.at = "merchant"
    BY <1>5 DEF TypeRecipient
  <2> HIDE DEF sheet
  <2>3. <<sheet.to, sheet.token>> = Subject => OfForm(sheet, asked)
    BY <2>1 DEF Subject, OfForm
  <2> QED BY <1>3, <2>1, <2>2, <2>3
<1>6. ASSUME NEW request \in PaymentRequests, pastePaymentRequest(request)
      PROVE  OfFormNow'
  <2> DEFINE amount == IF request.amount = None THEN shown.amount ELSE request.amount
             sheet == [shown EXCEPT !.to = request.to, !.token = request.token, !.amount = amount]
  <2>1. amount \in Typed
    BY DEF Typed, ShownIsTyped, Screen, PaymentRequests, SendAssumption
  <2>2. Edit(sheet) /\ UNCHANGED paid /\ shown.at = "merchant"
    BY <1>6 DEF pastePaymentRequest
  <2>3. request.to \in Recipients \cup {None} /\ request.token \in Tokens
    BY DEF PaymentRequests
  <2> HIDE DEF amount
  <2>4. sheet \in Screen
    BY <2>1, <2>3, Zenon DEF ShownIsTyped, Screen
  <2>5. sheet.mine = shown.mine /\ sheet.at = shown.at /\ sheet.quote = shown.quote /\ sheet.newest = shown.newest
    BY Zenon DEF ShownIsTyped, Screen
  <2> HIDE DEF sheet
  <2>6. <<sheet.to, sheet.token>> = Subject => OfForm(sheet, asked)
    BY <2>5 DEF Subject, OfForm
  <2> QED BY <1>3, <2>2, <2>4, <2>5, <2>6
<1> QED BY <1>2, <1>4, <1>5, <1>6

LEMMA ReviewKeepsFee ==
    ASSUME SendAssumption, FeeInv,
           QuoteLapses \/ refreshFee \/ Swipe \/ openReview \/ closeAddressReview \/ handleSendComplete
    PROVE  OfFormNow'
<1> USE DEF FeeInv, SendInv
<1>1. ASSUME NEW sheet \in Screen, Refresh(sheet), UNCHANGED paid, SamePlace(sheet, shown),
             sheet.quote = shown.quote, sheet.newest = shown.newest
      PROVE  OfFormNow'
  <2>1. OfForm(sheet, asked)
    BY <1>1, SameFormIsOfForm
  <2>2. OfForm(shown', asked') /\ SamePlace(shown', sheet)
    BY <1>1, <2>1, RefreshedIsOfForm
  <2>3. SamePlace(shown', shown)
    BY <1>1, <2>2 DEF SamePlace
  <2> QED BY <1>1, <2>2, <2>3, FormKeepsFee
<1>2. CASE QuoteLapses \/ Swipe
  <2>1. SamePlace(shown', shown) /\ shown'.quote = shown.quote /\ shown'.newest = shown.newest
    BY <1>2 DEF QuoteLapses, Swipe, SamePlace, ShownIsTyped, Screen
  <2> QED BY <1>2, <2>1, OtherFieldsKeepFee DEF QuoteLapses, Swipe
<1>3. CASE refreshFee
  BY <1>1, <1>3 DEF refreshFee, SamePlace, ShownIsTyped
<1>4. CASE openReview
  <2>1. [shown EXCEPT !.review = TRUE] \in Screen /\ SamePlace([shown EXCEPT !.review = TRUE], shown)
        /\ [shown EXCEPT !.review = TRUE].quote = shown.quote /\ [shown EXCEPT !.review = TRUE].newest = shown.newest
    BY DEF ShownIsTyped, Screen, SamePlace
  <2> QED BY <1>1, <1>4, <2>1 DEF openReview
<1>5. CASE closeAddressReview
  <2>1. shown' = [shown EXCEPT !.review = FALSE, !.swipe = "rest"] /\ UNCHANGED <<asked, paid>>
    BY <1>5 DEF closeAddressReview
  <2>2. SamePlace(shown', shown) /\ shown'.quote = shown.quote /\ shown'.newest = shown.newest
    BY <2>1, Zenon DEF SamePlace, ShownIsTyped, Screen
  <2> QED BY <2>1, <2>2, OtherFieldsKeepFee
<1>6. CASE handleSendComplete
  <2>1. CASE \E swipe \in Swipes : shown' = [shown EXCEPT !.swipe = swipe] /\ UNCHANGED <<asked, paid>>
    <3>1. SamePlace(shown', shown) /\ shown'.quote = shown.quote /\ shown'.newest = shown.newest
      BY <2>1 DEF SamePlace, ShownIsTyped, Screen
    <3> QED BY <2>1, <3>1, OtherFieldsKeepFee
  <2>2. CASE Refresh([shown EXCEPT !.swipe = "done", !.review = TRUE]) /\ UNCHANGED paid
    <3> DEFINE sheet == [shown EXCEPT !.swipe = "done", !.review = TRUE]
    <3>1. sheet \in Screen
      BY Zenon DEF ShownIsTyped, Screen, Swipes
    <3>2. SamePlace(sheet, shown) /\ sheet.quote = shown.quote /\ sheet.newest = shown.newest
      BY Zenon DEF ShownIsTyped, Screen, SamePlace
    <3>3. Refresh(sheet) /\ UNCHANGED paid
      BY <2>2
    <3> HIDE DEF sheet
    <3> QED BY <1>1, <3>1, <3>2, <3>3
  <2> QED BY <1>6, <2>1, <2>2 DEF handleSendComplete, Swipes
<1> QED BY <1>2, <1>3, <1>4, <1>5, <1>6

LEMMA AnswersKeepFee ==
    ASSUME SendAssumption, FeeInv,
           \/ \E built \in BOOLEAN : ServiceChanges(built)
           \/ \E read \in Wallets : BalancesRead(read)
           \/ \E r \in Runs, fee \in Estimates : EstimateAnswers(r, fee)
    PROVE  OfFormNow'
<1> USE DEF FeeInv, SendInv
<1>1. ASSUME NEW built \in BOOLEAN, ServiceChanges(built)
      PROVE  OfFormNow'
  <2>1. [shown EXCEPT !.wallet = built] \in Screen /\ SamePlace([shown EXCEPT !.wallet = built], shown)
    BY DEF ShownIsTyped, Screen, SamePlace
  <2>2. OfForm(shown', asked') /\ SamePlace(shown', [shown EXCEPT !.wallet = built]) /\ UNCHANGED paid
    BY <1>1, <2>1, EstimatedIsOfForm DEF ServiceChanges
  <2>3. SamePlace(shown', shown)
    BY <2>1, <2>2 DEF SamePlace
  <2> QED BY <2>2, <2>3, FormKeepsFee
<1>2. ASSUME NEW read \in Wallets, BalancesRead(read)
      PROVE  OfFormNow'
  BY <1>2, OtherFieldsKeepFee DEF BalancesRead, SamePlace
<1>3. ASSUME NEW r \in Runs, NEW fee \in Estimates, EstimateAnswers(r, fee)
      PROVE  OfFormNow'
  <2>1. asked' = [asked EXCEPT ![r] = None] /\ UNCHANGED paid
    BY <1>3 DEF EstimateAnswers
  <2>2. CASE r # shown.newest
    <3>1. shown' = shown
      BY <1>3, <2>2 DEF EstimateAnswers
    <3>2. shown.newest # None => asked'[shown.newest] = asked[shown.newest]
      BY <2>1, <2>2 DEF OtherTypes, Estimators, ShownIsTyped, Screen, MaybeRuns
    <3>3. OfForm(shown', asked')
      BY <3>1, <3>2 DEF OfForm
    <3> QED BY <2>1, <3>1, <3>3, FormKeepsFee DEF SamePlace
  <2>3. CASE r = shown.newest
    <3> DEFINE quote == Quote(IF isUsableFee(fee) THEN "ready" ELSE "unavailable", fee, asked[r])
    <3>1. quote.of = asked[r]
      BY DEF Quote
    <3>2. asked[r] = <<shown.to, shown.token>>
      BY <2>3 DEF OfForm, SendAssumption
    <3>3. shown' = [shown EXCEPT !.quote = quote, !.newest = None]
      BY <1>3, <2>3 DEF EstimateAnswers
    <3> HIDE DEF quote
    <3>4. SamePlace(shown', shown) /\ shown'.quote = quote /\ shown'.newest = None
      BY <3>3, Zenon DEF ShownIsTyped, Screen, SamePlace
    <3>5. OfForm(shown', asked')
      BY <3>1, <3>2, <3>4 DEF OfForm, SamePlace
    <3> QED BY <2>1, <3>4, <3>5, FormKeepsFee
  <2> QED BY <2>2, <2>3
<1> QED BY <1>1, <1>2, <1>3

LEMMA ConfirmationKeepsFee ==
    ASSUME SendAssumption, FeeInv, NEW p \in Payments, handleConfirmAddressAndSend(p) \/ pay(p)
    PROVE  OfFormNow'
<1> USE DEF FeeInv, SendInv
<1>1. CASE Confirmed(p)
  <2>1. CanSend /\ shown.at \in {"amount", "merchant"} /\ UNCHANGED asked
    BY DEF handleConfirmAddressAndSend, pay
  <2>2. shown' = [shown EXCEPT !.review = FALSE, !.mine = p, !.last = p]
    BY <1>1 DEF Confirmed
  <2>3. /\ shown'.mine = p /\ shown'.at = shown.at /\ shown'.to = shown.to /\ shown'.token = shown.token
        /\ shown'.quote = shown.quote /\ shown'.newest = shown.newest
    BY <2>2, Zenon DEF ShownIsTyped, Screen
  <2>4. paid'[p] = Request
    BY <1>1 DEF Confirmed, PaidIsTyped
  <2>5. Request \in Requested /\ Request.step = "asked"
    BY <2>1, RequestIsTyped
  <2>6. Request.from = shown.at /\ Request.to = shown.to /\ Request.token = shown.token
    BY DEF Request
  <2>7. OfForm(shown', asked')
    BY <2>1, <2>3 DEF OfForm
  <2>8. OfPayment(shown', paid')
    BY <2>3, <2>4, <2>5, <2>6 DEF OfPayment
  <2> QED BY <2>7, <2>8 DEF OfFormNow
<1>2. CASE shown' = [shown EXCEPT !.review = FALSE, !.swipe = "rest"] /\ UNCHANGED paid
  <2>1. SamePlace(shown', shown) /\ shown'.quote = shown.quote /\ shown'.newest = shown.newest
    BY <1>2, Zenon DEF ShownIsTyped, Screen, SamePlace
  <2>2. UNCHANGED asked
    BY DEF handleConfirmAddressAndSend, pay
  <2> QED BY <1>2, <2>1, <2>2, OtherFieldsKeepFee
<1> QED BY <1>1, <1>2 DEF handleConfirmAddressAndSend, pay

\* The screen that waited for a payment no longer does, or never did.
LEMMA ReleasedKeepsFee ==
    ASSUME SendAssumption, FeeInv, NEW p \in Payments, NEW payment, paid' = [paid EXCEPT ![p] = payment],
           OfForm(shown', asked'), (shown' = shown /\ ~Here(p)) \/ shown'.mine = None
    PROVE  OfFormNow'
<1>1. CASE shown' = shown /\ ~Here(p)
  <2>1. \A q \in Payments : shown.mine = q => paid'[q] = paid[q]
    BY <1>1 DEF Here, FeeInv, SendInv, PaidIsTyped
  <2> QED BY <1>1, <2>1 DEF FeeInv, OfFormNow, OfPayment
<1>2. CASE shown'.mine = None
  BY <1>2 DEF OfFormNow, OfPayment, SendAssumption
<1> QED BY <1>1, <1>2

LEMMA AnsweredForm ==
    ASSUME FeeInv
    PROVE  /\ Answered \in Screen /\ Answered.mine = None /\ OfForm(Answered, asked)
           /\ Answered.at = shown.at /\ Answered.to = shown.to /\ Answered.token = shown.token
<1>1. /\ Answered \in Screen /\ Answered.mine = None /\ Answered.at = shown.at
      /\ Answered.to = shown.to /\ Answered.token = shown.token
      /\ Answered.quote = shown.quote /\ Answered.newest = shown.newest
  BY DEF Answered, FeeInv, SendInv, ShownIsTyped, Screen, MaybePayments
<1> QED BY <1>1 DEF FeeInv, OfForm

LEMMA RefusalKeepsFee ==
    ASSUME SendAssumption, FeeInv, NEW p \in Payments, NEW fee \in Fees \cup {NoFee}, NEW verdict,
           Waits(p), Refused(p, verdict, fee), verdict = "FEE_CONFIRM" => fee \in Fees
    PROVE  OfFormNow'
<1> USE DEF FeeInv, SendInv
<1>1. paid' = [paid EXCEPT ![p] = [step |-> "refused"]]
  BY DEF Refused, Over
<1> DEFINE sheet == [Answered EXCEPT !.review = TRUE]
<1>2. sheet \in Screen /\ sheet.mine = None /\ sheet.at = shown.at /\ sheet.to = shown.to /\ sheet.token = shown.token
      /\ sheet.quote = Answered.quote /\ sheet.newest = Answered.newest
  BY AnsweredForm DEF Screen
<1>3. OfForm(sheet, asked)
  BY <1>2, AnsweredForm DEF OfForm
<1>4. CASE ~Here(p)
  BY <1>1, <1>4, ReleasedKeepsFee DEF Refused
<1>5. CASE Here(p) /\ verdict = "FEE_CONFIRM"
  <2> DEFINE quote == Quote("ready", fee, <<paid[p].to, paid[p].token>>)
  <2>1. shown' = [sheet EXCEPT !.quote = quote, !.newest = None] /\ UNCHANGED asked
    BY <1>5, Zenon DEF Refused, Accept
  <2>2. quote.of = <<paid[p].to, paid[p].token>>
    BY DEF Quote
  <2>3. shown.at = "amount" => <<paid[p].to, paid[p].token>> = <<shown.to, shown.token>>
    BY <1>5 DEF Here, OfPayment
  <2> HIDE DEF quote, sheet
  <2>4. /\ shown'.quote = quote /\ shown'.newest = None /\ shown'.mine = None
        /\ shown'.at = shown.at /\ shown'.to = shown.to /\ shown'.token = shown.token
    BY <1>2, <2>1, Zenon DEF Screen
  <2>5. OfForm(shown', asked')
    BY <2>2, <2>3, <2>4 DEF OfForm
  <2> QED BY <1>1, <2>4, <2>5, ReleasedKeepsFee
<1>6. CASE Here(p) /\ verdict # "FEE_CONFIRM"
  <2>1. Refresh(sheet)
    BY <1>6 DEF Refused
  <2> HIDE DEF sheet
  <2>2. OfForm(shown', asked') /\ SamePlace(shown', sheet)
    BY <1>2, <1>3, <2>1, RefreshedIsOfForm
  <2> QED BY <1>1, <1>2, <2>2, ReleasedKeepsFee DEF SamePlace
<1> QED BY <1>4, <1>5, <1>6

LEMMA PreparationKeepsFee ==
    ASSUME SendAssumption, FeeInv, NEW p \in Payments, NEW fee \in Fees \cup {NoFee}, Prepared(p, fee)
    PROVE  OfFormNow'
<1> USE DEF FeeInv, SendInv
<1> DEFINE verdict == checkPreparedFee(fee, paid[p])
<1>1. paid[p] \in Requested
  BY WaitingIsOpen DEF Prepared
<1>2. CASE verdict = "ok"
  <2> DEFINE payment == [paid[p] EXCEPT !.step = "signed", !.cost = fee]
  <2>1. /\ paid' = [paid EXCEPT ![p].step = "signed", ![p].cost = fee]
        /\ UNCHANGED <<shown, asked, balance>>
    BY <1>2 DEF Prepared
  <2>2. paid' = [paid EXCEPT ![p] = payment]
    BY <2>1 DEF PaidIsTyped
  <2>3. payment \in Requested
    BY <1>1 DEF Requested
  <2>4. payment.from = paid[p].from /\ payment.to = paid[p].to /\ payment.token = paid[p].token /\ payment.step = "signed"
    BY <1>1 DEF Requested
  <2> HIDE DEF payment
  <2>5. OfPayment(shown, paid')
    BY <2>2, <2>3, <2>4 DEF OfPayment, PaidIsTyped
  <2> QED BY <2>1, <2>5 DEF OfFormNow
<1>3. CASE verdict # "ok"
  <2>1. verdict = "FEE_CONFIRM" => fee \in Fees
    BY DEF checkPreparedFee, isUsableFee
  <2>2. Waits(p) /\ Refused(p, verdict, fee)
    BY <1>3 DEF Prepared
  <2> HIDE DEF verdict
  <2> QED BY <2>1, <2>2, RefusalKeepsFee
<1> QED BY <1>2, <1>3

LEMMA ClosedKeepsFee ==
    ASSUME SendAssumption, FeeInv, NEW p \in Payments, NEW payment, paid' = [paid EXCEPT ![p] = payment],
           shown' = Closed
    PROVE  OfFormNow'
<1>1. shown'.quote = Idle /\ shown'.newest = None /\ shown'.mine = None
  BY DEF Closed
<1> QED BY <1>1, NewFormIsOfForm DEF OfFormNow

LEMMA AcceptanceKeepsFee ==
    ASSUME SendAssumption, FeeInv, NEW p \in Payments, Accepted(p)
    PROVE  OfFormNow'
<1> USE DEF FeeInv, SendInv
<1> DEFINE payment == [paid[p] EXCEPT !.step = "accepted"]
<1>1. paid[p] \in Requested
  BY WaitingIsOpen DEF Accepted
<1>2. paid' = [paid EXCEPT ![p] = payment]
  BY DEF Accepted, PaidIsTyped
<1>3. payment \in Requested /\ payment.from = paid[p].from
  BY <1>1 DEF Requested
<1>4. CASE paid[p].from = "amount"
  <2>1. shown' = Closed
    BY <1>4 DEF Accepted, leaveSendFlow
  <2> HIDE DEF payment
  <2> QED BY <1>2, <2>1, ClosedKeepsFee
<1>5. CASE paid[p].from # "amount"
  <2>1. UNCHANGED <<shown, asked>>
    BY <1>5 DEF Accepted
  <2> HIDE DEF payment
  <2>2. OfPayment(shown, paid')
    BY <1>2, <1>3, <1>5 DEF OfPayment, PaidIsTyped
  <2> QED BY <2>1, <2>2 DEF OfFormNow
<1> QED BY <1>4, <1>5

LEMMA EndKeepsFee ==
    ASSUME SendAssumption, FeeInv, NEW p \in Payments,
           Fails(p) \/ StaysUnknown(p) \/ Succeeds(p)
    PROVE  OfFormNow'
<1> USE DEF FeeInv, SendInv
<1>1. PICK step : paid' = [paid EXCEPT ![p] = [step |-> step]]
  BY DEF Fails, StaysUnknown, Succeeds, Over
<1>2. UNCHANGED asked /\ Waits(p)
  BY DEF Fails, StaysUnknown, Succeeds
<1>3. ASSUME ~Here(p), shown' = shown
      PROVE  OfFormNow'
  BY <1>1, <1>2, <1>3, ReleasedKeepsFee
<1>4. ASSUME shown'.mine = None, shown'.at = shown.at, shown'.to = shown.to, shown'.token = shown.token,
             shown'.quote = shown.quote, shown'.newest = shown.newest
      PROVE  OfFormNow'
  <2>1. OfForm(shown', asked')
    BY <1>2, <1>4 DEF OfForm
  <2> QED BY <1>1, <1>4, <2>1, ReleasedKeepsFee
<1>5. /\ Answered \in Screen /\ Answered.mine = None /\ Answered.at = shown.at
      /\ Answered.to = shown.to /\ Answered.token = shown.token
      /\ Answered.quote = shown.quote /\ Answered.newest = shown.newest
  BY DEF Answered, ShownIsTyped, Screen, MaybePayments
<1>6. ASSUME NEW amount \in Typed, shown' = [Answered EXCEPT !.amount = amount]
      PROVE  OfFormNow'
  BY <1>4, <1>5, <1>6 DEF Screen
<1>7. CASE Fails(p)
  <2>1. CASE Here(p)
    <3>1. shown' = [Answered EXCEPT !.swipe = "rest"]
      BY <1>7, <2>1 DEF Fails
    <3> QED BY <1>4, <1>5, <3>1 DEF Screen
  <2> QED BY <1>3, <1>7, <2>1 DEF Fails
<1>8. CASE StaysUnknown(p)
  <2>1. CASE Here(p)
    <3>1. shown' = [Answered EXCEPT !.unknown = TRUE, !.swipe = "rest"]
      BY <1>8, <2>1 DEF StaysUnknown
    <3>2. /\ shown'.mine = Answered.mine /\ shown'.at = Answered.at /\ shown'.to = Answered.to
          /\ shown'.token = Answered.token /\ shown'.quote = Answered.quote /\ shown'.newest = Answered.newest
      BY <1>5, <3>1, Zenon DEF Screen
    <3> QED BY <1>4, <1>5, <3>2
  <2> QED BY <1>3, <1>8, <2>1 DEF StaysUnknown
<1>9. CASE Succeeds(p)
  <2>1. CASE paid[p].from = "amount" /\ paid[p].step = "accepted"
    <3>1. ~Here(p)
      BY <2>1 DEF Here, OfPayment
    <3> QED BY <1>3, <1>9, <2>1, <3>1 DEF Succeeds, leaveSendFlow
  <2>2. CASE paid[p].from = "amount" /\ paid[p].step # "accepted"
    BY <1>1, <1>9, <2>2, ClosedKeepsFee DEF Succeeds, leaveSendFlow
  <2>3. CASE paid[p].from # "amount"
    <3>1. None \in Typed
      BY DEF Typed
    <3> QED BY <1>3, <1>6, <1>9, <2>3, <3>1 DEF Succeeds
  <2> QED BY <2>1, <2>2, <2>3
<1> QED BY <1>7, <1>8, <1>9

LEMMA FeeStep == SendAssumption /\ FeeInv /\ [SendNext]_sendVars => FeeInv'
<1> SUFFICES ASSUME SendAssumption, FeeInv, [SendNext]_sendVars PROVE FeeInv'
  OBVIOUS
<1>1. SendInv'
  BY StepSound DEF FeeInv
<1>2. ASSUME SendNext PROVE OfFormNow'
  <2>1. CASE SendForm
    BY <2>1, OpeningKeepsFee, TypingKeepsFee, ReviewKeepsFee, ConfirmationKeepsFee DEF SendForm
  <2>2. CASE Answers
    BY <2>2, AnswersKeepFee, ReviewKeepsFee DEF Answers
  <2>3. ASSUME NEW p \in Payments, Outcome(p)
        PROVE  OfFormNow'
    <3>1. ASSUME NEW fee \in Fees \cup {NoFee}, Prepared(p, fee) PROVE OfFormNow'
      BY <3>1, PreparationKeepsFee
    <3>2. CASE FeeRefused(p)
      BY <3>2, RefusalKeepsFee DEF FeeRefused
    <3>3. CASE Fails(p) \/ StaysUnknown(p) \/ Succeeds(p)
      BY <3>3, EndKeepsFee
    <3> QED BY <2>3, <3>1, <3>2, <3>3 DEF Outcome
  <2>4. ASSUME NEW p \in Payments, Accepted(p)
        PROVE  OfFormNow'
    BY <2>4, AcceptanceKeepsFee
  <2> QED BY <1>2, <2>1, <2>2, <2>3, <2>4 DEF SendNext
<1>3. CASE UNCHANGED sendVars
  <2>1. UNCHANGED <<shown, asked, paid>>
    BY <1>3 DEF sendVars
  <2>2. OfFormNow'
    BY <2>1, OtherFieldsKeepFee DEF SamePlace
  <2> QED BY <1>1, <2>2 DEF FeeInv, OfFormNow
<1> QED BY <1>1, <1>2, <1>3 DEF FeeInv, OfFormNow

\* Whatever overlaps: the fee on the send screen is of the recipient and the token that stand
\* there, and so is the estimate it waits for, and the payment (useNetworkFee, feeEstimator).
THEOREM FeeIsOfForm == SendSpec => []QuoteIsOfForm
<1>1. SendInit => FeeInv
  <2> SUFFICES ASSUME SendInit PROVE FeeInv
    OBVIOUS
  <2>1. shown.quote = Idle /\ shown.newest = None /\ shown.mine = None
    BY DEF SendInit, Closed
  <2> QED BY <2>1, InitSound, NewFormIsOfForm, SendAssumption DEF FeeInv
<1>2. FeeInv /\ [SendNext]_sendVars => FeeInv'
  BY FeeStep, SendAssumption
<1>3. FeeInv => QuoteIsOfForm
  BY DEF FeeInv, QuoteIsOfForm, OfForm, OfPayment, Here, Subject
<1> QED BY <1>1, <1>2, <1>3, PTL DEF SendSpec

-----------------------------------------------------------------------------
\* What became of the last payment. The one the screen waits for is the last it confirmed; the
\* last one is either the one it waits for or over, and of one nobody can tell the outcome of the
\* screen knows.
OnItsWay(payment) == payment.step \in {"asked", "signed", "accepted"}

LastIsTold(sheet, payments) ==
    /\ sheet.mine # None => sheet.last = sheet.mine
    /\ \A p \in Payments : sheet.last = p =>
          /\ payments[p].step = "unknown" => sheet.unknown
          /\ OnItsWay(payments[p]) => sheet.mine = p

TellInv == FeeInv /\ LastIsTold(shown, paid)

SameLast(sheet, other) == sheet.mine = other.mine /\ sheet.last = other.last /\ sheet.unknown = other.unknown

LEMMA EstimatingLeavesLast ==
    ASSUME NEW sheet \in Screen, Estimating(sheet) \/ Edit(sheet) \/ Refresh(sheet)
    PROVE  SameLast(shown', sheet)
<1>1. ASSUME NEW quote, NEW newest, shown' = [sheet EXCEPT !.quote = quote, !.newest = newest]
      PROVE  SameLast(shown', sheet)
  BY <1>1 DEF Screen, SameLast
<1>2. CASE Estimating(sheet)
  BY <1>1, <1>2 DEF Estimating
<1> QED
  BY <1>2 DEF Edit, Refresh, SameLast

\* A screen that has just opened has paid nothing.
Fresh(sheet) == sheet.mine = None /\ sheet.last = None

LEMMA FormKeepsLast ==
    ASSUME SendAssumption, LastIsTold(shown, paid), UNCHANGED paid, SameLast(shown', shown) \/ Fresh(shown')
    PROVE  LastIsTold(shown', paid')
BY DEF LastIsTold, SameLast, Fresh, SendAssumption

LEMMA OpeningLeavesLast ==
    ASSUME SendAssumption, SendInv,
           \/ OpenSend \/ OpenMerchant \/ handleBack \/ handleClose
           \/ \E to \in Recipients : handleSelectRecipient(to)
    PROVE  Fresh(shown')
<1>1. ASSUME NEW at, NEW to, NEW amount, Open(at, to, amount)
      PROVE  Fresh(shown')
  BY <1>1, Zenon DEF Open, Closed, Fresh
<1>2. CASE OpenSend \/ OpenMerchant
  BY <1>1, <1>2 DEF OpenSend, OpenMerchant
<1>3. CASE handleBack \/ handleClose
  BY <1>3 DEF handleBack, handleClose, Closed, Fresh
<1>4. ASSUME NEW to \in Recipients, handleSelectRecipient(to)
      PROVE  Fresh(shown')
  <2> DEFINE sheet == [Closed EXCEPT !.at = "amount", !.to = to]
  <2>1. sheet \in Screen
    BY ClosedIsScreen, Zenon DEF Screen, Places
  <2>2. Fresh(sheet)
    BY Zenon DEF Closed, Fresh
  <2>3. Edit(sheet)
    BY <1>4 DEF handleSelectRecipient
  <2> HIDE DEF sheet
  <2> QED
    BY <2>1, <2>2, <2>3, EstimatingLeavesLast DEF SameLast, Fresh
<1> QED
  BY <1>2, <1>3, <1>4

LEMMA TypingLeavesLast ==
    ASSUME SendAssumption, SendInv,
           \/ \E amount \in Amounts \cup {None, TooFine} : handleAmountChange(amount)
           \/ handleQuickAmount \/ SendMax
           \/ \E token \in Tokens : handleTokenSelect(token)
           \/ \E to \in Recipients \cup {None} : TypeRecipient(to)
           \/ \E request \in PaymentRequests : pastePaymentRequest(request)
    PROVE  SameLast(shown', shown)
<1> USE DEF SendInv
<1>1. ASSUME NEW amount, shown' = [shown EXCEPT !.amount = amount]
      PROVE  SameLast(shown', shown)
  BY <1>1 DEF SameLast, ShownIsTyped, Screen
<1>2. CASE \/ \E amount \in Amounts \cup {None, TooFine} : handleAmountChange(amount)
           \/ handleQuickAmount \/ SendMax
  BY <1>1, <1>2, Zenon DEF handleAmountChange, handleQuickAmount, SendMax
<1>3. ASSUME NEW token \in Tokens, handleTokenSelect(token)
      PROVE  SameLast(shown', shown)
  <2> DEFINE amount == IF shown.at = "merchant" THEN None ELSE shown.amount
             sheet == [shown EXCEPT !.token = token, !.amount = amount]
  <2>1. amount \in Typed
    BY DEF Typed, ShownIsTyped, Screen
  <2>2. Edit(sheet)
    BY <1>3 DEF handleTokenSelect
  <2> HIDE DEF amount
  <2>3. sheet \in Screen /\ SameLast(sheet, shown)
    BY <2>1, Zenon DEF ShownIsTyped, Screen, SameLast
  <2> HIDE DEF sheet
  <2> QED
    BY <2>2, <2>3, EstimatingLeavesLast DEF SameLast
<1>4. ASSUME NEW to \in Recipients \cup {None}, TypeRecipient(to)
      PROVE  SameLast(shown', shown)
  <2> DEFINE sheet == [shown EXCEPT !.to = to]
  <2>1. sheet \in Screen /\ SameLast(sheet, shown)
    BY DEF ShownIsTyped, Screen, SameLast
  <2>2. Edit(sheet)
    BY <1>4 DEF TypeRecipient
  <2> HIDE DEF sheet
  <2> QED
    BY <2>1, <2>2, EstimatingLeavesLast DEF SameLast
<1>5. ASSUME NEW request \in PaymentRequests, pastePaymentRequest(request)
      PROVE  SameLast(shown', shown)
  <2> DEFINE amount == IF request.amount = None THEN shown.amount ELSE request.amount
             sheet == [shown EXCEPT !.to = request.to, !.token = request.token, !.amount = amount]
  <2>1. amount \in Typed
    BY DEF Typed, ShownIsTyped, Screen, PaymentRequests, SendAssumption
  <2>2. Edit(sheet)
    BY <1>5 DEF pastePaymentRequest
  <2>3. request.to \in Recipients \cup {None} /\ request.token \in Tokens
    BY DEF PaymentRequests
  <2> HIDE DEF amount
  <2>4. sheet \in Screen /\ SameLast(sheet, shown)
    BY <2>1, <2>3, Zenon DEF ShownIsTyped, Screen, SameLast
  <2> HIDE DEF sheet
  <2> QED
    BY <2>2, <2>4, EstimatingLeavesLast DEF SameLast
<1> QED
  BY <1>2, <1>3, <1>4, <1>5

LEMMA ReviewLeavesLast ==
    ASSUME SendAssumption, SendInv,
           QuoteLapses \/ refreshFee \/ Swipe \/ openReview \/ closeAddressReview \/ handleSendComplete
    PROVE  SameLast(shown', shown)
<1> USE DEF SendInv
<1>1. CASE QuoteLapses
  BY <1>1 DEF QuoteLapses, ShownIsTyped, Screen, SameLast
<1>2. CASE refreshFee
  BY <1>2, EstimatingLeavesLast DEF refreshFee, ShownIsTyped
<1>3. CASE Swipe
  BY <1>3 DEF Swipe, ShownIsTyped, Screen, SameLast
<1>4. CASE openReview
  <2> DEFINE sheet == [shown EXCEPT !.review = TRUE]
  <2>1. sheet \in Screen /\ SameLast(sheet, shown)
    BY DEF ShownIsTyped, Screen, SameLast
  <2>2. Refresh(sheet)
    BY <1>4 DEF openReview
  <2> HIDE DEF sheet
  <2> QED
    BY <2>1, <2>2, EstimatingLeavesLast DEF SameLast
<1>5. CASE closeAddressReview
  BY <1>5, Zenon DEF closeAddressReview, ShownIsTyped, Screen, SameLast
<1>6. CASE handleSendComplete
  <2> DEFINE sheet == [shown EXCEPT !.swipe = "done", !.review = TRUE]
  <2>1. sheet \in Screen /\ SameLast(sheet, shown)
    BY Zenon DEF ShownIsTyped, Screen, Swipes, SameLast
  <2>2. \/ shown' = [shown EXCEPT !.swipe = "rest"] \/ shown' = [shown EXCEPT !.swipe = "done"]
        \/ Refresh(sheet)
    BY <1>6 DEF handleSendComplete
  <2> HIDE DEF sheet
  <2>3. CASE Refresh(sheet)
    BY <2>1, <2>3, EstimatingLeavesLast DEF SameLast
  <2> QED
    BY <2>2, <2>3 DEF ShownIsTyped, Screen, SameLast
<1> QED
  BY <1>1, <1>2, <1>3, <1>4, <1>5, <1>6

LEMMA AnswersLeaveLast ==
    ASSUME SendAssumption, SendInv,
           \/ \E built \in BOOLEAN : ServiceChanges(built)
           \/ \E read \in Wallets : BalancesRead(read)
           \/ \E r \in Runs, fee \in Estimates : EstimateAnswers(r, fee)
    PROVE  SameLast(shown', shown)
<1> USE DEF SendInv
<1>1. ASSUME NEW built \in BOOLEAN, ServiceChanges(built)
      PROVE  SameLast(shown', shown)
  <2> DEFINE sheet == [shown EXCEPT !.wallet = built]
  <2>1. sheet \in Screen /\ SameLast(sheet, shown)
    BY DEF ShownIsTyped, Screen, SameLast
  <2>2. Estimating(sheet)
    BY <1>1 DEF ServiceChanges
  <2> HIDE DEF sheet
  <2> QED
    BY <2>1, <2>2, EstimatingLeavesLast DEF SameLast
<1>2. ASSUME NEW read \in Wallets, BalancesRead(read)
      PROVE  SameLast(shown', shown)
  BY <1>2 DEF BalancesRead, SameLast
<1>3. ASSUME NEW r \in Runs, NEW fee \in Estimates, EstimateAnswers(r, fee)
      PROVE  SameLast(shown', shown)
  <2> DEFINE quote == Quote(IF isUsableFee(fee) THEN "ready" ELSE "unavailable", fee, asked[r])
  <2>1. shown' = IF r = shown.newest THEN [shown EXCEPT !.quote = quote, !.newest = None] ELSE shown
    BY <1>3 DEF EstimateAnswers
  <2> HIDE DEF quote
  <2> QED
    BY <2>1 DEF ShownIsTyped, Screen, SameLast
<1> QED
  BY <1>1, <1>2, <1>3

-----------------------------------------------------------------------------
\* A payment changes: it is confirmed, goes on, or is over.

LEMMA ConfirmationIsTold ==
    ASSUME SendAssumption, TellInv, NEW p \in Payments, handleConfirmAddressAndSend(p) \/ pay(p)
    PROVE  LastIsTold(shown', paid')
<1> USE DEF TellInv, FeeInv, SendInv
<1>1. CASE Confirmed(p)
  <2>1. shown' = [shown EXCEPT !.review = FALSE, !.mine = p, !.last = p] /\ paid' = [paid EXCEPT ![p] = Request]
    BY <1>1 DEF Confirmed
  <2>2. shown'.mine = p /\ shown'.last = p
    BY <2>1, Zenon DEF ShownIsTyped, Screen
  <2>3. CanSend /\ shown.at \in {"amount", "merchant"}
    BY DEF handleConfirmAddressAndSend, pay
  <2>4. Request.step = "asked" /\ Request \in Requested
    BY <2>3, RequestIsTyped
  <2>5. paid'[p] = Request
    BY <2>1 DEF PaidIsTyped
  <2> QED
    BY <2>2, <2>4, <2>5 DEF LastIsTold
<1>2. CASE shown' = [shown EXCEPT !.review = FALSE, !.swipe = "rest"] /\ UNCHANGED paid
  <2>1. SameLast(shown', shown)
    BY <1>2, Zenon DEF ShownIsTyped, Screen, SameLast
  <2> QED
    BY <1>2, <2>1, FormKeepsLast
<1> QED
  BY <1>1, <1>2 DEF handleConfirmAddressAndSend, pay

\* What answers a screen leaves its last payment; who waited for it waits no more.
Answering(sheet) == sheet.mine = None /\ sheet.last = shown.last

LEMMA EndIsTold ==
    ASSUME SendAssumption, TellInv, NEW p \in Payments, Waits(p), NEW step \in {"refused", "failed", "unknown", "done"},
           Over(p, step),
           \/ Here(p) /\ Answering(shown') /\ (step = "unknown" => shown'.unknown)
           \/ ~Here(p) /\ SameLast(shown', shown)
           \/ Fresh(shown')
    PROVE  LastIsTold(shown', paid')
<1> USE DEF TellInv, FeeInv, SendInv
<1>1. paid' = [paid EXCEPT ![p] = [step |-> step]] /\ DOMAIN paid = Payments
  BY DEF Over, PaidIsTyped
<1>2. paid'[p].step = step /\ \A q \in Payments : q # p => paid'[q] = paid[q]
  BY <1>1
<1>3. CASE Fresh(shown')
  BY <1>3 DEF Fresh, LastIsTold, SendAssumption
<1>4. CASE Here(p) /\ Answering(shown') /\ (step = "unknown" => shown'.unknown)
  <2>1. shown'.last = p /\ shown'.mine = None /\ (step = "unknown" => shown'.unknown)
    BY <1>4 DEF Here, Answering, LastIsTold, SendAssumption
  <2> QED
    BY <1>2, <2>1 DEF LastIsTold, OnItsWay
<1>5. CASE ~Here(p) /\ SameLast(shown', shown)
  <2>1. shown.last # p
    BY <1>5 DEF LastIsTold, Waits, OnItsWay, Here
  <2> QED
    BY <1>2, <1>5, <2>1 DEF LastIsTold, SameLast
<1> QED
  BY <1>3, <1>4, <1>5

LEMMA RefusalIsTold ==
    ASSUME SendAssumption, TellInv, NEW p \in Payments, NEW fee \in Fees \cup {NoFee}, NEW verdict,
           Waits(p), Refused(p, verdict, fee)
    PROVE  LastIsTold(shown', paid')
<1> USE DEF TellInv, FeeInv, SendInv
<1> DEFINE sheet == [Answered EXCEPT !.review = TRUE]
<1>1. Over(p, "refused")
  BY DEF Refused
<1>2. Answered \in Screen /\ Answering(Answered)
  BY DEF Answered, Answering, ShownIsTyped, Screen, MaybePayments
<1>3. sheet \in Screen /\ Answering(sheet)
  BY <1>2 DEF Screen, Answering
<1>4. CASE ~Here(p)
  BY <1>1, <1>4, EndIsTold DEF Refused, SameLast
<1>5. CASE Here(p)
  <2>1. \/ Refresh(sheet)
        \/ \E quote : shown' = [sheet EXCEPT !.quote = quote, !.newest = None]
    BY <1>5 DEF Refused, Accept
  <2> HIDE DEF sheet
  <2>2. SameLast(shown', sheet)
    <3>1. ASSUME NEW quote, shown' = [sheet EXCEPT !.quote = quote, !.newest = None]
          PROVE  SameLast(shown', sheet)
      BY <1>3, <3>1 DEF Screen, SameLast
    <3> QED
      BY <1>3, <2>1, <3>1, EstimatingLeavesLast
  <2>3. Answering(shown')
    BY <1>3, <2>2 DEF SameLast, Answering
  <2> QED
    BY <1>1, <1>5, <2>3, EndIsTold
<1> QED
  BY <1>4, <1>5

LEMMA PaymentGoesOnTold ==
    ASSUME TellInv, NEW p \in Payments, Waits(p), UNCHANGED shown, DOMAIN paid' = Payments,
           \A q \in Payments : q # p => paid'[q] = paid[q], paid'[p].step \in {"signed", "accepted"}
    PROVE  LastIsTold(shown', paid')
BY DEF TellInv, LastIsTold, Waits, OnItsWay

LEMMA PreparationIsTold ==
    ASSUME SendAssumption, TellInv, NEW p \in Payments, NEW fee \in Fees \cup {NoFee}, Prepared(p, fee)
    PROVE  LastIsTold(shown', paid')
<1> USE DEF TellInv, FeeInv, SendInv
<1>1. paid[p] \in Requested /\ Waits(p)
  BY WaitingIsOpen DEF Prepared
<1>2. CASE paid' = [paid EXCEPT ![p].step = "signed", ![p].cost = fee] /\ UNCHANGED <<shown, asked>>
  <2> DEFINE payment == [paid[p] EXCEPT !.step = "signed", !.cost = fee]
  <2>1. paid' = [paid EXCEPT ![p] = payment]
    BY <1>2 DEF PaidIsTyped
  <2>2. payment.step = "signed"
    BY <1>1 DEF Requested
  <2> HIDE DEF payment
  <2> QED
    BY <1>1, <1>2, <2>1, <2>2, PaymentGoesOnTold DEF PaidIsTyped
<1>3. ASSUME NEW verdict, Refused(p, verdict, fee)
      PROVE  LastIsTold(shown', paid')
  BY <1>1, <1>3, RefusalIsTold
<1> QED
  BY <1>2, <1>3 DEF Prepared

LEMMA LeavingIsTold ==
    ASSUME SendAssumption, TellInv, NEW p \in Payments, Accepted(p) \/ Succeeds(p)
    PROVE  LastIsTold(shown', paid')
<1> USE DEF TellInv, FeeInv, SendInv
<1>1. paid[p] \in Requested /\ Waits(p)
  BY WaitingIsOpen DEF Accepted, Succeeds
<1>2. Fresh(Closed)
  BY DEF Closed, Fresh
<1>3. CASE Accepted(p)
  <2>1. shown' \in {shown, Closed}
    BY <1>3 DEF Accepted, leaveSendFlow
  <2>2. CASE UNCHANGED shown
    <3> DEFINE payment == [paid[p] EXCEPT !.step = "accepted"]
    <3>1. paid' = [paid EXCEPT ![p] = payment]
      BY <1>3 DEF Accepted, PaidIsTyped
    <3>2. payment.step = "accepted"
      BY <1>1 DEF Requested
    <3> HIDE DEF payment
    <3> QED
      BY <1>1, <2>2, <3>1, <3>2, PaymentGoesOnTold DEF PaidIsTyped
  <2>3. CASE shown' = Closed
    BY <1>2, <2>3 DEF Fresh, LastIsTold, SendAssumption
  <2> QED
    BY <2>1, <2>2, <2>3
<1>4. CASE Succeeds(p)
  <2>1. Over(p, "done")
    BY <1>4 DEF Succeeds
  <2>2. CASE paid[p].from = "amount"
    <3>1. shown' = Closed \/ (shown' = shown /\ paid[p].step = "accepted")
      BY <1>4, <2>2 DEF Succeeds, leaveSendFlow
    <3>2. paid[p].step = "accepted" => ~Here(p)
      BY <2>2 DEF OfPayment, Here
    <3> QED
      BY <1>1, <1>2, <2>1, <3>1, <3>2, EndIsTold DEF SameLast
  <2>3. CASE paid[p].from # "amount"
    <3> DEFINE sheet == [Answered EXCEPT !.amount = None]
    <3>1. Answered \in Screen /\ Answering(Answered)
      BY DEF Answered, Answering, ShownIsTyped, Screen, MaybePayments
    <3>2. Answering(sheet)
      BY <3>1 DEF Screen, Answering
    <3>3. shown' = IF Here(p) THEN sheet ELSE shown
      BY <1>4, <2>3 DEF Succeeds
    <3> HIDE DEF sheet
    <3>4. Here(p) => Answering(shown')
      BY <3>2, <3>3
    <3> QED
      BY <1>1, <2>1, <3>3, <3>4, EndIsTold DEF SameLast
  <2> QED
    BY <2>2, <2>3
<1> QED
  BY <1>3, <1>4

LEMMA FailureIsTold ==
    ASSUME SendAssumption, TellInv, NEW p \in Payments, Fails(p) \/ StaysUnknown(p)
    PROVE  LastIsTold(shown', paid')
<1> USE DEF TellInv, FeeInv, SendInv
<1>1. Answered \in Screen /\ Answering(Answered)
  BY DEF Answered, Answering, ShownIsTyped, Screen, MaybePayments
<1>2. CASE Fails(p)
  <2>1. Waits(p) /\ Over(p, "failed") /\ shown' = IF Here(p) THEN [Answered EXCEPT !.swipe = "rest"] ELSE shown
    BY <1>2 DEF Fails
  <2>2. Here(p) => Answering(shown')
    BY <1>1, <2>1 DEF Screen, Answering
  <2> QED
    BY <2>1, <2>2, EndIsTold DEF SameLast
<1>3. CASE StaysUnknown(p)
  <2>1. /\ Waits(p) /\ Over(p, "unknown")
        /\ shown' = IF Here(p) THEN [Answered EXCEPT !.unknown = TRUE, !.swipe = "rest"] ELSE shown
    BY <1>3 DEF StaysUnknown
  <2>2. Here(p) => Answering(shown') /\ shown'.unknown
    BY <1>1, <2>1, Zenon DEF Screen, Answering
  <2> QED
    BY <2>1, <2>2, EndIsTold DEF SameLast
<1> QED
  BY <1>2, <1>3

LEMMA TellStep ==
    ASSUME SendAssumption, TellInv, [SendNext]_sendVars
    PROVE  TellInv'
<1>1. FeeInv'
  BY FeeStep DEF TellInv
<1>2. LastIsTold(shown', paid')
  <2> USE DEF TellInv, FeeInv
  <2>1. CASE SendForm
    <3>1. CASE \E p \in Payments : handleConfirmAddressAndSend(p) \/ pay(p)
      BY <3>1, ConfirmationIsTold
    <3>2. CASE OpenSend \/ OpenMerchant \/ handleBack \/ handleClose
               \/ (\E to \in Recipients : handleSelectRecipient(to))
      BY <3>2, OpeningKeeps, OpeningLeavesLast, FormKeepsLast
    <3>3. CASE \/ \E amount \in Amounts \cup {None, TooFine} : handleAmountChange(amount)
               \/ handleQuickAmount \/ SendMax
               \/ \E token \in Tokens : handleTokenSelect(token)
               \/ \E to \in Recipients \cup {None} : TypeRecipient(to)
               \/ \E request \in PaymentRequests : pastePaymentRequest(request)
      BY <3>3, TypingKeeps, TypingLeavesLast, FormKeepsLast
    <3>4. CASE QuoteLapses \/ refreshFee \/ Swipe \/ openReview \/ closeAddressReview
      BY <3>4, ReviewKeeps, ReviewLeavesLast, FormKeepsLast
    <3> QED
      BY <2>1, <3>1, <3>2, <3>3, <3>4 DEF SendForm
  <2>2. CASE Answers
    <3>1. CASE handleSendComplete
      BY <3>1, ReviewKeeps, ReviewLeavesLast, FormKeepsLast
    <3>2. CASE \/ \E built \in BOOLEAN : ServiceChanges(built)
               \/ \E read \in Wallets : BalancesRead(read)
               \/ \E r \in Runs, fee \in Estimates : EstimateAnswers(r, fee)
      BY <3>2, AnswersKeep, AnswersLeaveLast, FormKeepsLast
    <3> QED
      BY <2>2, <3>1, <3>2 DEF Answers
  <2>3. ASSUME NEW p \in Payments, Outcome(p) \/ Accepted(p)
        PROVE  LastIsTold(shown', paid')
    <3>1. CASE FeeRefused(p)
      BY <3>1, RefusalIsTold DEF FeeRefused
    <3> QED
      BY <2>3, <3>1, PreparationIsTold, LeavingIsTold, FailureIsTold DEF Outcome
  <2>4. CASE UNCHANGED sendVars
    BY <2>4, FormKeepsLast DEF sendVars, SameLast
  <2> QED
    BY <2>1, <2>2, <2>3, <2>4 DEF SendNext
<1> QED
  BY <1>1, <1>2 DEF TellInv

\* Cents are rounded up.
LEMMA CentsCover ==
    ASSUME SendAssumption, NEW fee \in Nat
    PROVE  ShownCents(fee) * Cent >= fee
<1> DEFINE a == fee + Cent - 1
<1>1. Cent \in Nat \ {0} /\ a \in Nat /\ a = fee + Cent - 1
  BY DEF SendAssumption
<1>2. ShownCents(fee) = a \div Cent
  BY DEF ShownCents
<1> HIDE DEF a
<1>3. PICK q \in Nat, r \in Nat : q = a \div Cent /\ r = a % Cent /\ r < Cent /\ a = Cent * q + r
  <2>1. /\ a \div Cent \in Nat /\ a % Cent \in Nat /\ a % Cent < Cent
        /\ \A q, r \in Nat : q = a \div Cent /\ r = a % Cent => a = Cent * q + r
    BY <1>1
  <2> QED
    BY <2>1
<1>4. Cent * q = q * Cent /\ Cent * q \in Nat
  BY <1>1, <1>3
<1>5. q * Cent >= fee
  BY <1>1, <1>3, <1>4
<1> QED
  BY <1>2, <1>3, <1>5

LEMMA TellFollows ==
    ASSUME SendAssumption, TellInv
    PROVE  ScreenTellsTruth
<1> USE DEF TellInv, FeeInv, SendInv
<1>1. ASSUME shown.last # None, paid[shown.last].step = "unknown"
      PROVE  /\ Banner = "Status unknown. Do not send again." /\ SwipeLabel # "Slide right to send" /\ ~CanSend
             /\ shown.at = "merchant" => "Open Activity" \in MerchantHints
  <2>1. shown.last \in Payments
    BY <1>1 DEF ShownIsTyped, Screen, MaybePayments
  <2>2. shown.unknown
    BY <1>1, <2>1 DEF LastIsTold
  <2> QED
    BY <2>2 DEF Banner, SwipeLabel, CanSend, MerchantHints
<1>2. shown.quote \in Quotes
  BY DEF ShownIsTyped, Screen
<1>3. FeeLine # "Unavailable"
  BY <1>2 DEF FeeLine, formatNetworkFee, isUsableFee, Quotes, SendAssumption
<1>4. MaxFee # NoFee => ShownCents(MaxFee) * Cent >= MaxFee
  <2>1. MaxFee # NoFee => MaxFee \in Nat
    BY <1>2 DEF MaxFee, Quotes, SendAssumption
  <2> QED
    BY <2>1, CentsCover
<1>5. ASSUME CanConfirm, CanSend, ConfirmLabel = "Confirm and pay"
      PROVE  /\ BalanceLine # "Balance unavailable" /\ Warnings = {} /\ ReviewNotice = "none"
             /\ shown.token = FeeToken /\ LeavesAccount # Unread => LeavesAccount <= balance[FeeToken]
  <2>1. ~FundsMessage /\ Affordable /\ balance[shown.token] # Unread
    BY <1>5 DEF CanSend, Affordable
  <2>2. shown.quote.status # "unavailable"
    BY <1>5 DEF ConfirmLabel
  <2>3. BalanceLine # "Balance unavailable" /\ Warnings = {} /\ ReviewNotice = "none"
    BY <2>1, <2>2 DEF BalanceLine, Warnings, ReviewNotice
  <2>4. ASSUME shown.token = FeeToken, LeavesAccount # Unread
        PROVE  LeavesAccount <= balance[FeeToken]
    <3>1. /\ MaxFee # NoFee /\ shown.amount \notin {None, TooFine} /\ LeavesAccount = shown.amount + MaxFee
      BY <2>4 DEF LeavesAccount
    <3>2. checkFunds(shown.amount, shown.token, balance, MaxFee) = "ok"
      BY <2>1, <2>4, <3>1 DEF FundsMessage, assessSend, isUsableFee
    <3> QED
      BY <2>4, <3>1, <3>2 DEF checkFunds
  <2> QED
    BY <2>3, <2>4
<1> QED
  BY <1>1, <1>3, <1>4, <1>5 DEF ScreenTellsTruth

LEMMA TellBegins ==
    ASSUME SendAssumption, SendInit, FeeInv
    PROVE  TellInv
BY DEF SendInit, Closed, TellInv, LastIsTold, SendAssumption

-----------------------------------------------------------------------------
(* Add money.                                                              *)

Phases == {"idle", "creating", "open", "returned", "failed"}

Reasons == {"Enter an amount", "not ready yet", "smart account is not ready", "not configured yet",
            "connection could not be verified", "try again", "not set up correctly",
            "APP-CHECKOUT-LIVE", "APP-CHECKOUT"}

Sections == [at : BOOLEAN, ready : BOOLEAN, amount : {"none", "fair", "too much"}, phase : Phases,
             said : Reasons \cup {None}, asked : Sessions \cup {None}, url : Checkouts \cup {None},
             loading : BOOLEAN, problem : {"APP-CHECKOUT-OFFLINE", "APP-CHECKOUT-HTTP", "APP-CHECKOUT-TIMEOUT", None}, due : SUBSET (1 .. 4)]

\* An answer the app opens is a signed checkout of the sandbox.
Sound(answer) == checkoutOf(answer) = "open" => answer \in Checkouts

AnswersAreSound ==
    \A s \in Sessions : sessions[s] # None =>
        /\ sessions[s] = [amount |-> sessions[s].amount, answer |-> sessions[s].answer]
        /\ sessions[s].answer # None => Sound(sessions[s].answer)

\* The phase says what the section waits for, and nothing is said of it meanwhile.
PhaseIsTrue(m) ==
    /\ m.phase = "creating" <=> m.asked # None
    /\ m.phase = "open" <=> m.url # None
    /\ m.asked # None \/ m.url # None => m.said = None

BuyInv ==
    /\ site \in Sites /\ net \in Connections \cup {None}
    /\ money \in Sections /\ DOMAIN sessions = Sessions
    /\ AnswersAreSound /\ PhaseIsTrue(money)

LEMMA SetUpIsSandbox ==
    ASSUME NEW s, s.mode = "sandbox", inspectMoonPayConfig(s) = "none"
    PROVE  s.api = "pk_test" /\ s.secret = "sk_test"
<1>1. keyProblem(s.api, "sandbox", "public") = "none" /\ keyProblem(s.secret, "sandbox", "secret") = "none"
  BY DEF inspectMoonPayConfig
<1>2. Keys["sandbox"]["public"] = "pk_test" /\ Keys["sandbox"]["secret"] = "sk_test"
  BY DEF Keys
<1>3. ASSUME NEW key, NEW kind, keyProblem(key, "sandbox", kind) = "none"
      PROVE  key = Keys["sandbox"][kind]
  BY <1>3 DEF keyProblem
<1> QED
  BY <1>1, <1>2, <1>3

\* What the service signs for a connection is opened by the app only if it is a checkout.
LEMMA SignedIsSound ==
    ASSUME BuyAssumption, site \in Sites, NEW from, from \in Connections \cup {"unreadable"},
           NEW ready \in BOOLEAN, NEW amount
    PROVE  Sound(createMoonPaySession(ready, amount, from))
<1> DEFINE a == createMoonPaySession(ready, amount, from)
           ips == resolveClientIp(from)
<1>1. CASE \E code : a = Refusal(code)
  <2>1. PICK code : a = Refusal(code)
    BY <1>1
  <2>2. a = [refused |-> code]
    BY <2>1 DEF Refusal
  <2> HIDE DEF a
  <2>3. "refused" \in DOMAIN a
    BY <2>2
  <2>4. checkoutOf(a) = classifyOnrampError(a.refused)
    BY <2>3 DEF checkoutOf
  <2>5. classifyOnrampError(a.refused) # "open"
    BY DEF classifyOnrampError
  <2> QED
    BY <2>4, <2>5 DEF Sound, a
<1>2. CASE ready /\ ips # {} /\ inspectMoonPayConfig(site) = "none"
  <2>1. a = buildMoonPayWidgetUrl(ready, amount, ips)
    BY <1>2 DEF createMoonPaySession
  <2>2. a = [mode |-> site.mode, host |-> site.host, signed |-> TRUE, keys |-> <<site.api, site.secret>>,
             wallet |-> ready, amount |-> IF amount = "too much" THEN "open" ELSE "locked",
             redirect |-> site.redirect, for |-> ips]
    BY <2>1 DEF buildMoonPayWidgetUrl, buildAllowedIpAddress
  <2>3. \E ip \in Connections \ Private : ips = {ip}
    <3>1. PICK ip : ip \in {from, None} /\ ip # None /\ isPublicIp(ip) /\ ips = {ip}
                    /\ (from = "unreadable" => ip = None)
      BY <1>2 DEF resolveClientIp, canonicalizeIp
    <3> QED
      BY <3>1 DEF isPublicIp
  <2> HIDE DEF a, ips
  <2>4. "refused" \notin DOMAIN a
    BY <2>2
  <2>5. checkoutOf(a) = "open" => a.mode = "sandbox" /\ validateCheckoutUrl(a) = "ok"
    BY <2>4 DEF checkoutOf
  <2>6. checkoutOf(a) = "open" => site.mode = "sandbox" /\ site.host = "buy-sandbox" /\ ready
    BY <2>2, <2>5 DEF validateCheckoutUrl
  <2>7. checkoutOf(a) = "open" => site.api = "pk_test" /\ site.secret = "sk_test"
    BY <1>2, <2>6, SetUpIsSandbox
  <2>8. checkoutOf(a) = "open" => a \in Checkouts
    BY <2>2, <2>3, <2>6, <2>7 DEF Checkouts
  <2> QED
    BY <2>8 DEF Sound, a
<1> QED
  BY <1>1, <1>2 DEF createMoonPaySession

LEMMA BuyBegins ==
    ASSUME BuyAssumption, BuyInit
    PROVE  BuyInv
<1>1. money = NoMoney /\ NoMoney \in Sections /\ PhaseIsTrue(NoMoney)
  BY DEF BuyInit, NoMoney, Sections, Phases, PhaseIsTrue
<1>2. sessions = [s \in Sessions |-> None]
  BY DEF BuyInit
<1>3. DOMAIN sessions = Sessions /\ AnswersAreSound
  BY <1>2 DEF AnswersAreSound
<1> QED
  BY <1>1, <1>3 DEF BuyInit, BuyInv

\* What a change of the section keeps of the invariant.
LEMMA BuyKeeps ==
    ASSUME BuyInv, UNCHANGED <<site, sessions>>, net' \in Connections \cup {None},
           money' \in Sections, PhaseIsTrue(money)'
    PROVE  BuyInv'
BY DEF BuyInv, AnswersAreSound, Sound, checkoutOf, validateCheckoutUrl, classifyOnrampError

\* Asking for a checkout, from a section that neither waits nor shows one.
LEMMA AsksKeep ==
    ASSUME BuyAssumption, BuyInv, NEW m \in Sections, m.asked = None, m.url = None,
           PhaseIsTrue(m), Asks(m), UNCHANGED <<site, net>>
    PROVE  BuyInv'
<1>1. CASE UNCHANGED sessions /\ \E said \in Reasons : money' = [m EXCEPT !.said = said]
  <2>1. PICK said \in Reasons : money' = [m EXCEPT !.said = said]
    BY <1>1
  <2>2. money' \in Sections
    BY <2>1 DEF Sections
  <2>3. /\ money'.phase = m.phase /\ money'.asked = None /\ money'.url = None
    BY <2>1 DEF Sections
  <2>4. PhaseIsTrue(money')
    BY <2>3 DEF PhaseIsTrue
  <2> QED
    BY <1>1, <2>2, <2>4, BuyKeeps DEF BuyInv
<1>2. CASE \E s \in Sessions :
            /\ sessions[s] = None
            /\ sessions' = [sessions EXCEPT ![s] = [amount |-> m.amount, answer |-> None]]
            /\ money' = [m EXCEPT !.said = None, !.phase = onrampReducer(m.phase, "start"), !.asked = s]
  <2>1. PICK s \in Sessions :
            /\ sessions' = [sessions EXCEPT ![s] = [amount |-> m.amount, answer |-> None]]
            /\ money' = [m EXCEPT !.said = None, !.phase = "creating", !.asked = s]
    BY <1>2 DEF onrampReducer
  <2>2. money' \in Sections
    BY <2>1 DEF Sections, Phases
  <2>3. money'.phase = "creating" /\ money'.asked = s /\ money'.url = None /\ money'.said = None
    BY <2>1 DEF Sections
  <2>4. PhaseIsTrue(money') /\ s # None
    BY <2>3 DEF PhaseIsTrue, BuyAssumption
  <2>5. DOMAIN sessions' = Sessions
    BY <2>1 DEF BuyInv
  <2>6. ASSUME NEW t \in Sessions, sessions'[t] # None
        PROVE  /\ sessions'[t] = [amount |-> sessions'[t].amount, answer |-> sessions'[t].answer]
               /\ sessions'[t].answer # None => Sound(sessions'[t].answer)
    <3>1. CASE t = s
      BY <2>1, <3>1 DEF BuyInv
    <3>2. CASE t # s
      <4>1. sessions'[t] = sessions[t]
        BY <2>1, <3>2 DEF BuyInv
      <4> QED
        BY <2>6, <4>1 DEF BuyInv, AnswersAreSound
    <3> QED
      BY <3>1, <3>2
  <2>7. AnswersAreSound'
    BY <2>6 DEF AnswersAreSound, Sound, checkoutOf, validateCheckoutUrl, classifyOnrampError
  <2> QED
    BY <2>2, <2>4, <2>5, <2>7 DEF BuyInv, PhaseIsTrue
<1>3. Asks(m) => \/ UNCHANGED sessions /\ money' = [m EXCEPT !.said = "Enter an amount"]
                 \/ UNCHANGED sessions /\ money' = [m EXCEPT !.said = "not ready yet"]
                 \/ \E s \in Sessions :
                      /\ sessions[s] = None
                      /\ sessions' = [sessions EXCEPT ![s] = [amount |-> m.amount, answer |-> None]]
                      /\ money' = [m EXCEPT !.said = None, !.phase = onrampReducer(m.phase, "start"), !.asked = s]
  BY DEF Asks
<1>4. CASE UNCHANGED sessions /\ money' = [m EXCEPT !.said = "Enter an amount"]
  BY <1>1, <1>4 DEF Reasons
<1>5. CASE UNCHANGED sessions /\ money' = [m EXCEPT !.said = "not ready yet"]
  BY <1>1, <1>5 DEF Reasons
<1> QED
  BY <1>2, <1>3, <1>4, <1>5

\* The service hands out what it has signed, or what is wrong.
LEMMA ServiceKeeps ==
    ASSUME BuyAssumption, BuyInv, NEW s \in Sessions, ServiceSigns(s)
    PROVE  BuyInv'
<1>1. PICK from \in {net, "unreadable"}, ready \in BOOLEAN :
         sessions' = [sessions EXCEPT ![s].answer = createMoonPaySession(ready, sessions[s].amount, from)]
  BY DEF ServiceSigns
<1> DEFINE answer == createMoonPaySession(ready, sessions[s].amount, from)
<1>2. net # None /\ sessions[s] # None /\ UNCHANGED <<site, net, money>>
  BY DEF ServiceSigns
<1>3. from \in Connections \cup {"unreadable"} /\ site \in Sites
  BY <1>2 DEF BuyInv
<1>4. Sound(answer)
  BY <1>3, SignedIsSound
<1> HIDE DEF answer
<1>5. sessions' = [sessions EXCEPT ![s].answer = answer]
  BY <1>1 DEF answer
<1>6. DOMAIN sessions' = Sessions
  BY <1>5 DEF BuyInv
<1>7. ASSUME NEW t \in Sessions, sessions'[t] # None
      PROVE  /\ sessions'[t] = [amount |-> sessions'[t].amount, answer |-> sessions'[t].answer]
             /\ sessions'[t].answer # None => Sound(sessions'[t].answer)
  <2>1. CASE t = s
    <3>1. sessions[s] = [amount |-> sessions[s].amount, answer |-> sessions[s].answer]
      BY <1>2 DEF BuyInv, AnswersAreSound
    <3>2. sessions'[s] = [sessions[s] EXCEPT !.answer = answer]
      BY <1>5 DEF BuyInv
    <3>3. sessions'[s] = [amount |-> sessions[s].amount, answer |-> answer]
      BY <3>1, <3>2
    <3> QED
      BY <1>4, <2>1, <3>3
  <2>2. CASE t # s
    <3>1. sessions'[t] = sessions[t]
      BY <1>5, <2>2 DEF BuyInv
    <3> QED
      BY <1>7, <3>1 DEF BuyInv, AnswersAreSound
  <2> QED
    BY <2>1, <2>2
<1>8. AnswersAreSound'
  BY <1>7 DEF AnswersAreSound, Sound, checkoutOf, validateCheckoutUrl, classifyOnrampError
<1> QED
  BY <1>2, <1>6, <1>8 DEF BuyInv, PhaseIsTrue

\* A request that is over leaves the answers of the others.
LEMMA OverKeepsAnswers ==
    ASSUME BuyInv, NEW s \in Sessions, sessions' = [sessions EXCEPT ![s] = None]
    PROVE  DOMAIN sessions' = Sessions /\ AnswersAreSound'
<1>1. DOMAIN sessions' = Sessions
  BY DEF BuyInv
<1>2. \A t \in Sessions : sessions'[t] # None => sessions'[t] = sessions[t]
  BY DEF BuyInv
<1>3. AnswersAreSound'
  BY <1>2 DEF BuyInv, AnswersAreSound, Sound, checkoutOf, validateCheckoutUrl, classifyOnrampError
<1> QED
  BY <1>1, <1>3

\* The flow fails while it waits for a checkout.
LEMMA FailKeeps ==
    ASSUME BuyAssumption, BuyInv, NEW why \in Reasons, money.asked # None
    PROVE  FlowFails(why) \in Sections /\ PhaseIsTrue(FlowFails(why))
<1>1. FlowFails(why) = [money EXCEPT !.phase = "failed", !.said = why, !.asked = None]
  BY DEF FlowFails, onrampReducer
<1>2. money \in Sections /\ money.phase = "creating" /\ money.url = None
  BY DEF BuyInv, PhaseIsTrue
<1>3. FlowFails(why) \in Sections
  BY <1>1, <1>2 DEF Sections, Phases
<1>4. FlowFails(why).phase = "failed" /\ FlowFails(why).asked = None /\ FlowFails(why).url = None
  BY <1>1, <1>2 DEF Sections
<1>5. PhaseIsTrue(FlowFails(why))
  BY <1>4 DEF PhaseIsTrue
<1> QED
  BY <1>3, <1>5

LEMMA CheckoutIsReason ==
    ASSUME NEW answer, checkoutOf(answer) # "open"
    PROVE  checkoutOf(answer) \in Reasons
<1>1. ASSUME NEW refusal
      PROVE  classifyOnrampError(refusal) \in Reasons
  BY DEF classifyOnrampError, Reasons
<1>2. classifyOnrampError(answer.refused) \in Reasons
  BY <1>1
<1>3. \/ checkoutOf(answer) = classifyOnrampError(answer.refused)
      \/ checkoutOf(answer) = "APP-CHECKOUT-LIVE" \/ checkoutOf(answer) = "APP-CHECKOUT"
  BY DEF checkoutOf
<1>4. {"APP-CHECKOUT-LIVE", "APP-CHECKOUT"} \subseteq Reasons
  BY DEF Reasons
<1> QED
  BY <1>2, <1>3, <1>4

LEMMA AnswerKeeps ==
    ASSUME BuyAssumption, BuyInv, NEW s \in Sessions, CheckoutAnswers(s)
    PROVE  BuyInv'
<1> DEFINE answer == sessions[s].answer
<1>1. DOMAIN sessions' = Sessions /\ AnswersAreSound'
  BY OverKeepsAnswers DEF CheckoutAnswers
<1>2. UNCHANGED <<site, net>> /\ Sound(answer)
  BY DEF CheckoutAnswers, BuyInv, AnswersAreSound
<1>3. CASE money.asked # s
  <2>1. money' = money
    BY <1>3 DEF CheckoutAnswers
  <2> QED
    BY <1>1, <1>2, <2>1 DEF BuyInv, PhaseIsTrue
<1>4. CASE money.asked = s /\ checkoutOf(answer) # "open"
  <2>1. money' = FlowFails(checkoutOf(answer)) /\ money.asked # None
    BY <1>4 DEF CheckoutAnswers, BuyAssumption
  <2>2. checkoutOf(answer) \in Reasons
    BY <1>4, CheckoutIsReason
  <2>3. money' \in Sections /\ PhaseIsTrue(money')
    BY <2>1, <2>2, FailKeeps
  <2> QED
    BY <1>1, <1>2, <2>3 DEF BuyInv, PhaseIsTrue
<1>5. CASE money.asked = s /\ checkoutOf(answer) = "open"
  <2>1. money' = [money EXCEPT !.phase = onrampReducer(money.phase, "opened"), !.asked = None,
                               !.url = answer, !.loading = TRUE, !.problem = None]
    BY <1>5 DEF CheckoutAnswers
  <2>2. money \in Sections /\ money.phase = "creating" /\ money.said = None
    BY <1>5 DEF BuyInv, PhaseIsTrue, BuyAssumption
  <2>3. answer \in Checkouts
    BY <1>2, <1>5 DEF Sound
  <2>4. answer # None
    BY <2>3 DEF BuyAssumption
  <2> HIDE DEF answer
  <2>5. money' = [money EXCEPT !.phase = "open", !.asked = None, !.url = answer, !.loading = TRUE, !.problem = None]
    BY <2>1, <2>2 DEF onrampReducer
  <2>6. money' \in Sections
    BY <2>2, <2>3, <2>5 DEF Sections, Phases
  <2>7. money'.phase = "open" /\ money'.asked = None /\ money'.url = answer /\ money'.said = None
    BY <2>2, <2>5 DEF Sections
  <2>8. PhaseIsTrue(money')
    BY <2>4, <2>7 DEF PhaseIsTrue
  <2> QED
    BY <1>1, <1>2, <2>6, <2>8 DEF BuyInv, PhaseIsTrue
<1> QED
  BY <1>3, <1>4, <1>5

\* Closed, with nothing said of it.
LEMMA BackIsSound ==
    ASSUME BuyAssumption, BuyInv, money.url # None, NEW due \in SUBSET (1 .. 4)
    PROVE  /\ [Back EXCEPT !.due = due] \in Sections /\ PhaseIsTrue([Back EXCEPT !.due = due])
           /\ [Back EXCEPT !.due = due].asked = None /\ [Back EXCEPT !.due = due].url = None
<1> DEFINE m == [Back EXCEPT !.due = due]
<1>1. money \in Sections /\ money.phase = "open" /\ money.asked = None
  BY DEF BuyInv, PhaseIsTrue
<1>2. m = [money EXCEPT !.url = None, !.loading = FALSE, !.problem = None, !.phase = "returned", !.due = due]
  BY <1>1 DEF Back, onrampReducer, Sections
<1> HIDE DEF m
<1>3. m \in Sections
  BY <1>1, <1>2 DEF Sections, Phases
<1>4. m.asked = None /\ m.url = None /\ m.phase = "returned"
  BY <1>1, <1>2 DEF Sections
<1>5. PhaseIsTrue(m)
  BY <1>4 DEF PhaseIsTrue
<1> QED
  BY <1>3, <1>4, <1>5 DEF m

LEMMA ReturnKeeps ==
    ASSUME BuyAssumption, BuyInv, money.url # None, money' = Back, UNCHANGED <<site, net, sessions>>
    PROVE  BuyInv'
<1>1. RefreshSchedule \in SUBSET (1 .. 4)
  BY DEF RefreshSchedule
<1>2. Back = [Back EXCEPT !.due = RefreshSchedule]
  BY DEF Back, BuyInv, Sections
<1>3. Back \in Sections /\ PhaseIsTrue(Back)
  BY <1>1, <1>2, BackIsSound
<1>4. PhaseIsTrue(money')
  BY <1>3
<1> QED
  BY <1>3, <1>4, BuyKeeps DEF BuyInv

LEMMA BuyStepKeeps ==
    ASSUME BuyAssumption, BuyInv, [BuyNext]_buyVars
    PROVE  BuyInv'
<1> USE DEF BuyInv
<1>1. CASE OpenAddMoney \/ LeaveAddMoney
  <2>1. money' \in Sections /\ money'.phase = "idle" /\ money'.asked = None /\ money'.url = None
    <3>1. CASE money' = NoMoney
      BY <3>1 DEF NoMoney, Sections, Phases
    <3>2. CASE money' = [NoMoney EXCEPT !.at = TRUE]
      BY <3>2 DEF NoMoney, Sections, Phases
    <3> QED
      BY <1>1, <3>1, <3>2 DEF OpenAddMoney, LeaveAddMoney
  <2>2. PhaseIsTrue(money')
    BY <2>1 DEF PhaseIsTrue
  <2> QED
    BY <1>1, <2>1, <2>2, BuyKeeps DEF OpenAddMoney, LeaveAddMoney
<1>2. CASE WalletReady
  <2>1. money' = [money EXCEPT !.ready = TRUE]
    BY <1>2 DEF WalletReady
  <2>2. money' \in Sections /\ PhaseIsTrue(money')
    BY <2>1 DEF Sections, PhaseIsTrue
  <2> QED
    BY <1>2, <2>2, BuyKeeps DEF WalletReady
<1>3. ASSUME NEW amount \in {"none", "fair", "too much"}, TypeMoney(amount)
      PROVE  BuyInv'
  <2>1. money' = [money EXCEPT !.amount = amount]
    BY <1>3 DEF TypeMoney
  <2>2. money' \in Sections /\ PhaseIsTrue(money')
    BY <2>1 DEF Sections, PhaseIsTrue
  <2> QED
    BY <1>3, <2>2, BuyKeeps DEF TypeMoney
<1>4. CASE openMoonPay
  <2>1. money \in Sections /\ money.asked = None /\ money.url = None /\ PhaseIsTrue(money)
    BY <1>4 DEF openMoonPay, InFlight
  <2> QED
    BY <1>4, <2>1, AsksKeep DEF openMoonPay
<1>5. ASSUME NEW s \in Sessions, ServiceSigns(s)
      PROVE  BuyInv'
  BY <1>5, ServiceKeeps
<1>6. ASSUME NEW s \in Sessions, CheckoutAnswers(s)
      PROVE  BuyInv'
  BY <1>6, AnswerKeeps
<1>7. ASSUME NEW s \in Sessions, CheckoutLost(s)
      PROVE  BuyInv'
  <2>1. DOMAIN sessions' = Sessions /\ AnswersAreSound'
    BY <1>7, OverKeepsAnswers DEF CheckoutLost
  <2>2. CASE money.asked # s
    BY <1>7, <2>1, <2>2 DEF CheckoutLost, PhaseIsTrue
  <2>3. CASE money.asked = s
    <3>1. money' = FlowFails("try again") /\ money.asked # None
      BY <1>7, <2>3 DEF CheckoutLost, classifyOnrampError, BuyAssumption
    <3>2. money' \in Sections /\ PhaseIsTrue(money')
      BY <3>1, FailKeeps DEF Reasons
    <3> QED
      BY <1>7, <2>1, <3>2 DEF CheckoutLost, PhaseIsTrue
  <2> QED
    BY <2>2, <2>3
<1>8. CASE CreateTimesOut
  <2>1. money' = FlowFails("try again") /\ money.asked # None
    BY <1>8 DEF CreateTimesOut, classifyOnrampError
  <2>2. money' \in Sections /\ PhaseIsTrue(money')
    BY <2>1, FailKeeps DEF Reasons
  <2> QED
    BY <1>8, <2>2, BuyKeeps DEF CreateTimesOut
<1>9. CASE PageLoads
  <2>1. money' = [money EXCEPT !.loading = FALSE]
    BY <1>9 DEF PageLoads
  <2>2. money' \in Sections /\ PhaseIsTrue(money')
    BY <2>1 DEF Sections, PhaseIsTrue
  <2> QED
    BY <1>9, <2>2, BuyKeeps DEF PageLoads
<1>10. CASE PageFails \/ LoadTimesOut
  <2>1. PICK problem \in {"APP-CHECKOUT-OFFLINE", "APP-CHECKOUT-HTTP", "APP-CHECKOUT-TIMEOUT"} :
           money' = [money EXCEPT !.problem = problem]
    BY <1>10 DEF PageFails, LoadTimesOut, classifyWebViewError
  <2>2. money' \in Sections /\ PhaseIsTrue(money')
    BY <2>1 DEF Sections, PhaseIsTrue
  <2> QED
    BY <1>10, <2>2, BuyKeeps DEF PageFails, LoadTimesOut
<1>11. CASE ExitCheckout
  BY <1>11, ReturnKeeps DEF ExitCheckout
<1>12. ASSUME NEW loaded \in Pages, Navigates(loaded)
       PROVE  BuyInv'
  <2>1. money' = Back \/ money' = money
    BY <1>12 DEF Navigates
  <2>2. money.url # None /\ UNCHANGED <<site, net, sessions>>
    BY <1>12 DEF Navigates, ViewShows
  <2>3. CASE money' = money
    <3>1. money' \in Sections /\ PhaseIsTrue(money')
      BY <2>3
    <3> QED
      BY <2>2, <3>1, BuyKeeps
  <2> QED
    BY <2>1, <2>2, <2>3, ReturnKeeps
<1>13. CASE RetryCheckout
  <2>1. PICK due \in {money.due, RefreshSchedule} : Asks([Back EXCEPT !.due = due])
    BY <1>13 DEF RetryCheckout
  <2>2. due \in SUBSET (1 .. 4) /\ money.url # None
    BY <1>13 DEF Sections, RefreshSchedule, RetryCheckout
  <2> DEFINE m == [Back EXCEPT !.due = due]
  <2>3. m \in Sections /\ m.asked = None /\ m.url = None /\ PhaseIsTrue(m)
    BY <2>2, BackIsSound
  <2> HIDE DEF m
  <2>4. Asks(m) /\ UNCHANGED <<site, net>>
    BY <1>13, <2>1 DEF m, RetryCheckout
  <2> QED
    BY <2>3, <2>4, AsksKeep
<1>14. CASE RefreshAfterReturn
  <2>1. PICK due : due \in SUBSET (1 .. 4) /\ money' = [money EXCEPT !.due = due]
    <3> DEFINE due == money.due \ {CHOOSE k \in money.due : \A l \in money.due : k <= l}
    <3>1. due \in SUBSET (1 .. 4)
      BY DEF Sections
    <3>2. money' = [money EXCEPT !.due = due]
      BY <1>14 DEF RefreshAfterReturn
    <3> HIDE DEF due
    <3> QED
      BY <3>1, <3>2
  <2>2. money' \in Sections /\ PhaseIsTrue(money')
    BY <2>1 DEF Sections, PhaseIsTrue
  <2> QED
    BY <1>14, <2>2, BuyKeeps DEF RefreshAfterReturn
<1>15. CASE NetChanges
  <2>1. money' \in Sections /\ PhaseIsTrue(money')
    BY <1>15 DEF NetChanges
  <2> QED
    BY <1>15, <2>1, BuyKeeps DEF NetChanges
<1>16. CASE UNCHANGED buyVars
  <2>1. money' \in Sections /\ PhaseIsTrue(money') /\ net' \in Connections \cup {None} /\ UNCHANGED <<site, sessions>>
    BY <1>16 DEF buyVars
  <2> QED
    BY <2>1, BuyKeeps
<1> QED
  BY <1>1, <1>2, <1>3, <1>4, <1>5, <1>6, <1>7, <1>8, <1>9, <1>10, <1>11, <1>12, <1>13, <1>14, <1>15, <1>16
  DEF BuyNext, BuyReply, BuyTimer

\* What is shown follows from the phase.
LEMMA SandboxFollows ==
    ASSUME BuyAssumption, BuyInv
    PROVE  OnlySandboxOpens
<1>1. ASSUME money.url # None
      PROVE  /\ money.url.keys = <<"pk_test", "sk_test">> /\ money.url.host = "buy-sandbox" /\ money.url.signed
             /\ money.url.for # {} /\ money.url.for \cap Private = {}
             /\ money.phase = "open" /\ money.asked = None
  <2>1. money.url \in Checkouts /\ money.phase = "open" /\ money.asked = None
    BY <1>1 DEF BuyInv, Sections, PhaseIsTrue
  <2> QED
    BY <2>1 DEF Checkouts
<1>2. isBusy <=> money.asked # None
  BY DEF BuyInv, PhaseIsTrue, isBusy
<1>3. money.phase = "open" => money.url # None
  BY DEF BuyInv, PhaseIsTrue
<1>4. ASSUME CheckoutShows = "page"
      PROVE  SectionShows = "button"
  <2>1. money.url # None
    BY <1>4 DEF CheckoutShows
  <2>2. money.said = None /\ money.phase = "open" /\ ~isBusy
    BY <2>1 DEF BuyInv, PhaseIsTrue, isBusy
  <2> QED
    BY <2>2 DEF SectionShows
<1> QED
  BY <1>1, <1>2, <1>3, <1>4 DEF OnlySandboxOpens

-----------------------------------------------------------------------------
(* One area of the app moves, and the others stay.                         *)

LEMMA BuyMoves ==
    ASSUME [ScreensNext]_screenVars
    PROVE  [BuyNext]_buyVars
BY DEF ScreensNext, screenVars, OnlySend, OnlyList, OnlyBuy, OnlyLink, OnlyReceive, OnlyActivity, OnlyGroup, OnlyIdentity

\* Whatever the set-up of the service, the connection and the order of the answers: the page of
\* MoonPay that opens was signed with test keys for the sandbox, for public addresses alone, and
\* only while the flow says "open" (createMoonPaySession, validateCheckoutUrl, runCheckout).
THEOREM SandboxAlways == ScreensSpec => []OnlySandboxOpens
<1> USE BuyAssumption
<1>1. ScreensInit => BuyInv
  BY BuyBegins DEF ScreensInit
<1>2. BuyInv /\ [ScreensNext]_screenVars => BuyInv'
  BY BuyMoves, BuyStepKeeps
<1>3. BuyInv => OnlySandboxOpens
  BY SandboxFollows
<1> QED
  BY <1>1, <1>2, <1>3, PTL DEF ScreensSpec

-----------------------------------------------------------------------------
(* Receive.                                                                *)

Built == [who : Holders, address : Addresses, at : {"asking", "checking"}]

Receipts == [busy : {"none", "create", "refresh", "cancel"}, request : Statuses \cup {None},
             said : Statuses \cup {None, "error"}]

\* Who is signed in, and whom a service was built for, has signed up.
SignedUp(p) == p \in Holders /\ account[p] # None

ReceiveTyped ==
    /\ DOMAIN account = Holders /\ DOMAIN service = Services
    /\ holder # None => holder \in [who : Holders, address : Addresses] /\ SignedUp(holder.who)
    /\ \A f \in Services : service[f] # None => service[f] \in Built /\ SignedUp(service[f].who)
    /\ share \in Receipts

\* An address is one of those its owner's signer derives.
OwnedByDerivation == \A p \in Holders : account[p] # None => account[p] \in DerivedBy(p)

\* What the phone has found out comes from the signer of somebody who has signed up.
FoundByDerivation ==
    /\ known.status = "verified" => \E p \in Holders : account[p] # None /\ Own[p][1] = known.address
    /\ known.status = "mismatch" => \E p \in Holders : account[p] # None /\ Own[p][1] # known.address

PaidIsPaid == share.said = "PAID" /\ share.request # None => share.request = "PAID"

ReceiveInv == ReceiveTyped /\ OwnedByDerivation /\ FoundByDerivation /\ PaidIsPaid

LEMMA ReceiveBegins ==
    ASSUME ReceiveAssumption, ReceiveInit
    PROVE  ReceiveInv
<1>1. account = [p \in Holders |-> None] /\ service = [f \in Services |-> None] /\ holder = None
  BY DEF ReceiveInit
<1>2. known.status = "unverified"
  BY DEF ReceiveInit, Unchecked
<1>3. share = NoRequest /\ NoRequest \in Receipts /\ NoRequest.request = None
  BY DEF ReceiveInit, NoRequest, Receipts
<1>4. ReceiveTyped
  BY <1>1, <1>3 DEF ReceiveTyped
<1>5. OwnedByDerivation
  BY <1>1 DEF OwnedByDerivation
<1>6. FoundByDerivation
  BY <1>2 DEF FoundByDerivation
<1>7. PaidIsPaid
  BY <1>3 DEF PaidIsPaid
<1> QED
  BY <1>4, <1>5, <1>6, <1>7 DEF ReceiveInv

\* The service has made sure of it.
LEMMA OwnedIsDerived ==
    ASSUME ReceiveAssumption, NEW p \in Holders, NEW claim \in Addresses, NEW up,
           assertSmartAccountOwnedBySigner(p, claim, up)
    PROVE  claim \in DerivedBy(p)
<1>1. PICK type \in DOMAIN Own[p] : resolveExpectedSmartAccountAddress(p, type, up[type]) = claim
  BY DEF assertSmartAccountOwnedBySigner
<1>2. claim # None
  BY DEF ReceiveAssumption
<1>3. Own[p][type] = claim
  BY <1>1, <1>2 DEF resolveExpectedSmartAccountAddress
<1> QED
  BY <1>3 DEF DerivedBy

\* Steps that leave the accounts and the services alone.
LEMMA RequestKeeps ==
    ASSUME ReceiveInv, UNCHANGED <<account, holder, service, known>>, share' \in Receipts, PaidIsPaid'
    PROVE  ReceiveInv'
<1>1. ReceiveTyped'
  BY DEF ReceiveInv, ReceiveTyped, SignedUp
<1>2. OwnedByDerivation'
  BY DEF ReceiveInv, OwnedByDerivation, DerivedBy
<1>3. FoundByDerivation'
  BY DEF ReceiveInv, FoundByDerivation
<1> QED
  BY <1>1, <1>2, <1>3 DEF ReceiveInv

\* A service that is built, or is gone, while the accounts stay.
LEMMA BuiltKeeps ==
    ASSUME ReceiveInv, UNCHANGED <<account, holder, share>>, NEW f \in Services, NEW new,
           service' = [service EXCEPT ![f] = new],
           new # None => new \in Built /\ SignedUp(new.who), FoundByDerivation'
    PROVE  ReceiveInv'
<1>1. DOMAIN service' = Services
  BY DEF ReceiveInv, ReceiveTyped
<1>2. ASSUME NEW g \in Services, service'[g] # None
      PROVE  service'[g] \in Built /\ SignedUp(service[g].who)'
  <2>1. CASE g = f
    BY <1>2, <2>1 DEF ReceiveInv, ReceiveTyped, SignedUp
  <2>2. CASE g # f
    BY <1>2, <2>2 DEF ReceiveInv, ReceiveTyped, SignedUp
  <2> QED
    BY <2>1, <2>2
<1>3. ReceiveTyped'
  BY <1>1, <1>2 DEF ReceiveInv, ReceiveTyped, SignedUp
<1>4. OwnedByDerivation' /\ PaidIsPaid'
  BY DEF ReceiveInv, OwnedByDerivation, DerivedBy, PaidIsPaid
<1> QED
  BY <1>3, <1>4 DEF ReceiveInv

LEMMA RegisterKeeps ==
    ASSUME ReceiveAssumption, ReceiveInv, NEW p \in Holders, Register(p)
    PROVE  ReceiveInv'
<1>1. PICK claim \in Addresses : claim \in DerivedBy(p) /\ account' = [account EXCEPT ![p] = claim]
  BY OwnedIsDerived DEF Register
<1>2. claim # None /\ UNCHANGED <<holder, service, known, failed, share>>
  BY DEF ReceiveAssumption, Register
<1>3. DOMAIN account' = Holders /\ account'[p] = claim /\ \A q \in Holders : q # p => account'[q] = account[q]
  BY <1>1 DEF ReceiveInv, ReceiveTyped
<1>4. \A q \in Holders : account[q] # None => account'[q] # None
  BY <1>2, <1>3
<1>5. ReceiveTyped'
  BY <1>2, <1>3, <1>4 DEF ReceiveInv, ReceiveTyped, SignedUp
<1>6. OwnedByDerivation'
  <2>1. ASSUME NEW q \in Holders, account'[q] # None
        PROVE  account'[q] \in DerivedBy(q)
    BY <1>1, <1>3, <2>1 DEF ReceiveInv, OwnedByDerivation
  <2> QED
    BY <2>1 DEF OwnedByDerivation, DerivedBy
<1>7. FoundByDerivation'
  BY <1>2, <1>4 DEF ReceiveInv, FoundByDerivation
<1>8. PaidIsPaid'
  BY <1>2 DEF ReceiveInv, PaidIsPaid
<1> QED
  BY <1>5, <1>6, <1>7, <1>8 DEF ReceiveInv

\* Signing in and out: nothing is known of an address, and there is no request.
LEMMA SignKeeps ==
    ASSUME ReceiveInv, UNCHANGED <<account, service>>, known' = Unchecked, share' = NoRequest,
           holder' # None => holder' \in [who : Holders, address : Addresses] /\ SignedUp(holder'.who)
    PROVE  ReceiveInv'
<1>1. share' \in Receipts /\ share'.request = None
  BY DEF NoRequest, Receipts
<1>2. ReceiveTyped'
  BY <1>1 DEF ReceiveInv, ReceiveTyped, SignedUp
<1>3. OwnedByDerivation'
  BY DEF ReceiveInv, OwnedByDerivation, DerivedBy
<1>4. FoundByDerivation'
  BY DEF FoundByDerivation, Unchecked
<1>5. PaidIsPaid'
  BY <1>1 DEF PaidIsPaid
<1> QED
  BY <1>2, <1>3, <1>4, <1>5 DEF ReceiveInv

LEMMA DerivesKeeps ==
    ASSUME ReceiveAssumption, ReceiveInv, NEW f \in Services, Derives(f)
    PROVE  ReceiveInv'
<1>1. PICK derived \in {Own[service[f].who][1], None} :
         known' = setResult(service[f].address, compareDerivedAddress(service[f].address, derived))
  BY DEF Derives
<1>2. service[f] \in Built /\ SignedUp(service[f].who)
  BY DEF Derives, ReceiveInv, ReceiveTyped
<1>3. UNCHANGED <<account, holder, share>> /\ service' = [service EXCEPT ![f] = None]
  BY DEF Derives
<1>4. known'.address = service[f].address
      /\ known'.status = compareDerivedAddress(service[f].address, derived)
  BY <1>1 DEF setResult
<1>5. known'.status = "verified" => Own[service[f].who][1] = known'.address
  BY <1>4 DEF compareDerivedAddress
<1>6. known'.status = "mismatch" => Own[service[f].who][1] # known'.address
  BY <1>1, <1>4 DEF compareDerivedAddress
<1>7. FoundByDerivation'
  BY <1>2, <1>3, <1>5, <1>6 DEF FoundByDerivation, SignedUp
<1> QED
  BY <1>3, <1>7, BuiltKeeps

LEMMA ReceiveStepKeeps ==
    ASSUME ReceiveAssumption, ReceiveInv, [ReceiveNext]_receiveVars
    PROVE  ReceiveInv'
<1>1. ASSUME NEW p \in Holders, Register(p)
      PROVE  ReceiveInv'
  BY <1>1, RegisterKeeps
<1>2. ASSUME NEW p \in Holders, NEW a \in Addresses, EnterAs(p, a)
      PROVE  ReceiveInv'
  <2>1. holder' \in [who : Holders, address : Addresses] /\ holder'.who = p /\ SignedUp(p)
    BY <1>2 DEF EnterAs, SignedUp
  <2> QED
    BY <1>2, <2>1, SignKeeps DEF EnterAs
<1>3. CASE Exit
  BY <1>3, SignKeeps DEF Exit
<1>4. ASSUME NEW f \in Services, buildService(f)
      PROVE  ReceiveInv'
  <2> DEFINE new == [who |-> holder.who, address |-> holder.address, at |-> "asking"]
  <2>1. new \in Built /\ SignedUp(new.who)
    BY <1>4 DEF buildService, ReceiveInv, ReceiveTyped, Built
  <2>2. service' = [service EXCEPT ![f] = new] /\ UNCHANGED <<account, holder, known, failed, share>>
    BY <1>4 DEF buildService
  <2>3. FoundByDerivation'
    BY <2>2 DEF ReceiveInv, FoundByDerivation
  <2> HIDE DEF new
  <2> QED
    BY <2>1, <2>2, <2>3, BuiltKeeps
<1>5. ASSUME NEW f \in Services, ServiceBuilt(f)
      PROVE  ReceiveInv'
  <2>1. service[f] \in Built /\ SignedUp(service[f].who)
    BY <1>5 DEF ServiceBuilt, ReceiveInv, ReceiveTyped
  <2>2. CASE known.address = service[f].address
    <3>1. service' = [service EXCEPT ![f] = None] /\ UNCHANGED <<account, holder, known, failed, share>>
      BY <1>5, <2>2 DEF ServiceBuilt
    <3>2. FoundByDerivation'
      BY <3>1 DEF ReceiveInv, FoundByDerivation
    <3> QED
      BY <3>1, <3>2, BuiltKeeps
  <2>3. CASE known.address # service[f].address
    <3> DEFINE new == [service[f] EXCEPT !.at = "checking"]
    <3>1. new \in Built /\ new.who = service[f].who
      BY <2>1 DEF Built
    <3>2. service' = [service EXCEPT ![f] = new] /\ UNCHANGED <<account, holder, failed, share>>
      BY <1>5, <2>3 DEF ServiceBuilt
    <3>3. known'.status = "unverified"
      BY <1>5, <2>3 DEF ServiceBuilt, setResult
    <3>4. FoundByDerivation'
      BY <3>3 DEF FoundByDerivation
    <3> HIDE DEF new
    <3> QED
      BY <2>1, <3>1, <3>2, <3>4, BuiltKeeps
  <2> QED
    BY <2>2, <2>3
<1>6. ASSUME NEW f \in Services, ServiceFails(f)
      PROVE  ReceiveInv'
  <2>1. FoundByDerivation'
    BY <1>6 DEF ServiceFails, ReceiveInv, FoundByDerivation
  <2> QED
    BY <1>6, <2>1, BuiltKeeps DEF ServiceFails
<1>7. ASSUME NEW f \in Services, Derives(f)
      PROVE  ReceiveInv'
  BY <1>7, DerivesKeeps
<1>8. ASSUME NEW status \in Statuses, RequestMoves(status)
      PROVE  ReceiveInv'
  <2>1. share \in Receipts /\ share' = [share EXCEPT !.request = status] /\ share.request = "OPEN"
    BY <1>8 DEF RequestMoves, ReceiveInv, ReceiveTyped
  <2>2. share' \in Receipts /\ share.said # "PAID" /\ share'.said = share.said
    BY <2>1 DEF Receipts, ReceiveInv, PaidIsPaid, ReceiveAssumption, Statuses
  <2>3. PaidIsPaid'
    BY <2>2 DEF PaidIsPaid
  <2> QED
    BY <1>8, <2>2, <2>3, RequestKeeps DEF RequestMoves
<1>9. ASSUME NEW what \in {"create", "refresh", "cancel"}, run(what)
      PROVE  ReceiveInv'
  <2>1. share \in Receipts /\ share' = [share EXCEPT !.busy = what, !.said = None]
    BY <1>9 DEF run, ReceiveInv, ReceiveTyped
  <2>2. share' \in Receipts /\ share'.said = None /\ None # "PAID"
    BY <2>1 DEF Receipts, ReceiveAssumption, Statuses
  <2>3. PaidIsPaid'
    BY <2>2 DEF PaidIsPaid
  <2> QED
    BY <1>9, <2>2, <2>3, RequestKeeps DEF run
<1>10. CASE CreateAnother
  <2>1. share \in Receipts /\ share' = [share EXCEPT !.request = None]
    BY <1>10 DEF CreateAnother, ReceiveInv, ReceiveTyped
  <2>2. share' \in Receipts /\ share'.request = None
    BY <2>1 DEF Receipts
  <2>3. PaidIsPaid'
    BY <2>2 DEF PaidIsPaid
  <2> QED
    BY <1>10, <2>2, <2>3, RequestKeeps DEF CreateAnother
<1>11. CASE RunAnswers
  <2>1. share \in Receipts
    BY DEF ReceiveInv, ReceiveTyped
  <2>2. \/ share' = [NoRequest EXCEPT !.request = "OPEN"]
        \/ share' = [share EXCEPT !.busy = "none", !.said = share.request]
        \/ share' = [NoRequest EXCEPT !.said = "CANCELLED"]
        \/ share' = [share EXCEPT !.busy = "none", !.said = "error"]
    BY <1>11 DEF RunAnswers
  <2>3. share' \in Receipts /\ PaidIsPaid'
    <3>1. CASE share' = [NoRequest EXCEPT !.request = "OPEN"]
      BY <3>1 DEF NoRequest, Receipts, Statuses, PaidIsPaid, ReceiveAssumption
    <3>2. CASE share' = [share EXCEPT !.busy = "none", !.said = share.request]
      BY <2>1, <3>2 DEF Receipts, Statuses, PaidIsPaid, ReceiveAssumption
    <3>3. CASE share' = [NoRequest EXCEPT !.said = "CANCELLED"]
      BY <3>3 DEF NoRequest, Receipts, Statuses, PaidIsPaid, ReceiveAssumption
    <3>4. CASE share' = [share EXCEPT !.busy = "none", !.said = "error"]
      BY <2>1, <3>4 DEF Receipts, Statuses, PaidIsPaid, ReceiveAssumption
    <3> QED
      BY <2>2, <3>1, <3>2, <3>3, <3>4
  <2> QED
    BY <1>11, <2>3, RequestKeeps DEF RunAnswers
<1>12. CASE RunFails
  <2>1. share \in Receipts /\ (share.said = "PAID" /\ share.request # None => share.request = "PAID")
    BY DEF ReceiveInv, ReceiveTyped, PaidIsPaid
  <2>2. \/ share' = [share EXCEPT !.busy = "none", !.said = "error"]
        \/ share' = [share EXCEPT !.busy = "none", !.said = "error", !.request = "CANCELLED"]
    BY <1>12 DEF RunFails
  <2>3. share' \in Receipts /\ share'.said = "error"
    BY <2>1, <2>2 DEF Receipts, Statuses
  <2>4. PaidIsPaid'
    BY <2>3 DEF PaidIsPaid
  <2> QED
    BY <1>12, <2>3, <2>4, RequestKeeps DEF RunFails
<1>13. CASE UNCHANGED receiveVars
  <2>1. share' \in Receipts /\ PaidIsPaid'
    BY <1>13 DEF receiveVars, ReceiveInv, ReceiveTyped, PaidIsPaid
  <2> QED
    BY <1>13, <2>1, RequestKeeps DEF receiveVars
<1> QED
  BY <1>1, <1>2, <1>3, <1>4, <1>5, <1>6, <1>7, <1>8, <1>9, <1>10, <1>11, <1>12, <1>13 DEF ReceiveNext, Provider

LEMMA DerivedFollows ==
    ASSUME ReceiveInv
    PROVE  AddressesAreDerived
<1>1. holder # None => addressUsable <=> VERIFICATION_TEXT(statusFor(holder.address)) # "Do not share it"
  BY DEF addressUsable, VERIFICATION_TEXT
<1>2. addressUsable <=> ShareShowsCode
  BY DEF addressUsable, ShareShowsCode
<1> QED
  BY <1>1, <1>2 DEF ReceiveInv, OwnedByDerivation, FoundByDerivation, PaidIsPaid, AddressesAreDerived

LEMMA ReceiveMoves ==
    ASSUME [ScreensNext]_screenVars
    PROVE  [ReceiveNext]_receiveVars
BY DEF ScreensNext, screenVars, OnlySend, OnlyList, OnlyBuy, OnlyLink, OnlyReceive, OnlyActivity, OnlyGroup, OnlyIdentity

\* Whatever the provider answers and however often it is down: nobody has an account that is not
\* derived from their signer, and the phone calls verified only what it has derived itself
\* (assertSmartAccountOwnedBySigner, verifyReceiveAddress).
THEOREM DerivedAlways == ScreensSpec => []AddressesAreDerived
<1> USE ReceiveAssumption
<1>1. ScreensInit => ReceiveInv
  BY ReceiveBegins DEF ScreensInit
<1>2. ReceiveInv /\ [ScreensNext]_screenVars => ReceiveInv'
  BY ReceiveMoves, ReceiveStepKeeps
<1>3. ReceiveInv => AddressesAreDerived
  BY DerivedFollows
<1> QED
  BY <1>1, <1>2, <1>3, PTL DEF ScreensSpec

-----------------------------------------------------------------------------
(* The external wallet.                                                    *)

Links ==
    [runtime : {"none", "mounted", "ready"}, pending : BOOLEAN,
     picker : {"none", "open", "seen", "off", "closing"}, open : BOOLEAN, asked : BOOLEAN,
     address : Signers \cup {None}, provider : BOOLEAN, marker : BOOLEAN,
     entry : {"idle", "clearing", "unblocking", "connecting"}, stale : BOOLEAN, cleanup : BOOLEAN,
     leaving : BOOLEAN, starting : BOOLEAN, method : {"privy", "external_wallet"}, signedIn : BOOLEAN,
     loggedOut : BOOLEAN, step : {"gate", "identity"}, reg : BOOLEAN, checking : BOOLEAN,
     key : Signers \cup {None}, auto : Tries \cup {None}, run : LinkRun \cup {None}]

SomeTries == [Tries -> LinkTry \cup {None}]

IsLive(ts, t) == ts[t] # None /\ ts[t].live

\* Whoever has pressed the button waits for the module, for the picker, or for a cleanup.
EntryIsTrue(l) ==
    /\ l.pending => l.picker = "none"
    /\ l.entry = "connecting" <=> l.pending \/ l.picker # "none"
    /\ l.entry = "clearing" \/ l.leaving => l.cleanup

\* Somebody is left to raise the gate.
GateIsWatched(l, ts) == l.checking => \E t \in Tries : ts[t] # None /\ l.key \in {None, ts[t].of}

\* A sign-in that could succeed is the one the effect has begun, and nothing it watches has moved.
LiveIsWatched ==
    \A t \in Tries : IsLive(tries, t) =>
        /\ link.auto = t /\ link.run = [try |-> t, of |-> tries[t].of] /\ tries[t].of = link.address
        /\ HasWallet(link) /\ ~link.signedIn /\ ~link.loggedOut

LinkInv ==
    /\ link \in Links /\ tries \in SomeTries
    /\ EntryIsTrue(link) /\ GateIsWatched(link, tries) /\ LiveIsWatched
    /\ link.loggedOut => ~link.signedIn

\* What a handler hands to Step.
Handed(l, ts) ==
    /\ l \in Links /\ ts \in SomeTries
    /\ EntryIsTrue(l) /\ GateIsWatched(l, ts)
    /\ l.loggedOut => ~l.signedIn
    /\ l.run = link.run
    /\ \A t \in Tries : IsLive(ts, t) => IsLive(tries, t) /\ ts[t].of = tries[t].of /\ l.auto = link.auto

\* What a handler that is not about the sign-in makes of it.
SameSignIn(l) ==
    /\ l.run = link.run /\ l.auto = link.auto /\ l.checking = link.checking
    /\ l.key \in {None, link.key}
    /\ l.loggedOut => ~l.signedIn

LEMMA SameIsHanded ==
    ASSUME LinkInv, NEW l \in Links, EntryIsTrue(l), SameSignIn(l)
    PROVE  Handed(l, tries)
BY DEF LinkInv, Handed, SameSignIn, GateIsWatched

LEMMA CalledOff ==
    ASSUME LinkAssumption, NEW ts \in SomeTries, NEW v
    PROVE  /\ CallOff(ts, v) \in SomeTries
           /\ \A t \in Tries : /\ CallOff(ts, v)[t] # None <=> ts[t] # None
                               /\ CallOff(ts, v)[t] # None => CallOff(ts, v)[t].of = ts[t].of
                               /\ IsLive(CallOff(ts, v), t) => IsLive(ts, t) /\ t # v
<1> DEFINE off == CallOff(ts, v)
<1>1. \A t \in Tries : off[t] = IF t = v /\ ts[t] # None THEN [ts[t] EXCEPT !.live = FALSE] ELSE ts[t]
  BY DEF CallOff
<1>2. off = [t \in Tries |-> off[t]]
  BY DEF CallOff
<1> HIDE DEF off
<1>3. ASSUME NEW t \in Tries
      PROVE  /\ off[t] \in LinkTry \cup {None}
             /\ off[t] # None <=> ts[t] # None
             /\ off[t] # None => off[t].of = ts[t].of
             /\ IsLive(off, t) => IsLive(ts, t) /\ t # v
  <2>1. ts[t] \in LinkTry \cup {None}
    BY DEF SomeTries
  <2>2. CASE t = v /\ ts[t] # None
    <3>1. off[t] = [ts[t] EXCEPT !.live = FALSE] /\ ts[t] \in LinkTry
      BY <1>1, <2>1, <2>2
    <3>2. off[t] \in LinkTry /\ off[t].of = ts[t].of /\ off[t].live = FALSE
      BY <3>1 DEF LinkTry
    <3>3. off[t] # None
      BY <3>2 DEF LinkAssumption
    <3> QED
      BY <2>2, <3>2, <3>3 DEF IsLive
  <2>3. CASE ~(t = v /\ ts[t] # None)
    <3>1. off[t] = ts[t]
      BY <1>1, <2>3
    <3> QED
      BY <2>1, <2>3, <3>1 DEF IsLive
  <2> QED
    BY <2>2, <2>3
<1>4. off \in SomeTries
  BY <1>2, <1>3 DEF SomeTries
<1> QED
  BY <1>3, <1>4 DEF off

LEMMA NoticedKeeps ==
    ASSUME NEW l \in Links
    PROVE  /\ Noticed(l) \in Links
           /\ Noticed(l).run = l.run /\ Noticed(l).auto = l.auto /\ Noticed(l).key = l.key
           /\ Noticed(l).checking = l.checking /\ Noticed(l).address = l.address
           /\ Noticed(l).signedIn = l.signedIn /\ Noticed(l).loggedOut = l.loggedOut
           /\ EntryIsTrue(l) => EntryIsTrue(Noticed(l))
<1>1. Noticed(l) = l \/ \E method \in {"privy", "external_wallet"} :
                           Noticed(l) = [l EXCEPT !.marker = TRUE, !.method = method]
  <2>1. (IF l.entry = "idle" THEN "external_wallet" ELSE l.method) \in {"privy", "external_wallet"}
    BY DEF Links
  <2> QED
    BY <2>1 DEF Noticed
<1>2. CASE Noticed(l) = l
  BY <1>2
<1>3. ASSUME NEW method \in {"privy", "external_wallet"}, Noticed(l) = [l EXCEPT !.marker = TRUE, !.method = method]
      PROVE  /\ Noticed(l) \in Links
             /\ Noticed(l).run = l.run /\ Noticed(l).auto = l.auto /\ Noticed(l).key = l.key
             /\ Noticed(l).checking = l.checking /\ Noticed(l).address = l.address
             /\ Noticed(l).signedIn = l.signedIn /\ Noticed(l).loggedOut = l.loggedOut
             /\ EntryIsTrue(l) => EntryIsTrue(Noticed(l))
  <2> DEFINE n == Noticed(l)
  <2>1. n = [l EXCEPT !.marker = TRUE, !.method = method]
    BY <1>3
  <2> HIDE DEF n
  <2>2. n \in Links
    BY <2>1 DEF Links
  <2>3. n.run = l.run /\ n.auto = l.auto /\ n.key = l.key /\ n.checking = l.checking /\ n.address = l.address
    BY <2>1 DEF Links
  <2>4. n.signedIn = l.signedIn /\ n.loggedOut = l.loggedOut
    BY <2>1 DEF Links
  <2>5. n.pending = l.pending /\ n.picker = l.picker /\ n.entry = l.entry /\ n.leaving = l.leaving /\ n.cleanup = l.cleanup
    BY <2>1 DEF Links
  <2> QED
    BY <2>2, <2>3, <2>4, <2>5 DEF n, EntryIsTrue
<1> QED
  BY <1>1, <1>2, <1>3

\* The last run taken back: the spinner and the hold of the sign-in.
LEMMA TakenBack ==
    ASSUME NEW l \in Links, NEW t, NEW of
    PROVE  LET b == Lowered(Unheld(l, t), of)
           IN  /\ b \in Links /\ b.run = l.run /\ b.address = l.address
               /\ b.auto = IF l.auto = t THEN None ELSE l.auto
               /\ b.key = IF l.key = of THEN None ELSE l.key
               /\ b.checking = (l.checking /\ l.key # of)
               /\ b.signedIn = l.signedIn /\ b.loggedOut = l.loggedOut
               /\ EntryIsTrue(l) => EntryIsTrue(b)
<1> DEFINE u == Unheld(l, t)
           b == Lowered(u, of)
<1>1. u = IF l.auto = t THEN [l EXCEPT !.auto = None] ELSE l
  BY DEF Unheld
<1>2. b = IF u.key = of THEN [u EXCEPT !.key = None, !.checking = FALSE] ELSE u
  BY DEF Lowered
<1> HIDE DEF b, u
<1>3. u \in Links
  BY <1>1 DEF Links
<1>4. /\ u.run = l.run /\ u.address = l.address /\ u.key = l.key /\ u.checking = l.checking
      /\ u.signedIn = l.signedIn /\ u.loggedOut = l.loggedOut
      /\ u.auto = IF l.auto = t THEN None ELSE l.auto
  BY <1>1 DEF Links
<1>5. u.pending = l.pending /\ u.picker = l.picker /\ u.entry = l.entry /\ u.leaving = l.leaving /\ u.cleanup = l.cleanup
  BY <1>1 DEF Links
<1>6. b \in Links
  <2>1. CASE u.key = of
    <3>1. b = [u EXCEPT !.key = None, !.checking = FALSE]
      BY <1>2, <2>1
    <3> QED
      BY <1>3, <3>1 DEF Links
  <2>2. CASE u.key # of
    BY <1>2, <1>3, <2>2
  <2> QED
    BY <2>1, <2>2
<1>7. /\ b.run = u.run /\ b.address = u.address /\ b.auto = u.auto
      /\ b.signedIn = u.signedIn /\ b.loggedOut = u.loggedOut
      /\ b.key = IF u.key = of THEN None ELSE u.key
      /\ b.checking = (u.checking /\ u.key # of)
  BY <1>2, <1>3 DEF Links
<1>8. b.pending = u.pending /\ b.picker = u.picker /\ b.entry = u.entry /\ b.leaving = u.leaving /\ b.cleanup = u.cleanup
  BY <1>2, <1>3 DEF Links
<1> QED
  BY <1>4, <1>5, <1>6, <1>7, <1>8 DEF EntryIsTrue, b, u

LEMMA StepKeeps ==
    ASSUME LinkAssumption, LinkInv, NEW l, NEW ts, Handed(l, ts), Step(l, ts)
    PROVE  LinkInv'
<1> DEFINE new == Noticed(l)
           back == IF new.run = None THEN new
                   ELSE [Lowered(Unheld(new, new.run.try), new.run.of) EXCEPT !.run = None]
           off == IF new.run = None THEN ts ELSE CallOff(ts, new.run.try)
<1>1. \/ Watched(new) = Watched(link) /\ link' = new /\ tries' = ts
      \/ Watched(new) # Watched(link) /\ ~MayTry(back) /\ link' = back /\ tries' = off
      \/ /\ Watched(new) # Watched(link) /\ MayTry(back)
         /\ \E t \in FreeTries(off) :
                /\ link' = [back EXCEPT !.key = back.address, !.auto = t, !.checking = TRUE,
                                        !.run = [try |-> t, of |-> back.address]]
                /\ tries' = [CallOff(off, back.auto) EXCEPT ![t] = [of |-> back.address, live |-> TRUE, at |-> "network"]]
  BY DEF Step
<1>2. /\ new \in Links /\ new.run = link.run /\ new.auto = l.auto /\ new.key = l.key
      /\ new.checking = l.checking /\ new.address = l.address /\ new.signedIn = l.signedIn
      /\ new.loggedOut = l.loggedOut /\ EntryIsTrue(new)
  BY NoticedKeeps DEF Handed
<1>3. ts \in SomeTries
  BY DEF Handed
<1> DEFINE low == Lowered(Unheld(new, new.run.try), new.run.of)
<1>4. /\ low \in Links /\ low.address = new.address /\ low.auto \in {None, new.auto}
      /\ low.key = IF new.key = new.run.of THEN None ELSE new.key
      /\ low.checking = (new.checking /\ new.key # new.run.of)
      /\ low.signedIn = new.signedIn /\ low.loggedOut = new.loggedOut /\ EntryIsTrue(low)
  <2> HIDE DEF new
  <2> QED
    BY <1>2, TakenBack
<1> HIDE DEF low
<1>5. back = IF new.run = None THEN new ELSE [low EXCEPT !.run = None]
  BY DEF low
<1> HIDE DEF new, back
<1>6. \A t \in Tries : IsLive(ts, t) => new.run = [try |-> t, of |-> ts[t].of] /\ new.run # None
  <2>1. ASSUME NEW t \in Tries, IsLive(ts, t)
        PROVE  new.run = [try |-> t, of |-> ts[t].of] /\ new.run # None
    <3>1. ts[t].of = tries[t].of /\ IsLive(tries, t)
      BY <2>1 DEF Handed
    <3>2. link.run = [try |-> t, of |-> ts[t].of]
      BY <3>1 DEF LinkInv, LiveIsWatched
    <3>3. ts[t] \in LinkTry
      BY <1>3, <2>1 DEF IsLive, SomeTries
    <3>4. link.run \in LinkRun
      BY <3>2, <3>3 DEF LinkRun, LinkTry
    <3> QED
      BY <1>2, <3>2, <3>4 DEF LinkAssumption
  <2> QED
    BY <2>1
<1>7. off \in SomeTries /\ \A t \in Tries : /\ ~IsLive(off, t) /\ (off[t] # None <=> ts[t] # None)
                                            /\ off[t] # None => off[t].of = ts[t].of
  <2>1. CASE new.run = None
    BY <1>3, <1>6, <2>1
  <2>2. CASE new.run # None
    <3>1. off = CallOff(ts, new.run.try)
      BY <2>2
    <3> HIDE DEF off
    <3>2. off \in SomeTries /\ \A t \in Tries : /\ off[t] # None <=> ts[t] # None
                                                /\ off[t] # None => off[t].of = ts[t].of
                                                /\ IsLive(off, t) => IsLive(ts, t) /\ t # new.run.try
      BY <1>3, <3>1, CalledOff
    <3>3. ASSUME NEW t \in Tries, IsLive(ts, t)
          PROVE  new.run.try = t
      <4>1. new.run = [try |-> t, of |-> ts[t].of]
        BY <1>6, <3>3
      <4> QED
        BY <4>1
    <3> QED
      BY <3>2, <3>3
  <2> QED
    BY <2>1, <2>2
<1> HIDE DEF off
<1>8. /\ back \in Links /\ back.address = new.address
      /\ back.key \in {None, new.key} /\ (back.checking => new.checking /\ back.key = new.key)
      /\ back.signedIn = new.signedIn /\ back.loggedOut = new.loggedOut /\ EntryIsTrue(back)
  <2>1. CASE new.run = None
    BY <1>2, <1>5, <2>1
  <2>2. CASE new.run # None
    <3>1. back = [low EXCEPT !.run = None]
      BY <1>5, <2>2
    <3>2. back \in Links
      BY <1>4, <3>1 DEF Links
    <3>3. /\ back.address = low.address /\ back.key = low.key /\ back.checking = low.checking
          /\ back.signedIn = low.signedIn /\ back.loggedOut = low.loggedOut
      BY <1>4, <3>1 DEF Links
    <3>4. EntryIsTrue(back)
      BY <1>4, <3>1 DEF Links, EntryIsTrue
    <3> QED
      BY <1>4, <3>2, <3>3, <3>4
  <2> QED
    BY <2>1, <2>2
<1>9. new.checking => \E t \in Tries : ts[t] # None /\ new.key \in {None, ts[t].of}
  BY <1>2 DEF Handed, GateIsWatched
<1>10. new.loggedOut => ~new.signedIn
  BY <1>2 DEF Handed
<1>11. CASE Watched(new) = Watched(link) /\ link' = new /\ tries' = ts
  <2>1. new.signedIn = link.signedIn /\ new.loggedOut = link.loggedOut
    BY <1>11 DEF Watched
  <2>2. (IF HasWallet(new) THEN new.address ELSE None) = (IF HasWallet(link) THEN link.address ELSE None)
    BY <1>11 DEF Watched
  <2>3. HasWallet(link) => HasWallet(new) /\ new.address = link.address
    BY <2>2 DEF HasWallet, isConnected
  <2>4. ASSUME NEW t \in Tries, IsLive(ts, t)
        PROVE  /\ new.auto = t /\ new.run = [try |-> t, of |-> ts[t].of] /\ ts[t].of = new.address
               /\ HasWallet(new) /\ ~new.signedIn /\ ~new.loggedOut
    <3>1. IsLive(tries, t) /\ ts[t].of = tries[t].of /\ l.auto = link.auto
      BY <2>4 DEF Handed
    <3>2. /\ link.auto = t /\ tries[t].of = link.address
          /\ HasWallet(link) /\ ~link.signedIn /\ ~link.loggedOut
      BY <3>1 DEF LinkInv, LiveIsWatched
    <3>3. new.run = [try |-> t, of |-> ts[t].of]
      BY <1>6, <2>4
    <3> QED
      BY <1>2, <2>1, <2>3, <3>1, <3>2, <3>3
  <2>5. LiveIsWatched'
    BY <1>11, <2>4 DEF LiveIsWatched, IsLive, HasWallet, isConnected
  <2>6. GateIsWatched(link', tries') /\ EntryIsTrue(link')
    BY <1>2, <1>9, <1>11 DEF GateIsWatched
  <2> QED
    BY <1>2, <1>3, <1>10, <1>11, <2>5, <2>6 DEF LinkInv, GateIsWatched, EntryIsTrue
<1>12. CASE link' = back /\ tries' = off
  <2>1. LiveIsWatched'
    BY <1>7, <1>12 DEF LiveIsWatched, IsLive
  <2>2. GateIsWatched(back, off)
    BY <1>7, <1>8, <1>9 DEF GateIsWatched
  <2>3. back.loggedOut => ~back.signedIn
    BY <1>8, <1>10
  <2> QED
    BY <1>7, <1>8, <1>12, <2>1, <2>2, <2>3 DEF LinkInv, GateIsWatched, EntryIsTrue
<1>13. ASSUME MayTry(back), NEW t \in FreeTries(off),
              link' = [back EXCEPT !.key = back.address, !.auto = t, !.checking = TRUE,
                                   !.run = [try |-> t, of |-> back.address]],
              tries' = [CallOff(off, back.auto) EXCEPT ![t] = [of |-> back.address, live |-> TRUE, at |-> "network"]]
       PROVE  LinkInv'
  <2>1. ~back.signedIn /\ ~back.loggedOut /\ HasWallet(back) /\ t \in Tries
    BY <1>13 DEF MayTry, FreeTries
  <2>2. back.address \in Signers
    BY <1>8, <2>1 DEF HasWallet, isConnected, Links
  <2> DEFINE newRun == [try |-> t, of |-> back.address]
             try == [of |-> back.address, live |-> TRUE, at |-> "network"]
             called == CallOff(off, back.auto)
  <2>3. newRun \in LinkRun /\ try \in LinkTry
    BY <2>1, <2>2 DEF LinkRun, LinkTry
  <2>4. called \in SomeTries /\ \A u \in Tries : ~IsLive(called, u)
    BY <1>7, CalledOff
  <2>5. link' = [back EXCEPT !.key = back.address, !.auto = t, !.checking = TRUE, !.run = newRun]
    BY <1>13
  <2>6. tries' = [called EXCEPT ![t] = try]
    BY <1>13
  <2>7. try.of = back.address /\ newRun = [try |-> t, of |-> try.of]
    OBVIOUS
  <2>8. try # None
    BY <2>3 DEF LinkAssumption
  <2> HIDE DEF newRun, try, called
  <2>9. link' \in Links
    BY <1>8, <2>1, <2>2, <2>3, <2>5 DEF Links
  <2>10. /\ link'.address = back.address /\ link'.key = back.address /\ link'.auto = t /\ link'.run = newRun
         /\ link'.signedIn = back.signedIn /\ link'.loggedOut = back.loggedOut
    BY <1>8, <2>5 DEF Links
  <2>11. HasWallet(link)' /\ EntryIsTrue(link')
    BY <1>8, <2>1, <2>5 DEF Links, HasWallet, isConnected, EntryIsTrue
  <2>12. tries' \in SomeTries /\ tries'[t] = try
    BY <2>1, <2>3, <2>4, <2>6 DEF SomeTries
  <2>13. ASSUME NEW u \in Tries, IsLive(tries', u)
         PROVE  u = t
    <3>1. u # t => tries'[u] = called[u]
      BY <2>4, <2>6 DEF SomeTries
    <3> QED
      BY <2>4, <2>13, <3>1 DEF IsLive
  <2>14. LiveIsWatched'
    BY <2>1, <2>7, <2>10, <2>11, <2>12, <2>13 DEF LiveIsWatched, IsLive
  <2>15. GateIsWatched(link', tries')
    BY <2>1, <2>7, <2>8, <2>10, <2>12 DEF GateIsWatched
  <2> QED
    BY <2>1, <2>9, <2>10, <2>11, <2>12, <2>14, <2>15 DEF LinkInv, GateIsWatched, EntryIsTrue
<1> QED
  BY <1>1, <1>11, <1>12, <1>13

-----------------------------------------------------------------------------
(* What the handlers are made of, field by field.                          *)

\* The sign-in is the same in both.
Beside(m, l) ==
    /\ m.run = l.run /\ m.auto = l.auto /\ m.checking = l.checking /\ m.key = l.key
    /\ m.signedIn = l.signedIn /\ m.loggedOut = l.loggedOut

LEMMA EndsKeeps ==
    ASSUME NEW l \in Links
    PROVE  /\ EntryEnds(l) \in Links /\ Beside(EntryEnds(l), l)
           /\ EntryEnds(l).entry = "idle" /\ EntryEnds(l).pending = l.pending /\ EntryEnds(l).picker = l.picker
           /\ EntryEnds(l).cleanup = l.cleanup /\ EntryEnds(l).leaving = l.leaving
<1>1. EntryEnds(l) \in Links
  BY DEF EntryEnds, Links
<1>2. Beside(EntryEnds(l), l)
  BY DEF EntryEnds, Links, Beside
<1> QED
  BY <1>1, <1>2 DEF EntryEnds, Links

\* The entry, where the module is waited for, is over.
LEMMA WaiterIsTold ==
    ASSUME NEW l \in Links, NEW m, m = IF l.pending THEN EntryEnds(l) ELSE l
    PROVE  /\ m \in Links /\ Beside(m, l) /\ m.entry = (IF l.pending THEN "idle" ELSE l.entry)
           /\ m.picker = l.picker /\ m.cleanup = l.cleanup /\ m.leaving = l.leaving
<1>1. CASE l.pending
  <2>1. m = EntryEnds(l)
    BY <1>1
  <2> QED
    BY <1>1, <2>1, EndsKeeps
<1>2. CASE ~l.pending
  BY <1>2 DEF Beside
<1> QED
  BY <1>1, <1>2

LEMMA DisconnectsKeeps ==
    ASSUME NEW l \in Links
    PROVE  /\ Disconnects(l) \in Links /\ Beside(Disconnects(l), l)
           /\ Disconnects(l).pending = FALSE
           /\ Disconnects(l).entry = (IF l.pending THEN "idle" ELSE l.entry)
           /\ Disconnects(l).picker # "none" <=> l.picker # "none"
           /\ Disconnects(l).cleanup = l.cleanup /\ Disconnects(l).leaving = l.leaving
<1> DEFINE m == IF l.pending THEN EntryEnds(l) ELSE l
           d == Disconnects(l)
           p == IF l.picker \in {"open", "seen"} THEN "off" ELSE l.picker
<1>1. d = [m EXCEPT !.pending = FALSE, !.picker = p]
  BY DEF Disconnects
<1>2. p \in {"none", "open", "seen", "off", "closing"} /\ (p # "none" <=> l.picker # "none")
  BY DEF Links
<1>3. m = IF l.pending THEN EntryEnds(l) ELSE l
  OBVIOUS
<1> HIDE DEF m, d, p
<1>4. /\ m \in Links /\ Beside(m, l) /\ m.entry = (IF l.pending THEN "idle" ELSE l.entry)
      /\ m.cleanup = l.cleanup /\ m.leaving = l.leaving
  BY <1>3, WaiterIsTold
<1>5. d \in Links
  <2>1. m \in Links /\ p \in {"none", "open", "seen", "off", "closing"}
    BY <1>2, <1>4
  <2> QED
    BY <1>1, <2>1 DEF Links
<1>6. Beside(d, m)
  BY <1>1, <1>4 DEF Links, Beside
<1>7. d.pending = FALSE /\ d.picker = p /\ d.entry = m.entry /\ d.cleanup = m.cleanup /\ d.leaving = m.leaving
  BY <1>1, <1>4 DEF Links
<1> QED
  BY <1>2, <1>4, <1>5, <1>6, <1>7 DEF Beside, d

LEMMA BrokenKeeps ==
    ASSUME NEW l \in Links
    PROVE  /\ Broken(l) \in Links /\ Beside(Broken(l), l)
           /\ Broken(l).pending = FALSE
           /\ Broken(l).entry = (IF l.pending THEN "idle" ELSE l.entry)
           /\ Broken(l).picker # "none" <=> l.picker # "none"
           /\ Broken(l).cleanup = l.cleanup /\ Broken(l).leaving = l.leaving
<1> DEFINE m == IF l.pending THEN EntryEnds(l) ELSE l
           d == Broken(l)
           p == IF l.picker \in {"open", "seen"} THEN "off" ELSE l.picker
<1>1. d = [m EXCEPT !.runtime = "none", !.pending = FALSE, !.marker = FALSE, !.provider = FALSE, !.open = FALSE,
                    !.picker = p]
  BY DEF Broken
<1>2. p \in {"none", "open", "seen", "off", "closing"} /\ (p # "none" <=> l.picker # "none")
  BY DEF Links
<1>3. m = IF l.pending THEN EntryEnds(l) ELSE l
  OBVIOUS
<1> HIDE DEF m, d, p
<1>4. /\ m \in Links /\ Beside(m, l) /\ m.entry = (IF l.pending THEN "idle" ELSE l.entry)
      /\ m.cleanup = l.cleanup /\ m.leaving = l.leaving
  BY <1>3, WaiterIsTold
<1>5. d \in Links
  <2>1. m \in Links /\ p \in {"none", "open", "seen", "off", "closing"}
    BY <1>2, <1>4
  <2> DEFINE c == [m EXCEPT !.runtime = "none"]
             e == [c EXCEPT !.pending = FALSE, !.marker = FALSE]
             n == [e EXCEPT !.provider = FALSE]
             f == [n EXCEPT !.open = FALSE]
  <2>2. c \in Links
    BY <2>1 DEF Links
  <2>3. d = [f EXCEPT !.picker = p]
    BY <1>1, <2>1 DEF Links
  <2> HIDE DEF c
  <2>4. e \in Links
    BY <2>2 DEF Links
  <2> HIDE DEF e
  <2>5. n \in Links
    BY <2>4 DEF Links
  <2> HIDE DEF n
  <2>6. f \in Links
    BY <2>5 DEF Links
  <2> HIDE DEF f
  <2> QED
    BY <2>1, <2>3, <2>6 DEF Links
<1>6. Beside(d, m)
  BY <1>1, <1>4 DEF Links, Beside
<1>7. d.pending = FALSE /\ d.picker = p /\ d.entry = m.entry /\ d.cleanup = m.cleanup /\ d.leaving = m.leaving
  BY <1>1, <1>4 DEF Links
<1> QED
  BY <1>2, <1>4, <1>5, <1>6, <1>7 DEF Beside, d

\* A cleanup is begun, or shared.
LEMMA ClearKeeps ==
    ASSUME NEW l \in Links, l.pending => l.picker = "none",
           l.entry = "connecting" <=> l.pending \/ l.picker # "none"
    PROVE  /\ clearProviderSessions(l) \in Links /\ Beside(clearProviderSessions(l), l)
           /\ EntryIsTrue(clearProviderSessions(l))
<1> DEFINE c == clearProviderSessions(l)
           d == Disconnects(l)
<1>1. c = IF l.cleanup THEN l ELSE [d EXCEPT !.cleanup = TRUE]
  BY DEF clearProviderSessions
<1>2. /\ d \in Links /\ Beside(d, l) /\ d.pending = FALSE
      /\ d.entry = (IF l.pending THEN "idle" ELSE l.entry)
      /\ d.picker # "none" <=> l.picker # "none"
  BY DisconnectsKeeps
<1> HIDE DEF c, d
<1>3. CASE l.cleanup
  BY <1>1, <1>3 DEF Beside, EntryIsTrue, c
<1>4. CASE ~l.cleanup
  <2>1. c = [d EXCEPT !.cleanup = TRUE]
    BY <1>1, <1>4
  <2>2. c \in Links
    BY <1>2, <2>1 DEF Links
  <2>3. Beside(c, d)
    BY <1>2, <2>1 DEF Links, Beside
  <2>4. c.cleanup = TRUE /\ c.pending = d.pending /\ c.picker = d.picker /\ c.entry = d.entry
    BY <1>2, <2>1 DEF Links
  <2>5. EntryIsTrue(c)
    BY <1>2, <2>4 DEF EntryIsTrue
  <2> QED
    BY <1>2, <2>2, <2>3, <2>5 DEF Beside, c
<1> QED
  BY <1>3, <1>4

\* The picker, where the button waits for it.
LEMMA PicksKeeps ==
    ASSUME NEW l \in Links, l.pending = FALSE, l.picker = "none", l.entry = "connecting"
    PROVE  /\ Picks(l) \in Links /\ Beside(Picks(l), l) /\ EntryIsTrue(Picks(l)) <=> (l.leaving => l.cleanup)
<1> DEFINE c == Picks(l)
<1>1. c = [l EXCEPT !.picker = "open", !.open = TRUE, !.asked = TRUE]
  BY DEF Picks
<1> HIDE DEF c
<1>2. c \in Links
  BY <1>1 DEF Links
<1>3. Beside(c, l)
  BY <1>1 DEF Links, Beside
<1>4. c.picker = "open" /\ c.pending = l.pending /\ c.entry = l.entry /\ c.cleanup = l.cleanup /\ c.leaving = l.leaving
  BY <1>1 DEF Links
<1> QED
  BY <1>2, <1>3, <1>4 DEF EntryIsTrue, c

LEMMA LeftKeeps ==
    ASSUME NEW l \in Links
    PROVE  /\ Left(l) \in Links /\ Left(l).leaving = FALSE
           /\ Left(l).run = l.run /\ Left(l).auto = l.auto /\ Left(l).checking = l.checking
           /\ Left(l).key \in {None, l.key} /\ Left(l).signedIn = l.signedIn /\ Left(l).loggedOut = l.loggedOut
           /\ Left(l).pending = l.pending /\ Left(l).picker = l.picker /\ Left(l).entry = l.entry
           /\ Left(l).cleanup = l.cleanup
<1>1. CASE l.leaving
  <2> DEFINE c == Left(l)
  <2>1. c = [l EXCEPT !.leaving = FALSE, !.starting = FALSE, !.step = "gate", !.key = None]
    BY <1>1 DEF Left
  <2> HIDE DEF c
  <2>2. c \in Links
    BY <2>1 DEF Links
  <2>3. /\ c.leaving = FALSE /\ c.run = l.run /\ c.auto = l.auto /\ c.checking = l.checking /\ c.key = None
        /\ c.signedIn = l.signedIn /\ c.loggedOut = l.loggedOut
    BY <2>1 DEF Links
  <2>4. c.pending = l.pending /\ c.picker = l.picker /\ c.entry = l.entry /\ c.cleanup = l.cleanup
    BY <2>1 DEF Links
  <2> QED
    BY <2>2, <2>3, <2>4 DEF c
<1>2. CASE ~l.leaving
  <2>1. Left(l) = l
    BY <1>2 DEF Left
  <2>2. l.leaving = FALSE
    BY <1>2 DEF Links
  <2> QED
    BY <2>1, <2>2
<1> QED
  BY <1>1, <1>2

LEMMA ClearedKeeps ==
    ASSUME NEW l \in Links, NEW ok, l.leaving = FALSE,
           l.pending => l.picker = "none", l.entry = "connecting" <=> l.pending \/ l.picker # "none"
    PROVE  /\ Cleared(l, ok) \in Links /\ Beside(Cleared(l, ok), l) /\ EntryIsTrue(Cleared(l, ok))
<1> DEFINE c == Cleared(l, ok)
<1>1. CASE l.entry # "clearing"
  <2>1. c = l
    BY <1>1 DEF Cleared
  <2> QED
    BY <1>1, <2>1 DEF Beside, EntryIsTrue
<1>2. CASE l.entry = "clearing" /\ (~ok \/ l.stale)
  <2>1. c = EntryEnds(l)
    BY <1>2 DEF Cleared
  <2> HIDE DEF c
  <2> QED
    BY <1>2, <2>1, EndsKeeps DEF EntryIsTrue, c
<1>3. CASE l.entry = "clearing" /\ ~(~ok \/ l.stale)
  <2>1. c = [l EXCEPT !.entry = "unblocking", !.method = "external_wallet"]
    BY <1>3 DEF Cleared
  <2> HIDE DEF c
  <2>2. c \in Links
    BY <2>1 DEF Links
  <2>3. Beside(c, l)
    BY <2>1 DEF Links, Beside
  <2>4. c.entry = "unblocking" /\ c.pending = l.pending /\ c.picker = l.picker /\ c.leaving = l.leaving
    BY <2>1 DEF Links
  <2> QED
    BY <1>3, <2>2, <2>3, <2>4 DEF EntryIsTrue, c
<1> QED
  BY <1>1, <1>2, <1>3

-----------------------------------------------------------------------------
(* The handlers.                                                           *)

\* A handler that leaves the sign-ins alone.
LEMMA HandlerKeeps ==
    ASSUME LinkAssumption, LinkInv, NEW l \in Links, EntryIsTrue(l), SameSignIn(l), Step(l, tries)
    PROVE  LinkInv'
BY SameIsHanded, StepKeeps

LEMMA BesideIsSame ==
    ASSUME LinkInv, NEW l, Beside(l, link)
    PROVE  SameSignIn(l)
BY DEF LinkInv, Beside, SameSignIn

LEMMA RuntimeKeeps ==
    ASSUME LinkAssumption, LinkInv, handleRuntimeValue \/ handleRuntimeError \/ RuntimeTimesOut
    PROVE  LinkInv'
<1>1. link \in Links /\ EntryIsTrue(link)
  BY DEF LinkInv
<1>2. CASE handleRuntimeValue
  <2> DEFINE ready == [link EXCEPT !.runtime = "ready", !.pending = FALSE]
  <2>1. ready \in Links
    BY <1>1 DEF Links
  <2>2. Beside(ready, link)
    BY <1>1 DEF Links, Beside
  <2>3. ready.pending = FALSE /\ ready.picker = link.picker /\ ready.entry = link.entry
        /\ ready.cleanup = link.cleanup /\ ready.leaving = link.leaving
    BY <1>1 DEF Links
  <2>4. Step(IF link.pending THEN Picks(ready) ELSE ready, tries)
    BY <1>2 DEF handleRuntimeValue
  <2> HIDE DEF ready
  <2>5. CASE link.pending
    <3>1. Picks(ready) \in Links /\ Beside(Picks(ready), ready) /\ EntryIsTrue(Picks(ready))
      BY <1>1, <2>1, <2>3, <2>5, PicksKeeps DEF EntryIsTrue
    <3>2. SameSignIn(Picks(ready))
      BY <2>2, <3>1, BesideIsSame DEF Beside
    <3> QED
      BY <2>4, <2>5, <3>1, <3>2, HandlerKeeps
  <2>6. CASE ~link.pending
    <3>1. EntryIsTrue(ready)
      BY <1>1, <2>3, <2>6 DEF EntryIsTrue
    <3> QED
      BY <2>1, <2>2, <2>4, <2>6, <3>1, BesideIsSame, HandlerKeeps
  <2> QED
    BY <2>5, <2>6
<1>3. CASE handleRuntimeError
  <2> DEFINE l == Broken(link)
  <2>1. /\ l \in Links /\ Beside(l, link) /\ l.pending = FALSE
        /\ l.entry = (IF link.pending THEN "idle" ELSE link.entry) /\ (l.picker # "none" <=> link.picker # "none")
        /\ l.cleanup = link.cleanup /\ l.leaving = link.leaving
    BY <1>1, BrokenKeeps
  <2>2. Step(l, tries)
    BY <1>3 DEF handleRuntimeError
  <2> HIDE DEF l
  <2>3. EntryIsTrue(l)
    BY <1>1, <2>1 DEF EntryIsTrue
  <2> QED
    BY <2>1, <2>2, <2>3, BesideIsSame, HandlerKeeps
<1>4. CASE RuntimeTimesOut
  <2> DEFINE e == EntryEnds(link)
             l == [e EXCEPT !.pending = FALSE]
  <2>1. e \in Links /\ Beside(e, link) /\ e.entry = "idle" /\ e.picker = link.picker
        /\ e.cleanup = link.cleanup /\ e.leaving = link.leaving
    BY <1>1, EndsKeeps
  <2>2. link.pending /\ Step(l, tries)
    BY <1>4 DEF RuntimeTimesOut
  <2> HIDE DEF e
  <2>3. l \in Links
    BY <2>1 DEF Links
  <2>4. Beside(l, e)
    BY <2>1 DEF Links, Beside
  <2>5. l.pending = FALSE /\ l.entry = e.entry /\ l.picker = e.picker /\ l.cleanup = e.cleanup /\ l.leaving = e.leaving
    BY <2>1 DEF Links
  <2> HIDE DEF l
  <2>6. EntryIsTrue(l)
    BY <1>1, <2>1, <2>2, <2>5 DEF EntryIsTrue
  <2>7. SameSignIn(l)
    BY <2>1, <2>4, BesideIsSame DEF Beside
  <2> QED
    BY <2>2, <2>3, <2>6, <2>7, HandlerKeeps
<1> QED
  BY <1>2, <1>3, <1>4

\* The picker moves on, or is over.
LEMMA PickerKeeps ==
    ASSUME LinkAssumption, LinkInv, PickerFails \/ PickerPolls \/ PickerTimesOut \/ PickerCloses
    PROVE  LinkInv'
<1>1. link \in Links /\ EntryIsTrue(link)
  BY DEF LinkInv
<1>2. ASSUME NEW open \in BOOLEAN, link.picker # "none",
             Step([EntryEnds(link) EXCEPT !.picker = "none", !.open = open], tries)
      PROVE  LinkInv'
  <2> DEFINE e == EntryEnds(link)
             l == [e EXCEPT !.picker = "none", !.open = open]
  <2>1. e \in Links /\ Beside(e, link) /\ e.entry = "idle" /\ e.pending = link.pending
        /\ e.cleanup = link.cleanup /\ e.leaving = link.leaving
    BY <1>1, EndsKeeps
  <2>2. Step(l, tries)
    BY <1>2
  <2> HIDE DEF e
  <2>3. l \in Links
    BY <2>1 DEF Links
  <2>4. Beside(l, e)
    BY <2>1 DEF Links, Beside
  <2>5. l.pending = e.pending /\ l.entry = e.entry /\ l.picker = "none" /\ l.cleanup = e.cleanup /\ l.leaving = e.leaving
    BY <2>1 DEF Links
  <2> HIDE DEF l
  <2>6. EntryIsTrue(l)
    BY <1>1, <1>2, <2>1, <2>5 DEF EntryIsTrue
  <2>7. SameSignIn(l)
    BY <2>1, <2>4, BesideIsSame DEF Beside
  <2> QED
    BY <2>2, <2>3, <2>6, <2>7, HandlerKeeps
<1>3. ASSUME NEW next \in {"closing", "seen"}, link.picker \in {"open", "seen"},
             Step([link EXCEPT !.picker = next], tries)
      PROVE  LinkInv'
  <2> DEFINE l == [link EXCEPT !.picker = next]
  <2>1. l \in Links
    BY <1>1 DEF Links
  <2>2. Beside(l, link)
    BY <1>1 DEF Links, Beside
  <2>3. l.pending = link.pending /\ l.entry = link.entry /\ l.picker = next /\ l.cleanup = link.cleanup
        /\ l.leaving = link.leaving
    BY <1>1 DEF Links
  <2>4. Step(l, tries)
    BY <1>3
  <2> HIDE DEF l
  <2>5. EntryIsTrue(l)
    BY <1>1, <1>3, <2>3 DEF EntryIsTrue
  <2> QED
    BY <2>1, <2>2, <2>4, <2>5, BesideIsSame, HandlerKeeps
<1>4. CASE PickerFails
  <2>1. PICK open \in {FALSE, link.open} : Step([EntryEnds(link) EXCEPT !.picker = "none", !.open = open], tries)
    BY <1>4 DEF PickerFails
  <2>2. open \in BOOLEAN /\ link.picker # "none"
    BY <1>1, <1>4 DEF PickerFails, Links
  <2> QED
    BY <1>2, <2>1, <2>2
<1>5. CASE PickerCloses
  BY <1>2, <1>5 DEF PickerCloses
<1>6. CASE PickerPolls
  <2>1. \/ PickerFails
        \/ link.picker \in {"open", "seen"} /\ Step([link EXCEPT !.picker = "closing"], tries)
        \/ link.picker \in {"open", "seen"} /\ Step([link EXCEPT !.picker = "seen"], tries)
    <3>1. CASE link.picker = "off"
      BY <1>6, <3>1 DEF PickerPolls
    <3>2. CASE link.picker \in {"open", "seen"}
      BY <1>6, <3>2 DEF PickerPolls
    <3>3. CASE link.picker \notin {"off", "open", "seen"}
      BY <1>6, <3>3 DEF PickerPolls
    <3> QED
      BY <3>1, <3>2, <3>3
  <2> QED
    BY <1>3, <1>4, <2>1
<1> QED
  BY <1>4, <1>5, <1>6 DEF PickerTimesOut

\* What the wallet app does, and a registration that begins: no part of the entry.
LEMMA WalletKeeps ==
    ASSUME LinkAssumption, LinkInv,
           \/ WindowCloses \/ ProviderComes \/ WalletLeaves \/ RegisterWallet
           \/ \E s \in Signers : WalletAnswers(s)
    PROVE  LinkInv'
<1>1. link \in Links /\ EntryIsTrue(link)
  BY DEF LinkInv
<1>2. ASSUME NEW l, l \in Links, Beside(l, link), Step(l, tries), l.pending = link.pending,
             l.picker = link.picker, l.entry = link.entry, l.cleanup = link.cleanup, l.leaving = link.leaving
      PROVE  LinkInv'
  <2>1. EntryIsTrue(l)
    BY <1>1, <1>2 DEF EntryIsTrue
  <2> QED
    BY <1>2, <2>1, BesideIsSame, HandlerKeeps
<1>3. CASE WindowCloses
  <2>1. Step([link EXCEPT !.open = FALSE], tries)
    BY <1>3 DEF WindowCloses
  <2> QED
    BY <1>1, <1>2, <2>1 DEF Links, Beside
<1>4. CASE ProviderComes
  <2>1. Step([link EXCEPT !.provider = TRUE], tries)
    BY <1>4 DEF ProviderComes
  <2> QED
    BY <1>1, <1>2, <2>1 DEF Links, Beside
<1>5. CASE WalletLeaves
  <2>1. Step([link EXCEPT !.address = None, !.provider = FALSE], tries)
    BY <1>5 DEF WalletLeaves
  <2> QED
    BY <1>1, <1>2, <2>1 DEF Links, Beside
<1>6. CASE RegisterWallet
  <2>1. Step([link EXCEPT !.reg = TRUE], tries)
    BY <1>6 DEF RegisterWallet
  <2> QED
    BY <1>1, <1>2, <2>1 DEF Links, Beside
<1>7. ASSUME NEW s \in Signers, WalletAnswers(s)
      PROVE  LinkInv'
  <2>1. Step([link EXCEPT !.asked = FALSE, !.address = s, !.provider = FALSE], tries)
    BY <1>7 DEF WalletAnswers
  <2> QED
    BY <1>1, <1>2, <2>1 DEF Links, Beside
<1> QED
  BY <1>3, <1>4, <1>5, <1>6, <1>7

\* The button: whoever is called off cannot succeed any more.
LEMMA StartKeeps ==
    ASSUME LinkAssumption, LinkInv, startExternalWallet
    PROVE  LinkInv'
<1> DEFINE m == [link EXCEPT !.entry = "clearing", !.stale = FALSE, !.starting = TRUE, !.key = None]
           l == clearProviderSessions(m)
           ts == CallOff(tries, link.auto)
<1>1. link \in Links /\ tries \in SomeTries /\ EntryIsTrue(link) /\ link.entry = "idle" /\ ~link.checking /\ ~link.signedIn
  BY DEF LinkInv, startExternalWallet
<1>2. Step(l, ts)
  BY DEF startExternalWallet
<1>3. m \in Links
  BY <1>1 DEF Links
<1>4. /\ m.run = link.run /\ m.auto = link.auto /\ m.checking = link.checking
      /\ m.signedIn = link.signedIn /\ m.loggedOut = link.loggedOut
  BY <1>1 DEF Links
<1>5. m.entry = "clearing" /\ m.pending = link.pending /\ m.picker = link.picker
  BY <1>1 DEF Links
<1> HIDE DEF m
<1>6. l \in Links /\ Beside(l, m) /\ EntryIsTrue(l)
  BY <1>1, <1>3, <1>5, ClearKeeps DEF EntryIsTrue
<1>7. ts \in SomeTries /\ \A t \in Tries : IsLive(ts, t) => IsLive(tries, t) /\ t # link.auto
  BY <1>1, CalledOff
<1>8. \A t \in Tries : ~IsLive(ts, t)
  BY <1>7 DEF LinkInv, LiveIsWatched
<1> HIDE DEF l, ts
<1>9. Handed(l, ts)
  BY <1>1, <1>4, <1>6, <1>7, <1>8 DEF Handed, Beside, GateIsWatched
<1> QED
  BY <1>2, <1>9, StepKeeps

LEMMA LogoutKeeps ==
    ASSUME LinkAssumption, LinkInv, linkLogout
    PROVE  LinkInv'
<1> DEFINE m == [link EXCEPT !.stale = TRUE, !.reg = FALSE, !.auto = None, !.key = None, !.checking = FALSE,
                             !.step = "gate", !.signedIn = FALSE, !.loggedOut = TRUE,
                             !.leaving = TRUE, !.starting = TRUE]
           l == clearProviderSessions(m)
           ts == CallOff(tries, link.auto)
<1>1. link \in Links /\ tries \in SomeTries /\ EntryIsTrue(link)
  BY DEF LinkInv
<1>2. Step(l, ts)
  BY DEF linkLogout
<1>3. m \in Links
  <2> DEFINE a == [link EXCEPT !.stale = TRUE, !.reg = FALSE, !.auto = None]
             b == [a EXCEPT !.key = None, !.checking = FALSE, !.step = "gate"]
             c == [b EXCEPT !.signedIn = FALSE, !.loggedOut = TRUE]
  <2>1. a \in Links
    BY <1>1 DEF Links
  <2>2. m = [c EXCEPT !.leaving = TRUE, !.starting = TRUE]
    BY <1>1 DEF Links
  <2> HIDE DEF a, m
  <2>3. b \in Links
    BY <2>1 DEF Links
  <2> HIDE DEF b
  <2>4. c \in Links
    BY <2>3 DEF Links
  <2> HIDE DEF c
  <2> QED
    BY <2>2, <2>4 DEF Links
<1>4. m.run = link.run /\ ~m.checking /\ ~m.signedIn
  BY <1>1 DEF Links
<1>5. m.entry = link.entry /\ m.pending = link.pending /\ m.picker = link.picker
  BY <1>1 DEF Links
<1> HIDE DEF m
<1>6. l \in Links /\ Beside(l, m) /\ EntryIsTrue(l)
  BY <1>1, <1>3, <1>5, ClearKeeps DEF EntryIsTrue
<1>7. ts \in SomeTries /\ \A t \in Tries : IsLive(ts, t) => IsLive(tries, t) /\ t # link.auto
  BY <1>1, CalledOff
<1>8. \A t \in Tries : ~IsLive(ts, t)
  BY <1>7 DEF LinkInv, LiveIsWatched
<1> HIDE DEF l, ts
<1>9. Handed(l, ts)
  BY <1>1, <1>4, <1>6, <1>7, <1>8 DEF Handed, Beside, GateIsWatched
<1> QED
  BY <1>2, <1>9, StepKeeps

\* The providers are closed, late or never.
LEMMA CleanupKeeps ==
    ASSUME LinkAssumption, LinkInv, NEW ok \in BOOLEAN, CleanupEnds(ok)
    PROVE  LinkInv'
<1>1. link \in Links /\ EntryIsTrue(link) /\ (link.loggedOut => ~link.signedIn)
  BY DEF LinkInv
<1>2. PICK address \in {None, link.address}, kept \in {FALSE, link.asked} :
         Step(Cleared(Left([link EXCEPT !.cleanup = FALSE, !.marker = FALSE, !.asked = kept,
                                        !.address = address, !.provider = (address # None /\ link.provider)]), ok), tries)
  BY DEF CleanupEnds
<1> DEFINE provider == (address # None /\ link.provider)
           closed == [link EXCEPT !.cleanup = FALSE, !.marker = FALSE, !.asked = kept,
                                  !.address = address, !.provider = provider]
           left == Left(closed)
           l == Cleared(left, ok)
<1>3. Step(l, tries)
  BY <1>2
<1>4. address \in Signers \cup {None} /\ kept \in BOOLEAN /\ provider \in BOOLEAN
  BY <1>1 DEF Links
<1> HIDE DEF provider
<1>5. closed \in Links
  <2> DEFINE c == [link EXCEPT !.cleanup = FALSE, !.marker = FALSE, !.asked = kept]
  <2>1. c \in Links
    BY <1>1, <1>4 DEF Links
  <2>2. closed = [c EXCEPT !.address = address, !.provider = provider]
    BY <1>1 DEF Links
  <2> HIDE DEF c, closed
  <2> QED
    BY <1>4, <2>1, <2>2 DEF Links
<1>6. /\ closed.run = link.run /\ closed.auto = link.auto /\ closed.checking = link.checking
      /\ closed.key = link.key /\ closed.signedIn = link.signedIn /\ closed.loggedOut = link.loggedOut
  BY <1>1 DEF Links
<1>7. closed.pending = link.pending /\ closed.picker = link.picker /\ closed.entry = link.entry
  BY <1>1 DEF Links
<1> HIDE DEF closed
<1>8. /\ left \in Links /\ left.leaving = FALSE
      /\ left.run = closed.run /\ left.auto = closed.auto /\ left.checking = closed.checking
      /\ left.key \in {None, closed.key} /\ left.signedIn = closed.signedIn /\ left.loggedOut = closed.loggedOut
      /\ left.pending = closed.pending /\ left.picker = closed.picker /\ left.entry = closed.entry
  BY <1>5, LeftKeeps
<1> HIDE DEF left
<1>9. l \in Links /\ Beside(l, left) /\ EntryIsTrue(l)
  BY <1>1, <1>7, <1>8, ClearedKeeps DEF EntryIsTrue
<1> HIDE DEF l
<1>10. SameSignIn(l)
  BY <1>1, <1>6, <1>8, <1>9 DEF SameSignIn, Beside
<1> QED
  BY <1>3, <1>9, <1>10, HandlerKeeps

LEMMA ClearingKeeps ==
    ASSUME LinkAssumption, LinkInv, ClearingTimesOut \/ LeavingTimesOut
    PROVE  LinkInv'
<1>1. link \in Links /\ EntryIsTrue(link) /\ (link.loggedOut => ~link.signedIn)
  BY DEF LinkInv
<1>2. CASE ClearingTimesOut
  <2>1. EntryIsTrue(EntryEnds(link)) /\ EntryEnds(link) \in Links /\ Beside(EntryEnds(link), link)
    BY <1>1, <1>2, EndsKeeps DEF EntryIsTrue, ClearingTimesOut
  <2> QED
    BY <1>2, <2>1, BesideIsSame, HandlerKeeps DEF ClearingTimesOut
<1>3. CASE LeavingTimesOut
  <2>1. /\ Left(link) \in Links /\ Left(link).leaving = FALSE
        /\ Left(link).run = link.run /\ Left(link).auto = link.auto /\ Left(link).checking = link.checking
        /\ Left(link).key \in {None, link.key}
        /\ Left(link).signedIn = link.signedIn /\ Left(link).loggedOut = link.loggedOut
        /\ Left(link).pending = link.pending /\ Left(link).picker = link.picker /\ Left(link).entry = link.entry
        /\ Left(link).cleanup = link.cleanup
    BY <1>1, LeftKeeps
  <2>2. EntryIsTrue(Left(link)) /\ SameSignIn(Left(link))
    BY <1>1, <2>1 DEF EntryIsTrue, SameSignIn
  <2> QED
    BY <1>3, <2>1, <2>2, HandlerKeeps DEF LeavingTimesOut
<1> QED
  BY <1>2, <1>3

\* The button goes on, unless there was a sign-out in between.
LEMMA UnblockedKeeps ==
    ASSUME LinkAssumption, LinkInv, Unblocked
    PROVE  LinkInv'
<1>1. link \in Links /\ EntryIsTrue(link) /\ link.entry = "unblocking"
  BY DEF LinkInv, Unblocked
<1>2. link.pending = FALSE /\ link.picker = "none"
  BY <1>1 DEF EntryIsTrue, Links
<1>3. CASE link.stale
  <2> DEFINE e == EntryEnds(link)
             l == [e EXCEPT !.signedIn = FALSE, !.loggedOut = TRUE]
  <2>1. e \in Links /\ Beside(e, link) /\ e.entry = "idle" /\ e.pending = link.pending /\ e.picker = link.picker
        /\ e.cleanup = link.cleanup /\ e.leaving = link.leaving
    BY <1>1, EndsKeeps
  <2>2. Step(l, tries)
    BY <1>3 DEF Unblocked
  <2> HIDE DEF e
  <2>3. l \in Links
    BY <2>1 DEF Links
  <2>4. l.run = e.run /\ l.auto = e.auto /\ l.checking = e.checking /\ l.key = e.key /\ ~l.signedIn
    BY <2>1 DEF Links
  <2>5. l.pending = e.pending /\ l.entry = e.entry /\ l.picker = e.picker /\ l.cleanup = e.cleanup /\ l.leaving = e.leaving
    BY <2>1 DEF Links
  <2> HIDE DEF l
  <2>6. EntryIsTrue(l) /\ SameSignIn(l)
    BY <1>1, <1>2, <2>1, <2>4, <2>5 DEF EntryIsTrue, SameSignIn, Beside
  <2> QED
    BY <2>2, <2>3, <2>6, HandlerKeeps
<1>4. CASE ~link.stale
  <2> DEFINE c == [link EXCEPT !.loggedOut = FALSE, !.entry = "connecting"]
  <2>1. PICK l \in connect(c) : Step(l, tries)
    BY <1>4 DEF Unblocked
  <2>2. c \in Links
    BY <1>1 DEF Links
  <2>3. c.run = link.run /\ c.auto = link.auto /\ c.checking = link.checking /\ c.key = link.key /\ ~c.loggedOut
    BY <1>1 DEF Links
  <2>4. /\ c.pending = FALSE /\ c.picker = "none" /\ c.entry = "connecting"
        /\ c.cleanup = link.cleanup /\ c.leaving = link.leaving
    BY <1>1, <1>2 DEF Links
  <2>5. SameSignIn(c)
    BY <2>3 DEF SameSignIn
  <2> HIDE DEF c
  <2>6. c.leaving => c.cleanup
    BY <1>1, <2>4 DEF EntryIsTrue
  <2>7. l = Picks(c) \/ l = [c EXCEPT !.pending = TRUE, !.runtime = "mounted"] \/ l = EntryEnds(Broken(c))
    BY <2>1 DEF connect
  <2>8. CASE l = Picks(c)
    <3>1. l \in Links /\ Beside(l, c) /\ EntryIsTrue(l)
      BY <2>2, <2>4, <2>6, <2>8, PicksKeeps
    <3>2. SameSignIn(l)
      BY <2>5, <3>1 DEF SameSignIn, Beside
    <3> QED
      BY <2>1, <3>1, <3>2, HandlerKeeps
  <2>9. CASE l = [c EXCEPT !.pending = TRUE, !.runtime = "mounted"]
    <3>1. l \in Links
      BY <2>2, <2>9 DEF Links
    <3>2. Beside(l, c)
      BY <2>2, <2>9 DEF Links, Beside
    <3>3. l.pending = TRUE /\ l.picker = c.picker /\ l.entry = c.entry /\ l.cleanup = c.cleanup /\ l.leaving = c.leaving
      BY <2>2, <2>9 DEF Links
    <3>4. EntryIsTrue(l) /\ SameSignIn(l)
      BY <2>4, <2>5, <2>6, <3>2, <3>3 DEF EntryIsTrue, SameSignIn, Beside
    <3> QED
      BY <2>1, <3>1, <3>4, HandlerKeeps
  <2>10. CASE l = EntryEnds(Broken(c))
    <3> DEFINE b == Broken(c)
    <3>1. b \in Links /\ Beside(b, c) /\ b.pending = FALSE /\ (b.picker # "none" <=> c.picker # "none")
          /\ b.cleanup = c.cleanup /\ b.leaving = c.leaving
      BY <2>2, BrokenKeeps
    <3>2. l = EntryEnds(b)
      BY <2>10
    <3> HIDE DEF b
    <3>3. l \in Links /\ Beside(l, b) /\ l.entry = "idle" /\ l.pending = b.pending /\ l.picker = b.picker
          /\ l.cleanup = b.cleanup /\ l.leaving = b.leaving
      BY <3>1, <3>2, EndsKeeps
    <3>4. EntryIsTrue(l) /\ SameSignIn(l)
      BY <2>4, <2>5, <2>6, <3>1, <3>3 DEF EntryIsTrue, SameSignIn, Beside
    <3> QED
      BY <2>1, <3>3, <3>4, HandlerKeeps
  <2> QED
    BY <2>7, <2>8, <2>9, <2>10
<1> QED
  BY <1>3, <1>4

-----------------------------------------------------------------------------
(* The automatic sign-in.                                                  *)

\* It is over for t: it no longer holds the sign-in, and the spinner where it is its own.
LEMMA OverKeeps ==
    ASSUME LinkAssumption, LinkInv, NEW t \in Tries, tries[t] # None, NEW l \in Links, EntryIsTrue(l),
           l.run = link.run, l.auto = link.auto, l.checking = link.checking, l.key = link.key,
           l.loggedOut => ~l.signedIn, TryEnds(l, t)
    PROVE  LinkInv'
<1> DEFINE o == TryOver(l, t)
           ts == [tries EXCEPT ![t] = None]
           u == Unheld(l, t)
           of == tries[t].of
<1>1. Step(o, ts)
  BY DEF TryEnds
<1>2. ts \in SomeTries /\ ts[t] = None /\ \A v \in Tries : v # t => ts[v] = tries[v]
  BY DEF LinkInv, SomeTries
<1>3. u \in Links
  BY DEF Unheld, Links
<1>4. /\ u.run = l.run /\ u.key = l.key /\ u.checking = l.checking /\ u.signedIn = l.signedIn
      /\ u.loggedOut = l.loggedOut /\ u.auto = (IF l.auto = t THEN None ELSE l.auto)
  BY DEF Unheld, Links
<1>5. u.pending = l.pending /\ u.picker = l.picker /\ u.entry = l.entry /\ u.leaving = l.leaving /\ u.cleanup = l.cleanup
  BY DEF Unheld, Links
<1>6. /\ o \in Links /\ o.run = l.run /\ o.auto = (IF l.auto = t THEN None ELSE l.auto)
      /\ o.signedIn = l.signedIn /\ o.loggedOut = l.loggedOut /\ EntryIsTrue(o)
      /\ o.checking => l.checking /\ l.key # None /\ o.key = l.key /\ l.key # of
  <2>1. CASE l.key = None
    <3>1. o = [u EXCEPT !.checking = FALSE]
      BY <2>1 DEF TryOver
    <3> HIDE DEF u, o
    <3>2. o \in Links
      BY <1>3, <3>1 DEF Links
    <3>3. o.run = u.run /\ o.auto = u.auto /\ o.signedIn = u.signedIn /\ o.loggedOut = u.loggedOut /\ ~o.checking
      BY <1>3, <3>1 DEF Links
    <3>4. o.pending = u.pending /\ o.picker = u.picker /\ o.entry = u.entry /\ o.leaving = u.leaving /\ o.cleanup = u.cleanup
      BY <1>3, <3>1 DEF Links
    <3> QED
      BY <1>4, <1>5, <3>2, <3>3, <3>4 DEF EntryIsTrue
  <2>2. CASE l.key # None
    <3>1. o = Lowered(u, of)
      BY <2>2 DEF TryOver
    <3>2. LET b == Lowered(Unheld(l, t), of)
          IN  /\ b \in Links /\ b.run = l.run /\ b.address = l.address
              /\ b.auto = IF l.auto = t THEN None ELSE l.auto
              /\ b.key = IF l.key = of THEN None ELSE l.key
              /\ b.checking = (l.checking /\ l.key # of)
              /\ b.signedIn = l.signedIn /\ b.loggedOut = l.loggedOut
              /\ EntryIsTrue(l) => EntryIsTrue(b)
      <4> HIDE DEF of
      <4> QED
        BY TakenBack
    <3> HIDE DEF o, of
    <3> QED
      BY <2>2, <3>1, <3>2
  <2> QED
    BY <2>1, <2>2
<1> HIDE DEF u, o, ts
<1>7. GateIsWatched(o, ts)
  <2>1. ASSUME o.checking
        PROVE  \E v \in Tries : ts[v] # None /\ o.key \in {None, ts[v].of}
    <3>1. PICK v \in Tries : tries[v] # None /\ link.key \in {None, tries[v].of}
      BY <1>6, <2>1 DEF LinkInv, GateIsWatched
    <3>2. v # t
      BY <1>6, <2>1, <3>1
    <3> QED
      BY <1>2, <1>6, <2>1, <3>1, <3>2
  <2> QED
    BY <2>1 DEF GateIsWatched
<1>8. ASSUME NEW v \in Tries, IsLive(ts, v)
      PROVE  IsLive(tries, v) /\ ts[v].of = tries[v].of /\ o.auto = link.auto
  <2>1. v # t /\ ts[v] = tries[v]
    BY <1>2, <1>8 DEF IsLive
  <2>2. IsLive(tries, v)
    BY <1>8, <2>1 DEF IsLive
  <2>3. link.auto = v
    BY <2>2 DEF LinkInv, LiveIsWatched
  <2> QED
    BY <1>6, <2>1, <2>2, <2>3
<1>9. Handed(o, ts)
  BY <1>2, <1>6, <1>7, <1>8 DEF Handed
<1> QED
  BY <1>1, <1>9, StepKeeps

LEMMA TryKeeps ==
    ASSUME LinkAssumption, LinkInv, NEW t \in Tries, TryFails(t) \/ TryConnects(t) \/ TrySignsIn(t) \/ TryIsUnknown(t)
    PROVE  LinkInv'
<1>1. link \in Links /\ EntryIsTrue(link) /\ (link.loggedOut => ~link.signedIn) /\ tries \in SomeTries
  BY DEF LinkInv
<1>2. tries[t] # None /\ tries[t] \in LinkTry
  BY <1>1 DEF TryFails, TryConnects, TrySignsIn, TryIsUnknown, SomeTries
<1>3. ASSUME TryEnds(link, t)
      PROVE  LinkInv'
  BY <1>1, <1>2, <1>3, OverKeeps
<1>4. CASE TryFails(t)
  BY <1>3, <1>4 DEF TryFails
<1>5. CASE TryConnects(t)
  <2>1. TryEnds(link, t) \/ Step(link, [tries EXCEPT ![t].at = "login"])
    BY <1>5 DEF TryConnects
  <2>2. CASE Step(link, [tries EXCEPT ![t].at = "login"])
    <3> DEFINE ts == [tries EXCEPT ![t].at = "login"]
    <3>1. ts[t] = [tries[t] EXCEPT !.at = "login"] /\ \A v \in Tries : v # t => ts[v] = tries[v]
      BY <1>1 DEF SomeTries
    <3>2. ts[t] \in LinkTry /\ ts[t].of = tries[t].of /\ ts[t].live = tries[t].live
      BY <1>2, <3>1 DEF LinkTry
    <3>3. ts[t] # None
      BY <3>2 DEF LinkAssumption
    <3>4. ts \in SomeTries
      BY <1>1, <3>2 DEF SomeTries
    <3> HIDE DEF ts
    <3>5. GateIsWatched(link, ts)
      BY <1>2, <3>1, <3>2, <3>3 DEF LinkInv, GateIsWatched
    <3>6. \A v \in Tries : IsLive(ts, v) => IsLive(tries, v) /\ ts[v].of = tries[v].of
      BY <1>2, <3>1, <3>2 DEF IsLive
    <3>7. Handed(link, ts)
      BY <1>1, <3>4, <3>5, <3>6 DEF Handed
    <3>8. Step(link, ts)
      BY <2>2 DEF ts
    <3> QED
      BY <3>7, <3>8, StepKeeps
  <2> QED
    BY <1>3, <2>1, <2>2
<1>6. CASE TrySignsIn(t)
  <2> DEFINE l == [link EXCEPT !.signedIn = TRUE, !.loggedOut = FALSE]
  <2>1. l \in Links
    BY <1>1 DEF Links
  <2>2. l.run = link.run /\ l.auto = link.auto /\ l.checking = link.checking /\ l.key = link.key /\ ~l.loggedOut
    BY <1>1 DEF Links
  <2>3. EntryIsTrue(l)
    BY <1>1 DEF Links, EntryIsTrue
  <2>4. TryEnds(l, t)
    BY <1>6 DEF TrySignsIn
  <2> HIDE DEF l
  <2> QED
    BY <1>2, <2>1, <2>2, <2>3, <2>4, OverKeeps
<1>7. CASE TryIsUnknown(t)
  <2> DEFINE l == [link EXCEPT !.step = "identity"]
  <2>1. l \in Links
    BY <1>1 DEF Links
  <2>2. /\ l.run = link.run /\ l.auto = link.auto /\ l.checking = link.checking /\ l.key = link.key
        /\ l.loggedOut = link.loggedOut /\ l.signedIn = link.signedIn
    BY <1>1 DEF Links
  <2>3. EntryIsTrue(l)
    BY <1>1 DEF Links, EntryIsTrue
  <2>4. TryEnds(l, t) \/ TryEnds(link, t)
    BY <1>7 DEF TryIsUnknown
  <2> HIDE DEF l
  <2> QED
    BY <1>1, <1>2, <1>3, <2>1, <2>2, <2>3, <2>4, OverKeeps
<1> QED
  BY <1>4, <1>5, <1>6, <1>7

LEMMA RegisteredKeeps ==
    ASSUME LinkAssumption, LinkInv, NEW ok \in BOOLEAN, RegisterEnds(ok)
    PROVE  LinkInv'
<1>1. link \in Links /\ EntryIsTrue(link) /\ (link.loggedOut => ~link.signedIn)
  BY DEF LinkInv
<1>2. ASSUME NEW l \in Links, l.run = link.run, l.auto = link.auto, l.checking = link.checking, l.key = link.key,
             l.pending = link.pending, l.picker = link.picker, l.entry = link.entry, l.cleanup = link.cleanup,
             l.leaving = link.leaving, l.loggedOut => ~l.signedIn, Step(l, tries)
      PROVE  LinkInv'
  <2>1. EntryIsTrue(l) /\ SameSignIn(l)
    BY <1>1, <1>2 DEF EntryIsTrue, SameSignIn
  <2> QED
    BY <1>2, <2>1, HandlerKeeps
<1>3. CASE ok
  <2>1. Step([link EXCEPT !.reg = FALSE, !.signedIn = TRUE, !.loggedOut = FALSE], tries)
    BY <1>3 DEF RegisterEnds
  <2> QED
    BY <1>1, <1>2, <2>1 DEF Links
<1>4. CASE ~ok
  <2>1. Step([link EXCEPT !.reg = FALSE], tries)
    BY <1>4 DEF RegisterEnds
  <2> QED
    BY <1>1, <1>2, <2>1 DEF Links
<1> QED
  BY <1>3, <1>4

\* The app is opened.
LEMMA LaunchIsSound ==
    ASSUME LinkAssumption, NEW marker \in BOOLEAN, NEW address \in Signers \cup {None},
           NEW signedIn \in BOOLEAN, NEW loggedOut \in BOOLEAN, loggedOut => ~signedIn,
           link' = Launched(marker, address, signedIn, loggedOut), tries' = [t \in Tries |-> None]
    PROVE  LinkInv'
<1>1. link' \in Links
  BY DEF Launched, Links
<1>2. /\ link'.loggedOut = loggedOut /\ link'.signedIn = signedIn /\ link'.checking = FALSE /\ link'.pending = FALSE
      /\ link'.picker = "none" /\ link'.entry = "idle" /\ link'.leaving = FALSE
  BY DEF Launched
<1>3. tries' \in SomeTries /\ \A t \in Tries : ~IsLive(tries', t)
  BY DEF SomeTries, IsLive
<1>4. LiveIsWatched'
  BY <1>3 DEF LiveIsWatched, IsLive
<1>5. GateIsWatched(link', tries') /\ EntryIsTrue(link')
  BY <1>2 DEF GateIsWatched, EntryIsTrue
<1> QED
  BY <1>1, <1>2, <1>3, <1>4, <1>5 DEF LinkInv, GateIsWatched, EntryIsTrue

LEMMA LinkBegins ==
    ASSUME LinkAssumption, LinkInit
    PROVE  LinkInv
<1>1. link = Launched(FALSE, None, FALSE, FALSE) /\ tries = [t \in Tries |-> None]
  BY DEF LinkInit
<1>2. link \in Links
  BY <1>1 DEF Launched, Links
<1>3. /\ link.loggedOut = FALSE /\ link.checking = FALSE /\ link.pending = FALSE
      /\ link.picker = "none" /\ link.entry = "idle" /\ link.leaving = FALSE
  BY <1>1 DEF Launched
<1>4. tries \in SomeTries /\ \A t \in Tries : ~IsLive(tries, t)
  BY <1>1 DEF SomeTries, IsLive
<1> QED
  BY <1>2, <1>3, <1>4 DEF LinkInv, LiveIsWatched, GateIsWatched, EntryIsTrue

LEMMA LinkStepKeeps ==
    ASSUME LinkAssumption, LinkInv, [LinkNext]_linkVars
    PROVE  LinkInv'
<1>1. CASE Relaunch
  <2>1. /\ link.marker \in BOOLEAN /\ link.address \in Signers \cup {None} /\ link.signedIn \in BOOLEAN
        /\ link.loggedOut \in BOOLEAN /\ (link.loggedOut => ~link.signedIn)
    BY DEF LinkInv, Links
  <2> QED
    BY <1>1, <2>1, LaunchIsSound DEF Relaunch
<1>2. CASE UNCHANGED linkVars
  BY <1>2 DEF linkVars, LinkInv, LiveIsWatched, GateIsWatched, EntryIsTrue, IsLive, HasWallet, isConnected
<1>3. CASE LinkTimer
  BY <1>3, RuntimeKeeps, PickerKeeps, ClearingKeeps, UnblockedKeeps DEF LinkTimer
<1>4. CASE handleRuntimeValue \/ handleRuntimeError
  BY <1>4, RuntimeKeeps
<1>5. CASE WindowCloses \/ ProviderComes \/ WalletLeaves \/ RegisterWallet \/ \E s \in Signers : WalletAnswers(s)
  BY <1>5, WalletKeeps
<1>6. CASE startExternalWallet \/ linkLogout
  BY <1>6, StartKeeps, LogoutKeeps
<1>7. ASSUME NEW ok \in BOOLEAN, CleanupEnds(ok) \/ RegisterEnds(ok)
      PROVE  LinkInv'
  BY <1>7, CleanupKeeps, RegisteredKeeps
<1>8. ASSUME NEW t \in Tries, TryFails(t) \/ TryConnects(t) \/ TrySignsIn(t) \/ TryIsUnknown(t)
      PROVE  LinkInv'
  BY <1>8, TryKeeps
<1> QED
  BY <1>1, <1>2, <1>3, <1>4, <1>5, <1>6, <1>7, <1>8 DEF LinkNext

LEMMA NobodySlipsFollows ==
    ASSUME LinkInv
    PROVE  NobodySlipsIn
<1>1. ASSUME link.loggedOut
      PROVE  ~link.signedIn /\ \A t \in Tries : tries[t] # None => ~tries[t].live
  BY <1>1 DEF LinkInv, LiveIsWatched, IsLive
<1>2. \A t \in Tries : (tries[t] # None /\ tries[t].live) => (link.auto = t /\ tries[t].of = link.address)
  BY DEF LinkInv, LiveIsWatched, IsLive
<1>3. link.checking => \E t \in Tries : tries[t] # None /\ link.key \in {None, tries[t].of}
  BY DEF LinkInv, GateIsWatched
<1>4. /\ (link.entry = "connecting") <=> (link.pending \/ link.picker # "none")
      /\ (link.entry = "clearing" \/ link.leaving) => link.cleanup
  BY DEF LinkInv, EntryIsTrue
<1> QED
  BY <1>1, <1>2, <1>3, <1>4 DEF NobodySlipsIn

LEMMA LinkMoves ==
    ASSUME [ScreensNext]_screenVars
    PROVE  [LinkNext]_linkVars
BY DEF ScreensNext, screenVars, OnlySend, OnlyList, OnlyBuy, OnlyLink, OnlyReceive, OnlyActivity, OnlyGroup, OnlyIdentity

\* However late the wallet answers: after a sign-out no sign-in with an external wallet is left
\* that could succeed, and the gate never stays behind "Verifying ownership" with nobody left to
\* raise it (AuthProvider, the gate of the sign-in with an external wallet).
THEOREM NobodyEverSlipsIn == ScreensSpec => []NobodySlipsIn
<1> USE LinkAssumption
<1>1. ScreensInit => LinkInv
  BY LinkBegins DEF ScreensInit
<1>2. LinkInv /\ [ScreensNext]_screenVars => LinkInv'
  BY LinkMoves, LinkStepKeeps
<1>3. LinkInv => NobodySlipsIn
  BY NobodySlipsFollows
<1> QED
  BY <1>1, <1>2, <1>3, PTL DEF ScreensSpec

-----------------------------------------------------------------------------
(* Choosing a handle.                                                      *)

Persons == Newcomers \cup {None}

Sheets == [handle : Handles \cup {None}, by : Persons, step : {"gate", "identity", "home"},
           restored : Persons, finished : BOOLEAN, unsaved : BOOLEAN]

Drafts == [Newcomers -> [handle : Handles, by : Newcomers] \cup {None}]

Identities == [available : BOOLEAN \cup {None}, about : Handles \cup {None}, checking : BOOLEAN, error : BOOLEAN,
               terms : BOOLEAN, busy : BOOLEAN, leaving : BOOLEAN]

Questions == [Lookups -> [about : Handles, at : {"timer", "asked"}, live : BOOLEAN, free : BOOLEAN] \cup {None}]

\* What f holds was typed by p, and is saved only for p.
OwnText(f, p) ==
    /\ f.by \in {p, None}
    /\ f.handle # None => f.by = p /\ p # None
    /\ f.unsaved => p # None

DraftsAreOwn == \A p \in Newcomers : drafts[p] # None => drafts[p].by = p

\* The screen is there with its step, and its answer is about the handle in the form.
ScreenIsOf(screen, f) ==
    /\ f.step = "identity" => /\ screen \in Identities
                              /\ screen.available # None => screen.about = f.handle
    /\ f.step # "identity" => screen = None

\* A question that is not called off is about the handle in the form.
QuestionsAreOf(asks, f) ==
    \A c \in Lookups : asks[c] # None /\ asks[c].live => f.step = "identity" /\ asks[c].about = f.handle

IdentityInv ==
    /\ newcomer \in Persons /\ form \in Sheets /\ hydrated \in BOOLEAN /\ drafts \in Drafts
    /\ OwnText(form, newcomer) /\ DraftsAreOwn
    /\ form.step = "identity" => newcomer # None
    /\ ScreenIsOf(identity, form)
    /\ lookups \in Questions /\ QuestionsAreOf(lookups, form)

LEMMA StaleIsOff ==
    ASSUME lookups \in Questions
    PROVE  Stale \in Questions /\ \A c \in Lookups : ~(Stale[c] # None /\ Stale[c].live)
<1>1. ASSUME NEW c \in Lookups
      PROVE  /\ Stale[c] \in [about : Handles, at : {"timer", "asked"}, live : BOOLEAN, free : BOOLEAN] \cup {None}
             /\ ~(Stale[c] # None /\ Stale[c].live)
  <2>1. lookups[c] \in [about : Handles, at : {"timer", "asked"}, live : BOOLEAN, free : BOOLEAN] \cup {None}
    BY DEF Questions
  <2>2. CASE lookups[c] = None \/ lookups[c].at = "timer"
    BY <2>2 DEF Stale
  <2>3. CASE ~(lookups[c] = None \/ lookups[c].at = "timer")
    <3>1. Stale[c] = [lookups[c] EXCEPT !.live = FALSE, !.free = FALSE]
      BY <2>3 DEF Stale
    <3> QED
      BY <2>1, <2>3, <3>1
  <2> QED
    BY <2>2, <2>3
<1> QED
  BY <1>1 DEF Questions, Stale

\* The effect asks about the handle of the form, and of nothing else.
LEMMA AsksOfForm ==
    ASSUME lookups \in Questions, NEW f \in Sheets, f.step = "identity", LooksUp(f.handle)
    PROVE  lookups' \in Questions /\ QuestionsAreOf(lookups', f)
<1>1. Stale \in Questions /\ \A c \in Lookups : ~(Stale[c] # None /\ Stale[c].live)
  BY StaleIsOff
<1>2. CASE f.handle = None
  <2>1. lookups' = Stale
    BY <1>2 DEF LooksUp
  <2> QED
    BY <1>1, <2>1 DEF QuestionsAreOf
<1>3. CASE f.handle # None
  <2>1. f.handle \in Handles
    BY <1>3 DEF Sheets
  <2> DEFINE question == [about |-> f.handle, at |-> "timer", live |-> TRUE, free |-> FALSE]
  <2>2. PICK c \in Lookups : lookups' = [Stale EXCEPT ![c] = question]
    BY <1>3 DEF LooksUp
  <2>3. question \in [about : Handles, at : {"timer", "asked"}, live : BOOLEAN, free : BOOLEAN]
        /\ question.about = f.handle
    BY <2>1
  <2> HIDE DEF question
  <2>4. lookups' \in Questions
    BY <1>1, <2>2, <2>3 DEF Questions
  <2>5. \A d \in Lookups : lookups'[d] = IF d = c THEN question ELSE Stale[d]
    BY <1>1, <2>2 DEF Questions
  <2> QED
    BY <1>1, <2>3, <2>4, <2>5 DEF QuestionsAreOf
<1> QED
  BY <1>2, <1>3

\* A new form, and the screen that follows from it.
LEMMA MovesKeeps ==
    ASSUME IdentityInv, NEW f \in Sheets, Moves(f)
    PROVE  /\ form' = f
           /\ ScreenIsOf(identity', f)
           /\ lookups' \in Questions /\ QuestionsAreOf(lookups', f)
<1>1. form' = f /\ Follows(f)
  BY DEF Moves
<1>2. lookups \in Questions /\ Stale \in Questions /\ \A c \in Lookups : ~(Stale[c] # None /\ Stale[c].live)
  BY StaleIsOff DEF IdentityInv
<1>3. CASE f.step # "identity"
  <2>1. identity' = None /\ lookups' = Stale
    BY <1>1, <1>3 DEF Follows
  <2> QED
    BY <1>1, <1>2, <1>3, <2>1 DEF ScreenIsOf, QuestionsAreOf
<1>4. CASE f.step = "identity" /\ identity = None
  <2>1. identity' = NewIdentity(f.handle) /\ LooksUp(f.handle)
    BY <1>1, <1>4 DEF Follows
  <2>2. NewIdentity(f.handle) \in Identities /\ NewIdentity(f.handle).available = None
    BY DEF NewIdentity, Identities
  <2>3. ScreenIsOf(identity', f)
    BY <1>4, <2>1, <2>2 DEF ScreenIsOf
  <2> QED
    BY <1>1, <1>2, <1>4, <2>1, <2>3, AsksOfForm
<1>5. CASE f.step = "identity" /\ identity # None
  <2>1. form.step = "identity" /\ identity \in Identities /\ (identity.available # None => identity.about = form.handle)
    BY <1>5 DEF IdentityInv, ScreenIsOf
  <2>2. CASE f.handle # form.handle
    <3>1. /\ identity' = [identity EXCEPT !.available = None, !.about = None, !.error = FALSE,
                                          !.checking = f.handle # None]
          /\ LooksUp(f.handle)
      BY <1>1, <1>5, <2>2 DEF Follows
    <3>2. identity' \in Identities /\ identity'.available = None
      BY <2>1, <3>1 DEF Identities
    <3>3. ScreenIsOf(identity', f)
      BY <1>5, <3>2 DEF ScreenIsOf
    <3> QED
      BY <1>1, <1>2, <1>5, <3>1, <3>3, AsksOfForm
  <2>3. CASE f.handle = form.handle
    <3>1. UNCHANGED <<identity, lookups>>
      BY <1>1, <1>5, <2>3 DEF Follows
    <3>2. ScreenIsOf(identity', f)
      BY <1>5, <2>1, <2>3, <3>1 DEF ScreenIsOf
    <3>3. QuestionsAreOf(lookups', f)
      BY <1>5, <2>1, <2>3, <3>1 DEF IdentityInv, QuestionsAreOf
    <3> QED
      BY <1>1, <1>2, <3>1, <3>2, <3>3
  <2> QED
    BY <2>2, <2>3
<1> QED
  BY <1>3, <1>4, <1>5

\* The effects of the form keep to the person's own text.
LEMMA SettleIsOwn ==
    ASSUME IdentityInv, NEW f \in Sheets, NEW p \in Persons, NEW loaded \in BOOLEAN,
           p # None => OwnText([f EXCEPT !.unsaved = FALSE], p)
    PROVE  /\ Settle(f, p, loaded) \in Sheets /\ Settle(f, p, loaded).step = f.step
           /\ OwnText(Settle(f, p, loaded), p)
<1> DEFINE back == f.step = "identity" /\ loaded /\ p # None /\ f.restored # p
           draft == readDraft(p)
           text == IF p = None THEN Empty
                   ELSE IF ~back THEN [handle |-> f.handle, by |-> f.by]
                   ELSE IF draft = None THEN Empty
                   ELSE [handle |-> draft.handle, by |-> draft.by]
           restored == IF p = None THEN None ELSE IF back THEN p ELSE f.restored
           finished == f.finished /\ p # None /\ ~back
           unsaved == f.step = "identity" /\ loaded /\ restored = p /\ p # None /\ ~finished
           s == Settle(f, p, loaded)
<1>1. s = [handle |-> text.handle, by |-> text.by, step |-> f.step,
           restored |-> restored, finished |-> finished, unsaved |-> unsaved]
  BY DEF Settle
<1>2. restored \in Persons /\ finished \in BOOLEAN /\ unsaved \in BOOLEAN /\ (unsaved => p # None)
  BY DEF Sheets
<1>3. /\ text.handle \in Handles \cup {None} /\ text.by \in Persons
      /\ text.by \in {p, None} /\ (text.handle # None => text.by = p /\ p # None)
  <2>1. CASE text = Empty
    BY <2>1 DEF Empty, Persons
  <2>2. CASE p # None /\ ~back
    <3>1. text.handle = f.handle /\ text.by = f.by
      BY <2>2
    <3>2. f.by \in {p, None} /\ (f.handle # None => f.by = p /\ p # None)
      BY <2>2 DEF OwnText, Sheets
    <3> HIDE DEF text
    <3> QED
      BY <3>1, <3>2 DEF Sheets
  <2>3. CASE p # None /\ back /\ draft # None
    <3>1. text.handle = draft.handle /\ text.by = draft.by
      BY <2>3
    <3>2. p \in Newcomers /\ draft = drafts[p]
      BY <2>3 DEF Persons, readDraft
    <3>3. draft \in [handle : Handles, by : Newcomers] /\ draft.by = p
      BY <2>3, <3>2 DEF IdentityInv, Drafts, DraftsAreOwn
    <3> HIDE DEF text, draft
    <3> QED
      BY <2>3, <3>1, <3>3 DEF Persons
  <2> QED
    BY <2>1, <2>2, <2>3
<1> HIDE DEF back, draft, text, restored, finished, unsaved, s
<1>4. s \in Sheets /\ s.step = f.step
  BY <1>1, <1>2, <1>3 DEF Sheets
<1>5. OwnText(s, p)
  BY <1>1, <1>2, <1>3 DEF OwnText
<1> QED
  BY <1>4, <1>5 DEF s

\* A new form of the person who is there then.
LEMMA FormKeeps ==
    ASSUME IdentityInv, NEW f \in Sheets, Moves(f), newcomer' \in Persons, OwnText(f, newcomer'),
           f.step = "identity" => newcomer' # None, hydrated' \in BOOLEAN, drafts' = drafts
    PROVE  IdentityInv'
<1>1. /\ form' = f /\ ScreenIsOf(identity', f) /\ lookups' \in Questions /\ QuestionsAreOf(lookups', f)
  BY MovesKeeps
<1>2. drafts' \in Drafts /\ DraftsAreOwn'
  BY DEF IdentityInv, DraftsAreOwn
<1> QED
  BY <1>1, <1>2 DEF IdentityInv, OwnText, ScreenIsOf, QuestionsAreOf

\* A change of the screen alone.
LEMMA ScreenKeeps ==
    ASSUME IdentityInv, UNCHANGED <<newcomer, form, hydrated, drafts>>, ScreenIsOf(identity', form),
           lookups' \in Questions, QuestionsAreOf(lookups', form)
    PROVE  IdentityInv'
BY DEF IdentityInv, OwnText, ScreenIsOf, QuestionsAreOf, DraftsAreOwn

LEMMA IdentityBegins ==
    ASSUME IdentityInit
    PROVE  IdentityInv
<1>1. newcomer = None /\ form = NewForm /\ hydrated = FALSE /\ drafts = [p \in Newcomers |-> None]
      /\ identity = None /\ lookups = [c \in Lookups |-> None]
  BY DEF IdentityInit
<1>2. NewForm \in Sheets /\ OwnText(NewForm, None) /\ NewForm.step = "gate"
  BY DEF NewForm, Sheets, OwnText, Persons
<1>3. drafts \in Drafts /\ DraftsAreOwn
  BY <1>1 DEF Drafts, DraftsAreOwn
<1>4. ScreenIsOf(identity, form)
  BY <1>1, <1>2 DEF ScreenIsOf
<1>5. lookups \in Questions /\ QuestionsAreOf(lookups, form)
  BY <1>1 DEF Questions, QuestionsAreOf
<1> QED
  BY <1>1, <1>2, <1>3, <1>4, <1>5 DEF IdentityInv, Persons

\* The form that is settled anew, for the person who is there then.
LEMMA SettledKeeps ==
    ASSUME IdentityInv, NEW f \in Sheets, newcomer' \in Persons, hydrated' \in BOOLEAN, drafts' = drafts,
           NEW loaded \in BOOLEAN, newcomer' # None => OwnText([f EXCEPT !.unsaved = FALSE], newcomer'),
           f.step = "identity" => newcomer' # None, Moves(Settle(f, newcomer', loaded))
    PROVE  IdentityInv'
<1> DEFINE p == newcomer'
<1> HIDE DEF p
<1>1. p \in Persons /\ (p # None => OwnText([f EXCEPT !.unsaved = FALSE], p))
  BY DEF p
<1>2. Settle(f, p, loaded) \in Sheets /\ Settle(f, p, loaded).step = f.step /\ OwnText(Settle(f, p, loaded), p)
  BY <1>1, SettleIsOwn
<1>3. Settle(f, newcomer', loaded) \in Sheets /\ Settle(f, newcomer', loaded).step = f.step
      /\ OwnText(Settle(f, newcomer', loaded), newcomer')
  BY <1>2 DEF p
<1> QED
  BY <1>3, FormKeeps

LEMMA IdentityStepKeeps ==
    ASSUME IdentityAssumption, IdentityInv, [IdentityNext]_identityVars
    PROVE  IdentityInv'
<1>1. /\ newcomer \in Persons /\ form \in Sheets /\ hydrated \in BOOLEAN /\ drafts \in Drafts
      /\ OwnText(form, newcomer) /\ lookups \in Questions
  BY DEF IdentityInv
<1>2. OwnText([form EXCEPT !.unsaved = FALSE], newcomer)
  BY <1>1 DEF OwnText, Sheets
<1>3. NewForm \in Sheets /\ \A p \in Persons : OwnText([NewForm EXCEPT !.step = "home"], p)
  BY DEF NewForm, Sheets, OwnText, Persons
<1>4. CASE Hydrates
  BY <1>1, <1>2, <1>4, SettledKeeps DEF Hydrates, IdentityInv
<1>5. ASSUME NEW p \in Newcomers, DraftAges(p)
      PROVE  IdentityInv'
  <2>1. drafts' = [drafts EXCEPT ![p] = None]
    BY <1>5 DEF DraftAges, clearDraft
  <2>2. drafts' \in Drafts /\ DraftsAreOwn'
    BY <1>1, <2>1 DEF Drafts, DraftsAreOwn, IdentityInv
  <2> QED
    BY <1>1, <1>5, <2>2 DEF DraftAges, IdentityInv, OwnText, ScreenIsOf, QuestionsAreOf
<1>6. ASSUME NEW p \in Newcomers, startAnotherWay(p)
      PROVE  IdentityInv'
  <2>1. /\ newcomer' = p /\ p \in Persons /\ p # None /\ newcomer = None /\ form.step = "gate"
        /\ UNCHANGED <<drafts, hydrated>> /\ Moves(Settle(form, newcomer', hydrated))
    BY <1>6 DEF startAnotherWay, Persons, IdentityAssumption
  <2>2. form.handle = None /\ form.by = None
    BY <1>1, <2>1 DEF OwnText
  <2>3. OwnText([form EXCEPT !.unsaved = FALSE], p)
    BY <1>1, <2>2 DEF OwnText, Sheets
  <2> QED
    BY <1>1, <2>1, <2>3, SettledKeeps
<1>7. CASE OpenNaming \/ CloseNaming \/ ComesToSwitch \/ DismissIntent
  BY <1>7 DEF OpenNaming, CloseNaming, ComesToSwitch, DismissIntent, IdentityInv, OwnText, ScreenIsOf,
     QuestionsAreOf, DraftsAreOwn
<1>8. CASE Recognised
  <2>1. CASE Moves([NewForm EXCEPT !.step = "home"])
    <3>1. [NewForm EXCEPT !.step = "home"] \in Sheets /\ [NewForm EXCEPT !.step = "home"].step = "home"
      BY DEF NewForm, Sheets, Persons
    <3> DEFINE f == [NewForm EXCEPT !.step = "home"]
    <3>2. f \in Sheets /\ f.step = "home" /\ OwnText(f, newcomer) /\ Moves(f)
      BY <1>1, <1>3, <2>1, <3>1
    <3>3. newcomer' = newcomer /\ hydrated' = hydrated /\ drafts' = drafts
      BY <1>8 DEF Recognised
    <3> HIDE DEF f
    <3> QED
      BY <1>1, <3>2, <3>3, FormKeeps
  <2>2. CASE Moves(Settle([form EXCEPT !.step = "identity"], newcomer, hydrated))
    <3> DEFINE f == [form EXCEPT !.step = "identity"]
    <3>1. f \in Sheets
      BY <1>1 DEF Sheets
    <3>2. OwnText([f EXCEPT !.unsaved = FALSE], newcomer)
      BY <1>1, <1>2 DEF OwnText, Sheets
    <3>3. newcomer' = newcomer /\ hydrated' = hydrated /\ drafts' = drafts /\ newcomer # None
      BY <1>8 DEF Recognised
    <3>4. Moves(Settle(f, newcomer', hydrated))
      BY <2>2, <3>3
    <3> HIDE DEF f
    <3> QED
      BY <1>1, <3>1, <3>2, <3>3, <3>4, SettledKeeps
  <2> QED
    BY <1>8, <2>1, <2>2 DEF Recognised
<1>9. ASSUME NEW text \in Typable, onHandleChange(text)
      PROVE  IdentityInv'
  <2> DEFINE typed == sanitizeHandle(text)
             f == [form EXCEPT !.handle = typed, !.by = IF typed = None THEN None ELSE newcomer]
  <2>1. typed \in Handles \cup {None}
    BY DEF Typable, sanitizeHandle
  <2>2. UNCHANGED <<newcomer, drafts, hydrated>> /\ identity # None /\ Moves(Settle(f, newcomer', hydrated))
    BY <1>9 DEF onHandleChange, FieldsOpen
  <2>3. form.step = "identity" /\ newcomer # None
    BY <2>2 DEF IdentityInv, ScreenIsOf
  <2> HIDE DEF typed
  <2>4. f \in Sheets
    BY <1>1, <2>1 DEF Sheets, Persons
  <2>5. OwnText([f EXCEPT !.unsaved = FALSE], newcomer)
    BY <1>1, <2>1, <2>3 DEF OwnText, Sheets
  <2> HIDE DEF f
  <2> QED
    BY <1>1, <2>2, <2>3, <2>4, <2>5, SettledKeeps
<1>10. CASE AcceptTerms
  <2>1. identity # None /\ identity' = [identity EXCEPT !.terms = ~@] /\ UNCHANGED <<newcomer, form, drafts, hydrated, lookups>>
    BY <1>10 DEF AcceptTerms
  <2>2. form.step = "identity" /\ identity \in Identities
    BY <2>1 DEF IdentityInv, ScreenIsOf
  <2>3. identity' \in Identities /\ identity'.available = identity.available /\ identity'.about = identity.about
    BY <2>1, <2>2 DEF Identities
  <2>4. ScreenIsOf(identity', form)
    BY <2>2, <2>3 DEF IdentityInv, ScreenIsOf
  <2> QED
    BY <2>1, <2>4, ScreenKeeps DEF IdentityInv
<1>11. CASE SaveDraft
  <2>1. form.unsaved /\ form' = [form EXCEPT !.unsaved = FALSE] /\ drafts' = saveDraft(drafts, newcomer, form)
        /\ UNCHANGED <<newcomer, hydrated, identity, lookups>>
    BY <1>11 DEF SaveDraft
  <2>2. newcomer \in Newcomers
    BY <1>1, <2>1 DEF OwnText, Persons
  <2>3. drafts' \in Drafts /\ DraftsAreOwn'
    <3>1. CASE form.handle = None
      <4>1. drafts' = [drafts EXCEPT ![newcomer] = None]
        BY <2>1, <3>1 DEF saveDraft, clearDraft
      <4> QED
        BY <1>1, <4>1 DEF Drafts, DraftsAreOwn, IdentityInv
    <3>2. CASE form.handle # None
      <4> DEFINE draft == [handle |-> form.handle, by |-> form.by]
      <4>1. drafts' = [drafts EXCEPT ![newcomer] = draft]
        BY <2>1, <3>2 DEF saveDraft
      <4>2. draft \in [handle : Handles, by : Newcomers] /\ draft.by = newcomer
        BY <1>1, <2>2, <3>2 DEF OwnText, Sheets
      <4> HIDE DEF draft
      <4> QED
        BY <1>1, <4>1, <4>2 DEF Drafts, DraftsAreOwn, IdentityInv
    <3> QED
      BY <3>1, <3>2
  <2>4. form' \in Sheets /\ form'.handle = form.handle /\ form'.by = form.by /\ form'.step = form.step /\ ~form'.unsaved
    BY <1>1, <2>1 DEF Sheets
  <2> QED
    BY <2>1, <2>3, <2>4 DEF IdentityInv, OwnText, ScreenIsOf, QuestionsAreOf
<1>12. ASSUME NEW c \in Lookups, checkHandle(c)
       PROVE  IdentityInv'
  <2>1. lookups[c] # None /\ UNCHANGED <<newcomer, form, drafts, hydrated, identity>>
        /\ lookups' = [lookups EXCEPT ![c].at = "asked", ![c].free = lookups[c].live /\ handles[lookups[c].about] = None]
    BY <1>12 DEF checkHandle
  <2> DEFINE free == (lookups[c].live /\ handles[lookups[c].about] = None)
             sent == [lookups[c] EXCEPT !.at = "asked", !.free = free]
  <2>2. lookups[c] \in [about : Handles, at : {"timer", "asked"}, live : BOOLEAN, free : BOOLEAN]
    BY <1>1, <2>1 DEF Questions
  <2>3. free \in BOOLEAN
    BY <2>2
  <2>4. lookups' = [lookups EXCEPT ![c] = sent]
    BY <1>1, <2>1 DEF Questions
  <2> HIDE DEF free
  <2>5. /\ sent \in [about : Handles, at : {"timer", "asked"}, live : BOOLEAN, free : BOOLEAN]
        /\ sent.about = lookups[c].about /\ sent.live = lookups[c].live
    BY <2>2, <2>3
  <2> HIDE DEF sent
  <2>6. lookups' \in Questions /\ \A d \in Lookups : lookups'[d] = IF d = c THEN sent ELSE lookups[d]
    BY <1>1, <2>4, <2>5 DEF Questions
  <2>7. QuestionsAreOf(lookups', form)
    BY <2>1, <2>5, <2>6 DEF IdentityInv, QuestionsAreOf
  <2> QED
    BY <2>1, <2>6, <2>7, ScreenKeeps DEF IdentityInv
<1>13. ASSUME NEW c \in Lookups, LookupEnds(c)
       PROVE  IdentityInv'
  <2>1. lookups[c] # None /\ UNCHANGED <<newcomer, form, drafts, hydrated>> /\ lookups' = [lookups EXCEPT ![c] = None]
    BY <1>13 DEF LookupEnds
  <2>2. lookups' \in Questions /\ \A d \in Lookups : lookups'[d] = IF d = c THEN None ELSE lookups[d]
    BY <1>1, <2>1 DEF Questions
  <2>3. QuestionsAreOf(lookups', form)
    BY <2>2 DEF IdentityInv, QuestionsAreOf
  <2>4. lookups[c] \in [about : Handles, at : {"timer", "asked"}, live : BOOLEAN, free : BOOLEAN]
    BY <1>1, <2>1 DEF Questions
  <2>5. ScreenIsOf(identity', form)
    <3>1. CASE identity' = identity
      BY <3>1 DEF IdentityInv
    <3>2. CASE lookups[c].live
      <4>1. form.step = "identity" /\ lookups[c].about = form.handle
        BY <2>1, <3>2 DEF IdentityInv, QuestionsAreOf
      <4>2. identity \in Identities /\ (identity.available # None => identity.about = form.handle)
        BY <4>1 DEF IdentityInv, ScreenIsOf
      <4>3. \/ identity' = [identity EXCEPT !.checking = FALSE, !.available = lookups[c].free, !.about = lookups[c].about]
            \/ identity' = [identity EXCEPT !.checking = FALSE, !.error = TRUE]
        BY <1>13, <3>2 DEF LookupEnds
      <4>4. identity' \in Identities /\ (identity'.available # None => identity'.about = form.handle)
        <5>1. CASE identity' = [identity EXCEPT !.checking = FALSE, !.available = lookups[c].free, !.about = lookups[c].about]
          BY <2>4, <4>1, <4>2, <5>1 DEF Identities
        <5>2. CASE identity' = [identity EXCEPT !.checking = FALSE, !.error = TRUE]
          BY <4>2, <5>2 DEF Identities
        <5> QED
          BY <4>3, <5>1, <5>2
      <4> QED
        BY <4>1, <4>4 DEF ScreenIsOf
    <3> QED
      BY <1>13, <3>1, <3>2 DEF LookupEnds
  <2> QED
    BY <2>1, <2>2, <2>3, <2>5, ScreenKeeps
<1>14. ASSUME NEW busy \in BOOLEAN, NEW error \in BOOLEAN, NEW leaving \in BOOLEAN, identity # None,
              identity' = [identity EXCEPT !.busy = busy, !.error = error, !.leaving = leaving],
              UNCHANGED <<newcomer, form, hydrated, drafts, lookups>>
       PROVE  IdentityInv'
  <2>1. form.step = "identity" /\ identity \in Identities /\ (identity.available # None => identity.about = form.handle)
    BY <1>14 DEF IdentityInv, ScreenIsOf
  <2>2. identity' \in Identities /\ identity'.available = identity.available /\ identity'.about = identity.about
    BY <1>14, <2>1 DEF Identities
  <2>3. ScreenIsOf(identity', form)
    BY <2>1, <2>2 DEF ScreenIsOf
  <2> QED
    BY <1>14, <2>3, ScreenKeeps DEF IdentityInv
<1>15. identity # None => /\ identity.busy \in BOOLEAN /\ identity.error \in BOOLEAN /\ identity.leaving \in BOOLEAN
                          /\ identity \in Identities
  BY DEF IdentityInv, ScreenIsOf, Identities
<1>16. CASE handleFinish
  <2>1. identity # None /\ identity' = [identity EXCEPT !.busy = TRUE, !.error = FALSE]
        /\ UNCHANGED <<newcomer, form, drafts, hydrated, lookups>>
    BY <1>16 DEF handleFinish
  <2>2. identity' = [identity EXCEPT !.busy = TRUE, !.error = FALSE, !.leaving = identity.leaving]
    BY <1>15, <2>1 DEF Identities
  <2> QED
    BY <1>14, <1>15, <2>1, <2>2
<1>17. CASE register
  BY <1>17 DEF register, IdentityInv, OwnText, ScreenIsOf, QuestionsAreOf, DraftsAreOwn
<1>18. CASE RegisterAnswers
  <2>1. identity # None /\ identity' = [identity EXCEPT !.busy = FALSE] /\ form' = [form EXCEPT !.finished = TRUE]
        /\ drafts' = clearDraft(drafts, signup.by) /\ UNCHANGED <<newcomer, hydrated, lookups>>
    BY <1>18 DEF RegisterAnswers
  <2>2. form.step = "identity" /\ identity \in Identities /\ (identity.available # None => identity.about = form.handle)
    BY <2>1 DEF IdentityInv, ScreenIsOf
  <2>3. identity' \in Identities /\ identity'.available = identity.available /\ identity'.about = identity.about
    BY <2>1, <2>2 DEF Identities
  <2>4. form' \in Sheets /\ form'.handle = form.handle /\ form'.by = form.by /\ form'.step = form.step
        /\ form'.unsaved = form.unsaved
    BY <1>1, <2>1 DEF Sheets
  <2>5. drafts' = [drafts EXCEPT ![signup.by] = None]
    BY <2>1 DEF clearDraft
  <2>6. drafts' \in Drafts /\ DraftsAreOwn'
    BY <1>1, <2>5 DEF Drafts, DraftsAreOwn, IdentityInv
  <2>7. ScreenIsOf(identity', form')
    BY <2>2, <2>3, <2>4 DEF ScreenIsOf
  <2> QED
    BY <2>1, <2>4, <2>6, <2>7 DEF IdentityInv, OwnText, ScreenIsOf, QuestionsAreOf
<1>19. CASE GoesHome
  <2> DEFINE f == [NewForm EXCEPT !.step = "home"]
  <2>1. f \in Sheets /\ f.step = "home" /\ OwnText(f, newcomer)
    BY <1>1, <1>3 DEF NewForm, Sheets, Persons
  <2>2. Moves(f) /\ newcomer' = newcomer /\ hydrated' = hydrated /\ drafts' = drafts
    BY <1>19 DEF GoesHome
  <2> HIDE DEF f
  <2> QED
    BY <1>1, <2>1, <2>2, FormKeeps
<1>20. CASE RegisterFails
  <2>1. UNCHANGED <<newcomer, form, drafts, hydrated, lookups>>
        /\ identity' = IF identity = None \/ ~identity.busy THEN identity
                       ELSE [identity EXCEPT !.busy = FALSE, !.error = TRUE]
    BY <1>20 DEF RegisterFails
  <2>2. CASE identity' = identity
    BY <2>1, <2>2 DEF IdentityInv, OwnText, ScreenIsOf, QuestionsAreOf, DraftsAreOwn
  <2>3. CASE identity # None /\ identity' = [identity EXCEPT !.busy = FALSE, !.error = TRUE]
    <3>1. identity' = [identity EXCEPT !.busy = FALSE, !.error = TRUE, !.leaving = identity.leaving]
      BY <1>15, <2>3 DEF Identities
    <3> QED
      BY <1>14, <1>15, <2>1, <2>3, <3>1
  <2> QED
    BY <2>1, <2>2, <2>3
<1>21. ASSUME Moves([form EXCEPT !.step = "gate", !.unsaved = FALSE]), UNCHANGED <<newcomer, drafts, hydrated>>
       PROVE  IdentityInv'
  <2> DEFINE f == [form EXCEPT !.step = "gate", !.unsaved = FALSE]
  <2>1. f \in Sheets /\ f.step = "gate" /\ OwnText(f, newcomer) /\ Moves(f)
    BY <1>1, <1>21 DEF Sheets, OwnText
  <2> HIDE DEF f
  <2> QED
    BY <1>1, <1>21, <2>1, FormKeeps
<1>22. ASSUME NEW error \in BOOLEAN, NEW leaving \in BOOLEAN, identity # None,
              identity' = [identity EXCEPT !.leaving = leaving, !.error = error],
              UNCHANGED <<newcomer, form, hydrated, drafts, lookups>>
       PROVE  IdentityInv'
  <2>1. identity' = [identity EXCEPT !.busy = identity.busy, !.error = error, !.leaving = leaving]
    BY <1>15, <1>22 DEF Identities
  <2> QED
    BY <1>14, <1>15, <1>22, <2>1
<1>23. CASE signOut
  BY <1>21, <1>22, <1>23 DEF signOut
<1>24. CASE SignOutEnds
  BY <1>21, <1>22, <1>24 DEF SignOutEnds
<1>25. CASE ProviderLets
  <2>1. newcomer' = None /\ None \in Persons /\ UNCHANGED <<drafts, hydrated>> /\ form.step = "gate"
        /\ Moves(Settle(form, newcomer', hydrated))
    BY <1>25 DEF ProviderLets, Persons
  <2> QED
    BY <1>1, <2>1, SettledKeeps
<1>26. ASSUME NEW h \in Handles, OtherTakes(h)
       PROVE  IdentityInv'
  BY <1>26 DEF OtherTakes, Phone, IdentityInv, OwnText, ScreenIsOf, QuestionsAreOf, DraftsAreOwn
<1>27. CASE IdentityAppDies
  <2>1. form' = NewForm /\ identity' = None /\ hydrated' = FALSE /\ lookups' = [c \in Lookups |-> None]
        /\ UNCHANGED <<newcomer, drafts>>
    BY <1>27 DEF IdentityAppDies
  <2>2. lookups' \in Questions /\ \A c \in Lookups : lookups'[c] = None
    BY <2>1 DEF Questions
  <2>3. form' \in Sheets /\ form'.step = "gate" /\ form'.by = None /\ form'.handle = None /\ ~form'.unsaved
    BY <1>3, <2>1 DEF NewForm
  <2>4. OwnText(form', newcomer') /\ ScreenIsOf(identity', form') /\ QuestionsAreOf(lookups', form')
    BY <2>1, <2>2, <2>3 DEF OwnText, ScreenIsOf, QuestionsAreOf
  <2> QED
    BY <2>1, <2>2, <2>3, <2>4 DEF IdentityInv, OwnText, ScreenIsOf, QuestionsAreOf, DraftsAreOwn
<1>28. CASE UNCHANGED identityVars
  BY <1>28 DEF identityVars, IdentityInv, OwnText, ScreenIsOf, QuestionsAreOf, DraftsAreOwn
<1> QED
  BY <1>4, <1>5, <1>6, <1>7, <1>8, <1>9, <1>10, <1>11, <1>12, <1>13, <1>16, <1>17, <1>18, <1>19, <1>20, <1>23,
     <1>24, <1>25, <1>26, <1>27, <1>28
  DEF IdentityNext, LookupStep, SignupStep

LEMMA TypedFollows ==
    ASSUME IdentityInv
    PROVE  AvailableIsOfTyped /\ FormIsOwn
<1>1. ASSUME identity # None
      PROVE  identity.available # None => identity.about = form.handle
  BY <1>1 DEF IdentityInv, ScreenIsOf
<1>2. ASSUME IdentityShows.getStarted
      PROVE  IdentityShows.status \in {"available", "error"}
  <2>1. canSubmit
    BY <1>2 DEF IdentityShows
  <2>2. handleStatus \in {"available", "error"}
    BY <2>1 DEF canSubmit, handleStatus
  <2> QED
    BY <2>2 DEF IdentityShows
<1>3. FormIsOwn
  BY DEF IdentityInv, OwnText, DraftsAreOwn, FormIsOwn
<1> QED
  BY <1>1, <1>2, <1>3 DEF AvailableIsOfTyped

LEMMA IdentityMoves ==
    ASSUME [ScreensNext]_screenVars
    PROVE  [IdentityNext]_identityVars
BY DEF ScreensNext, screenVars, OnlySend, OnlyList, OnlyBuy, OnlyLink, OnlyReceive, OnlyActivity, OnlyGroup, OnlyIdentity

\* However the answers overlap with typing, signing out and restarts: "available" is said of the
\* handle that stands in the form, and the form shows and keeps for a person only what they typed
\* (IdentityScreen, Onboarding, useOnboardingDraftStore).
THEOREM TypedAlways == ScreensSpec => [](AvailableIsOfTyped /\ FormIsOwn)
<1> USE IdentityAssumption
<1>1. ScreensInit => IdentityInv
  BY IdentityBegins DEF ScreensInit
<1>2. IdentityInv /\ [ScreensNext]_screenVars => IdentityInv'
  BY IdentityMoves, IdentityStepKeeps
<1>3. IdentityInv => AvailableIsOfTyped /\ FormIsOwn
  BY TypedFollows
<1> QED
  BY <1>1, <1>2, <1>3, PTL DEF ScreensSpec

-----------------------------------------------------------------------------
(* The lists of the phone.                                                 *)

\* A call is as it was made: a live one by who is signed in, for balances of the address as long as
\* no newer request was made, for shares of the contact on screen.
CallIsOf(k, who, request, address, at) ==
    \/ k.what = "free"
    \/ /\ DOMAIN k = {"what", "of", "arg", "live"}
       /\ k.live => k.of = who
       /\ k.what \in {"portfolio", "chain"} =>
             /\ k.arg.request \in Nat /\ k.arg.request <= request
             /\ k.arg.request = request => k.arg.address = address
       /\ k.what = "debts" /\ k.live => k.arg = at /\ at # None

CallsAreOf(ks, who, w, at) ==
    DOMAIN ks = Calls /\ \A c \in Calls : CallIsOf(ks[c], who, w.request, w.address, at)

\* A balance is of the person, not of a later reading than the last that was asked for, and where
\* there is none the person is told, once it has been asked for.
WalletIsOf(w, who) ==
    /\ DOMAIN w = {"address", "request", "since", "reading", "of", "text", "exact", "loading", "error", "source"}
    /\ w.request \in Nat /\ w.reading \in Nat /\ w.since \in Nat /\ w.reading <= w.request
    /\ w.address = who
    /\ w.source # None => w.of = who
    /\ w.source = None /\ w.request > w.since /\ w.address # None => w.loading \/ w.error
    /\ w.source = None => w.text = Unread /\ w.exact = None
    /\ w.source = "chain" => w.exact = w.text

HistoryIsOf(h, names, who) ==
    /\ DOMAIN h = {"of", "rows", "shown", "loading", "error"}
    /\ DOMAIN h.rows # {} => h.of = who
    /\ h.shown = transformTransaction(h.rows, names)

GroupsAreOf(g, who) ==
    /\ DOMAIN g = {"of", "rows", "loading", "error"}
    /\ DOMAIN g.rows = Groups
    /\ (\E id \in Groups : g.rows[id] # "none") => g.of = who

DetailIsOf(d, who) ==
    /\ DOMAIN d = {"of", "id", "loading", "error"}
    /\ d.id # None => d.of = who

ContactsAreOf(k, who) ==
    /\ DOMAIN k = {"recents", "results", "loadingRecents", "loadingSearch", "error"}
    /\ k.recents.who # {} => k.recents.of = who
    /\ k.results.who # {} => k.results.of = who

DebtsAreOf(d) ==
    /\ DOMAIN d = {"at", "state", "of"}
    /\ d.state = "read" => d.of = d.at

IsBook(b) == DOMAIN b = {"books", "legacy", "owner", "names", "hydrated", "reading"}

BookIsOf(b, who) ==
    /\ IsBook(b)
    /\ b.owner = who
    /\ who = None => b.names = Nobody
    /\ b.hydrated /\ who # None => b.names = BookOf(b.books, who)

ListInv ==
    /\ CallsAreOf(calls, person, wallet, debts.at)
    /\ WalletIsOf(wallet, person)
    /\ HistoryIsOf(history, book.names, person)
    /\ GroupsAreOf(groups, person)
    /\ DetailIsOf(detail, person)
    /\ ContactsAreOf(contacts, person)
    /\ DebtsAreOf(debts)
    /\ BookIsOf(book, person)

-----------------------------------------------------------------------------
\* Calls: one begins, one ends, one goes on, all are dropped.

LEMMA CallBegins ==
    ASSUME NEW c, c \in Calls, NEW what, NEW arg, NEW at, CallsAreOf(calls, person, wallet, at), Begins(c, what, arg),
           what \notin {"portfolio", "chain", "debts"},
           NEW w, w.address = wallet.address, w.request = wallet.request
    PROVE  CallsAreOf(calls', person, w, at)
<1> DEFINE k == [what |-> what, of |-> person, arg |-> arg, live |-> TRUE]
<1>1. calls' = [calls EXCEPT ![c] = k]
  BY DEF Begins
<1>2. k.what = what /\ k.of = person /\ DOMAIN k = {"what", "of", "arg", "live"}
  OBVIOUS
<1> HIDE DEF k
<1>3. CallIsOf(k, person, w.request, w.address, at)
  BY <1>2 DEF CallIsOf
<1>4. DOMAIN calls' = Calls /\ calls'[c] = k /\ \A d \in Calls : d # c => calls'[d] = calls[d]
  BY <1>1 DEF CallsAreOf
<1> QED
  BY <1>3, <1>4 DEF CallsAreOf, CallIsOf

LEMMA CallEnds ==
    ASSUME NEW c, c \in Calls, NEW at, CallsAreOf(calls, person, wallet, at), Ends(c),
           NEW w, w.address = wallet.address, w.request = wallet.request
    PROVE  CallsAreOf(calls', person, w, at)
<1>1. DOMAIN calls' = Calls /\ calls'[c] = NoCall /\ \A d \in Calls : d # c => calls'[d] = calls[d]
  BY DEF CallsAreOf, Ends
<1>2. NoCall.what = "free"
  BY DEF NoCall
<1> QED
  BY <1>1, <1>2 DEF CallsAreOf, CallIsOf

LEMMA CallGoesOn ==
    ASSUME NEW c, c \in Calls, NEW at, CallsAreOf(calls, person, wallet, at), NEW what, ~Free(c),
           calls' = [calls EXCEPT ![c].what = what],
           what \notin {"portfolio", "debts"}, what = "chain" => Under(c, "portfolio")
    PROVE  CallsAreOf(calls', person, wallet, at)
<1> DEFINE k == calls[c]
           n == [k EXCEPT !.what = what]
<1>1. /\ DOMAIN k = {"what", "of", "arg", "live"} /\ CallIsOf(k, person, wallet.request, wallet.address, at)
      /\ k.what # "free" /\ (what = "chain" => k.what = "portfolio")
  BY DEF CallsAreOf, CallIsOf, Free, Under
<1>2. n.what = what /\ n.of = k.of /\ n.arg = k.arg /\ n.live = k.live /\ DOMAIN n = DOMAIN k
  BY <1>1
<1>3. DOMAIN calls = Calls /\ calls' = [calls EXCEPT ![c] = n]
  BY DEF CallsAreOf
<1> HIDE DEF n, k
<1>4. CallIsOf(n, person, wallet.request, wallet.address, at)
  BY <1>1, <1>2 DEF CallIsOf
<1>5. DOMAIN calls' = Calls /\ calls'[c] = n /\ \A d \in Calls : d # c => calls'[d] = calls[d]
  BY <1>3
<1> QED
  BY <1>4, <1>5 DEF CallsAreOf

\* What resetAccountScope leaves: calls nobody waits for.
LEMMA CallsAreDropped ==
    ASSUME NEW at, CallsAreOf(calls, person, wallet, at), resetAccountScope,
           NEW who, NEW w, wallet.request \in Nat, w.request \in Nat, w.request > wallet.request, NEW to
    PROVE  CallsAreOf(calls', who, w, to)
<1>1. DOMAIN calls' = Calls
  BY DEF resetAccountScope
<1>2. ASSUME NEW c \in Calls
      PROVE  CallIsOf(calls'[c], who, w.request, w.address, to)
  <2>1. CASE Free(c)
    <3>1. calls'[c] = NoCall
      BY <2>1 DEF resetAccountScope
    <3> QED
      BY <3>1 DEF NoCall, CallIsOf
  <2>2. CASE ~Free(c)
    <3> DEFINE k == calls[c]
               n == [k EXCEPT !.live = FALSE]
    <3>1. /\ DOMAIN k = {"what", "of", "arg", "live"}
          /\ k.what \in {"portfolio", "chain"} => k.arg.request \in Nat /\ k.arg.request <= wallet.request
      BY <2>2 DEF CallsAreOf, CallIsOf, Free
    <3>2. calls'[c] = n
      BY <2>2 DEF resetAccountScope
    <3>3. n.what = k.what /\ n.arg = k.arg /\ ~n.live /\ DOMAIN n = DOMAIN k
      BY <3>1
    <3> HIDE DEF n, k
    <3>4. n.what \in {"portfolio", "chain"} => n.arg.request \in Nat /\ n.arg.request < w.request
      BY <3>1, <3>3
    <3>5. n.what \in {"portfolio", "chain"} => n.arg.request # w.request /\ n.arg.request <= w.request
      BY <3>4
    <3>6. CallIsOf(n, who, w.request, w.address, to)
      BY <3>1, <3>3, <3>4, <3>5 DEF CallIsOf
    <3> QED
      BY <3>2, <3>6
  <2> QED
    BY <2>1, <2>2
<1> QED
  BY <1>1, <1>2 DEF CallsAreOf

-----------------------------------------------------------------------------
\* Nicknames, and what stands there when nothing does.

LEMMA BookOpens ==
    ASSUME NEW b, IsBook(b), NEW p, p # None
    PROVE  /\ BookIsOf(openBook(b, p), p)
           /\ openBook(b, p).hydrated = b.hydrated /\ openBook(b, p).reading = b.reading
<1> DEFINE n == openBook(b, p)
<1>1. CASE b.legacy = None \/ p \in DOMAIN b.books
  <2>1. n = [b EXCEPT !.owner = p, !.names = BookOf(b.books, p)]
    BY <1>1 DEF openBook
  <2> HIDE DEF n
  <2>2. n.books = b.books /\ n.owner = p /\ n.names = BookOf(b.books, p) /\ n.hydrated = b.hydrated /\ n.reading = b.reading
        /\ DOMAIN n = DOMAIN b
    BY <2>1 DEF IsBook
  <2> QED
    BY <2>2 DEF BookIsOf, IsBook, n
<1>2. CASE ~(b.legacy = None \/ p \in DOMAIN b.books)
  <2> DEFINE kept == WithBook(b.books, p, b.legacy)
  <2>1. n = [b EXCEPT !.owner = p, !.names = b.legacy, !.legacy = None, !.books = kept]
    BY <1>2 DEF openBook
  <2>2. BookOf(kept, p) = b.legacy
    BY DEF BookOf, WithBook
  <2> HIDE DEF n, kept
  <2>3. n.books = kept /\ n.owner = p /\ n.names = b.legacy /\ n.hydrated = b.hydrated /\ n.reading = b.reading
        /\ DOMAIN n = DOMAIN b
    BY <2>1 DEF IsBook
  <2> QED
    BY <2>2, <2>3 DEF BookIsOf, IsBook, n
<1> QED
  BY <1>1, <1>2

LEMMA NothingIsListed ==
    ASSUME NEW who, NEW names
    PROVE  HistoryIsOf(NoHistory, names, who) /\ GroupsAreOf(NoGroups, who) /\ DetailIsOf(NoDetail, who)
           /\ ContactsAreOf(NoContacts, who) /\ DebtsAreOf(NoDebts)
<1>1. HistoryIsOf(NoHistory, names, who)
  <2>1. NoHistory.rows = Nobody /\ NoHistory.shown = Nobody /\ DOMAIN Nobody = {}
    BY DEF NoHistory, Nobody
  <2>2. transformTransaction(Nobody, names) = Nobody
    BY <2>1 DEF transformTransaction, Nobody
  <2>3. DOMAIN NoHistory = {"of", "rows", "shown", "loading", "error"}
    BY DEF NoHistory
  <2> QED
    BY <2>1, <2>2, <2>3 DEF HistoryIsOf
<1>2. GroupsAreOf(NoGroups, who)
  BY DEF NoGroups, GroupsAreOf
<1>3. DetailIsOf(NoDetail, who)
  BY DEF NoDetail, DetailIsOf
<1>4. ContactsAreOf(NoContacts, who)
  BY DEF NoContacts, NoPeople, ContactsAreOf
<1>5. DebtsAreOf(NoDebts)
  BY DEF NoDebts, DebtsAreOf
<1> QED
  BY <1>1, <1>2, <1>3, <1>4, <1>5

\* An address that has just been set: a request of before counts no more.
LEMMA PortfolioEmptied ==
    ASSUME ListsAssumption, WalletIsOf(wallet, person), NEW p
    PROVE  /\ WalletIsOf(emptyPortfolio(p), p) /\ wallet.request \in Nat
           /\ emptyPortfolio(p).request \in Nat /\ emptyPortfolio(p).request > wallet.request
<1> DEFINE n == emptyPortfolio(p)
<1>1. wallet.request \in Nat
  BY DEF WalletIsOf
<1>2. /\ n.request = wallet.request + 1 /\ n.since = wallet.request + 1 /\ n.reading = wallet.request + 1
      /\ n.address = p /\ n.source = None /\ n.text = Unread /\ n.exact = None
      /\ DOMAIN n = {"address", "request", "since", "reading", "of", "text", "exact", "loading", "error", "source"}
  BY DEF emptyPortfolio
<1> HIDE DEF n
<1>3. /\ n.request \in Nat /\ n.request > wallet.request /\ n.reading \in Nat
      /\ n.since \in Nat /\ n.reading <= n.request /\ ~(n.request > n.since)
  BY <1>1, <1>2
<1>4. WalletIsOf(n, p)
  BY <1>2, <1>3 DEF WalletIsOf, ListsAssumption
<1> QED
  BY <1>1, <1>3, <1>4 DEF n

-----------------------------------------------------------------------------
\* Signing in and out, and the phone that is closed.

LEMMA SignInKeeps ==
    ASSUME ListsAssumption, ListInv, NEW p \in People, SignIn(p)
    PROVE  ListInv'
<1>1. p # None /\ IsBook(book) /\ WalletIsOf(wallet, person)
  BY DEF ListsAssumption, ListInv, BookIsOf
<1>2. wallet' = emptyPortfolio(p) /\ person' = p /\ debts' = NoDebts
  BY DEF SignIn, ListInv, WalletIsOf, Leaves
<1>3. WalletIsOf(wallet', p) /\ wallet'.request \in Nat /\ wallet'.request > wallet.request /\ wallet.request \in Nat
  BY <1>1, <1>2, PortfolioEmptied
<1>4. BookIsOf(book', p)
  BY <1>1, BookOpens DEF SignIn, Keep
<1>5. CallsAreOf(calls', p, wallet', debts'.at)
  BY <1>3, CallsAreDropped DEF SignIn, ListInv
<1>6. history' = NoHistory /\ groups' = NoGroups /\ detail' = NoDetail /\ contacts' = NoContacts
  BY DEF SignIn, resetAccountScope
<1> QED
  BY <1>2, <1>3, <1>4, <1>5, <1>6, NothingIsListed DEF ListInv

LEMMA SignsOutKeeps ==
    ASSUME ListsAssumption, ListInv, NEW names, IsBook(names), SignsOut(names)
    PROVE  ListInv'
<1>1. WalletIsOf(wallet, person)
  BY DEF ListInv
<1>2. wallet' = emptyPortfolio(None) /\ person' = None /\ debts' = NoDebts
  BY DEF SignsOut, Leaves
<1>3. WalletIsOf(wallet', None) /\ wallet'.request \in Nat /\ wallet'.request > wallet.request /\ wallet.request \in Nat
  BY <1>1, <1>2, PortfolioEmptied
<1>4. BookIsOf(book', None)
  <2>1. book' = [names EXCEPT !.owner = None, !.names = Nobody]
    BY DEF SignsOut, Keep
  <2>2. book'.owner = None /\ book'.names = Nobody /\ DOMAIN book' = DOMAIN names
    BY <2>1 DEF IsBook
  <2> QED
    BY <2>2 DEF BookIsOf, IsBook
<1>5. CallsAreOf(calls', None, wallet', debts'.at)
  BY <1>3, CallsAreDropped DEF SignsOut, ListInv
<1>6. history' = NoHistory /\ groups' = NoGroups /\ detail' = NoDetail /\ contacts' = NoContacts
  BY DEF SignsOut, resetAccountScope
<1> QED
  BY <1>2, <1>3, <1>4, <1>5, <1>6, NothingIsListed DEF ListInv

\* The history shown again, under the names of the book that is open.
LEMMA RebuiltKeeps ==
    ASSUME HistoryIsOf(history, book.names, person), NEW rows, NEW names, DOMAIN rows = DOMAIN history.rows
    PROVE  HistoryIsOf(Rebuilt(rows, names), names, person)
<1> DEFINE h == Rebuilt(rows, names)
<1>1. h = [history EXCEPT !.rows = rows, !.shown = transformTransaction(rows, names)]
  BY DEF Rebuilt
<1> HIDE DEF h
<1>2. DOMAIN h = DOMAIN history /\ h.rows = rows /\ h.shown = transformTransaction(rows, names) /\ h.of = history.of
  BY <1>1 DEF HistoryIsOf
<1> QED
  BY <1>2 DEF HistoryIsOf, h

LEMMA HydrateKeeps ==
    ASSUME ListInv, Hydrate
    PROVE  ListInv'
<1> DEFINE read == [book EXCEPT !.books = book.reading.books, !.legacy = book.reading.legacy, !.hydrated = TRUE]
<1>1. UNCHANGED <<person, calls, wallet, groups, detail, contacts, search, debts>>
  BY DEF Hydrate
<1>2. read.owner = book.owner /\ read.names = book.names /\ IsBook(read)
  BY DEF ListInv, BookIsOf, IsBook
<1>3. book' = IF book.owner = None THEN read ELSE openBook(read, book.owner)
  BY DEF Hydrate, Keep
<1>4. history' = IF book.owner = None THEN history ELSE Rebuilt(history.rows, openBook(read, book.owner).names)
  BY DEF Hydrate
<1> HIDE DEF read
<1>5. book.owner = person
  BY DEF ListInv, BookIsOf
<1>6. CASE book.owner = None
  <2>1. book' = read /\ history' = history
    BY <1>3, <1>4, <1>6
  <2>2. BookIsOf(book', person) /\ book'.names = book.names
    BY <1>2, <1>5, <1>6, <2>1 DEF BookIsOf, ListInv
  <2> QED
    BY <1>1, <2>1, <2>2 DEF ListInv
<1>7. CASE book.owner # None
  <2>1. book' = openBook(read, person) /\ history' = Rebuilt(history.rows, book'.names)
    BY <1>3, <1>4, <1>5, <1>7
  <2>2. BookIsOf(book', person)
    BY <1>2, <1>5, <1>7, <2>1, BookOpens
  <2>3. HistoryIsOf(history', book'.names, person)
    BY <2>1, RebuiltKeeps DEF ListInv
  <2> QED
    BY <1>1, <2>2, <2>3 DEF ListInv
<1> QED
  BY <1>6, <1>7

LEMMA KillKeeps ==
    ASSUME ListsAssumption, ListInv, Kill
    PROVE  ListInv'
<1>1. WalletIsOf(emptyPortfolio(None), None)
  BY PortfolioEmptied DEF ListInv
<1>2. BookIsOf(Started(stored), None)
  BY DEF Started, BookIsOf, IsBook
<1>3. ASSUME NEW w, NEW at
      PROVE  CallsAreOf([c \in Calls |-> NoCall], None, w, at)
  BY DEF CallsAreOf, CallIsOf, NoCall
<1>4. /\ person' = None /\ calls' = [c \in Calls |-> NoCall] /\ wallet' = emptyPortfolio(None) /\ book' = Started(stored)
      /\ history' = NoHistory /\ groups' = NoGroups /\ detail' = NoDetail /\ contacts' = NoContacts /\ debts' = NoDebts
  BY DEF Kill, Leaves
<1>5. CallsAreOf(calls', person', wallet', debts'.at)
  BY <1>3, <1>4
<1> QED
  BY <1>1, <1>2, <1>4, <1>5, NothingIsListed DEF ListInv

LEMMA AccountsKeep ==
    ASSUME ListsAssumption, ListInv, Accounts
    PROVE  ListInv'
<1>1. IsBook(book) /\ IsBook(forgetBook(book, person))
  BY DEF ListInv, BookIsOf, IsBook, forgetBook
<1> QED
  BY <1>1, SignInKeeps, SignsOutKeeps, HydrateKeeps, KillKeeps DEF Accounts, logout, DeleteProfile

LEMMA ListsBegin ==
    ASSUME ListsAssumption, ListInit
    PROVE  ListInv
<1>1. CallsAreOf(calls, person, wallet, debts.at)
  BY DEF ListInit, CallsAreOf, CallIsOf, NoCall
<1>2. WalletIsOf(wallet, person)
  BY DEF ListInit, WalletIsOf, ListsAssumption
<1>3. BookIsOf(book, person)
  BY DEF ListInit, Started, BookIsOf, IsBook
<1> QED
  BY <1>1, <1>2, <1>3, NothingIsListed DEF ListInit, ListInv

-----------------------------------------------------------------------------
\* Balances.

LEMMA RefreshKeeps ==
    ASSUME ListInv, NEW c \in Calls, refreshBalances(c)
    PROVE  ListInv'
<1> DEFINE asks == [wallet EXCEPT !.request = wallet.request + 1]
<1>1. UNCHANGED <<person, history, groups, detail, contacts, search, debts, book, stored>>
  BY DEF refreshBalances
<1>2. /\ DOMAIN asks = DOMAIN wallet /\ asks.request = wallet.request + 1 /\ asks.since = wallet.since
      /\ asks.reading = wallet.reading /\ asks.address = wallet.address /\ asks.of = wallet.of
      /\ asks.text = wallet.text /\ asks.exact = wallet.exact
      /\ (wallet.source = None => wallet.text = Unread /\ wallet.exact = None)
      /\ (wallet.source = "chain" => wallet.exact = wallet.text)
      /\ asks.source = wallet.source /\ wallet.request \in Nat /\ wallet.reading \in Nat /\ wallet.since \in Nat
      /\ wallet.reading <= wallet.request /\ wallet.address = person /\ (wallet.source # None => wallet.of = person)
      /\ DOMAIN wallet = {"address", "request", "since", "reading", "of", "text", "exact", "loading", "error", "source"}
  BY DEF ListInv, WalletIsOf
<1>3. ASSUME NEW d \in Calls
      PROVE  CallIsOf(calls[d], person, wallet.request + 1, wallet.address, debts.at)
  <2>1. CallIsOf(calls[d], person, wallet.request, wallet.address, debts.at)
    BY DEF ListInv, CallsAreOf
  <2>2. calls[d].arg.request \in Nat /\ calls[d].arg.request <= wallet.request =>
           calls[d].arg.request <= wallet.request + 1 /\ calls[d].arg.request # wallet.request + 1
    BY <1>2
  <2> QED
    BY <2>1, <2>2 DEF CallIsOf
<1>4. DOMAIN calls = Calls
  BY DEF ListInv, CallsAreOf
<1>5. CASE wallet.address = None
  <2>1. wallet' = [asks EXCEPT !.error = TRUE] /\ UNCHANGED calls
    BY <1>5 DEF refreshBalances
  <2> HIDE DEF asks
  <2>2. /\ DOMAIN wallet' = DOMAIN wallet /\ wallet'.request = wallet.request + 1 /\ wallet'.since = wallet.since
        /\ wallet'.reading = wallet.reading /\ wallet'.address = wallet.address /\ wallet'.of = wallet.of
        /\ wallet'.source = wallet.source /\ wallet'.text = wallet.text /\ wallet'.exact = wallet.exact
    BY <1>2, <2>1
  <2>3. wallet'.request \in Nat /\ wallet'.reading <= wallet'.request
    BY <1>2, <2>2
  <2>4. WalletIsOf(wallet', person)
    BY <1>2, <1>5, <2>2, <2>3 DEF WalletIsOf
  <2>5. CallsAreOf(calls', person, wallet', debts.at)
    BY <1>3, <1>4, <2>1, <2>2 DEF CallsAreOf
  <2> QED
    BY <1>1, <2>4, <2>5 DEF ListInv
<1>6. CASE wallet.address # None
  <2> DEFINE arg == [request |-> wallet.request + 1, address |-> wallet.address]
             k == [what |-> "portfolio", of |-> person, arg |-> arg, live |-> TRUE]
  <2>1. wallet' = [asks EXCEPT !.loading = TRUE, !.error = FALSE] /\ calls' = [calls EXCEPT ![c] = k]
    BY <1>6 DEF refreshBalances, Begins
  <2>2. /\ k.what = "portfolio" /\ k.of = person /\ k.arg = arg /\ DOMAIN k = {"what", "of", "arg", "live"}
        /\ arg.request = wallet.request + 1 /\ arg.address = wallet.address
    OBVIOUS
  <2> HIDE DEF asks, k, arg
  <2>3. CallIsOf(k, person, wallet.request + 1, wallet.address, debts.at)
    BY <1>2, <2>2 DEF CallIsOf
  <2>4. /\ DOMAIN wallet' = DOMAIN wallet /\ wallet'.request = wallet.request + 1 /\ wallet'.since = wallet.since
        /\ wallet'.reading = wallet.reading /\ wallet'.address = wallet.address /\ wallet'.of = wallet.of
        /\ wallet'.source = wallet.source /\ wallet'.text = wallet.text /\ wallet'.exact = wallet.exact
        /\ wallet'.loading
    BY <1>2, <2>1
  <2>5. wallet'.request \in Nat /\ wallet'.reading <= wallet'.request
    BY <1>2, <2>4
  <2>6. WalletIsOf(wallet', person)
    BY <1>2, <2>4, <2>5 DEF WalletIsOf
  <2>7. DOMAIN calls' = Calls /\ calls'[c] = k /\ \A d \in Calls : d # c => calls'[d] = calls[d]
    BY <1>4, <2>1
  <2>8. CallsAreOf(calls', person, wallet', debts.at)
    BY <1>3, <2>3, <2>4, <2>7 DEF CallsAreOf
  <2> QED
    BY <1>1, <2>6, <2>8 DEF ListInv
<1> QED
  BY <1>5, <1>6

\* The answer to the newest request: of the address that is set, which is the person's.
LEMMA ReadingCounts ==
    ASSUME ListsAssumption, ListInv, NEW c \in Calls, Under(c, "portfolio") \/ Under(c, "chain"), Newest(c),
           NEW source \in {"service", "chain"}, NEW text, NEW exact, Reads(c, source, text, exact),
           source = "chain" => exact = text
    PROVE  WalletIsOf(wallet', person) /\ wallet'.address = wallet.address /\ wallet'.request = wallet.request
           /\ wallet'.source # None /\ wallet'.reading = wallet.request
<1>1. wallet' = [wallet EXCEPT !.text = text, !.exact = exact, !.source = source, !.loading = FALSE, !.error = FALSE,
                               !.of = calls[c].arg.address, !.reading = calls[c].arg.request]
  BY DEF Reads
<1>2. calls[c].arg.address = wallet.address /\ calls[c].arg.request = wallet.request
  BY DEF ListInv, CallsAreOf, CallIsOf, Under, Newest
<1>3. /\ DOMAIN wallet' = DOMAIN wallet /\ wallet'.of = wallet.address /\ wallet'.reading = wallet.request
      /\ wallet'.address = wallet.address /\ wallet'.request = wallet.request /\ wallet'.since = wallet.since
      /\ wallet'.source = source /\ wallet'.text = text /\ wallet'.exact = exact
  BY <1>1, <1>2 DEF ListInv, WalletIsOf
<1>4. source # None
  BY DEF ListsAssumption
<1>5. wallet.address = person /\ wallet.request \in Nat /\ wallet.since \in Nat
      /\ DOMAIN wallet = {"address", "request", "since", "reading", "of", "text", "exact", "loading", "error", "source"}
  BY DEF ListInv, WalletIsOf
<1> QED
  BY <1>3, <1>4, <1>5 DEF WalletIsOf

\* What else of the lists an answer for balances leaves alone.
LEMMA OnlyWalletMoves ==
    ASSUME ListInv, UNCHANGED <<person, history, groups, detail, contacts, search, debts, book, stored>>,
           CallsAreOf(calls', person, wallet', debts.at), WalletIsOf(wallet', person)
    PROVE  ListInv'
BY DEF ListInv

LEMMA BalanceAnswersKeep ==
    ASSUME ListsAssumption, ListInv, NEW c \in Calls, BalanceAnswers(c)
    PROVE  ListInv'
<1> USE DEF OnlyWallet
<1>0. CallsAreOf(calls, person, wallet, debts.at) /\ WalletIsOf(wallet, person)
  BY DEF ListInv
<1>1. ASSUME NEW amount, PortfolioAnswers(c, amount)
      PROVE  ListInv'
  <2>1. Ends(c) /\ UNCHANGED <<person, history, groups, detail, contacts, search, debts, book, stored>>
    BY <1>1 DEF PortfolioAnswers
  <2>2. WalletIsOf(wallet', person) /\ wallet'.address = wallet.address /\ wallet'.request = wallet.request
    BY <1>0, <1>1, ReadingCounts DEF PortfolioAnswers
  <2>3. CallsAreOf(calls', person, wallet', debts.at)
    BY <1>0, <2>1, <2>2, CallEnds
  <2> QED
    BY <2>1, <2>2, <2>3, OnlyWalletMoves
<1>2. CASE PortfolioFails(c)
  <2>1. UNCHANGED <<wallet, person, history, groups, detail, contacts, search, debts, book, stored>>
    BY <1>2 DEF PortfolioFails
  <2>2. ~Free(c)
    BY <1>2 DEF PortfolioFails, Under, Free
  <2>3. CallsAreOf(calls', person, wallet, debts.at)
    BY <1>0, <1>2, <2>2, CallGoesOn, CallEnds DEF PortfolioFails
  <2> QED
    BY <1>0, <2>1, <2>3, OnlyWalletMoves
<1>3. ASSUME NEW amount, ChainAnswers(c, amount)
      PROVE  ListInv'
  <2>1. Ends(c) /\ UNCHANGED <<person, history, groups, detail, contacts, search, debts, book, stored>>
    BY <1>3 DEF ChainAnswers
  <2>2. WalletIsOf(wallet', person) /\ wallet'.address = wallet.address /\ wallet'.request = wallet.request
    BY <1>0, <1>3, ReadingCounts DEF ChainAnswers
  <2>3. CallsAreOf(calls', person, wallet', debts.at)
    BY <1>0, <2>1, <2>2, CallEnds
  <2> QED
    BY <2>1, <2>2, <2>3, OnlyWalletMoves
<1>4. CASE ChainFails(c)
  <2>1. Ends(c) /\ UNCHANGED <<person, history, groups, detail, contacts, search, debts, book, stored>>
        /\ wallet' = IF Newest(c) THEN [wallet EXCEPT !.error = TRUE, !.loading = FALSE] ELSE wallet
    BY <1>4 DEF ChainFails
  <2>2. ASSUME Newest(c)
        PROVE  /\ DOMAIN wallet' = DOMAIN wallet /\ wallet'.error /\ wallet'.address = wallet.address
               /\ wallet'.request = wallet.request /\ wallet'.since = wallet.since /\ wallet'.reading = wallet.reading
               /\ wallet'.of = wallet.of /\ wallet'.source = wallet.source
               /\ wallet'.text = wallet.text /\ wallet'.exact = wallet.exact
    BY <1>0, <2>1, <2>2 DEF WalletIsOf
  <2>3. WalletIsOf(wallet', person) /\ wallet'.address = wallet.address /\ wallet'.request = wallet.request
    BY <1>0, <2>1, <2>2 DEF WalletIsOf
  <2>4. CallsAreOf(calls', person, wallet', debts.at)
    BY <1>0, <2>1, <2>3, CallEnds
  <2> QED
    BY <2>1, <2>3, <2>4, OnlyWalletMoves
<1> QED
  BY <1>1, <1>2, <1>3, <1>4 DEF BalanceAnswers

-----------------------------------------------------------------------------
\* The history, its notes and the nicknames.

LEMMA OnlyHistoryMoves ==
    ASSUME ListInv, UNCHANGED <<person, wallet, groups, detail, contacts, search, debts, book>>,
           CallsAreOf(calls', person, wallet, debts.at), HistoryIsOf(history', book.names, person)
    PROVE  ListInv'
BY DEF ListInv

LEMMA HistoryCallsKeep ==
    ASSUME ListInv, NEW c \in Calls,
           \/ fetchHistory(c) \/ HistoryReply(c)
           \/ \E t \in Entries, note \in Notes : handleSave(c, t, note)
    PROVE  ListInv'
<1> USE DEF OnlyHistory
<1>0. CallsAreOf(calls, person, wallet, debts.at) /\ HistoryIsOf(history, book.names, person)
  BY DEF ListInv
<1>1. CASE fetchHistory(c)
  <2>1. history' = [history EXCEPT !.loading = TRUE, !.error = FALSE]
    BY <1>1 DEF fetchHistory
  <2>2. HistoryIsOf(history', book.names, person)
    BY <1>0, <2>1 DEF HistoryIsOf
  <2>3. CallsAreOf(calls', person, wallet, debts.at)
    BY <1>0, <1>1, CallBegins DEF fetchHistory
  <2> QED
    BY <1>1, <2>2, <2>3, OnlyHistoryMoves DEF fetchHistory
<1>2. ASSUME NEW rows, HistoryAnswers(c, rows)
      PROVE  ListInv'
  <2>1. CallsAreOf(calls', person, wallet, debts.at)
    BY <1>0, <1>2, CallEnds DEF HistoryAnswers
  <2>2. HistoryIsOf(history', book.names, person)
    <3>1. CASE Live(c)
      <4>1. calls[c].of = person
        BY <1>0, <1>2, <3>1 DEF CallsAreOf, CallIsOf, HistoryAnswers, Under, Live
      <4> DEFINE h == Rebuilt(rows, book.names)
      <4>2. h = [history EXCEPT !.rows = rows, !.shown = transformTransaction(rows, book.names)]
        BY DEF Rebuilt
      <4>3. history' = [h EXCEPT !.of = calls[c].of, !.loading = FALSE]
        BY <1>2, <3>1 DEF HistoryAnswers
      <4> HIDE DEF h
      <4>4. DOMAIN h = DOMAIN history /\ h.rows = rows /\ h.shown = transformTransaction(rows, book.names)
        BY <1>0, <4>2 DEF HistoryIsOf
      <4>5. DOMAIN history' = DOMAIN history /\ history'.rows = rows /\ history'.of = person
            /\ history'.shown = transformTransaction(rows, book.names)
        BY <1>0, <4>1, <4>3, <4>4 DEF HistoryIsOf
      <4> QED
        BY <1>0, <4>5 DEF HistoryIsOf
    <3> QED
      BY <1>0, <1>2, <3>1 DEF HistoryAnswers
  <2> QED
    BY <1>2, <2>1, <2>2, OnlyHistoryMoves DEF HistoryAnswers
<1>3. CASE HistoryFails(c)
  <2>1. CallsAreOf(calls', person, wallet, debts.at)
    BY <1>0, <1>3, CallEnds DEF HistoryFails
  <2>2. history' = IF Live(c) THEN [history EXCEPT !.error = TRUE, !.loading = FALSE] ELSE history
    BY <1>3 DEF HistoryFails
  <2>3. HistoryIsOf(history', book.names, person)
    BY <1>0, <2>2 DEF HistoryIsOf
  <2> QED
    BY <1>3, <2>1, <2>3, OnlyHistoryMoves DEF HistoryFails
<1>4. CASE updateLocalTransaction(c)
  <2> DEFINE changed == [u \in DOMAIN history.rows |-> IF u = calls[c].arg.entry THEN calls[c].arg.note ELSE history.rows[u]]
  <2>1. CallsAreOf(calls', person, wallet, debts.at)
    BY <1>0, <1>4, CallEnds DEF updateLocalTransaction
  <2>2. history' = Rebuilt(changed, book.names) /\ DOMAIN changed = DOMAIN history.rows
    BY <1>4 DEF updateLocalTransaction
  <2> HIDE DEF changed
  <2>3. HistoryIsOf(history', book.names, person)
    BY <1>0, <2>2, RebuiltKeeps
  <2> QED
    BY <1>4, <2>1, <2>3, OnlyHistoryMoves DEF updateLocalTransaction
<1>5. CASE SaveFails(c)
  <2>1. CallsAreOf(calls', person, wallet, debts.at)
    BY <1>0, <1>5, CallEnds DEF SaveFails
  <2> QED
    BY <1>0, <1>5, <2>1, OnlyHistoryMoves DEF SaveFails
<1>6. ASSUME NEW t, NEW note, handleSave(c, t, note)
      PROVE  ListInv'
  <2>1. CallsAreOf(calls', person, wallet, debts.at)
    BY <1>0, <1>6, CallBegins DEF handleSave
  <2> QED
    BY <1>0, <1>6, <2>1, OnlyHistoryMoves DEF handleSave
<1> QED
  BY <1>1, <1>2, <1>3, <1>4, <1>5, <1>6 DEF HistoryReply

\* A nickname goes to the book that is open.
LEMMA NicknameKeeps ==
    ASSUME ListInv, NEW names, writeContacts(names)
    PROVE  ListInv'
<1> DEFINE kept == IF book.owner = None THEN book.books ELSE WithBook(book.books, book.owner, names)
<1>1. /\ person # None /\ book' = [book EXCEPT !.names = names, !.books = kept]
      /\ history' = Rebuilt(history.rows, names)
      /\ UNCHANGED <<calls, person, wallet, groups, detail, contacts, search, debts>>
  BY DEF writeContacts, Keep, OnlyHistory
<1>2. book.owner = person /\ IsBook(book)
  BY DEF ListInv, BookIsOf
<1>3. BookOf(kept, person) = names
  BY <1>1, <1>2 DEF BookOf, WithBook
<1> HIDE DEF kept
<1>4. book'.names = names /\ book'.books = kept /\ book'.owner = person /\ IsBook(book')
  BY <1>1, <1>2 DEF IsBook
<1>5. BookIsOf(book', person)
  BY <1>1, <1>3, <1>4 DEF BookIsOf
<1>6. HistoryIsOf(history', book'.names, person)
  BY <1>1, <1>4, RebuiltKeeps DEF ListInv
<1> QED
  BY <1>1, <1>5, <1>6 DEF ListInv

-----------------------------------------------------------------------------
\* Groups.

LEMMA OnlyGroupsMove ==
    ASSUME ListInv, UNCHANGED <<person, wallet, history, contacts, search, debts, book>>,
           CallsAreOf(calls', person, wallet, debts.at), GroupsAreOf(groups', person), DetailIsOf(detail', person)
    PROVE  ListInv'
BY DEF ListInv

LEMMA LiveIsOfPerson ==
    ASSUME ListInv, NEW c \in Calls, ~Free(c), Live(c)
    PROVE  calls[c].of = person
BY DEF ListInv, CallsAreOf, CallIsOf, Free, Live

LEMMA GroupCallsKeep ==
    ASSUME ListInv, NEW c \in Calls,
           \/ fetchGroups(c) \/ createGroup(c)
           \/ \E what \in Changes, g \in Groups : ChangeGroup(c, what, g)
           \/ \E g \in Groups : addExpense(c, g) \/ \E silent \in BOOLEAN : fetchGroupDetail(c, g, silent)
    PROVE  ListInv'
<1> USE DEF OnlyGroups
<1>0. /\ CallsAreOf(calls, person, wallet, debts.at) /\ GroupsAreOf(groups, person) /\ DetailIsOf(detail, person)
      /\ Changes \cap {"portfolio", "chain", "debts"} = {}
  BY DEF ListInv, Changes
<1>1. CASE fetchGroups(c)
  <2>1. groups' = [groups EXCEPT !.loading = TRUE, !.error = FALSE]
    BY <1>1 DEF fetchGroups
  <2>2. GroupsAreOf(groups', person)
    BY <1>0, <2>1 DEF GroupsAreOf
  <2>3. CallsAreOf(calls', person, wallet, debts.at)
    BY <1>0, <1>1, CallBegins DEF fetchGroups
  <2> QED
    BY <1>0, <1>1, <2>2, <2>3, OnlyGroupsMove DEF fetchGroups
<1>2. CASE createGroup(c)
  <2>1. CallsAreOf(calls', person, wallet, debts.at)
    BY <1>0, <1>2, CallBegins DEF createGroup
  <2> QED
    BY <1>0, <1>2, <2>1, OnlyGroupsMove DEF createGroup
<1>3. ASSUME NEW what \in Changes, NEW g \in Groups, ChangeGroup(c, what, g)
      PROVE  ListInv'
  <2>1. CallsAreOf(calls', person, wallet, debts.at)
    BY <1>0, <1>3, CallBegins DEF ChangeGroup
  <2> QED
    BY <1>0, <1>3, <2>1, OnlyGroupsMove DEF ChangeGroup
<1>4. ASSUME NEW g \in Groups, addExpense(c, g)
      PROVE  ListInv'
  <2>1. CallsAreOf(calls', person, wallet, debts.at)
    BY <1>0, <1>4, CallBegins DEF addExpense
  <2> QED
    BY <1>0, <1>4, <2>1, OnlyGroupsMove DEF addExpense
<1>5. ASSUME NEW g \in Groups, NEW silent \in BOOLEAN, fetchGroupDetail(c, g, silent)
      PROVE  ListInv'
  <2>0. Begins(c, "detail", [group |-> g, silent |-> silent])
    BY <1>5 DEF fetchGroupDetail
  <2> DEFINE loading == silent => detail.loading
  <2>1. detail' = [detail EXCEPT !.error = FALSE, !.loading = loading]
    BY <1>5 DEF fetchGroupDetail
  <2> HIDE DEF loading
  <2>2. DetailIsOf(detail', person)
    BY <1>0, <2>1 DEF DetailIsOf
  <2>3. CallsAreOf(calls', person, wallet, debts.at)
    BY <1>0, <2>0, CallBegins
  <2> QED
    BY <1>0, <1>5, <2>2, <2>3, OnlyGroupsMove DEF fetchGroupDetail
<1> QED
  BY <1>1, <1>2, <1>3, <1>4, <1>5

LEMMA GroupRowsAnswer ==
    ASSUME ListInv, NEW c \in Calls,
           \/ \E rows \in GroupRows : GroupsAnswer(c, rows)
           \/ GroupsFail(c) \/ GroupChanged(c) \/ GroupCreated(c) \/ ChangeFails(c)
    PROVE  ListInv'
<1> USE DEF OnlyGroups
<1>0. CallsAreOf(calls, person, wallet, debts.at) /\ GroupsAreOf(groups, person) /\ DetailIsOf(detail, person)
  BY DEF ListInv
<1>1. ASSUME NEW rows \in GroupRows, GroupsAnswer(c, rows)
      PROVE  ListInv'
  <2>1. CallsAreOf(calls', person, wallet, debts.at) /\ ~Free(c)
    BY <1>0, <1>1, CallEnds DEF GroupsAnswer, Under, Free
  <2>2. groups' = IF Live(c) THEN [groups EXCEPT !.rows = rows, !.of = calls[c].of, !.loading = FALSE] ELSE groups
    BY <1>1 DEF GroupsAnswer
  <2>3. Live(c) => calls[c].of = person
    BY <2>1, LiveIsOfPerson
  <2>4. ASSUME Live(c)
        PROVE  groups'.rows = rows /\ groups'.of = person /\ DOMAIN groups' = DOMAIN groups
    BY <1>0, <2>2, <2>3, <2>4 DEF GroupsAreOf
  <2>5. DOMAIN rows = Groups
    BY DEF GroupRows
  <2>6. GroupsAreOf(groups', person)
    BY <1>0, <2>2, <2>4, <2>5 DEF GroupsAreOf
  <2> QED
    BY <1>0, <1>1, <2>1, <2>6, OnlyGroupsMove DEF GroupsAnswer
<1>2. CASE GroupsFail(c)
  <2>1. CallsAreOf(calls', person, wallet, debts.at)
    BY <1>0, <1>2, CallEnds DEF GroupsFail
  <2>2. groups' = IF Live(c) THEN [groups EXCEPT !.error = TRUE, !.loading = FALSE] ELSE groups
    BY <1>2 DEF GroupsFail
  <2>3. GroupsAreOf(groups', person)
    BY <1>0, <2>2 DEF GroupsAreOf
  <2> QED
    BY <1>0, <1>2, <2>1, <2>3, OnlyGroupsMove DEF GroupsFail
<1>3. CASE GroupChanged(c)
  <2> DEFINE g == calls[c].arg
             row == IF groups.rows[g] = "none" THEN "none" ELSE IF Under(c, "archiveGroup") THEN "archived"
                    ELSE IF Under(c, "unarchiveGroup") THEN "open" ELSE "none"
             rows == [groups.rows EXCEPT ![g] = row]
  <2>1. CallsAreOf(calls', person, wallet, debts.at)
    BY <1>0, <1>3, CallEnds DEF GroupChanged
  <2>2. Live(c) => groups' = [groups EXCEPT !.rows[g] = row]
    BY <1>3 DEF GroupChanged
  <2>3. Live(c) => detail' = IF Under(c, "deleteGroup") THEN [detail EXCEPT !.id = None, !.of = None] ELSE detail
    BY <1>3 DEF GroupChanged
  <2>4. ~Live(c) => UNCHANGED <<groups, detail>>
    BY <1>3 DEF GroupChanged
  <2>5. row # "none" => groups.rows[g] # "none"
    OBVIOUS
  <2> HIDE DEF g, row
  <2>6. /\ DOMAIN rows = Groups
        /\ \A id \in Groups : rows[id] # "none" => groups.rows[id] # "none"
    BY <1>0, <2>5 DEF GroupsAreOf
  <2>7. Live(c) => groups' = [groups EXCEPT !.rows = rows]
    BY <1>0, <2>2 DEF GroupsAreOf
  <2> HIDE DEF rows
  <2>8. Live(c) => groups'.rows = rows /\ groups'.of = groups.of /\ DOMAIN groups' = DOMAIN groups
    BY <1>0, <2>7 DEF GroupsAreOf
  <2>9. GroupsAreOf(groups', person)
    BY <1>0, <2>4, <2>6, <2>8 DEF GroupsAreOf
  <2>10. DetailIsOf(detail', person)
    BY <1>0, <2>3, <2>4 DEF DetailIsOf
  <2> QED
    BY <1>3, <2>1, <2>9, <2>10, OnlyGroupsMove DEF GroupChanged
<1>4. CASE GroupCreated(c)
  <2>1. ~Free(c)
    BY <1>4 DEF GroupCreated, Under, Free
  <2>2. CallsAreOf(calls', person, wallet, debts.at)
    BY <1>0, <1>4, <2>1, CallGoesOn, CallEnds DEF GroupCreated
  <2>3. groups' = [groups EXCEPT !.loading = TRUE, !.error = FALSE] \/ groups' = groups
    BY <1>4 DEF GroupCreated
  <2>4. GroupsAreOf(groups', person)
    BY <1>0, <2>3 DEF GroupsAreOf
  <2> QED
    BY <1>0, <1>4, <2>2, <2>4, OnlyGroupsMove DEF GroupCreated
<1>5. CASE ChangeFails(c)
  <2>1. CallsAreOf(calls', person, wallet, debts.at)
    BY <1>0, <1>5, CallEnds DEF ChangeFails
  <2> QED
    BY <1>0, <1>5, <2>1, OnlyGroupsMove DEF ChangeFails
<1> QED
  BY <1>1, <1>2, <1>3, <1>4, <1>5

LEMMA DetailKeeps ==
    ASSUME ListInv, (\E c \in Calls : DetailAnswers(c) \/ DetailFails(c) \/ ExpenseAdded(c)) \/ clearDetail
    PROVE  ListInv'
<1> USE DEF OnlyGroups
<1>0. CallsAreOf(calls, person, wallet, debts.at) /\ GroupsAreOf(groups, person) /\ DetailIsOf(detail, person)
  BY DEF ListInv
<1>1. ASSUME NEW c \in Calls, DetailAnswers(c)
      PROVE  ListInv'
  <2>1. CallsAreOf(calls', person, wallet, debts.at) /\ ~Free(c)
    BY <1>0, <1>1, CallEnds DEF DetailAnswers, Under, Free
  <2> DEFINE id == calls[c].arg.group
             of == calls[c].of
  <2>2. detail' = IF Live(c) THEN [detail EXCEPT !.id = id, !.of = of, !.loading = FALSE] ELSE detail
    BY <1>1 DEF DetailAnswers
  <2>3. Live(c) => of = person
    BY <2>1, LiveIsOfPerson
  <2> HIDE DEF id, of
  <2>4. DetailIsOf(detail', person)
    BY <1>0, <2>2, <2>3 DEF DetailIsOf
  <2> QED
    BY <1>0, <1>1, <2>1, <2>4, OnlyGroupsMove DEF DetailAnswers
<1>2. ASSUME NEW c \in Calls, DetailFails(c)
      PROVE  ListInv'
  <2>1. CallsAreOf(calls', person, wallet, debts.at)
    BY <1>0, <1>2, CallEnds DEF DetailFails
  <2> DEFINE error == detail.error \/ ~(calls[c].arg.silent /\ detail.id # None)
  <2>2. detail' = IF ~Live(c) THEN detail ELSE [detail EXCEPT !.loading = FALSE, !.error = error]
    BY <1>2 DEF DetailFails
  <2> HIDE DEF error
  <2>3. DetailIsOf(detail', person)
    BY <1>0, <2>2 DEF DetailIsOf
  <2> QED
    BY <1>0, <1>2, <2>1, <2>3, OnlyGroupsMove DEF DetailFails
<1>3. ASSUME NEW c \in Calls, ExpenseAdded(c)
      PROVE  ListInv'
  <2>1. ~Free(c)
    BY <1>3 DEF ExpenseAdded, Under, Free
  <2>2. CallsAreOf(calls', person, wallet, debts.at)
    BY <1>0, <1>3, <2>1, CallGoesOn, CallEnds DEF ExpenseAdded
  <2>3. detail' = [detail EXCEPT !.loading = TRUE, !.error = FALSE] \/ detail' = detail
    BY <1>3 DEF ExpenseAdded
  <2>4. DetailIsOf(detail', person)
    BY <1>0, <2>3 DEF DetailIsOf
  <2> QED
    BY <1>0, <1>3, <2>2, <2>4, OnlyGroupsMove DEF ExpenseAdded
<1>4. CASE clearDetail
  <2>1. detail' = [detail EXCEPT !.id = None, !.of = None, !.error = FALSE] /\ UNCHANGED calls
    BY <1>4 DEF clearDetail
  <2>2. DetailIsOf(detail', person)
    BY <1>0, <2>1 DEF DetailIsOf
  <2> QED
    BY <1>0, <1>4, <2>1, <2>2, OnlyGroupsMove DEF clearDetail
<1> QED
  BY <1>1, <1>2, <1>3, <1>4

-----------------------------------------------------------------------------
\* People: recent contacts, the search, and the shares with one of them.

LEMMA OnlyPeopleMove ==
    ASSUME ListInv, UNCHANGED <<person, wallet, history, groups, detail, book>>,
           CallsAreOf(calls', person, wallet, debts'.at), ContactsAreOf(contacts', person), DebtsAreOf(debts')
    PROVE  ListInv'
BY DEF ListInv

LEMMA PeopleKeep ==
    ASSUME ListInv, PeopleNext
    PROVE  ListInv'
<1> USE DEF OnlyPeople
<1>0. CallsAreOf(calls, person, wallet, debts.at) /\ ContactsAreOf(contacts, person) /\ DebtsAreOf(debts)
  BY DEF ListInv
<1>1. ASSUME NEW c \in Calls, getRecentContacts(c)
      PROVE  ListInv'
  <2>1. contacts' = [contacts EXCEPT !.loadingRecents = TRUE] /\ UNCHANGED debts
    BY <1>1 DEF getRecentContacts
  <2>2. ContactsAreOf(contacts', person)
    BY <1>0, <2>1 DEF ContactsAreOf
  <2>3. CallsAreOf(calls', person, wallet, debts.at)
    BY <1>0, <1>1, CallBegins DEF getRecentContacts
  <2> QED
    BY <1>0, <1>1, <2>1, <2>2, <2>3, OnlyPeopleMove DEF getRecentContacts
<1>2. ASSUME NEW c \in Calls, NEW who, RecentsEnd(c, who)
      PROVE  ListInv'
  <2> DEFINE found == [of |-> calls[c].of, who |-> who]
  <2>1. CallsAreOf(calls', person, wallet, debts.at) /\ ~Free(c) /\ UNCHANGED debts
    BY <1>0, <1>2, CallEnds DEF RecentsEnd, Under, Free
  <2>2. contacts' = IF Live(c) THEN [contacts EXCEPT !.recents = found, !.loadingRecents = FALSE] ELSE contacts
    BY <1>2 DEF RecentsEnd
  <2>3. Live(c) => found.of = person
    BY <2>1, LiveIsOfPerson
  <2> HIDE DEF found
  <2>4. ContactsAreOf(contacts', person)
    BY <1>0, <2>2, <2>3 DEF ContactsAreOf
  <2> QED
    BY <1>0, <1>2, <2>1, <2>4, OnlyPeopleMove DEF RecentsEnd
<1>3. ASSUME NEW text, TypeSearch(text)
      PROVE  ListInv'
  BY <1>0, <1>3, OnlyPeopleMove DEF TypeSearch
<1>4. ASSUME NEW c \in Calls, debouncedSearch(c)
      PROVE  ListInv'
  <2>1. UNCHANGED debts /\ (contacts' = [contacts EXCEPT !.loadingSearch = TRUE, !.error = FALSE] \/ contacts' = contacts)
    BY <1>4 DEF debouncedSearch
  <2>2. ContactsAreOf(contacts', person)
    BY <1>0, <2>1 DEF ContactsAreOf
  <2>3. CallsAreOf(calls', person, wallet, debts.at)
    BY <1>0, <1>4, CallBegins DEF debouncedSearch
  <2> QED
    BY <1>0, <1>4, <2>1, <2>2, <2>3, OnlyPeopleMove DEF debouncedSearch
<1>5. ASSUME NEW c \in Calls, SearchAnswers(c)
      PROVE  ListInv'
  <2> DEFINE found == [of |-> calls[c].of, who |-> Found[calls[c].arg] \cap Members]
  <2>1. CallsAreOf(calls', person, wallet, debts.at) /\ ~Free(c) /\ UNCHANGED debts
    BY <1>0, <1>5, CallEnds DEF SearchAnswers, Under, Free
  <2>2. contacts' = IF Live(c) THEN [contacts EXCEPT !.results = found, !.loadingSearch = FALSE] ELSE contacts
    BY <1>5 DEF SearchAnswers
  <2>3. Live(c) => found.of = person
    BY <2>1, LiveIsOfPerson
  <2> HIDE DEF found
  <2>4. ContactsAreOf(contacts', person)
    BY <1>0, <2>2, <2>3 DEF ContactsAreOf
  <2> QED
    BY <1>0, <1>5, <2>1, <2>4, OnlyPeopleMove DEF SearchAnswers
<1>6. ASSUME NEW c \in Calls, SearchFails(c)
      PROVE  ListInv'
  <2>1. CallsAreOf(calls', person, wallet, debts.at) /\ UNCHANGED debts
    BY <1>0, <1>6, CallEnds DEF SearchFails
  <2>2. contacts' = IF Live(c) THEN [contacts EXCEPT !.results = NoPeople, !.error = TRUE, !.loadingSearch = FALSE]
                    ELSE contacts
    BY <1>6 DEF SearchFails
  <2>3. NoPeople.who = {}
    BY DEF NoPeople
  <2>4. ContactsAreOf(contacts', person)
    BY <1>0, <2>2, <2>3 DEF ContactsAreOf
  <2> QED
    BY <1>0, <1>6, <2>1, <2>4, OnlyPeopleMove DEF SearchFails
<1> QED
  BY <1>1, <1>2, <1>3, <1>4, <1>5, <1>6 DEF PeopleNext, PeopleReply

LEMMA ContactKeeps ==
    ASSUME ListsAssumption, ListInv, ContactNext
    PROVE  ListInv'
<1> USE DEF OnlyPeople
<1>0. CallsAreOf(calls, person, wallet, debts.at) /\ ContactsAreOf(contacts, person) /\ DebtsAreOf(debts)
  BY DEF ListInv
<1>1. ASSUME NEW c \in Calls, NEW state, DebtsEnd(c, state)
      PROVE  ListInv'
  <2>1. UNCHANGED contacts /\ debts' = IF Live(c) THEN [debts EXCEPT !.state = state, !.of = calls[c].arg] ELSE debts
    BY <1>1 DEF DebtsEnd
  <2>2. Live(c) => calls[c].arg = debts.at
    BY <1>0, <1>1 DEF DebtsEnd, CallsAreOf, CallIsOf, Under, Live
  <2>3. debts'.at = debts.at /\ DebtsAreOf(debts')
    BY <1>0, <2>1, <2>2 DEF DebtsAreOf
  <2>4. CallsAreOf(calls', person, wallet, debts'.at)
    BY <1>0, <1>1, <2>3, CallEnds DEF DebtsEnd
  <2> QED
    BY <1>0, <1>1, <2>1, <2>3, <2>4, OnlyPeopleMove DEF DebtsEnd
<1>2. ASSUME NEW c \in Calls, NEW a \in Parties, OpenContact(c, a)
      PROVE  ListInv'
  <2> DEFINE k == [what |-> "debts", of |-> person, arg |-> a, live |-> TRUE]
  <2>1. /\ debts.at = None /\ debts' = [at |-> a, state |-> "Loading", of |-> None] /\ UNCHANGED contacts
        /\ calls' = [calls EXCEPT ![c] = k] /\ a # None
    BY <1>2 DEF OpenContact, Begins, ListsAssumption
  <2>2. k.what = "debts" /\ k.of = person /\ k.arg = a /\ DOMAIN k = {"what", "of", "arg", "live"}
    OBVIOUS
  <2> HIDE DEF k
  <2>3. CallIsOf(k, person, wallet.request, wallet.address, a)
    BY <2>1, <2>2 DEF CallIsOf
  <2>4. DOMAIN calls' = Calls /\ calls'[c] = k /\ \A d \in Calls : d # c => calls'[d] = calls[d]
    BY <1>0, <2>1 DEF CallsAreOf
  <2>5. ASSUME NEW d \in Calls
        PROVE  CallIsOf(calls[d], person, wallet.request, wallet.address, a)
    BY <1>0, <2>1 DEF CallsAreOf, CallIsOf
  <2>6. DebtsAreOf(debts') /\ debts'.at = a
    BY <2>1 DEF DebtsAreOf
  <2>7. CallsAreOf(calls', person, wallet, debts'.at)
    BY <2>3, <2>4, <2>5, <2>6 DEF CallsAreOf
  <2> QED
    BY <1>0, <1>2, <2>1, <2>6, <2>7, OnlyPeopleMove DEF OpenContact
<1>3. CASE CloseContact
  <2>1. debts' = NoDebts /\ UNCHANGED contacts /\ DOMAIN calls' = Calls
    BY <1>3 DEF CloseContact
  <2>2. ASSUME NEW d \in Calls
        PROVE  CallIsOf(calls'[d], person, wallet.request, wallet.address, debts'.at)
    <3> DEFINE k == calls[d]
               n == [k EXCEPT !.live = FALSE]
    <3>1. CallIsOf(k, person, wallet.request, wallet.address, debts.at)
      BY <1>0 DEF CallsAreOf
    <3>2. CASE Under(d, "debts")
      <4>1. calls'[d] = n /\ DOMAIN k = {"what", "of", "arg", "live"} /\ k.what = "debts"
        BY <1>3, <3>1, <3>2 DEF CloseContact, Under, CallIsOf
      <4>2. n.what = "debts" /\ ~n.live /\ DOMAIN n = DOMAIN k
        BY <4>1
      <4> HIDE DEF n, k
      <4> QED
        BY <4>1, <4>2 DEF CallIsOf
    <3>3. CASE ~Under(d, "debts")
      <4>1. calls'[d] = k /\ k.what # "debts"
        BY <1>3, <3>3 DEF CloseContact, Under
      <4> HIDE DEF k
      <4> QED
        BY <3>1, <4>1 DEF CallIsOf
    <3> QED
      BY <3>2, <3>3
  <2>3. CallsAreOf(calls', person, wallet, debts'.at)
    BY <2>1, <2>2 DEF CallsAreOf
  <2> QED
    BY <1>0, <1>3, <2>1, <2>3, NothingIsListed, OnlyPeopleMove DEF CloseContact
<1> QED
  BY <1>1, <1>2, <1>3 DEF ContactNext, ContactReply

-----------------------------------------------------------------------------

ListsStep == area \in ListAreas /\ Lists

LEMMA ListStepKeeps ==
    ASSUME ListsAssumption, ListInv, [ListsStep]_listVars
    PROVE  ListInv'
<1>1. CASE BalancesNext
  BY <1>1, RefreshKeeps, BalanceAnswersKeep DEF BalancesNext
<1>2. CASE HistoryNext
  BY <1>2, HistoryCallsKeep, NicknameKeeps DEF HistoryNext, setNickname, removeNickname
<1>3. CASE GroupsNext
  BY <1>3, GroupCallsKeep, GroupRowsAnswer, DetailKeeps DEF GroupsNext, GroupsReply
<1>4. CASE UNCHANGED listVars
  BY <1>4 DEF listVars, ListInv
<1> QED
  BY <1>1, <1>2, <1>3, <1>4, AccountsKeep, PeopleKeep, ContactKeeps DEF Lists, ListsStep

LEMMA ListMoves ==
    ASSUME [ScreensNext]_screenVars
    PROVE  [ListsStep]_listVars
BY DEF ListsStep, ScreensNext, screenVars, OnlySend, OnlyList, OnlyBuy, OnlyLink, OnlyReceive, OnlyActivity, OnlyGroup, OnlyIdentity

LEMMA ListsFollow ==
    ASSUME ListInv
    PROVE  ShownIsOfPerson
<1>1. book.hydrated => book.names = (IF person = None THEN Nobody ELSE BookOf(book.books, person))
  BY DEF ListInv, BookIsOf
<1>2. /\ DOMAIN history.rows # {} => history.of = person
      /\ history.shown = transformTransaction(history.rows, book.names)
  BY DEF ListInv, HistoryIsOf
<1> QED
  BY <1>1, <1>2 DEF ListInv, WalletIsOf, GroupsAreOf, DetailIsOf, ContactsAreOf, DebtsAreOf, BookIsOf, ShownIsOfPerson

-----------------------------------------------------------------------------
\* What the lists say, and what stands.

LEMMA ListsTell ==
    ASSUME ListsAssumption, ListInv
    PROVE  ListsTellTruth
<1>1. ASSUME NEW thread \in groupTransactionsByContact, NEW name \in thread.names
      PROVE  \/ name \in {"0x...", thread.address}
             \/ hasNickname(book.names, thread.address) /\ name = book.names[thread.address]
  <2>1. PICK a : thread = [address |-> a, names |-> {history.shown[t] : t \in {u \in DOMAIN history.rows : u.with = a}}]
    BY <1>1 DEF groupTransactionsByContact
  <2>2. PICK t \in DOMAIN history.rows : t.with = a /\ name = history.shown[t]
    BY <1>1, <2>1
  <2>3. name = buildTransactionName(t, book.names)
    BY <2>2 DEF ListInv, HistoryIsOf, transformTransaction
  <2>4. thread.address = a
    BY <2>1
  <2> QED
    BY <2>2, <2>3, <2>4 DEF buildTransactionName
<1>2. ASSUME NEW t \in DOMAIN history.rows, RowShows(t).report
      PROVE  RowShows(t).note = "text" /\ ~canEdit(t)
  BY <1>2 DEF RowShows, canEdit
<1>3. ContactsView \in {"no-contacts", "no-search-results"} => (displayContacts = {} /\ ~contacts.error)
  BY DEF ContactsView
<1>4. wallet.source = None => assetBaseUnits = Unread
  BY DEF assetBaseUnits, ListInv, WalletIsOf
<1>5. wallet.source = "chain" => assetBaseUnits = wallet.text
  BY DEF assetBaseUnits, ListInv, WalletIsOf
<1> QED
  BY <1>1, <1>2, <1>3, <1>4, <1>5 DEF ListsTellTruth

\* Only the balances change the balance, and only the history the nicknames.
LEMMA HistoryKeepsWallet ==
    ASSUME HistoryNext
    PROVE  UNCHANGED <<wallet, person>> /\ (UNCHANGED book \/ \E names : writeContacts(names))
BY DEF HistoryNext, HistoryReply, fetchHistory, HistoryAnswers, HistoryFails, updateLocalTransaction, SaveFails,
       handleSave, setNickname, removeNickname, writeContacts, OnlyHistory

LEMMA OtherListsKeepWallet ==
    ASSUME GroupsNext \/ PeopleNext \/ ContactNext
    PROVE  UNCHANGED <<wallet, person, book>>
<1>1. CASE GroupsNext
  BY <1>1 DEF GroupsNext, GroupsReply, fetchGroups, createGroup, GroupsAnswer, GroupsFail, GroupChanged, GroupCreated,
              ChangeFails, DetailAnswers, DetailFails, ExpenseAdded, ChangeGroup, addExpense, fetchGroupDetail,
              clearDetail, OnlyGroups
<1>2. CASE PeopleNext
  BY <1>2 DEF PeopleNext, PeopleReply, getRecentContacts, debouncedSearch, RecentsEnd, SearchAnswers, SearchFails,
              TypeSearch, OnlyPeople
<1>3. CASE ContactNext
  BY <1>3 DEF ContactNext, ContactReply, DebtsEnd, OpenContact, CloseContact, OnlyPeople
<1> QED
  BY <1>1, <1>2, <1>3

\* A reading is replaced by a later one of the same address.
LEMMA ReadingsGrow ==
    ASSUME ListsAssumption, ListInv, [ListsStep]_listVars, wallet'.address = wallet.address
    PROVE  wallet'.reading >= wallet.reading
<1>1. /\ wallet.request \in Nat /\ wallet.reading \in Nat /\ wallet.reading <= wallet.request
      /\ DOMAIN wallet = {"address", "request", "since", "reading", "of", "text", "exact", "loading", "error", "source"}
  BY DEF ListInv, WalletIsOf
<1>2. ASSUME NEW p, wallet' = emptyPortfolio(p)
      PROVE  wallet'.reading >= wallet.reading
  <2>1. wallet'.reading = wallet.request + 1
    BY <1>2 DEF emptyPortfolio
  <2> QED
    BY <1>1, <2>1
<1>3. CASE Accounts
  <2>1. wallet' = wallet \/ \E p : wallet' = emptyPortfolio(p)
    BY <1>3 DEF Accounts, SignIn, logout, DeleteProfile, SignsOut, Hydrate, Kill
  <2> QED
    BY <1>1, <1>2, <2>1
<1>4. CASE BalancesNext
  <2>1. PICK c \in Calls : refreshBalances(c) \/ BalanceAnswers(c)
    BY <1>4 DEF BalancesNext
  <2>2. ASSUME NEW source, NEW text, NEW exact, Newest(c), Reads(c, source, text, exact)
        PROVE  wallet'.reading = wallet.request
    BY <1>1, <2>2 DEF Reads, Newest
  <2>3. CASE \/ \E amount \in Readings \cup {None} : PortfolioAnswers(c, amount)
             \/ \E amount \in Readings : ChainAnswers(c, amount)
    <3>1. wallet' = wallet \/ wallet'.reading = wallet.request
      BY <2>2, <2>3 DEF PortfolioAnswers, ChainAnswers
    <3> QED
      BY <1>1, <3>1
  <2>4. CASE refreshBalances(c)
    <3>1. /\ wallet.address = None => wallet' = [[wallet EXCEPT !.request = wallet.request + 1] EXCEPT !.error = TRUE]
          /\ wallet.address # None => wallet' = [[wallet EXCEPT !.request = wallet.request + 1] EXCEPT !.loading = TRUE, !.error = FALSE]
      BY <2>4 DEF refreshBalances
    <3>2. wallet'.reading = wallet.reading
      BY <1>1, <3>1
    <3> QED
      BY <1>1, <3>2
  <2>5. CASE PortfolioFails(c) \/ ChainFails(c)
    <3>1. wallet' = wallet \/ wallet' = [wallet EXCEPT !.error = TRUE, !.loading = FALSE]
      BY <2>5 DEF PortfolioFails, ChainFails
    <3>2. wallet'.reading = wallet.reading
      BY <1>1, <3>1
    <3> QED
      BY <1>1, <3>2
  <2> QED
    BY <2>1, <2>3, <2>4, <2>5 DEF BalanceAnswers
<1>5. CASE UNCHANGED wallet
  BY <1>1, <1>5
<1>6. HistoryNext \/ GroupsNext \/ PeopleNext \/ ContactNext => UNCHANGED wallet
  BY HistoryKeepsWallet, OtherListsKeepWallet
<1> QED
  BY <1>3, <1>4, <1>5, <1>6 DEF ListsStep, Lists, listVars

LEMMA UnreadIsSaid ==
    ASSUME ListInv, wallet.source = None, wallet.request > wallet.since, wallet.address # None
    PROVE  BalanceView # "total"
BY DEF ListInv, WalletIsOf, BalanceView

\* What the phone knows of the nicknames, and what becomes of it: the book of the person may
\* change, and the nicknames of before the books were split go to them whole.
BooksKept(now, then, who) ==
    /\ \A p : p # who => BookOf(then.books, p) = BookOf(now.books, p)
    /\ then.legacy # now.legacy => then.legacy = None /\ who # None /\ BookOf(then.books, who) = now.legacy

LEMMA OpeningKeepsBooks ==
    ASSUME NEW state, IsBook(state), NEW p
    PROVE  /\ BooksKept(state, openBook(state, p), p) \/ p = None
           /\ openBook(state, p).hydrated = state.hydrated /\ openBook(state, p).reading = state.reading
<1>1. CASE state.legacy = None \/ p \in DOMAIN state.books
  <2>1. openBook(state, p) = [state EXCEPT !.owner = p, !.names = BookOf(state.books, p)]
    BY <1>1 DEF openBook
  <2> QED
    BY <2>1 DEF IsBook, BooksKept
<1>2. CASE ~(state.legacy = None \/ p \in DOMAIN state.books)
  <2> DEFINE more == WithBook(state.books, p, state.legacy)
  <2>1. openBook(state, p) = [state EXCEPT !.owner = p, !.names = state.legacy, !.legacy = None, !.books = more]
    BY <1>2 DEF openBook
  <2>2. BookOf(more, p) = state.legacy /\ \A q : q # p => BookOf(more, q) = BookOf(state.books, q)
    BY DEF BookOf, WithBook
  <2> HIDE DEF more
  <2>3. /\ openBook(state, p).books = more /\ openBook(state, p).legacy = None
        /\ openBook(state, p).hydrated = state.hydrated /\ openBook(state, p).reading = state.reading
    BY <2>1 DEF IsBook
  <2> QED
    BY <2>2, <2>3 DEF BooksKept
<1> QED
  BY <1>1, <1>2

\* Signing in opens the book; signing out may forget it; the phone reads what it kept.
LEMMA AccountsKeepBooks ==
    ASSUME ListsAssumption, ListInv, Accounts
    PROVE  \/ BooksKept(BookNow, BookNow', person')
           \/ BooksKept(BookNow, BookNow', person) /\ BookNow'.legacy = BookNow.legacy
<1>0. IsBook(book) /\ book.owner = person
  BY DEF ListInv, BookIsOf
<1>1. ASSUME NEW p \in People, SignIn(p)
      PROVE  BooksKept(BookNow, BookNow', person')
  <2>1. book' = openBook(book, p) /\ person' = p /\ p # None
    BY <1>1 DEF SignIn, Keep, ListsAssumption
  <2>2. BooksKept(book, book', p) /\ book'.hydrated = book.hydrated /\ book'.reading = book.reading
    BY <1>0, <2>1, OpeningKeepsBooks
  <2>3. CASE book.hydrated
    BY <2>1, <2>2, <2>3 DEF BookNow, BooksKept
  <2>4. CASE ~book.hydrated
    BY <2>1, <2>2, <2>4 DEF BookNow, BooksKept
  <2> QED
    BY <2>3, <2>4
<1>2. ASSUME NEW state, SignsOut(state), state = book \/ state = forgetBook(book, person)
      PROVE  BooksKept(BookNow, BookNow', person) /\ BookNow'.legacy = BookNow.legacy
  <2>1. book' = [state EXCEPT !.owner = None, !.names = Nobody]
    BY <1>2 DEF SignsOut, Keep
  <2>2. /\ IsBook(state) /\ state.hydrated = book.hydrated /\ state.reading = book.reading /\ state.legacy = book.legacy
        /\ \A p : p # person => BookOf(state.books, p) = BookOf(book.books, p)
    <3>1. CASE state = book
      BY <1>0, <3>1
    <3>2. CASE state = forgetBook(book, person)
      <4> DEFINE less == WithoutKey(book.books, person)
      <4>1. \A p : p # person => BookOf(less, p) = BookOf(book.books, p)
        BY DEF BookOf, WithoutKey
      <4>2. state = [book EXCEPT !.books = less]
        BY <3>2 DEF forgetBook
      <4> HIDE DEF less
      <4> QED
        BY <1>0, <4>1, <4>2 DEF IsBook
    <3> QED
      BY <1>2, <3>1, <3>2
  <2>3. /\ book'.hydrated = book.hydrated /\ book'.reading = book.reading /\ book'.legacy = book.legacy
        /\ book'.books = state.books
    BY <2>1, <2>2 DEF IsBook
  <2> QED
    BY <2>2, <2>3 DEF BookNow, BooksKept
<1>3. CASE Hydrate
  <2> DEFINE read == [book EXCEPT !.books = book.reading.books, !.legacy = book.reading.legacy, !.hydrated = TRUE]
  <2>1. /\ ~book.hydrated /\ person' = person
        /\ person = None => book' = read
        /\ person # None => book' = openBook(read, person)
    BY <1>0, <1>3 DEF Hydrate, Keep
  <2>2. /\ IsBook(read) /\ read.books = book.reading.books /\ read.legacy = book.reading.legacy /\ read.hydrated
    BY <1>0 DEF IsBook
  <2> HIDE DEF read
  <2>3. BookNow = book.reading
    BY <2>1 DEF BookNow
  <2>4. CASE person = None
    BY <2>1, <2>2, <2>3, <2>4 DEF BookNow, BooksKept
  <2>5. CASE person # None
    <3>1. BooksKept(read, book', person) /\ book'.hydrated
      BY <2>1, <2>2, <2>5, OpeningKeepsBooks
    <3> QED
      BY <2>1, <2>2, <2>3, <3>1 DEF BookNow, BooksKept
  <2> QED
    BY <2>4, <2>5
<1>4. CASE Kill
  <2>1. book' = Started(stored) /\ book.hydrated /\ stored = Persisted(book)
    BY <1>4 DEF Kill
  <2>2. ~book'.hydrated /\ book'.reading = [books |-> book.books, legacy |-> book.legacy]
    BY <2>1 DEF Started, Persisted
  <2> QED
    BY <2>1, <2>2 DEF BookNow, BooksKept
<1> QED
  BY <1>1, <1>2, <1>3, <1>4 DEF Accounts, logout, DeleteProfile

LEMMA WritingKeepsBooks ==
    ASSUME ListInv, NEW names, writeContacts(names)
    PROVE  BooksKept(BookNow, BookNow', person) /\ BookNow'.legacy = BookNow.legacy
<1>0. IsBook(book) /\ book.owner = person
  BY DEF ListInv, BookIsOf
<1> DEFINE kept == IF book.owner = None THEN book.books ELSE WithBook(book.books, book.owner, names)
<1>1. book' = [book EXCEPT !.names = names, !.books = kept]
  BY DEF writeContacts, Keep
<1>2. \A p : p # person => BookOf(kept, p) = BookOf(book.books, p)
  BY <1>0 DEF BookOf, WithBook
<1> HIDE DEF kept
<1>3. /\ book'.hydrated = book.hydrated /\ book'.reading = book.reading /\ book'.legacy = book.legacy
      /\ book'.books = kept
  BY <1>0, <1>1 DEF IsBook
<1> QED
  BY <1>2, <1>3 DEF BookNow, BooksKept

LEMMA BooksStay ==
    ASSUME ListsAssumption, ListInv, [ListsStep]_listVars
    PROVE  /\ \A p \in People \ {person, person'} : BookOf(BookNow'.books, p) = BookOf(BookNow.books, p)
           /\ BookNow'.legacy # BookNow.legacy =>
                /\ BookNow'.legacy = None
                /\ person' # None /\ BookOf(BookNow'.books, person') = BookNow.legacy
<1>1. CASE Accounts
  BY <1>1, AccountsKeepBooks DEF BooksKept
<1>2. ASSUME NEW names, writeContacts(names)
      PROVE  BooksKept(BookNow, BookNow', person) /\ BookNow'.legacy = BookNow.legacy
  BY <1>2, WritingKeepsBooks
<1>3. CASE UNCHANGED book
  BY <1>3 DEF BookNow
<1>4. BalancesNext => UNCHANGED book
  BY DEF BalancesNext, refreshBalances, BalanceAnswers, PortfolioAnswers, PortfolioFails, ChainAnswers, ChainFails, OnlyWallet
<1>5. UNCHANGED listVars => UNCHANGED book
  BY DEF listVars
<1> QED
  BY <1>1, <1>2, <1>3, <1>4, <1>5, HistoryKeepsWallet, OtherListsKeepWallet DEF ListsStep, Lists, BooksKept

-----------------------------------------------------------------------------
(* Activity.                                                               *)

\* What is written of a payment agrees with what became of it, f[o].
EntriesAre(entries, f) ==
    \A e \in entries : /\ DOMAIN e = {"op", "state"} /\ e.state \in {"queued", "rejected"}
                       /\ e.op \in Operations /\ f[e.op] = "landed"

RecordIs(r, f) ==
    r # None => /\ DOMAIN r = {"op", "phase"} /\ r.phase \in RecordPhases
                /\ r.op \in Operations
                /\ r.phase = "failed" => f[r.op] = "reverted"

ReportIs(r, f) ==
    /\ r.status \in {None, "busy", "pending", "unknown", "confirmed", "failed"}
    /\ r.status = "failed" => r.of \in Operations /\ f[r.of] = "reverted"
    /\ r.status = "confirmed" => r.of \in Operations /\ f[r.of] = "landed"

PhoneIs(ph, f) ==
    /\ DOMAIN ph = {"record", "watched", "outbox", "lock"}
    /\ RecordIs(ph.record, f) /\ EntriesAre(ph.outbox, f)
    /\ ph.watched \subseteq Operations
    /\ ph.lock = "send" => ph.record # None

\* A payment that may still go through is on record, or watched.
OpenIsKnown(ph, f) ==
    \A o \in Operations : f[o] = "open" =>
        o \in ph.watched \/ (ph.record # None /\ ph.record.op = o /\ ph.record.phase # "failed")

\* The copy of the screen; of an account without these payments it holds none of them.
TabIs(t, f) ==
    /\ DOMAIN t = {"account", "record", "report", "outbox", "landed", "checking", "visit", "asks"}
    /\ RecordIs(t.record, f) /\ ReportIs(t.report, f) /\ EntriesAre(t.outbox, f)
    /\ \A o \in t.landed : o \in Operations /\ f[o] = "landed"
    /\ t.account # "own" => t.record = None /\ t.report.of = None /\ t.outbox = {} /\ t.landed = {}
                            /\ t.visit # "released"

FateIs(f) == DOMAIN f = Operations

ActivityInv == FateIs(fate) /\ PhoneIs(phone, fate) /\ OpenIsKnown(phone, fate) /\ TabIs(tab, fate)

-----------------------------------------------------------------------------
\* What settles a payment stays so.
Later(f, g) == \A o \in Operations : f[o] \in {"landed", "reverted"} => g[o] = f[o]

LEMMA LaterIsSaid ==
    ASSUME NEW f, NEW g, Later(f, g)
    PROVE  /\ \A t : TabIs(t, f) => TabIs(t, g)
           /\ \A ph : PhoneIs(ph, f) => PhoneIs(ph, g)
<1>1. ASSUME NEW entries, EntriesAre(entries, f)
      PROVE  EntriesAre(entries, g)
  BY <1>1 DEF EntriesAre, Later
<1>2. ASSUME NEW r, RecordIs(r, f)
      PROVE  RecordIs(r, g)
  BY <1>2 DEF RecordIs, Later
<1>3. ASSUME NEW r, ReportIs(r, f)
      PROVE  ReportIs(r, g)
  BY <1>3 DEF ReportIs, Later
<1>4. ASSUME NEW t, TabIs(t, f)
      PROVE  TabIs(t, g)
  <2>1. \A o \in t.landed : o \in Operations /\ g[o] = "landed"
    BY <1>4 DEF TabIs, Later
  <2> QED
    BY <1>1, <1>2, <1>3, <1>4, <2>1 DEF TabIs
<1> QED
  BY <1>1, <1>2, <1>4 DEF PhoneIs

LEMMA UnmountedIs ==
    ASSUME ActivityAssumption, NEW f
    PROVE  TabIs(Unmounted, f)
BY DEF ActivityAssumption, Unmounted, ReportNone, TabIs, RecordIs, ReportIs, EntriesAre

LEMMA ReadIs ==
    ASSUME NEW f, NEW ph, PhoneIs(ph, f), NEW t, TabIs(t, f)
    PROVE  TabIs(ReadFrom(ph, t), f)
<1> DEFINE record == IF t.account = "own" THEN ph.record ELSE None
           outbox == IF t.account = "own" THEN ph.outbox ELSE {}
           n == [t EXCEPT !.record = record, !.outbox = outbox]
<1>1. ReadFrom(ph, t) = n
  BY DEF ReadFrom
<1>2. /\ RecordIs(record, f) /\ EntriesAre(outbox, f) /\ (t.account # "own" => record = None /\ outbox = {})
  BY DEF PhoneIs, RecordIs, EntriesAre
<1> HIDE DEF record, outbox
<1>3. /\ DOMAIN n = DOMAIN t /\ n.record = record /\ n.outbox = outbox /\ n.account = t.account /\ n.report = t.report
      /\ n.landed = t.landed /\ n.visit = t.visit
  BY DEF TabIs
<1> HIDE DEF n
<1> QED
  BY <1>1, <1>2, <1>3 DEF TabIs

\* The screen changes in what it says or does, within what is known.
LEMMA TabMoves ==
    ASSUME NEW f, NEW t, TabIs(t, f), NEW n, DOMAIN n = DOMAIN t, n.record = t.record, n.outbox = t.outbox,
           n.account = t.account, n.landed = t.landed, ReportIs(n.report, f),
           n.account # "own" => n.report.of = None /\ n.visit # "released"
    PROVE  TabIs(n, f)
BY DEF TabIs

\* A verdict is put on the record.
LEMMA SettlingIs ==
    ASSUME NEW ph, PhoneIs(ph, fate), OpenIsKnown(ph, fate), ph.record # None, NEW verdict \in VerdictsOn(ph.record.op), NEW n,
           n = [settle(ph, verdict) EXCEPT !.lock = "free"]
    PROVE  PhoneIs(n, fate) /\ OpenIsKnown(n, fate)
<1> DEFINE r == ph.record
<1>0. RecordIs(r, fate) /\ r # None /\ EntriesAre(ph.outbox, fate)
  BY DEF PhoneIs
<1>1. CASE verdict = "confirmed"
  <2> DEFINE outbox == IF \E entry \in ph.outbox : entry.op = r.op THEN ph.outbox
                       ELSE ph.outbox \cup {[op |-> r.op, state |-> "queued"]}
  <2>1. n = [[[ph EXCEPT !.outbox = outbox] EXCEPT !.record = None] EXCEPT !.lock = "free"]
    BY <1>1 DEF settle, Queued
  <2>2. fate[r.op] = "landed"
    BY <1>1 DEF VerdictsOn
  <2>3. EntriesAre(outbox, fate)
    BY <1>0, <2>2 DEF EntriesAre, RecordIs
  <2> HIDE DEF outbox
  <2>4. DOMAIN n = DOMAIN ph /\ n.outbox = outbox /\ n.record = None /\ n.lock = "free" /\ n.watched = ph.watched
    BY <2>1 DEF PhoneIs
  <2> QED
    BY <2>2, <2>3, <2>4 DEF PhoneIs, RecordIs, OpenIsKnown
<1>2. CASE verdict = "failed"
  <2> DEFINE s == [r EXCEPT !.phase = "failed"]
  <2>1. n = [[ph EXCEPT !.record = s] EXCEPT !.lock = "free"]
    BY <1>2 DEF settle, PhoneIs
  <2>2. fate[r.op] = "reverted"
    BY <1>2 DEF VerdictsOn
  <2>3. DOMAIN s = DOMAIN r /\ s.op = r.op /\ s.phase = "failed"
    BY <1>0 DEF RecordIs
  <2> HIDE DEF s
  <2>4. RecordIs(s, fate)
    BY <1>0, <2>2, <2>3 DEF RecordIs, RecordPhases
  <2>5. DOMAIN n = DOMAIN ph /\ n.outbox = ph.outbox /\ n.record = s /\ n.lock = "free" /\ n.watched = ph.watched
    BY <2>1 DEF PhoneIs
  <2> QED
    BY <2>2, <2>4, <2>5 DEF PhoneIs, OpenIsKnown
<1>3. CASE verdict \notin {"confirmed", "failed"}
  <2>1. n = [ph EXCEPT !.lock = "free"]
    BY <1>3 DEF settle
  <2>2. DOMAIN n = DOMAIN ph /\ n.outbox = ph.outbox /\ n.record = ph.record /\ n.lock = "free" /\ n.watched = ph.watched
    BY <2>1 DEF PhoneIs
  <2> QED
    BY <2>2 DEF PhoneIs, OpenIsKnown
<1> QED
  BY <1>1, <1>2, <1>3

LEMMA OneAtMost ==
    ASSUME NEW S, IsFiniteSet(S), Cardinality(S) <= 1, NEW a \in S, NEW b \in S
    PROVE  a = b
<1> SUFFICES ASSUME a # b
             PROVE  FALSE
  OBVIOUS
<1>1. Cardinality(S \ {a}) = Cardinality(S) - 1 /\ IsFiniteSet(S \ {a})
  BY FS_RemoveElement
<1>2. Cardinality(S \ {a}) \in Nat /\ Cardinality(S) \in Nat
  BY <1>1, FS_CardinalityType
<1>3. Cardinality(S \ {a}) = 0
  BY <1>1, <1>2
<1>4. S \ {a} = {}
  BY <1>1, <1>3, FS_EmptySet
<1> QED
  BY <1>4

LEMMA ActivityBegins ==
    ASSUME ActivityAssumption, ActivityInit
    PROVE  ActivityInv
<1>1. PICK left \in SUBSET Aging :
         /\ Cardinality(left) <= 1
         /\ fate = [o \in Operations |-> IF o \in left THEN "open" ELSE "unused"]
         /\ phone = [record |-> IF left = {} THEN None ELSE [op |-> CHOOSE o \in left : TRUE, phase |-> "submitted"],
                     watched |-> {}, outbox |-> {}, lock |-> "free"]
  BY DEF ActivityInit
<1>2. IsFiniteSet(left)
  BY FS_Subset DEF ActivityAssumption
<1> DEFINE first == CHOOSE o \in left : TRUE
           record == [op |-> first, phase |-> "submitted"]
<1>3. left # {} => first \in left
  OBVIOUS
<1>4. record.op = first /\ record.phase = "submitted" /\ DOMAIN record = {"op", "phase"}
  OBVIOUS
<1>5. /\ DOMAIN phone = {"record", "watched", "outbox", "lock"} /\ phone.watched = {} /\ phone.outbox = {} /\ phone.lock = "free"
      /\ phone.record = IF left = {} THEN None ELSE record
  BY <1>1
<1> HIDE DEF first, record
<1>6. PhoneIs(phone, fate)
  BY <1>3, <1>4, <1>5 DEF RecordPhases, ActivityAssumption, PhoneIs, RecordIs, EntriesAre
<1>7. OpenIsKnown(phone, fate)
  <2> SUFFICES ASSUME NEW o \in Operations, fate[o] = "open"
               PROVE  phone.record # None /\ phone.record.op = o /\ phone.record.phase # "failed"
    BY DEF OpenIsKnown
  <2>1. o \in left
    BY <1>1
  <2>2. o = first
    BY <1>1, <1>2, <1>3, <2>1, OneAtMost
  <2>3. record # None
    <3>1. record \in [op : Operations, phase : RecordPhases]
      BY <2>2 DEF record, RecordPhases
    <3> QED
      BY <3>1 DEF ActivityAssumption
  <2> QED
    BY <1>4, <1>5, <2>1, <2>2, <2>3
<1> QED
  BY <1>1, <1>6, <1>7, UnmountedIs DEF ActivityInit, ActivityInv, FateIs


-----------------------------------------------------------------------------
\* The steps.

LEMMA ChainKeeps ==
    ASSUME ActivityInv, NEW o \in Operations, Settles(o) \/ Ages(o)
    PROVE  ActivityInv'
<1>1. CASE Ages(o)
  BY <1>1 DEF Ages, ActivityInv
<1>2. CASE Settles(o)
  <2>1. PICK end \in {"landed", "reverted"} : fate' = [fate EXCEPT ![o] = end]
    BY <1>2 DEF Settles
  <2>2. fate[o] = "open" /\ UNCHANGED <<phone, tab>>
    BY <1>2 DEF Settles, StillOpen
  <2>3. FateIs(fate') /\ fate'[o] = end /\ \A q \in Operations : q # o => fate'[q] = fate[q]
    BY <2>1 DEF ActivityInv, FateIs
  <2>4. Later(fate, fate')
    BY <2>2, <2>3 DEF Later
  <2>5. PhoneIs(phone, fate') /\ TabIs(tab, fate')
    BY <2>4, LaterIsSaid DEF ActivityInv
  <2>6. OpenIsKnown(phone, fate')
    BY <2>3 DEF ActivityInv, OpenIsKnown
  <2> QED
    BY <2>2, <2>3, <2>5, <2>6 DEF ActivityInv
<1> QED
  BY <1>1, <1>2

LEMMA PayBegins ==
    ASSUME ActivityAssumption, ActivityInv, NEW o \in Operations, beforeSend(o)
    PROVE  ActivityInv'
<1>0. PhoneIs(phone, fate) /\ OpenIsKnown(phone, fate) /\ FateIs(fate) /\ fate[o] = "unused" /\ UNCHANGED tab
  BY DEF ActivityInv, beforeSend
<1> DEFINE begun == [op |-> o, phase |-> "submitting"]
           now == isUnresolved(phone.record)
<1>1. CASE /\ now => "failed" \in VerdictsOn(phone.record.op)
           /\ phone' = [phone EXCEPT !.record = begun, !.lock = "send"] /\ fate' = [fate EXCEPT ![o] = "open"]
  <2>1. begun.op = o /\ begun.phase = "submitting" /\ DOMAIN begun = {"op", "phase"} /\ begun # None
    BY DEF ActivityAssumption, RecordPhases
  <2> HIDE DEF begun
  <2>2. /\ DOMAIN phone' = DOMAIN phone /\ phone'.record = begun /\ phone'.lock = "send"
        /\ phone'.outbox = phone.outbox /\ phone'.watched = phone.watched
    BY <1>0, <1>1 DEF PhoneIs
  <2>3. FateIs(fate') /\ fate'[o] = "open" /\ \A q \in Operations : q # o => fate'[q] = fate[q]
    BY <1>0, <1>1 DEF FateIs
  <2>4. Later(fate, fate')
    BY <1>0, <2>3 DEF Later
  <2>5. PhoneIs(phone, fate') /\ TabIs(tab, fate')
    BY <1>0, <2>4, LaterIsSaid DEF ActivityInv
  <2>6. PhoneIs(phone', fate')
    BY <2>1, <2>2, <2>5 DEF PhoneIs, RecordIs, RecordPhases
  <2>7. OpenIsKnown(phone', fate')
    <3> SUFFICES ASSUME NEW q \in Operations, fate'[q] = "open", q # o
                 PROVE  q \in phone.watched
      BY <2>1, <2>2 DEF OpenIsKnown
    <3>1. fate[q] = "open"
      BY <2>3
    <3>2. CASE now
      <4>1. "failed" \in VerdictsOn(phone.record.op)
        BY <1>1, <3>2
      <4>2. fate[phone.record.op] = "reverted"
        BY <4>1 DEF VerdictsOn
      <4> QED
        BY <1>0, <3>1, <4>2 DEF OpenIsKnown
    <3>3. CASE ~now
      BY <1>0, <3>1, <3>3 DEF OpenIsKnown, isUnresolved
    <3> QED
      BY <3>2, <3>3
  <2> QED
    BY <1>0, <2>3, <2>5, <2>6, <2>7 DEF ActivityInv
<1>2. ASSUME NEW verdict \in VerdictsOn(phone.record.op), now, phone' = [settle(phone, verdict) EXCEPT !.lock = "free"],
             UNCHANGED fate
      PROVE  ActivityInv'
  <2>1. phone.record # None
    BY <1>2 DEF isUnresolved
  <2> HIDE DEF now
  <2>2. PhoneIs(phone', fate) /\ OpenIsKnown(phone', fate)
    BY <1>0, <1>2, <2>1, SettlingIs
  <2> QED
    BY <1>0, <1>2, <2>2 DEF ActivityInv
<1> QED
  BY <1>1, <1>2 DEF beforeSend

LEMMA ActivityMoves ==
    ASSUME ActivityInv, UNCHANGED fate, PhoneIs(phone', fate), OpenIsKnown(phone', fate), TabIs(tab', fate)
    PROVE  ActivityInv'
BY DEF ActivityInv

\* The lock changes hands.
LEMMA LockMoves ==
    ASSUME ActivityInv, NEW l, l # "send", phone' = [phone EXCEPT !.lock = l]
    PROVE  PhoneIs(phone', fate) /\ OpenIsKnown(phone', fate)
<1>1. /\ DOMAIN phone' = DOMAIN phone /\ phone'.record = phone.record /\ phone'.lock = l
      /\ phone'.outbox = phone.outbox /\ phone'.watched = phone.watched
  BY DEF ActivityInv, PhoneIs
<1> QED
  BY <1>1 DEF ActivityInv, PhoneIs, OpenIsKnown

LEMMA PayingKeeps ==
    ASSUME ActivityAssumption, ActivityInv, PayStarts \/ PaySubmitted \/ PayEnds
    PROVE  ActivityInv'
<1>0. PhoneIs(phone, fate) /\ OpenIsKnown(phone, fate) /\ TabIs(tab, fate) /\ UNCHANGED <<fate, tab>>
  BY DEF ActivityInv, PayStarts, PaySubmitted, PayEnds
<1>1. CASE PayStarts
  BY <1>0, <1>1, LockMoves, ActivityMoves DEF PayStarts
<1>2. CASE PaySubmitted
  <2> DEFINE s == [phone.record EXCEPT !.phase = "submitted"]
  <2>1. phone' = [phone EXCEPT !.record = s] /\ phone.lock = "send" /\ phone.record.phase = "submitting"
    BY <1>0, <1>2 DEF PaySubmitted, PhoneIs
  <2>2. phone.record # None /\ RecordIs(phone.record, fate)
    BY <1>0, <2>1 DEF PhoneIs
  <2>3. DOMAIN s = {"op", "phase"} /\ s.op = phone.record.op /\ s.phase = "submitted"
    BY <2>2 DEF RecordIs
  <2>4. s # None
    <3>1. s = [op |-> phone.record.op, phase |-> "submitted"]
      BY <2>2 DEF RecordIs
    <3>2. s \in [op : Operations, phase : RecordPhases]
      BY <2>2, <3>1 DEF RecordIs, RecordPhases
    <3> QED
      BY <3>2 DEF ActivityAssumption
  <2> HIDE DEF s
  <2>5. /\ DOMAIN phone' = DOMAIN phone /\ phone'.record = s /\ phone'.lock = phone.lock
        /\ phone'.outbox = phone.outbox /\ phone'.watched = phone.watched
    BY <1>0, <2>1 DEF PhoneIs
  <2>6. PhoneIs(phone', fate) /\ OpenIsKnown(phone', fate)
    BY <1>0, <2>2, <2>3, <2>4, <2>5 DEF PhoneIs, RecordIs, OpenIsKnown, RecordPhases
  <2> QED
    BY <1>0, <2>6, ActivityMoves
<1>3. CASE PayEnds
  <2>1. phone.record # None
    BY <1>0, <1>3 DEF PayEnds, PhoneIs
  <2>2. PICK verdict \in VerdictsOn(phone.record.op) :
           phone' = IF verdict = "failed" THEN [phone EXCEPT !.record = None, !.lock = "free"]
                    ELSE [settle(phone, verdict) EXCEPT !.lock = "free"]
    BY <1>3 DEF PayEnds
  <2>3. CASE verdict = "failed"
    <3>1. fate[phone.record.op] = "reverted"
      BY <2>3 DEF VerdictsOn
    <3>2. phone' = [phone EXCEPT !.record = None, !.lock = "free"]
      BY <2>2, <2>3
    <3>3. /\ DOMAIN phone' = DOMAIN phone /\ phone'.record = None /\ phone'.lock = "free"
          /\ phone'.outbox = phone.outbox /\ phone'.watched = phone.watched
      BY <1>0, <3>2 DEF PhoneIs
    <3>4. PhoneIs(phone', fate) /\ OpenIsKnown(phone', fate)
      BY <1>0, <3>1, <3>3 DEF PhoneIs, RecordIs, OpenIsKnown
    <3> QED
      BY <1>0, <3>4, ActivityMoves
  <2>4. CASE verdict # "failed"
    <3>1. phone' = [settle(phone, verdict) EXCEPT !.lock = "free"]
      BY <2>2, <2>4
    <3>2. PhoneIs(phone', fate) /\ OpenIsKnown(phone', fate)
      BY <1>0, <2>1, <3>1, SettlingIs
    <3> QED
      BY <1>0, <3>2, ActivityMoves
  <2> QED
    BY <2>3, <2>4
<1> QED
  BY <1>1, <1>2, <1>3

LEMMA NothingReported ==
    ASSUME ActivityAssumption, NEW f
    PROVE  ReportIs(ReportNone, f) /\ ReportNone.of = None
BY DEF ReportNone, ReportIs, ActivityAssumption

\* Opened, switched, pulled down, asked.
LEMMA LookingKeeps ==
    ASSUME ActivityAssumption, ActivityInv,
           \/ \E who \in {"own", "other", None} : Shows(who)
           \/ PullToRefresh \/ VisitFlushes \/ HistoryReads \/ confirmRelease \/ KeepWaiting
    PROVE  ActivityInv'
<1>0. PhoneIs(phone, fate) /\ OpenIsKnown(phone, fate) /\ TabIs(tab, fate) /\ UNCHANGED <<fate, phone>>
  BY DEF ActivityInv, Shows, PullToRefresh, VisitFlushes, HistoryReads, confirmRelease, KeepWaiting
<1>1. ASSUME TabIs(tab', fate)
      PROVE  ActivityInv'
  BY <1>0, <1>1, ActivityMoves
<1>2. ASSUME NEW who, Shows(who)
      PROVE  ActivityInv'
  <2> DEFINE n == [Unmounted EXCEPT !.account = who, !.checking = tab.checking, !.visit = "peek"]
  <2>1. tab' = IF who = None THEN Unmounted ELSE ReadFrom(phone, n)
    BY <1>2 DEF Shows
  <2>2. /\ DOMAIN n = {"account", "record", "report", "outbox", "landed", "checking", "visit", "asks"}
        /\ n.record = None /\ n.report = ReportNone /\ n.outbox = {} /\ n.landed = {} /\ n.visit = "peek"
    BY DEF Unmounted
  <2> HIDE DEF n
  <2>3. TabIs(n, fate)
    BY <2>2, NothingReported DEF TabIs, RecordIs, EntriesAre
  <2> QED
    BY <1>0, <1>1, <2>1, <2>3, ReadIs, UnmountedIs
<1>3. CASE PullToRefresh
  BY <1>0, <1>1, <1>3, ReadIs DEF PullToRefresh
<1>4. CASE VisitFlushes
  <2> DEFINE n == [tab EXCEPT !.visit = "done"]
  <2>1. tab' = ReadFrom(phone, n)
    BY <1>4 DEF VisitFlushes
  <2>2. /\ DOMAIN n = DOMAIN tab /\ n.record = tab.record /\ n.outbox = tab.outbox /\ n.account = tab.account
        /\ n.landed = tab.landed /\ n.report = tab.report /\ n.visit = "done"
    BY <1>0 DEF TabIs
  <2> HIDE DEF n
  <2>3. TabIs(n, fate)
    BY <1>0, <2>2 DEF TabIs
  <2> QED
    BY <1>0, <1>1, <2>1, <2>3, ReadIs
<1>5. CASE HistoryReads
  BY <1>0, <1>1, <1>5 DEF HistoryReads
<1>6. CASE confirmRelease \/ KeepWaiting
  <2>1. \E asks : tab' = [tab EXCEPT !.asks = asks]
    BY <1>6 DEF confirmRelease, KeepWaiting
  <2>2. /\ DOMAIN tab' = DOMAIN tab /\ tab'.record = tab.record /\ tab'.outbox = tab.outbox /\ tab'.account = tab.account
        /\ tab'.landed = tab.landed /\ tab'.report = tab.report /\ tab'.visit = tab.visit
    BY <1>0, <2>1 DEF TabIs
  <2>3. TabIs(tab', fate)
    BY <1>0, <2>2 DEF TabIs
  <2> QED
    BY <1>1, <2>3
<1> QED
  BY <1>2, <1>3, <1>4, <1>5, <1>6

\* A check begins, or the wallet is busy.
LEMMA CheckBegins ==
    ASSUME ActivityAssumption, ActivityInv, NEW t, TabIs(t, fate)
    PROVE  TabIs(Checks(t), fate) /\ DOMAIN Checks(t) = DOMAIN t /\ Checks(t).account = t.account
<1>1. CASE phone.lock = "free"
  <2>1. Checks(t) = [t EXCEPT !.checking = TRUE]
    BY <1>1 DEF Checks
  <2>2. /\ DOMAIN Checks(t) = DOMAIN t /\ Checks(t).record = t.record /\ Checks(t).outbox = t.outbox
        /\ Checks(t).account = t.account /\ Checks(t).landed = t.landed /\ Checks(t).report = t.report
        /\ Checks(t).visit = t.visit
    BY <2>1 DEF TabIs
  <2> QED
    BY <2>2 DEF TabIs
<1>2. CASE phone.lock # "free"
  <2> DEFINE busy == Report("busy", None, FALSE)
             n == [t EXCEPT !.report = busy]
  <2>1. Checks(t) = ReadFrom(phone, n)
    BY <1>2 DEF Checks
  <2>2. ReportIs(busy, fate) /\ busy.of = None
    BY DEF Report, ReportIs
  <2> HIDE DEF busy
  <2>3. /\ DOMAIN n = DOMAIN t /\ n.record = t.record /\ n.outbox = t.outbox /\ n.account = t.account
        /\ n.landed = t.landed /\ n.report = busy /\ n.visit = t.visit
    BY DEF TabIs
  <2> HIDE DEF n
  <2>4. TabIs(n, fate)
    BY <2>2, <2>3 DEF TabIs
  <2>5. DOMAIN ReadFrom(phone, n) = DOMAIN n /\ ReadFrom(phone, n).account = n.account
    BY <2>4 DEF ReadFrom, TabIs
  <2> QED
    BY <2>1, <2>3, <2>4, <2>5, ReadIs DEF ActivityInv
<1> QED
  BY <1>1, <1>2

LEMMA LockTaken ==
    ASSUME ActivityInv, phone' = [phone EXCEPT !.lock = IF @ = "free" THEN "check" ELSE @]
    PROVE  PhoneIs(phone', fate) /\ OpenIsKnown(phone', fate)
<1> DEFINE l == IF phone.lock = "free" THEN "check" ELSE phone.lock
<1>1. phone' = [phone EXCEPT !.lock = l]
  OBVIOUS
<1>2. l = "send" => phone.lock = "send"
  OBVIOUS
<1> HIDE DEF l
<1>3. /\ DOMAIN phone' = DOMAIN phone /\ phone'.record = phone.record /\ phone'.lock = l
      /\ phone'.outbox = phone.outbox /\ phone'.watched = phone.watched
  BY <1>1 DEF ActivityInv, PhoneIs
<1> QED
  BY <1>2, <1>3 DEF ActivityInv, PhoneIs, OpenIsKnown

LEMMA CheckKeeps ==
    ASSUME ActivityAssumption, ActivityInv, check
    PROVE  ActivityInv'
<1>1. UNCHANGED fate /\ tab' = Checks(tab) /\ phone' = [phone EXCEPT !.lock = IF @ = "free" THEN "check" ELSE @]
  BY DEF check
<1>2. PhoneIs(phone', fate) /\ OpenIsKnown(phone', fate)
  BY <1>1, LockTaken
<1>3. TabIs(tab', fate)
  BY <1>1, CheckBegins DEF ActivityInv
<1> QED
  BY <1>1, <1>2, <1>3, ActivityMoves

\* The answer is put on screen, if the account is still in view.
LEMMA AnswerIs ==
    ASSUME ActivityInv, NEW ph, PhoneIs(ph, fate), NEW report, ReportIs(report, fate), NEW n,
           n = IF Mine THEN ReadFrom(ph, [tab EXCEPT !.checking = FALSE, !.report = report])
               ELSE [tab EXCEPT !.checking = FALSE]
    PROVE  TabIs(n, fate)
<1>0. TabIs(tab, fate)
  BY DEF ActivityInv
<1>1. CASE Mine
  <2> DEFINE t == [tab EXCEPT !.checking = FALSE, !.report = report]
  <2>1. /\ DOMAIN t = DOMAIN tab /\ t.record = tab.record /\ t.outbox = tab.outbox /\ t.account = tab.account
        /\ t.landed = tab.landed /\ t.report = report /\ t.visit = tab.visit
    BY <1>0 DEF TabIs
  <2>2. n = ReadFrom(ph, t)
    BY <1>1
  <2> HIDE DEF t
  <2>3. TabIs(t, fate)
    BY <1>0, <1>1, <2>1, TabMoves DEF Mine
  <2> QED
    BY <2>2, <2>3, ReadIs
<1>2. CASE ~Mine
  <2>1. n = [tab EXCEPT !.checking = FALSE]
    BY <1>2
  <2>2. /\ DOMAIN n = DOMAIN tab /\ n.record = tab.record /\ n.outbox = tab.outbox /\ n.account = tab.account
        /\ n.landed = tab.landed /\ n.report = tab.report /\ n.visit = tab.visit
    BY <1>0, <2>1 DEF TabIs
  <2> QED
    BY <1>0, <2>2 DEF TabIs
<1> QED
  BY <1>1, <1>2

LEMMA CheckAnswersKeep ==
    ASSUME ActivityAssumption, ActivityInv, CheckAnswers
    PROVE  ActivityInv'
<1>0. PhoneIs(phone, fate) /\ OpenIsKnown(phone, fate) /\ TabIs(tab, fate) /\ UNCHANGED fate
  BY DEF ActivityInv, CheckAnswers
<1>1. CASE phone.record = None
  <2>1. /\ phone' = [phone EXCEPT !.lock = "free"]
        /\ tab' = IF Mine THEN ReadFrom(phone', [tab EXCEPT !.checking = FALSE, !.report = ReportNone])
                  ELSE [tab EXCEPT !.checking = FALSE]
    BY <1>1 DEF CheckAnswers
  <2>2. PhoneIs(phone', fate) /\ OpenIsKnown(phone', fate)
    BY <2>1, LockMoves
  <2>3. ReportIs(ReportNone, fate)
    BY NothingReported
  <2>4. TabIs(tab', fate)
    BY <2>1, <2>2, <2>3, AnswerIs
  <2> QED
    BY <1>0, <2>2, <2>4, ActivityMoves
<1>2. CASE phone.record # None
  <2> DEFINE r == phone.record
  <2>1. PICK verdict \in IF isUnresolved(r) THEN VerdictsOn(r.op) ELSE {"failed"} :
           /\ phone' = [settle(phone, verdict) EXCEPT !.lock = "free"]
           /\ tab' = IF Mine THEN ReadFrom(phone', [tab EXCEPT !.checking = FALSE, !.report = reportOf(r, verdict)])
                     ELSE [tab EXCEPT !.checking = FALSE]
    BY <1>2 DEF CheckAnswers
  <2>2. RecordIs(r, fate)
    BY <1>0 DEF PhoneIs
  <2>3. verdict \in VerdictsOn(r.op)
    BY <1>2, <2>1, <2>2 DEF isUnresolved, RecordIs, VerdictsOn
  <2>4. PhoneIs(phone', fate) /\ OpenIsKnown(phone', fate)
    BY <1>0, <1>2, <2>1, <2>3, SettlingIs
  <2> DEFINE report == reportOf(r, verdict)
  <2>5. ReportIs(report, fate)
    <3>1. report.status = verdict /\ report.of = r.op
      BY DEF reportOf, Report
    <3> HIDE DEF report
    <3> QED
      BY <1>2, <2>2, <2>3, <3>1 DEF ReportIs, RecordIs, VerdictsOn
  <2>6. tab' = IF Mine THEN ReadFrom(phone', [tab EXCEPT !.checking = FALSE, !.report = report])
               ELSE [tab EXCEPT !.checking = FALSE]
    BY <2>1
  <2> HIDE DEF report
  <2>7. TabIs(tab', fate)
    BY <2>4, <2>5, <2>6, AnswerIs
  <2> QED
    BY <1>0, <2>4, <2>7, ActivityMoves
<1> QED
  BY <1>1, <1>2

LEMMA FailureKeeps ==
    ASSUME ActivityAssumption, ActivityInv, CheckFails
    PROVE  ActivityInv'
<1>0. TabIs(tab, fate) /\ UNCHANGED fate
  BY DEF ActivityInv, CheckFails
<1>1. PhoneIs(phone', fate) /\ OpenIsKnown(phone', fate)
  BY LockMoves DEF CheckFails
<1> DEFINE unknown == Report("unknown", None, FALSE)
<1>2. ReportIs(unknown, fate) /\ unknown.of = None
  BY DEF Report, ReportIs
<1>3. tab' = tab \/ tab' = [tab EXCEPT !.checking = FALSE, !.report = unknown]
  BY DEF CheckFails
<1> HIDE DEF unknown
<1>4. CASE tab' = [tab EXCEPT !.checking = FALSE, !.report = unknown]
  <2>1. /\ DOMAIN tab' = DOMAIN tab /\ tab'.record = tab.record /\ tab'.outbox = tab.outbox /\ tab'.account = tab.account
        /\ tab'.landed = tab.landed /\ tab'.report = unknown /\ tab'.visit = tab.visit
    BY <1>0, <1>4 DEF TabIs
  <2>2. TabIs(tab', fate)
    BY <1>0, <1>2, <2>1 DEF TabIs
  <2> QED
    BY <1>0, <1>1, <2>2, ActivityMoves
<1> QED
  BY <1>0, <1>1, <1>3, <1>4, ActivityMoves

LEMMA PeekKeeps ==
    ASSUME ActivityAssumption, ActivityInv, VisitPeeks
    PROVE  ActivityInv'
<1>0. PhoneIs(phone, fate) /\ OpenIsKnown(phone, fate) /\ TabIs(tab, fate) /\ UNCHANGED fate
  BY DEF ActivityInv, VisitPeeks
<1>1. CASE Mine /\ phone.record # None
  <2> DEFINE t == Checks(tab)
  <2>1. tab' = [t EXCEPT !.visit = "released"] /\ phone' = [phone EXCEPT !.lock = IF @ = "free" THEN "check" ELSE @]
    BY <1>1 DEF VisitPeeks
  <2>2. PhoneIs(phone', fate) /\ OpenIsKnown(phone', fate)
    BY <2>1, LockTaken
  <2>3. TabIs(t, fate) /\ t.account = tab.account
    BY <1>0, CheckBegins
  <2> HIDE DEF t
  <2>4. /\ DOMAIN tab' = DOMAIN t /\ tab'.record = t.record /\ tab'.outbox = t.outbox /\ tab'.account = t.account
        /\ tab'.landed = t.landed /\ tab'.report = t.report
    BY <2>1, <2>3 DEF TabIs
  <2>5. TabIs(tab', fate)
    BY <1>1, <2>3, <2>4 DEF TabIs, Mine
  <2> QED
    BY <1>0, <2>2, <2>5, ActivityMoves
<1>2. CASE ~(Mine /\ phone.record # None)
  <2> DEFINE visit == IF Mine THEN "released" ELSE "done"
  <2>1. tab' = [tab EXCEPT !.visit = visit] /\ phone' = phone
    BY <1>2 DEF VisitPeeks
  <2>2. visit = "released" => tab.account = "own"
    BY DEF Mine
  <2> HIDE DEF visit
  <2>3. /\ DOMAIN tab' = DOMAIN tab /\ tab'.record = tab.record /\ tab'.outbox = tab.outbox /\ tab'.account = tab.account
        /\ tab'.landed = tab.landed /\ tab'.report = tab.report /\ tab'.visit = visit
    BY <1>0, <2>1 DEF TabIs
  <2>4. TabIs(tab', fate)
    BY <1>0, <2>2, <2>3 DEF TabIs
  <2> QED
    BY <1>0, <2>1, <2>4, ActivityMoves
<1> QED
  BY <1>1, <1>2

\* What landed goes from the watch list to the outbox, what reverted leaves it, the rest is watched.
LEMMA LooksAgainKeeps ==
    ASSUME ActivityAssumption, ActivityInv, VisitLooksAgain
    PROVE  ActivityInv'
<1>0. PhoneIs(phone, fate) /\ OpenIsKnown(phone, fate) /\ TabIs(tab, fate) /\ UNCHANGED fate /\ tab.account = "own"
  BY DEF ActivityInv, VisitLooksAgain, TabIs
<1>1. CASE phone.lock # "free"
  <2>1. tab' = [tab EXCEPT !.visit = "done"] /\ phone' = phone
    BY <1>1 DEF VisitLooksAgain
  <2>2. /\ DOMAIN tab' = DOMAIN tab /\ tab'.record = tab.record /\ tab'.outbox = tab.outbox /\ tab'.account = tab.account
        /\ tab'.landed = tab.landed /\ tab'.report = tab.report
    BY <1>0, <2>1 DEF TabIs
  <2>3. TabIs(tab', fate)
    BY <1>0, <2>2 DEF TabIs
  <2> QED
    BY <1>0, <2>1, <2>3, ActivityMoves
<1>2. CASE phone.lock = "free"
  <2>1. PICK said \in [phone.watched -> {"pending", "unknown", "confirmed", "failed"}] :
           /\ \A o \in phone.watched : said[o] \in VerdictsOn(o)
           /\ LET landed == {o \in phone.watched : said[o] = "confirmed"}
              IN /\ phone' = [phone EXCEPT
                       !.watched = {o \in phone.watched : said[o] \in {"pending", "unknown"}},
                       !.outbox = @ \cup {[op |-> o, state |-> "queued"] : o \in
                                            {q \in landed : \A entry \in @ : entry.op # q}}]
                 /\ tab' = [tab EXCEPT !.visit = "flush", !.landed = IF landed = {} THEN @ ELSE landed]
    BY <1>2 DEF VisitLooksAgain
  <2> DEFINE arrived == {o \in phone.watched : said[o] = "confirmed"}
             watched == {o \in phone.watched : said[o] \in {"pending", "unknown"}}
             outbox == phone.outbox \cup {[op |-> o, state |-> "queued"] : o \in
                                            {q \in arrived : \A entry \in phone.outbox : entry.op # q}}
             landed == IF arrived = {} THEN tab.landed ELSE arrived
  <2>2. phone' = [phone EXCEPT !.watched = watched, !.outbox = outbox] /\ tab' = [tab EXCEPT !.visit = "flush", !.landed = landed]
    BY <2>1
  <2>3. \A o \in arrived : o \in Operations /\ fate[o] = "landed"
    BY <1>0, <2>1 DEF VerdictsOn, PhoneIs
  <2>4. EntriesAre(outbox, fate)
    BY <1>0, <2>3 DEF EntriesAre, PhoneIs
  <2>5. \A o \in landed : o \in Operations /\ fate[o] = "landed"
    BY <1>0, <2>3 DEF TabIs
  <2>6. watched \subseteq Operations
    BY <1>0 DEF PhoneIs
  <2>7. \A o \in phone.watched : fate[o] = "open" => o \in watched
    BY <2>1 DEF VerdictsOn
  <2> HIDE DEF arrived, watched, outbox, landed
  <2>8. /\ DOMAIN phone' = DOMAIN phone /\ phone'.record = phone.record /\ phone'.lock = phone.lock
        /\ phone'.outbox = outbox /\ phone'.watched = watched
    BY <1>0, <2>2 DEF PhoneIs
  <2>9. /\ DOMAIN tab' = DOMAIN tab /\ tab'.record = tab.record /\ tab'.outbox = tab.outbox /\ tab'.account = tab.account
        /\ tab'.landed = landed /\ tab'.report = tab.report
    BY <1>0, <2>2 DEF TabIs
  <2>10. PhoneIs(phone', fate)
    BY <1>0, <2>4, <2>6, <2>8 DEF PhoneIs
  <2>11. OpenIsKnown(phone', fate)
    BY <1>0, <2>7, <2>8 DEF OpenIsKnown
  <2>12. TabIs(tab', fate)
    BY <1>0, <2>5, <2>9 DEF TabIs
  <2> QED
    BY <1>0, <2>10, <2>11, <2>12, ActivityMoves
<1> QED
  BY <1>1, <1>2

LEMMA FlushKeeps ==
    ASSUME ActivityAssumption, ActivityInv, NEW entry \in phone.outbox, flush(entry)
    PROVE  ActivityInv'
<1>0. PhoneIs(phone, fate) /\ OpenIsKnown(phone, fate) /\ TabIs(tab, fate) /\ UNCHANGED fate
  BY DEF ActivityInv, flush
<1> DEFINE refused == [entry EXCEPT !.state = "rejected"]
<1>1. \/ phone' = [phone EXCEPT !.outbox = phone.outbox \ {entry}]
      \/ phone' = [phone EXCEPT !.outbox = (phone.outbox \ {entry}) \cup {refused}]
  BY DEF flush
<1>2. DOMAIN entry = {"op", "state"} /\ entry.op \in Operations /\ fate[entry.op] = "landed"
  BY <1>0 DEF PhoneIs, EntriesAre
<1>3. DOMAIN refused = DOMAIN entry /\ refused.op = entry.op /\ refused.state = "rejected"
  BY <1>2
<1> HIDE DEF refused
<1>4. EntriesAre(phone.outbox \ {entry}, fate) /\ EntriesAre((phone.outbox \ {entry}) \cup {refused}, fate)
  BY <1>0, <1>2, <1>3 DEF PhoneIs, EntriesAre
<1>5. PICK outbox : EntriesAre(outbox, fate) /\ phone' = [phone EXCEPT !.outbox = outbox]
  BY <1>1, <1>4
<1>6. /\ DOMAIN phone' = DOMAIN phone /\ phone'.record = phone.record /\ phone'.lock = phone.lock
      /\ phone'.outbox = outbox /\ phone'.watched = phone.watched
  BY <1>0, <1>5 DEF PhoneIs
<1>7. PhoneIs(phone', fate) /\ OpenIsKnown(phone', fate)
  BY <1>0, <1>5, <1>6 DEF PhoneIs, OpenIsKnown
<1>8. TabIs(tab', fate)
  BY <1>0, <1>7, ReadIs DEF flush
<1> QED
  BY <1>0, <1>7, <1>8, ActivityMoves

\* Released, the payment is watched; the report goes.
LEMMA ReleaseKeeps ==
    ASSUME ActivityAssumption, ActivityInv, release
    PROVE  ActivityInv'
<1>0. PhoneIs(phone, fate) /\ OpenIsKnown(phone, fate) /\ TabIs(tab, fate) /\ UNCHANGED fate
  BY DEF ActivityInv, release
<1>1. CASE phone.lock # "free"
  <2>1. tab' = [tab EXCEPT !.asks = FALSE] /\ phone' = phone
    BY <1>1 DEF release
  <2>2. /\ DOMAIN tab' = DOMAIN tab /\ tab'.record = tab.record /\ tab'.outbox = tab.outbox /\ tab'.account = tab.account
        /\ tab'.landed = tab.landed /\ tab'.report = tab.report /\ tab'.visit = tab.visit
    BY <1>0, <2>1 DEF TabIs
  <2>3. TabIs(tab', fate)
    BY <1>0, <2>2 DEF TabIs
  <2> QED
    BY <1>0, <2>1, <2>3, ActivityMoves
<1>2. CASE phone.lock = "free"
  <2> DEFINE watched == phone.watched \cup (IF isUnresolved(phone.record) THEN {phone.record.op} ELSE {})
             t == [tab EXCEPT !.asks = FALSE, !.report = ReportNone]
  <2>1. phone' = [phone EXCEPT !.record = None, !.watched = watched] /\ tab' = ReadFrom(phone', t)
    BY <1>2 DEF release
  <2>2. watched \subseteq Operations
    BY <1>0 DEF PhoneIs, isUnresolved, RecordIs
  <2>3. \A o \in Operations : fate[o] = "open" => o \in watched
    BY <1>0 DEF OpenIsKnown, isUnresolved
  <2>4. /\ DOMAIN t = DOMAIN tab /\ t.record = tab.record /\ t.outbox = tab.outbox /\ t.account = tab.account
        /\ t.landed = tab.landed /\ t.report = ReportNone /\ t.visit = tab.visit
    BY <1>0 DEF TabIs
  <2> HIDE DEF watched, t
  <2>5. /\ DOMAIN phone' = DOMAIN phone /\ phone'.record = None /\ phone'.lock = phone.lock
        /\ phone'.outbox = phone.outbox /\ phone'.watched = watched
    BY <1>0, <2>1 DEF PhoneIs
  <2>6. PhoneIs(phone', fate)
    BY <1>0, <1>2, <2>2, <2>5 DEF PhoneIs, RecordIs
  <2>7. OpenIsKnown(phone', fate)
    BY <2>3, <2>5 DEF OpenIsKnown
  <2>8. TabIs(t, fate)
    BY <1>0, <2>4, NothingReported DEF TabIs
  <2>9. TabIs(tab', fate)
    BY <2>1, <2>6, <2>8, ReadIs
  <2> QED
    BY <1>0, <2>6, <2>7, <2>9, ActivityMoves
<1> QED
  BY <1>1, <1>2

LEMMA DismissKeeps ==
    ASSUME ActivityAssumption, ActivityInv, dismiss
    PROVE  ActivityInv'
<1>0. PhoneIs(phone, fate) /\ OpenIsKnown(phone, fate) /\ TabIs(tab, fate) /\ UNCHANGED fate
  BY DEF ActivityInv, dismiss
<1>1. PhoneIs(phone', fate) /\ OpenIsKnown(phone', fate)
  <2>1. \/ phone' = phone
        \/ phone.lock = "free" /\ phone.record.phase = "failed" /\ phone' = [phone EXCEPT !.record = None]
    BY DEF dismiss
  <2>2. CASE phone.lock = "free" /\ phone.record.phase = "failed" /\ phone' = [phone EXCEPT !.record = None]
    <3>1. /\ DOMAIN phone' = DOMAIN phone /\ phone'.record = None /\ phone'.lock = phone.lock
          /\ phone'.outbox = phone.outbox /\ phone'.watched = phone.watched
      BY <1>0, <2>2 DEF PhoneIs
    <3> QED
      BY <1>0, <2>2, <3>1 DEF PhoneIs, RecordIs, OpenIsKnown
  <2> QED
    BY <1>0, <2>1, <2>2
<1> DEFINE t == [tab EXCEPT !.report = ReportNone]
<1>2. tab' = ReadFrom(phone', t)
  BY DEF dismiss
<1>3. /\ DOMAIN t = DOMAIN tab /\ t.record = tab.record /\ t.outbox = tab.outbox /\ t.account = tab.account
      /\ t.landed = tab.landed /\ t.report = ReportNone /\ t.visit = tab.visit
  BY <1>0 DEF TabIs
<1> HIDE DEF t
<1>4. TabIs(t, fate)
  BY <1>0, <1>3, NothingReported DEF TabIs
<1>5. TabIs(tab', fate)
  BY <1>1, <1>2, <1>4, ReadIs
<1> QED
  BY <1>0, <1>1, <1>5, ActivityMoves

LEMMA DeathKeeps ==
    ASSUME ActivityAssumption, ActivityInv, AppDies
    PROVE  ActivityInv'
<1>1. UNCHANGED fate /\ phone' = [phone EXCEPT !.lock = "free"] /\ tab' = Unmounted
  BY DEF AppDies
<1> QED
  BY <1>1, LockMoves, UnmountedIs, ActivityMoves

LEMMA ActivityStepKeeps ==
    ASSUME ActivityAssumption, ActivityInv, [ActivityNext]_activityVars
    PROVE  ActivityInv'
<1>1. CASE UNCHANGED activityVars
  BY <1>1 DEF activityVars, ActivityInv
<1>2. CASE Paying
  BY <1>2, PayingKeeps, PayBegins, ChainKeeps DEF Paying
<1>3. CASE ActivityNext /\ ~Paying
  BY <1>3, PeekKeeps, LooksAgainKeeps, LookingKeeps, CheckKeeps, CheckAnswersKeep, FailureKeeps, FlushKeeps, ReleaseKeeps,
     DismissKeeps, DeathKeeps DEF ActivityNext, Visit
<1> QED
  BY <1>1, <1>2, <1>3

LEMMA ActivityAreaMoves ==
    ASSUME [ScreensNext]_screenVars
    PROVE  [ActivityNext]_activityVars
BY DEF ScreensNext, screenVars, OnlySend, OnlyList, OnlyBuy, OnlyLink, OnlyReceive, OnlyActivity, OnlyGroup, OnlyIdentity

\* A card says what is known of its payment, which is the payment of the account in view.
LEMMA ActivityTells ==
    ASSUME ActivityAssumption, ActivityInv
    PROVE  ActivityTellsTruth
<1>0. PhoneIs(phone, fate) /\ OpenIsKnown(phone, fate) /\ TabIs(tab, fate) /\ None \notin Operations
  BY DEF ActivityInv, ActivityAssumption
<1> DEFINE Known(c) ==
             /\ c.says = "failed" => fate[c.of] = "reverted"
             /\ c.says \in {"confirmed", "landed", "queued", "rejected"} => fate[c.of] = "landed"
             /\ c.of # None => Mine
<1>1. ASSUME NEW c \in Cards
      PROVE  Known(c)
  <2>1. CASE tab.report.status # None /\ c = cardForReport(tab.report)
    <3>1. c.says = tab.report.status /\ c.of = tab.report.of
      BY <2>1 DEF cardForReport, OperationCard
    <3> QED
      BY <1>0, <2>1, <3>1 DEF TabIs, ReportIs, Mine
  <2>2. CASE tab.record # None /\ c = cardForRecord(tab.record)
    <3>1. c.says = tab.record.phase /\ c.of = tab.record.op
      BY <2>2 DEF cardForRecord, cardForReport, Report, OperationCard
    <3> QED
      BY <1>0, <2>2, <3>1 DEF TabIs, RecordIs, Mine, RecordPhases
  <2>3. CASE \E o \in tab.landed : c = OperationCard("landed", o, {"dismiss"})
    <3>1. PICK o \in tab.landed : c = OperationCard("landed", o, {"dismiss"})
      BY <2>3
    <3>2. c.says = "landed" /\ c.of = o
      BY <3>1 DEF OperationCard
    <3> QED
      BY <1>0, <3>2 DEF TabIs, Mine
  <2>4. CASE \E entry \in tab.outbox : c = cardForOutbox(entry)
    <3>1. PICK entry \in tab.outbox : c = cardForOutbox(entry)
      BY <2>4
    <3>2. c.says = entry.state /\ c.of = entry.op
      BY <3>1 DEF cardForOutbox, OperationCard
    <3> QED
      BY <1>0, <3>2 DEF TabIs, EntriesAre, Mine
  <2> QED
    BY <2>1, <2>2, <2>3, <2>4 DEF Cards, hideRecorded
<1>2. badgeFor = "none" => \A o \in Operations : StillOpen(o) => o \in phone.watched
  BY <1>0 DEF badgeFor, isUnresolved, OpenIsKnown, StillOpen
<1> QED
  BY <1>1, <1>2 DEF ActivityTellsTruth

-----------------------------------------------------------------------------
(* The page of a group, and the queue of settlements.                      *)

\* The page holds a copy of the debtor's: what it calls settled was settled, and the share that it
\* says has to be paid was not, then.
DetailIsSaid(detailed, settled) ==
    detailed.settled => settled /\ ~detailed.owedByMe

PageIsOf(shownPage, who, settled) ==
    /\ DOMAIN shownPage = {"detail", "load", "sheet", "busy"}
    /\ shownPage.load \in {"done", "loading", "error"}
    /\ shownPage.load = "loading" \/ shownPage.detail # None => who = Debtor
    /\ shownPage.detail # None => DetailIsSaid(shownPage.detail, settled)

OwedIs(debt) == DOMAIN debt = {"decision", "by", "quote", "owedToMe", "members", "invited", "creator", "archived", "gone"}

PassIsOf(walk) == walk # None /\ walk.step \in {"sync", "settle"} => walk.on \in Settlements
PassIs(walk) == walk # None => DOMAIN walk = {"of", "left", "on", "step"}

GroupInv ==
    /\ OwedIs(owed)
    /\ PageIsOf(page, user, owed.by # None)
    /\ PassIs(pass) /\ PassIsOf(pass)

LEMMA GroupBegins ==
    ASSUME GroupScreenInit
    PROVE  GroupInv
<1>1. OwedIs(owed)
  BY DEF GroupScreenInit, Begun, OwedIs
<1>2. PageIsOf(page, user, owed.by # None)
  BY DEF GroupScreenInit, NoPage, PageIsOf
<1> QED
  BY <1>1, <1>2 DEF GroupScreenInit, GroupInv, PassIs, PassIsOf

LEMMA NoPageIsSaid ==
    ASSUME NEW who, NEW settled
    PROVE  PageIsOf(NoPage, who, settled)
BY DEF NoPage, PageIsOf

\* What the service makes of a call leaves the payment of the share alone.
LEMMA HandlingKeepsPayment ==
    ASSUME OwedIs(owed), NEW what, Handled(what) # None
    PROVE  OwedIs(Handled(what)) /\ Handled(what).by = owed.by
BY DEF Handled, OwedIs

LEMMA PageMoves ==
    ASSUME GroupInv, UNCHANGED <<user, pass>>, OwedIs(owed'), owed.by # None => owed'.by # None,
           PageIsOf(page', user, owed.by # None) \/ PageIsOf(page', user, owed'.by # None)
    PROVE  GroupInv'
BY DEF GroupInv, PageIsOf, DetailIsSaid

LEMMA PageNextKeeps ==
    ASSUME GroupInv, GroupPageNext
    PROVE  GroupInv'
<1>0. PageIsOf(page, user, owed.by # None) /\ UNCHANGED <<user, owed, transfer, queue, pass>>
  BY DEF GroupInv, GroupPageNext, fetchDetail, ClosePage, decide, archive, remove, invite, onSettle, CloseSheet,
         handleSendAndSettle
<1>1. CASE fetchDetail
  <2>1. page' = [page EXCEPT !.load = "loading"] /\ user = Debtor
    BY <1>1 DEF fetchDetail
  <2>2. PageIsOf(page', user, owed.by # None)
    BY <1>0, <2>1 DEF PageIsOf
  <2> QED
    BY <1>0, <2>2, PageMoves DEF GroupInv
<1>2. CASE ClosePage
  BY <1>0, <1>2, NoPageIsSaid, PageMoves DEF ClosePage, GroupInv
<1>3. CASE page' # page /\ ~fetchDetail /\ ~ClosePage
  <2>1. (\E what : page' = [page EXCEPT !.busy = what]) \/ (\E open : page' = [page EXCEPT !.sheet = open])
    BY <1>3 DEF GroupPageNext, decide, archive, remove, invite, onSettle, CloseSheet, handleSendAndSettle
  <2>2. PageIsOf(page', user, owed.by # None)
    BY <1>0, <2>1 DEF PageIsOf
  <2> QED
    BY <1>0, <2>2, PageMoves DEF GroupInv
<1> QED
  BY <1>0, <1>1, <1>2, <1>3, PageMoves DEF GroupInv

LEMMA GroupCallKeeps ==
    ASSUME GroupInv, GroupCall
    PROVE  GroupInv'
<1>0. PageIsOf(page, user, owed.by # None) /\ UNCHANGED <<user, pass>> /\ OwedIs(owed)
  BY DEF GroupInv, GroupCall, DetailRead, CallAnswers, CallFails
<1>1. CASE DetailRead
  <2>1. \/ page' = [page EXCEPT !.load = "error"]
        \/ page' = [page EXCEPT !.load = "done"]
        \/ page' = [page EXCEPT !.load = "done", !.detail = Detail]
    BY <1>1 DEF DetailRead
  <2>2. user = Debtor /\ UNCHANGED owed
    BY <1>0, <1>1 DEF DetailRead, PageIsOf
  <2>3. DetailIsSaid(Detail, owed.by # None)
    BY DEF Detail, DetailIsSaid
  <2>4. PageIsOf(page', user, owed.by # None)
    BY <1>0, <2>1, <2>2, <2>3 DEF PageIsOf
  <2> QED
    BY <1>0, <2>2, <2>4, PageMoves
<1>2. ASSUME owed' = owed \/ (Handled(page.busy) # None /\ owed' = Handled(page.busy))
      PROVE  OwedIs(owed') /\ owed'.by = owed.by
  BY <1>0, <1>2, HandlingKeepsPayment
<1>3. CASE CallAnswers
  <2>1. OwedIs(owed') /\ owed'.by = owed.by
    BY <1>2, <1>3 DEF CallAnswers
  <2>2. page' = NoPage \/ page' = [page EXCEPT !.busy = None, !.load = "loading"]
    BY <1>3 DEF CallAnswers
  <2>3. user = Debtor
    BY <1>3 DEF CallAnswers, Answerable
  <2>4. PageIsOf(page', user, owed.by # None)
    BY <1>0, <2>2, <2>3, NoPageIsSaid DEF PageIsOf
  <2> QED
    BY <1>0, <2>1, <2>4, PageMoves
<1>4. CASE CallFails
  <2>1. OwedIs(owed') /\ owed'.by = owed.by
    BY <1>2, <1>4 DEF CallFails
  <2>2. page' = [page EXCEPT !.busy = None]
    BY <1>4 DEF CallFails
  <2>3. PageIsOf(page', user, owed.by # None)
    BY <1>0, <2>2 DEF PageIsOf
  <2> QED
    BY <1>0, <2>1, <2>3, PageMoves
<1> QED
  BY <1>1, <1>3, <1>4 DEF GroupCall

LEMMA GroupServiceKeeps ==
    ASSUME GroupInv, OthersChange \/ QuoteExpires
    PROVE  GroupInv'
<1>1. UNCHANGED <<user, page, pass>> /\ OwedIs(owed)
  BY DEF GroupInv, OthersChange, QuoteExpires
<1>2. OwedIs(owed') /\ owed'.by = owed.by
  BY <1>1 DEF OthersChange, QuoteExpires, OwedIs
<1> QED
  BY <1>1, <1>2, PageMoves DEF GroupInv

LEMMA PassKeeps ==
    ASSUME GroupScreenAssumption, GroupInv, retryPendingSettlements \/ PassStep
    PROVE  GroupInv'
<1>0. PageIsOf(page, user, owed.by # None) /\ OwedIs(owed) /\ PassIs(pass) /\ PassIsOf(pass) /\ UNCHANGED <<user, page>>
  BY DEF GroupInv, retryPendingSettlements, PassStep, PassTakes, PassEnds, Synced, Settled, KeyFails
<1>1. ASSUME PassIs(pass') /\ PassIsOf(pass'), UNCHANGED owed \/ \E t \in Settlements : owed' = [owed EXCEPT !.by = t, !.quote = "none"]
      PROVE  GroupInv'
  <2>1. ASSUME NEW t \in Settlements, owed' = [owed EXCEPT !.by = t, !.quote = "none"]
        PROVE  OwedIs(owed') /\ owed'.by # None
    <3>1. DOMAIN owed' = DOMAIN owed /\ owed'.by = t
      BY <1>0, <2>1 DEF OwedIs
    <3> QED
      BY <1>0, <3>1 DEF OwedIs, GroupScreenAssumption
  <2> QED
    BY <1>0, <1>1, <2>1 DEF GroupInv, PageIsOf, DetailIsSaid
<1>2. CASE retryPendingSettlements
  <2>1. PassIs(pass') /\ PassIsOf(pass') /\ UNCHANGED owed
    BY <1>2 DEF retryPendingSettlements, PassIs, PassIsOf
  <2> QED
    BY <1>1, <2>1
<1>3. CASE PassEnds
  BY <1>1, <1>3 DEF PassEnds, PassIs, PassIsOf
<1>4. ASSUME NEW t \in Settlements, PassTakes(t)
      PROVE  GroupInv'
  <2>1. pass' = [pass EXCEPT !.left = @ \ {t}, !.on = t, !.step = "sync"] /\ UNCHANGED owed
    BY <1>4 DEF PassTakes
  <2>2. DOMAIN pass' = DOMAIN pass /\ pass'.on = t
    BY <1>0, <1>4, <2>1 DEF PassTakes, PassIs
  <2> QED
    BY <1>0, <1>1, <1>4, <2>1, <2>2 DEF PassIs, PassIsOf, PassTakes
<1>5. ASSUME NEW t \in Settlements, Synced(t)
      PROVE  GroupInv'
  <2>1. pass' = [pass EXCEPT !.step = "settle"] /\ UNCHANGED owed /\ pass # None /\ pass.on = t
    BY <1>5 DEF Synced
  <2>2. DOMAIN pass' = DOMAIN pass /\ pass'.on = t
    BY <1>0, <2>1 DEF PassIs
  <2> QED
    BY <1>0, <1>1, <2>1, <2>2 DEF PassIs, PassIsOf
<1>6. ASSUME NEW t \in Settlements, Settled(t)
      PROVE  GroupInv'
  <2>1. pass' = [pass EXCEPT !.step = "next"] /\ owed' = [owed EXCEPT !.by = t, !.quote = "none"] /\ pass # None
    BY <1>6 DEF Settled
  <2>2. DOMAIN pass' = DOMAIN pass /\ pass'.step = "next"
    BY <1>0, <2>1 DEF PassIs
  <2> QED
    BY <1>0, <1>1, <2>1, <2>2 DEF PassIs, PassIsOf
<1>7. CASE KeyFails
  <2>1. pass' = [pass EXCEPT !.step = "next"] /\ pass # None /\ pass.step \in {"sync", "settle"}
    BY <1>7 DEF KeyFails
  <2>2. DOMAIN pass' = DOMAIN pass /\ pass'.step = "next" /\ pass.on \in Settlements
    BY <1>0, <2>1 DEF PassIs, PassIsOf
  <2>3. UNCHANGED owed \/ owed' = [owed EXCEPT !.by = pass.on, !.quote = "none"]
    BY <1>7 DEF KeyFails
  <2> QED
    BY <1>0, <1>1, <2>1, <2>2, <2>3 DEF PassIs, PassIsOf
<1> QED
  BY <1>2, <1>3, <1>4, <1>5, <1>6, <1>7 DEF PassStep

LEMMA GroupStepKeeps ==
    ASSUME GroupScreenAssumption, GroupInv, [GroupScreenNext]_groupVars
    PROVE  GroupInv'
<1>1. ASSUME NEW p, SignsInAs(p)
      PROVE  GroupInv'
  BY <1>1, NoPageIsSaid DEF SignsInAs, GroupInv
<1>2. CASE GroupAppDies
  BY <1>2, NoPageIsSaid DEF GroupAppDies, GroupInv, PassIs, PassIsOf
<1>3. ASSUME UNCHANGED <<user, owed, page, pass>>
      PROVE  GroupInv'
  BY <1>3 DEF GroupInv
<1>4. ASSUME NEW t \in Settlements, ConfirmSettlement(t) \/ Mined(t) \/ NotSent(t) \/ queueSettlement(t)
      PROVE  GroupInv'
  BY <1>3, <1>4 DEF ConfirmSettlement, Mined, NotSent, queueSettlement
<1>5. CASE UNCHANGED groupVars
  BY <1>3, <1>5 DEF groupVars
<1> QED
  BY <1>1, <1>2, <1>4, <1>5, GroupServiceKeeps, PageNextKeeps, GroupCallKeeps, PassKeeps DEF GroupScreenNext

LEMMA GroupMoves ==
    ASSUME [ScreensNext]_screenVars
    PROVE  [GroupScreenNext]_groupVars
BY DEF ScreensNext, screenVars, OnlySend, OnlyList, OnlyBuy, OnlyLink, OnlyReceive, OnlyActivity, OnlyGroup, OnlyIdentity

LEMMA PageTells ==
    ASSUME GroupInv
    PROVE  PageTellsTruth
<1>1. PageIsOf(page, user, owed.by # None)
  BY DEF GroupInv
<1>2. PageShows = "expenses" => user = Debtor
  BY <1>1 DEF PageShows, PageIsOf
<1>3. page.detail # None /\ page.detail.settled => (owed.by # None /\ ShareOffers = {} /\ BalanceRow # "Settle")
  BY <1>1 DEF PageIsOf, DetailIsSaid, ShareOffers, BalanceRow
<1>4. AddButton = "invite" => PeopleShown = 0
  BY DEF AddButton, Alone, PeopleShown
<1> QED
  BY <1>2, <1>3, <1>4 DEF PageTellsTruth

\* Only a settlement takes an entry off the queue.
LEMMA EntriesLeave ==
    ASSUME GroupInv, [GroupScreenNext]_groupVars, NEW e \in queue, e \notin queue'
    PROVE  owed'.by = e.pays
<1>1. queue' = queue \/ (\E t \in Settlements : Settled(t) \/ queueSettlement(t))
  BY DEF GroupScreenNext, groupVars, OthersChange, QuoteExpires, SignsInAs, GroupPageNext, fetchDetail, ClosePage, decide,
         archive, remove, invite, onSettle, CloseSheet, handleSendAndSettle, GroupCall, DetailRead, CallAnswers, CallFails,
         GroupAppDies, ConfirmSettlement, Mined, NotSent, retryPendingSettlements, PassStep, PassTakes, PassEnds, Synced,
         KeyFails
<1>2. PICK t \in Settlements : Settled(t)
  BY <1>1 DEF queueSettlement
<1>3. e = [of |-> pass.of, pays |-> t] /\ owed' = [owed EXCEPT !.by = t, !.quote = "none"]
  BY <1>2 DEF Settled
<1>4. e.pays = t /\ owed'.by = t
  BY <1>3 DEF GroupInv, OwedIs
<1> QED
  BY <1>4

-----------------------------------------------------------------------------
(* What the screens show together.                                         *)

LEMMA SendMoves ==
    ASSUME [ScreensNext]_screenVars
    PROVE  [SendNext]_sendVars
BY DEF ScreensNext, screenVars, OnlySend, OnlyList, OnlyBuy, OnlyLink, OnlyReceive, OnlyActivity, OnlyGroup, OnlyIdentity

LEMMA FeeBegins ==
    ASSUME SendAssumption, SendInit
    PROVE  FeeInv
<1>1. shown.quote = Idle /\ shown.newest = None /\ shown.mine = None
  BY DEF SendInit, Closed
<1> QED
  BY <1>1, InitSound, NewFormIsOfForm DEF FeeInv

LEMMA FeeFollows ==
    ASSUME FeeInv
    PROVE  QuoteIsOfForm /\ NothingAboveShown
BY DEF FeeInv, SendInv, QuoteIsOfForm, OfForm, OfPayment, Here, Subject

\* With every screen of the app there, too: what is signed costs no more than a quarter above the
\* fee that was shown, and fits the balances it was checked against (checkPreparedFee).
THEOREM NothingSignedAbove == ScreensSpec => []NothingAboveShown
<1> USE SendAssumption
<1>1. ScreensInit => FeeInv
  BY FeeBegins DEF ScreensInit
<1>2. FeeInv /\ [ScreensNext]_screenVars => FeeInv'
  BY SendMoves, FeeStep
<1>3. FeeInv => NothingAboveShown
  BY FeeFollows
<1> QED
  BY <1>1, <1>2, <1>3, PTL DEF ScreensSpec

\* An answer on screen is the answer to what stands in the form: the fee to the recipient, token
\* and amount of the send screen (feeEstimator, useNetworkFee), the availability to the handle
\* that is typed (the effect of IdentityScreen).
THEOREM AnswersFitForms == ScreensSpec => []AnswersAreOfForm
<1> USE SendAssumption, IdentityAssumption
<1>1. ScreensInit => FeeInv /\ IdentityInv
  BY FeeBegins, IdentityBegins DEF ScreensInit
<1>2. FeeInv /\ IdentityInv /\ [ScreensNext]_screenVars => FeeInv' /\ IdentityInv'
  BY SendMoves, FeeStep, IdentityMoves, IdentityStepKeeps
<1>3. FeeInv /\ IdentityInv => AnswersAreOfForm
  BY FeeFollows, TypedFollows DEF AnswersAreOfForm
<1> QED
  BY <1>1, <1>2, <1>3, PTL DEF ScreensSpec
\* Whoever signs in and however late the answers come: a list, a balance, nicknames, a share on
\* screen and what a newcomer has typed are of the person they are shown to (the stores of the phone,
\* useOnboardingDraftStore).
THEOREM OwnDataAlways == ScreensSpec => []OnlyOwnData
<1> USE ListsAssumption, IdentityAssumption
<1>1. ScreensInit => ListInv /\ IdentityInv
  BY ListsBegin, IdentityBegins DEF ScreensInit
<1>2. ListInv /\ IdentityInv /\ [ScreensNext]_screenVars => ListInv' /\ IdentityInv'
  BY ListMoves, ListStepKeeps, IdentityMoves, IdentityStepKeeps
<1>3. ListInv /\ IdentityInv => OnlyOwnData
  BY ListsFollow, TypedFollows DEF OnlyOwnData
<1> QED
  BY <1>1, <1>2, <1>3, PTL DEF ScreensSpec

\* A balance nobody has read is not shown as a total.
BalanceIsSaid == wallet.source = None /\ wallet.request > wallet.since /\ wallet.address # None => BalanceView # "total"

\* However requests, sign-ins and restarts overlap: a reading of the balance gives way only to a
\* newer one of the same account, the nicknames of somebody who is not signed in stay, and an
\* entry leaves the queue of settlements with its settlement alone (useWalletStore,
\* useAddressBookStore, settlementRecovery.service).
THEOREM KeptAlways == ScreensSpec => KeptStands
<1> USE ListsAssumption, GroupScreenAssumption
<1>1. ScreensInit => ListInv /\ GroupInv
  BY ListsBegin, GroupBegins DEF ScreensInit
<1>2. ListInv /\ GroupInv /\ [ScreensNext]_screenVars => ListInv' /\ GroupInv'
  BY ListMoves, ListStepKeeps, GroupMoves, GroupStepKeeps
<1>3. ListInv => BalanceIsSaid
  BY UnreadIsSaid DEF BalanceIsSaid
<1>4. ListInv /\ BalanceIsSaid' /\ [ScreensNext]_screenVars =>
        [/\ wallet'.address = wallet.address => wallet'.reading >= wallet.reading
         /\ wallet'.source = None /\ wallet'.request > wallet'.since /\ wallet'.address # None => BalanceView' # "total"]_listVars
  BY ListMoves, ReadingsGrow DEF BalanceIsSaid
<1>5. ListInv /\ [ScreensNext]_screenVars =>
        [/\ \A p \in People \ {person, person'} : BookOf(BookNow'.books, p) = BookOf(BookNow.books, p)
         /\ BookNow'.legacy # BookNow.legacy =>
              /\ BookNow'.legacy = None
              /\ person' # None /\ BookOf(BookNow'.books, person') = BookNow.legacy]_listVars
  BY ListMoves, BooksStay
<1>6. GroupInv /\ [ScreensNext]_screenVars => [\A e \in queue : e \notin queue' => owed'.by = e.pays]_groupVars
  BY GroupMoves, EntriesLeave
<1> QED
  BY <1>1, <1>2, <1>3, <1>4, <1>5, <1>6, PTL DEF ScreensSpec, KeptStands, NewestReadingStands, NicknamesStay, EntryLeavesWhenSettled

\* Whatever happens behind them: what "Send", the card of a merchant, a card of "Activity", the
\* badge of an account, the page of a group and the lists say is so (AmountStep, pay-merchant,
\* operationPresentation, unsettledPayments, group-details, the tabs that list).
THEOREM TruthAlways == ScreensSpec => []ScreensTellTruth
<1> USE SendAssumption, ActivityAssumption, GroupScreenAssumption, ListsAssumption
<1> DEFINE Inv == TellInv /\ ActivityInv /\ GroupInv /\ ListInv
<1>1. ScreensInit => Inv
  BY FeeBegins, TellBegins, ActivityBegins, GroupBegins, ListsBegin DEF ScreensInit
<1>2. Inv /\ [ScreensNext]_screenVars => Inv'
  <2> SUFFICES ASSUME Inv, [ScreensNext]_screenVars
               PROVE  Inv'
    OBVIOUS
  <2>1. TellInv' /\ ActivityInv'
    BY SendMoves, TellStep, ActivityAreaMoves, ActivityStepKeeps
  <2>2. GroupInv' /\ ListInv'
    BY GroupMoves, GroupStepKeeps, ListMoves, ListStepKeeps
  <2> QED
    BY <2>1, <2>2
<1>3. Inv => ScreensTellTruth
  BY TellFollows, ActivityTells, PageTells, ListsTell DEF ScreensTellTruth
<1> HIDE DEF Inv
<1> QED
  BY <1>1, <1>2, <1>3, PTL DEF ScreensSpec
=============================================================================
