------------------------------ MODULE SendScreen ------------------------------
(***************************************************************************)
(* The two screens that start a payment, "Send" and "Pay a merchant": the  *)
(* form, the fee quote that follows it, the review, the confirmation, and  *)
(* what is made of the answer of the wallet. The wallet itself (how a      *)
(* payment is prepared, submitted and looked for) is PaymentOperations;    *)
(* here it is the steps the screens wait for.                              *)
(*                                                                         *)
(* A screen forgets everything when it closes, except what it has started: *)
(* an estimate or a payment under way goes on, and its answer finds either *)
(* the screen that asked for it or nobody.                                 *)
(***************************************************************************)
EXTENDS Integers, FiniteSets, ScreenCommon

CONSTANTS
    Recipients, Tokens,
    FeeToken,       \* the token fees are paid in, USDC
    Amounts,        \* amounts in base units
    TooFine,        \* a typed amount with more decimals than the token has
    Fees,           \* fees in base units of FeeToken
    NoFee,          \* no real fee: absent, zero, sponsored or in another token
    Cent,           \* base units of FeeToken in one cent
    Wallets,        \* bound: what a reading of the balances may bring
    Payments,       \* bound: payments under way at one time
    Runs            \* bound: estimates on their way at one time

ASSUME SendAssumption ==
    /\ FeeToken \in Tokens
    /\ Amounts \subseteq Nat \ {0} /\ Fees \subseteq Nat \ {0} /\ Cent \in Nat \ {0}
    /\ NoFee \notin Fees /\ TooFine \notin Amounts
    /\ Wallets \subseteq [Tokens -> Nat \cup {Unread}] /\ Unread \notin Nat
    /\ None \notin Recipients \cup Runs \cup Payments

VARIABLES
    shown,      \* the screen in view and all it holds
    balance,    \* balance[t], as the wallet store has it
    asked,      \* asked[r]: what estimate r was asked for, None when there is none
    paid        \* paid[p]: the payment under way as p, or what became of the last one

sendVars == <<shown, balance, asked, paid>>

-----------------------------------------------------------------------------
\* networkFee.ts: the largest fee a payment may cost is what counts.

Tolerance == 25
Max0(n) == IF n > 0 THEN n ELSE 0
isUsableFee(fee) == fee # NoFee
feeChangedTooMuch(was, actual) == actual * 100 > was * (100 + Tolerance)
maxSendable(units, fee) == Max0(units - fee)

\* Cents are rounded up; less than one is said in words.
formatNetworkFee(fee) == IF ~isUsableFee(fee) THEN "Unavailable"
                         ELSE IF fee < Cent THEN "less than $0.01" ELSE "~$"
ShownCents(fee) == (fee + Cent - 1) \div Cent

checkFunds(amount, token, funds, fee) ==
    IF token = FeeToken THEN IF amount + fee <= funds[token] THEN "ok" ELSE "amount-and-fee"
                        ELSE IF fee <= funds[FeeToken] THEN "ok" ELSE "fee"

\* Without a fee, an amount and both balances there is nothing honest to say.
assessSend(amount, token, fee) ==
    IF ~isUsableFee(fee) \/ amount \in {None, TooFine} \/ Unread \in {balance[token], balance[FeeToken]}
    THEN "ok" ELSE checkFunds(amount, token, balance, fee)

\* Defect: the fee of the prepared payment need only be affordable.
AnyFeeAffordable(fee, guard) ==
    IF ~isUsableFee(fee) \/ guard.amount = TooFine THEN "FEE_UNAVAILABLE"
    ELSE IF checkFunds(guard.amount, guard.token, guard.funds, fee) = "ok" THEN "ok" ELSE "FEE_INSUFFICIENT"

\* The quote on the payment the wallet has prepared, against what was confirmed.
checkPreparedFee(fee, guard) ==
    IF ~isUsableFee(fee) \/ guard.amount = TooFine THEN "FEE_UNAVAILABLE"
    ELSE IF guard.fee = NoFee THEN "FEE_CONFIRM"
    ELSE IF feeChangedTooMuch(guard.fee, fee) THEN "FEE_CHANGED"
    ELSE CASE checkFunds(guard.amount, guard.token, guard.funds, fee) = "ok" -> "ok"
           [] checkFunds(guard.amount, guard.token, guard.funds, fee) = "fee" -> "FEE_INSUFFICIENT"
           [] OTHER -> "FEE_CHANGED"

-----------------------------------------------------------------------------
\* The fee quote: for whom it is (`of`) is what the code leaves to its closures.

Quote(status, fee, of) == [status |-> status, fee |-> fee, of |-> of]
Idle == Quote("idle", NoFee, None)
Closed == [at |-> "home", to |-> None, token |-> FeeToken, amount |-> None, fixed |-> FALSE,
           lapsed |-> FALSE, quote |-> Idle, newest |-> None, review |-> FALSE, swipe |-> "rest",
           mine |-> None, last |-> None, unknown |-> FALSE,
           wallet |-> FALSE]

AtForm == shown.at \in {"amount", "merchant"}
Busy == shown.mine # None
Subject == <<shown.to, shown.token>>
MaxFee == IF shown.quote.status = "ready" THEN shown.quote.fee ELSE NoFee
FreeRuns == {r \in Runs : asked[r] = None}
NextRun == CHOOSE r \in FreeRuns : TRUE

\* An estimator for the recipient and token of `form`; the one before it is cancelled. A new
\* estimator runs at once, and only the newest run may change the quote.
Estimating(form) ==
    IF form.to = None \/ ~form.wallet
    THEN /\ shown' = [form EXCEPT !.quote = Idle, !.newest = None]
         /\ UNCHANGED asked
    ELSE /\ FreeRuns # {}
         /\ shown' = [form EXCEPT !.quote = Quote("loading", NoFee, <<form.to, form.token>>), !.newest = NextRun]
         /\ asked' = [asked EXCEPT ![NextRun] = <<form.to, form.token>>]

\* The form changes; what is asked changes with the recipient or the token.
Edit(form) ==
    IF <<form.to, form.token>> = Subject THEN shown' = form /\ UNCHANGED asked ELSE Estimating(form)

\* refresh: ask again, if there is an estimator.
Refresh(form) ==
    IF form.wallet /\ form.to # None THEN Estimating(form) ELSE shown' = form /\ UNCHANGED asked

\* accept: the exact fee of a prepared payment is shown as it is.
Accept(form, fee, of) == /\ shown' = [form EXCEPT !.quote = Quote("ready", fee, of), !.newest = None]
                         /\ UNCHANGED asked

-----------------------------------------------------------------------------
\* What the screens show.

FundsMessage == assessSend(shown.amount, shown.token, MaxFee) # "ok"

\* The amount is above zero and within a balance that has been read.
Affordable == /\ shown.amount # None
              /\ balance[shown.token] # Unread
              /\ IF shown.amount = TooFine THEN shown.at = "amount" ELSE shown.amount <= balance[shown.token]

CanSend == /\ Affordable
           /\ shown.quote.status \in {"ready", "unavailable"}
           /\ ~FundsMessage
           /\ ~Busy /\ ~shown.unknown
           /\ shown.wallet /\ shown.to # None

CanConfirm == shown.review /\ shown.quote.status \in {"ready", "unavailable"} /\ ~FundsMessage /\ ~Busy

FeeLine == CASE shown.quote.status = "loading" -> "Estimating fee"
             [] shown.quote.status = "ready" -> formatNetworkFee(shown.quote.fee)
             [] shown.quote.status = "unavailable" -> "Not estimated yet"
             [] OTHER -> "-"

\* "Leaves your account" on the review: the largest sum, where it can be told.
LeavesAccount == IF MaxFee # NoFee /\ shown.amount \notin {None, TooFine}
                 THEN IF shown.token = FeeToken THEN shown.amount + MaxFee ELSE MaxFee
                 ELSE Unread

ConfirmLabel == IF shown.quote.status = "unavailable" THEN "See exact fee" ELSE "Confirm and pay"

BalanceLine == IF balance[shown.token] = Unread THEN "Balance unavailable" ELSE "Balance"

\* The percentages; the largest amount of the fee token waits for a fee.
QuickOffers == IF shown.at # "amount" \/ shown.fixed \/ Busy THEN {}
               ELSE {"25%", "50%", "75%"} \cup
                    (IF shown.token = FeeToken /\ shown.quote.status # "ready" THEN {} ELSE {"MAX"})

Banner ==
    IF shown.unknown THEN "Status unknown. Do not send again."
    ELSE IF Busy THEN "Still verifying your transfer" ELSE "none"

SwipeLabel ==
    IF Busy THEN "Sending Transaction..." ELSE IF shown.unknown THEN "Check Activity first"
    ELSE IF ~shown.wallet THEN "Wallet Not Connected"
    ELSE IF shown.amount # None /\ ~Affordable THEN "Insufficient balance"
    ELSE IF FundsMessage THEN "Not enough USDC for the fee"
    ELSE IF shown.quote.status = "loading" THEN "Estimating fee" ELSE "Slide right to send"

\* The warnings on the send screen, and what the merchant's form says next to its button.
Warnings == (IF FundsMessage THEN {"funds"} ELSE {})
    \cup (IF shown.amount # None /\ ~Affordable THEN {"Insufficient balance"} ELSE {})

MerchantHints == (IF shown.to = None THEN {"Invalid Base address"} ELSE {})
    \cup (IF balance[shown.token] = Unread THEN {"Balance unavailable", "Try again"} ELSE {})
    \cup (IF ~shown.wallet THEN {"Connecting to wallet"} ELSE {})
    \cup (IF shown.unknown THEN {"Open Activity"} ELSE {})

ReviewNotice == IF FundsMessage THEN "funds"
                ELSE IF shown.quote.status = "unavailable" THEN "the exact fee comes first" ELSE "none"

-----------------------------------------------------------------------------
\* Opening, editing, leaving.

SendInit ==
    /\ shown = Closed
    /\ balance = [t \in Tokens |-> Unread]
    /\ asked = [r \in Runs |-> None]
    /\ paid = [p \in Payments |-> None]

\* useSmartAccountService: the service of a screen is built, or built anew after the wallet or
\* the account changed. A new service is a new estimator.
ServiceChanges(built) ==
    /\ AtForm /\ (built \/ shown.wallet)
    /\ Estimating([shown EXCEPT !.wallet = built])
    /\ UNCHANGED <<balance, paid>>

\* The send screen opens for a chosen contact, for a debt (a fixed amount of the fee token, from
\* a quote that lapses), or to choose a recipient.
Open(at, to, amount) ==
    /\ shown.at = "home"
    /\ shown' = [Closed EXCEPT !.at = at, !.to = to, !.amount = amount, !.fixed = (amount # None)]
    /\ UNCHANGED <<balance, asked, paid>>

OpenSend == \/ \E to \in Recipients, amount \in Amounts \cup {None} : Open("amount", to, amount)
            \/ Open("recipient", None, None)
OpenMerchant == Open("merchant", None, None)

handleSelectRecipient(to) ==
    /\ shown.at = "recipient"
    /\ Edit([Closed EXCEPT !.at = "amount", !.to = to])
    /\ UNCHANGED <<balance, paid>>

\* The form behind the review cannot be touched; the merchant's form stays open while paying.
Editable == AtForm /\ ~shown.review /\ (shown.at = "merchant" \/ (~Busy /\ ~shown.fixed))

handleAmountChange(amount) ==
    /\ Editable
    /\ shown' = [shown EXCEPT !.amount = amount]
    /\ UNCHANGED <<balance, asked, paid>>

\* MAX of the fee token keeps the largest fee back; of another token it is the whole balance.
handleQuickAmount ==
    /\ ~shown.review /\ "MAX" \in QuickOffers /\ balance[shown.token] # Unread
    /\ LET most == IF shown.token = FeeToken THEN maxSendable(balance[FeeToken], MaxFee) ELSE balance[shown.token]
       IN  shown' = [shown EXCEPT !.amount = IF most = 0 THEN None ELSE most]
    /\ UNCHANGED <<balance, asked, paid>>

\* "Send max": offered when the amount and the fee do not both fit.
SendMax ==
    /\ shown.at = "amount" /\ ~shown.review /\ ~shown.fixed /\ ~Busy /\ Affordable /\ FundsMessage
    /\ shown.token = FeeToken /\ maxSendable(balance[FeeToken], MaxFee) > 0
    /\ shown' = [shown EXCEPT !.amount = maxSendable(balance[FeeToken], MaxFee)]
    /\ UNCHANGED <<balance, asked, paid>>

handleTokenSelect(token) ==
    /\ Editable /\ token # shown.token
    /\ Edit([shown EXCEPT !.token = token, !.amount = IF shown.at = "merchant" THEN None ELSE shown.amount])
    /\ UNCHANGED <<balance, paid>>

TypeRecipient(to) ==
    /\ shown.at = "merchant" /\ Editable
    /\ Edit([shown EXCEPT !.to = to])
    /\ UNCHANGED <<balance, paid>>

\* What a text on the clipboard may say: an address, and perhaps a token and an amount.
PaymentRequests == [to : Recipients, token : Tokens, amount : Amounts \cup {None}]

\* The clipboard answers whenever it does after a press, whatever the screen shows by then. A
\* request without a valid address, for another network or for an unknown token changes nothing.
pastePaymentRequest(request) ==
    /\ shown.at = "merchant"
    /\ Edit([shown EXCEPT !.to = request.to, !.token = request.token,
                          !.amount = IF request.amount = None THEN shown.amount ELSE request.amount])
    /\ UNCHANGED <<balance, paid>>

\* Balances are read when a screen opens and on request; nothing comes of a failed reading. The
\* controls that rest while a reading is under way are left at work.
BalancesRead(read) == /\ AtForm
                      /\ balance' = read
                      /\ UNCHANGED <<shown, asked, paid>>

\* The quote of the debt runs out.
QuoteLapses == /\ shown.fixed /\ ~shown.lapsed
               /\ shown' = [shown EXCEPT !.lapsed = TRUE]
               /\ UNCHANGED <<balance, asked, paid>>

\* Back, the cross, and "Leave for Activity" once the person has confirmed leaving a payment
\* under way. Back from the amount leads to the choice of a recipient.
handleBack == /\ shown.at = "amount" /\ ~Busy /\ ~shown.review
              /\ shown' = [Closed EXCEPT !.at = "recipient"]
              /\ UNCHANGED <<balance, asked, paid>>

handleClose == /\ shown.at # "home" /\ ~shown.review
               /\ shown' = Closed
               /\ UNCHANGED <<balance, asked, paid>>

-----------------------------------------------------------------------------
\* Estimates.

\* estimateFee: a real fee, or the error that stands for none.
Estimates == Fees \cup {NoFee}

\* Defect: every run changes the quote.
AnyEstimateAnswers(r, fee) ==
    /\ asked[r] # None
    /\ asked' = [asked EXCEPT ![r] = None]
    /\ shown' = [shown EXCEPT !.quote = Quote(IF isUsableFee(fee) THEN "ready" ELSE "unavailable", fee, asked[r]),
                              !.newest = None]
    /\ UNCHANGED <<balance, paid>>

\* Only the newest run may change the quote.
EstimateAnswers(r, fee) ==
    /\ asked[r] # None
    /\ asked' = [asked EXCEPT ![r] = None]
    /\ shown' = IF r = shown.newest
                THEN [shown EXCEPT !.quote = Quote(IF isUsableFee(fee) THEN "ready" ELSE "unavailable", fee, asked[r]),
                                   !.newest = None]
                ELSE shown
    /\ UNCHANGED <<balance, paid>>

refreshFee == /\ AtForm /\ shown.quote.status = "unavailable"
              /\ Busy => (shown.at = "merchant" /\ ~shown.review)
              /\ Refresh(shown)
              /\ UNCHANGED <<balance, paid>>

-----------------------------------------------------------------------------
\* The review and the confirmation.

\* The thumb reaches the end; the screen is told 300 ms later, whatever has changed by then.
Swipe == /\ shown.at = "amount" /\ ~shown.review /\ shown.swipe = "rest" /\ CanSend
         /\ shown' = [shown EXCEPT !.swipe = "timer"]
         /\ UNCHANGED <<balance, asked, paid>>

settlementNeedsUpdate == shown.fixed /\ (shown.token # FeeToken \/ shown.lapsed)

handleSendComplete ==
    /\ shown.swipe = "timer"
    /\ IF settlementNeedsUpdate THEN shown' = [shown EXCEPT !.swipe = "rest"] /\ UNCHANGED asked
       ELSE IF ~CanSend THEN shown' = [shown EXCEPT !.swipe = "done"] /\ UNCHANGED asked
       ELSE Refresh([shown EXCEPT !.swipe = "done", !.review = TRUE])
    /\ UNCHANGED <<balance, paid>>

openReview == /\ shown.at = "merchant" /\ ~shown.review /\ CanSend
              /\ Refresh([shown EXCEPT !.review = TRUE])
              /\ UNCHANGED <<balance, paid>>

closeAddressReview == /\ shown.review /\ ~Busy
                      /\ shown' = [shown EXCEPT !.review = FALSE, !.swipe = "rest"]
                      /\ UNCHANGED <<balance, asked, paid>>

Waits(p) == paid[p] # None /\ paid[p].step \in {"asked", "signed", "accepted"}

\* What goes to the wallet, and what the review showed as it was confirmed.
Request == [from |-> shown.at, to |-> shown.to, token |-> shown.token, amount |-> shown.amount,
            fee |-> MaxFee,
            funds |-> [t \in Tokens |-> IF balance[t] = Unread THEN 0 ELSE balance[t]],
            step |-> "asked", cost |-> NoFee]

Confirmed(p) == /\ shown' = [shown EXCEPT !.review = FALSE, !.mine = p, !.last = p]
                /\ paid' = [paid EXCEPT ![p] = Request]

handleConfirmAddressAndSend(p) ==
    /\ shown.at = "amount" /\ CanConfirm /\ CanSend /\ ~Waits(p)
    /\ IF settlementNeedsUpdate
       THEN shown' = [shown EXCEPT !.review = FALSE, !.swipe = "rest"] /\ UNCHANGED paid
       ELSE Confirmed(p)
    /\ UNCHANGED <<balance, asked>>

pay(p) == /\ shown.at = "merchant" /\ CanConfirm /\ CanSend /\ ~Waits(p)
          /\ Confirmed(p)
          /\ UNCHANGED <<balance, asked>>

-----------------------------------------------------------------------------
\* The payment, as its screen sees it (transaction.service, smartAccount.service).

\* What the transaction store keeps of a payment: for one that is over, what became of it.
Over(p, step) == paid' = [paid EXCEPT ![p] = [step |-> step]]

\* The screen that waits for p, if it is still there.
Here(p) == shown.mine = p
Answered == [shown EXCEPT !.mine = None]

\* "Payment sent", and home, once: also for who has left, wherever they are by now.
leaveSendFlow(p) == shown' = IF paid[p].step = "accepted" THEN shown ELSE Closed

\* Nothing has been sent: the screen shows the exact fee, or asks for a new one, and the review
\* opens again.
Refused(p, verdict, fee) ==
    /\ Over(p, "refused")
    /\ IF ~Here(p) THEN UNCHANGED <<shown, asked>>
       ELSE IF verdict = "FEE_CONFIRM"
       THEN Accept([Answered EXCEPT !.review = TRUE], fee, <<paid[p].to, paid[p].token>>)
       ELSE Refresh([Answered EXCEPT !.review = TRUE])

\* The wallet has prepared the payment, at a fee it names.
Prepared(p, fee) ==
    /\ Waits(p) /\ paid[p].step = "asked"
    /\ LET verdict == checkPreparedFee(fee, paid[p])
       IN  \/ /\ verdict = "ok"
              /\ paid' = [paid EXCEPT ![p].step = "signed", ![p].cost = fee]
              /\ UNCHANGED <<shown, asked>>
           \/ verdict # "ok" /\ Refused(p, verdict, fee)
    /\ UNCHANGED balance

\* The provider refuses the payment because the fee cannot be paid from the account.
FeeRefused(p) == /\ Waits(p) /\ paid[p].step # "accepted"
                 /\ Refused(p, "FEE_INSUFFICIENT", NoFee)
                 /\ UNCHANGED balance

\* The services are on another network, the wallet refuses, the fee service is down.
Fails(p) ==
    /\ Waits(p)
    /\ Over(p, "failed")
    /\ shown' = IF Here(p) THEN [Answered EXCEPT !.swipe = "rest"] ELSE shown
    /\ UNCHANGED <<balance, asked>>

\* Defect: a payment nobody can tell about ends like one that failed.
StaysUnsaid(p) ==
    /\ Waits(p)
    /\ Over(p, "unknown")
    /\ shown' = IF Here(p) THEN [Answered EXCEPT !.swipe = "rest"] ELSE shown
    /\ UNCHANGED <<balance, asked>>

\* It may have been sent: another payment is open, or nobody can tell what became of this one.
StaysUnknown(p) ==
    /\ Waits(p)
    /\ Over(p, "unknown")
    /\ shown' = IF Here(p) THEN [Answered EXCEPT !.unknown = TRUE, !.swipe = "rest"] ELSE shown
    /\ UNCHANGED <<balance, asked>>

\* Accepted and on record: it cannot be sent twice any more.
Accepted(p) ==
    /\ Waits(p) /\ paid[p].step = "signed"
    /\ paid' = [paid EXCEPT ![p].step = "accepted"]
    /\ IF paid[p].from = "amount" THEN leaveSendFlow(p) ELSE UNCHANGED shown
    /\ UNCHANGED <<balance, asked>>

\* Mined, or answered from an earlier payment. The merchant's form stays, without its amount.
Succeeds(p) ==
    /\ Waits(p) /\ paid[p].step \in {"signed", "accepted"}
    /\ Over(p, "done")
    /\ IF paid[p].from = "amount" THEN leaveSendFlow(p)
       ELSE shown' = IF Here(p) THEN [Answered EXCEPT !.amount = None] ELSE shown
    /\ UNCHANGED <<balance, asked>>

-----------------------------------------------------------------------------
SendForm ==
    \/ OpenSend \/ OpenMerchant \/ handleBack \/ handleClose
    \/ \E to \in Recipients : handleSelectRecipient(to)
    \/ \E amount \in Amounts \cup {None, TooFine} : handleAmountChange(amount)
    \/ handleQuickAmount \/ SendMax
    \/ \E token \in Tokens : handleTokenSelect(token)
    \/ \E to \in Recipients \cup {None} : TypeRecipient(to)
    \/ \E request \in PaymentRequests : pastePaymentRequest(request)
    \/ QuoteLapses
    \/ refreshFee \/ Swipe \/ openReview \/ closeAddressReview
    \/ \E p \in Payments : handleConfirmAddressAndSend(p) \/ pay(p)

Answers ==
    \/ \E built \in BOOLEAN : ServiceChanges(built)
    \/ \E read \in Wallets : BalancesRead(read)
    \/ handleSendComplete
    \/ \E r \in Runs, fee \in Estimates : EstimateAnswers(r, fee)

Outcome(p) == \/ \E fee \in Fees \cup {NoFee} : Prepared(p, fee)
              \/ FeeRefused(p) \/ Fails(p) \/ StaysUnknown(p) \/ Succeeds(p)

SendNext == SendForm \/ Answers \/ (\E p \in Payments : Outcome(p) \/ Accepted(p))

SendSpec == SendInit /\ [][SendNext]_sendVars

-----------------------------------------------------------------------------
\* Properties.

SendTypeOK ==
    /\ shown.at \in {"home", "recipient", "amount", "merchant"}
    /\ shown.to \in Recipients \cup {None} /\ shown.token \in Tokens
    /\ shown.amount \in Nat \cup {None, TooFine}
    /\ shown.quote.fee \in Fees \cup {NoFee}
    /\ balance \in [Tokens -> Nat \cup {Unread}]
    /\ asked \in [Runs -> (Recipients \X Tokens) \cup {None}]

Signed(p) == Waits(p) /\ paid[p].step # "asked"

\* What is signed costs no more than a quarter above the fee the review showed, a fee was shown,
\* and the amount and the fee fit the balances the review was checked against (checkPreparedFee,
\* on every way there: an estimate, an exact fee shown in its place, a fee that changed).
NothingAboveShown ==
    \A p \in Payments : Signed(p) =>
        /\ paid[p].fee # NoFee /\ paid[p].amount # TooFine
        /\ 100 * paid[p].cost <= 125 * paid[p].fee
        /\ paid[p].token = FeeToken => paid[p].amount + paid[p].cost <= paid[p].funds[FeeToken]
        /\ paid[p].cost <= paid[p].funds[FeeToken]

\* The fee on the send screen was asked for the recipient and the token on the screen, and the
\* estimate it waits for is for them (feeEstimator, useNetworkFee): an answer for an earlier
\* recipient or token is dropped, however late it comes.
QuoteIsOfForm ==
    /\ shown.at = "amount" /\ shown.quote.fee # NoFee => shown.quote.of = Subject
    /\ shown.newest # None => (asked[shown.newest] = Subject /\ shown.quote.status = "loading")
    /\ shown.at = "amount" => \A p \in Payments : Here(p) => <<paid[p].to, paid[p].token>> = Subject

\* A screen never invites to pay again after a payment nobody can tell the outcome of, names no
\* fee that is not one, and rounds the fee it names up.
ScreenTellsTruth ==
    /\ shown.last # None /\ paid[shown.last].step = "unknown" =>
          /\ Banner = "Status unknown. Do not send again."
          /\ SwipeLabel # "Slide right to send" /\ ~CanSend
          /\ shown.at = "merchant" => "Open Activity" \in MerchantHints
    /\ FeeLine # "Unavailable"
    /\ MaxFee # NoFee => ShownCents(MaxFee) * Cent >= MaxFee
    /\ CanConfirm /\ CanSend /\ ConfirmLabel = "Confirm and pay" =>
          /\ BalanceLine # "Balance unavailable" /\ Warnings = {} /\ ReviewNotice = "none"
          /\ (shown.token = FeeToken /\ LeavesAccount # Unread) => LeavesAccount <= balance[FeeToken]
=============================================================================
