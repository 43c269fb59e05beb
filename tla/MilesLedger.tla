---------------------------- MODULE MilesLedger -----------------------------
(***************************************************************************)
(* Miles: backend/services/card/cardEvents.service.ts (what a card event   *)
(* does) over backend/services/rewards.service.ts (the entries).           *)
(*                                                                         *)
(* The provider sends an event until it is answered, perhaps several times *)
(* and in any order.  Handling it is a chain of awaits: has it been        *)
(* handled, who is it for and on which plan, the entry, the mark that it   *)
(* was handled; each is an action and "call" remembers what was read.  An  *)
(* entry has one row per purchase or redemption (the unique key of         *)
(* MilesEntry).  Taking back and redeeming each run in one transaction     *)
(* under the user's lock and are one action.  Months are left out.         *)
(***************************************************************************)
EXTENDS Integers, FiniteSetsExt

CONSTANTS
    Users, Events, Purchases, Redemptions,   \* identifiers
    Spends,     \* amounts of purchases, in cents
    Rates,      \* miles per dollar of the plans
    Prices,     \* miles that something costs
    Calls,      \* deliveries that can be handled at once
    InOrder,    \* whether a refund is sent only once its purchase was answered
    MayFail,    \* whether a delivery may die half way
    None

ASSUME MilesAssumption ==
    /\ Spends \subseteq Nat /\ Rates \subseteq Nat /\ Prices \subseteq Nat \ {0}
    /\ InOrder \in BOOLEAN /\ MayFail \in BOOLEAN
    /\ None \notin Users \union Events

VARIABLES
    gone,       \* users who deleted their account
    plan,       \* the rate of each user's plan
    bought,     \* purchases made with the card, or None
    event,      \* events the provider has sent, or None
    handled,    \* rows of CardEvent: for whom each event was handled
    earned,     \* by purchase, the entry that credits it
    reversed,   \* by purchase, the entry that takes it back
    redeemed,   \* by redemption, the entry that spends miles
    call        \* deliveries half way

outside == <<gone, plan, bought, event>>
entries == <<earned, reversed, redeemed>>
vars == <<outside, handled, entries, call>>

Event == [type : {"purchase", "refund", "other"}, purchase : Purchases]
Entry == [user : Users, miles : Nat]
Purchase == [user : Users, spend : Nat]
Mark == [for : Users \union {None}]
Call == [event : Events, step : {"find", "write", "mark"},
         user : Users \union {None}, rate : Nat]

ASSUME RecordAssumption == None \notin Entry \union Event \union Purchase \union Mark \union Call

Init ==
    /\ gone = {}
    /\ plan \in [Users -> Rates]
    /\ bought = [p \in Purchases |-> None]
    /\ event = [e \in Events |-> None]
    /\ handled = [e \in Events |-> None]
    /\ earned = [p \in Purchases |-> None]
    /\ reversed = [p \in Purchases |-> None]
    /\ redeemed = [r \in Redemptions |-> None]
    /\ call = [c \in Calls |-> None]

\* Whole dollars only, rounded down.
MilesForSpend(spend, rate) == (spend \div 100) * rate

Sum(entry, u) ==
    MapThenSumSet(LAMBDA k : entry[k].miles,
                  {k \in DOMAIN entry : entry[k] # None /\ entry[k].user = u})

Total(u) == Sum(earned, u) - Sum(reversed, u) - Sum(redeemed, u)

Balance(u) == IF Total(u) > 0 THEN Total(u) ELSE 0

-----------------------------------------------------------------------------
(* The card, the provider, the subscription.                               *)

Buy(p, u, spend) ==
    /\ bought[p] = None /\ u \notin gone
    /\ bought' = [bought EXCEPT ![p] = [user |-> u, spend |-> spend]]
    /\ UNCHANGED <<gone, plan, event, handled, entries, call>>

Answered(p) ==
    \E e \in Events : event[e] # None /\ handled[e] # None
                      /\ event[e].type = "purchase" /\ event[e].purchase = p

Emit(e, type, p) ==
    /\ event[e] = None /\ bought[p] # None
    /\ type = "refund" /\ InOrder => Answered(p)
    /\ event' = [event EXCEPT ![e] = [type |-> type, purchase |-> p]]
    /\ UNCHANGED <<gone, plan, bought, handled, entries, call>>

ChangePlan(u, rate) ==
    /\ u \notin gone /\ plan[u] # rate
    /\ plan' = [plan EXCEPT ![u] = rate]
    /\ UNCHANGED <<gone, bought, event, handled, entries, call>>

-----------------------------------------------------------------------------
(* Handling an event.                                                      *)

Proceed(c, step) == call' = [call EXCEPT ![c].step = step]

\* An event that was handled is answered without another word.
Receive(c, e) ==
    /\ event[e] # None /\ handled[e] = None
    /\ call[c] = None
    /\ call' = [call EXCEPT ![c] =
          [event |-> e, step |-> IF event[e].type = "other" THEN "mark" ELSE "find",
           user |-> None, rate |-> 0]]
    /\ UNCHANGED <<outside, handled, entries>>

At(c, step) == call[c] # None /\ call[c].step = step

FindUser(c) ==
    /\ At(c, "find")
    /\ LET u == bought[event[call[c].event].purchase].user
       IN call' = [call EXCEPT ![c] =
            IF u \in gone THEN [@ EXCEPT !.step = "mark"]
            ELSE [@ EXCEPT !.step = "write", !.user = u, !.rate = plan[u]]]
    /\ UNCHANGED <<outside, handled, entries>>

\* Defect: a second delivery rewrites the entry.
CreditAgain(c) ==
    /\ At(c, "write") /\ event[call[c].event].type = "purchase"
    /\ LET p == event[call[c].event].purchase
       IN earned' = [earned EXCEPT ![p] =
            [user |-> call[c].user, miles |-> MilesForSpend(bought[p].spend, call[c].rate)]]
    /\ Proceed(c, "mark")
    /\ UNCHANGED <<outside, handled, reversed, redeemed>>

\* creditSpend
Credit(c) ==
    /\ At(c, "write") /\ event[call[c].event].type = "purchase"
    /\ LET p == event[call[c].event].purchase
       IN earned' = [earned EXCEPT ![p] =
            IF @ # None THEN @
            ELSE [user |-> call[c].user, miles |-> MilesForSpend(bought[p].spend, call[c].rate)]]
    /\ Proceed(c, "mark")
    /\ UNCHANGED <<outside, handled, reversed, redeemed>>

\* Defect: all that was earned is taken back.
TakeAll(p, u) == earned[p].miles

\* "As far as the balance allows".
Take(p, u) == IF earned[p].miles < Balance(u) THEN earned[p].miles ELSE Balance(u)

\* Defect: with nothing to take, nothing is written.
ReversibleIfRich(p, u) ==
    earned[p] # None /\ earned[p].user = u /\ reversed[p] = None /\ Balance(u) > 0

Reversible(p, u) == earned[p] # None /\ earned[p].user = u /\ reversed[p] = None

\* reverseSpend
Reverse(c) ==
    /\ At(c, "write") /\ event[call[c].event].type = "refund"
    /\ LET p == event[call[c].event].purchase
           u == call[c].user
       IN IF Reversible(p, u)
          THEN reversed' = [reversed EXCEPT ![p] = [user |-> u, miles |-> Take(p, u)]]
          ELSE UNCHANGED reversed
    /\ Proceed(c, "mark")
    /\ UNCHANGED <<outside, handled, earned, redeemed>>

\* Defect: the event is marked before the entry is written.
MarkEarly(c) ==
    /\ At(c, "mark") \/ At(c, "write")
    /\ handled[call[c].event] = None
    /\ handled' = [handled EXCEPT ![call[c].event] = [for |-> call[c].user]]
    /\ call' = [call EXCEPT ![c] = IF At(c, "mark") THEN None ELSE @]
    /\ UNCHANGED <<outside, entries>>

\* Another delivery of the event may have been first.
MarkHandled(c) ==
    /\ At(c, "mark")
    /\ handled' = [handled EXCEPT ![call[c].event] = IF @ # None THEN @ ELSE [for |-> call[c].user]]
    /\ call' = [call EXCEPT ![c] = None]
    /\ UNCHANGED <<outside, entries>>

\* The provider gets no answer, or an error, and sends the event again.
Die(c) ==
    /\ MayFail /\ call[c] # None
    /\ call' = [call EXCEPT ![c] = None]
    /\ UNCHANGED <<outside, handled, entries>>

-----------------------------------------------------------------------------
(* Spending, and leaving.                                                  *)

Redeem(r, u, miles) ==
    /\ u \notin gone /\ redeemed[r] = None
    /\ Balance(u) >= miles
    /\ redeemed' = [redeemed EXCEPT ![r] = [user |-> u, miles |-> miles]]
    /\ UNCHANGED <<outside, handled, earned, reversed, call>>

Without(entry, u) ==
    [k \in DOMAIN entry |-> IF entry[k] # None /\ entry[k].user = u THEN None ELSE entry[k]]

\* deleteAccount: "worth nothing once the person is gone".
DeleteAccount(u) ==
    /\ u \notin gone
    /\ gone' = gone \union {u}
    /\ earned' = Without(earned, u)
    /\ reversed' = Without(reversed, u)
    /\ redeemed' = Without(redeemed, u)
    /\ handled' = [e \in Events |->
          IF handled[e] # None /\ handled[e].for = u THEN [for |-> None] ELSE handled[e]]
    /\ UNCHANGED <<plan, bought, event, call>>

Next ==
    \/ \E p \in Purchases, u \in Users, spend \in Spends : Buy(p, u, spend)
    \/ \E e \in Events, type \in {"purchase", "refund", "other"}, p \in Purchases : Emit(e, type, p)
    \/ \E u \in Users, rate \in Rates : ChangePlan(u, rate)
    \/ \E c \in Calls, e \in Events : Receive(c, e)
    \/ \E c \in Calls : FindUser(c) \/ Credit(c) \/ Reverse(c) \/ MarkHandled(c) \/ Die(c)
    \/ \E r \in Redemptions, u \in Users, miles \in Prices : Redeem(r, u, miles)
    \/ \E u \in Users : DeleteAccount(u)

Spec == Init /\ [][Next]_vars

\* An event is sent again until it is answered, and handling goes on unless it
\* dies, which does not happen to every delivery.
FairSpec ==
    /\ Spec
    /\ \A e \in Events :
          /\ SF_vars(\E c \in Calls : Receive(c, e))
          /\ SF_vars(\E c \in Calls : FindUser(c) /\ call[c].event = e)
          /\ SF_vars(\E c \in Calls : (Credit(c) \/ Reverse(c)) /\ call[c].event = e)
          /\ SF_vars(\E c \in Calls : MarkHandled(c) /\ call[c].event = e)

-----------------------------------------------------------------------------
(* Properties.                                                             *)

\* The entries of a user never add up to less than nothing, whichever refunds and
\* redemptions meet: the Math.max(0, ...) of balance never hides a debt.
NoDebt == \A u \in Users : Total(u) >= 0

\* "The miles entry is written first, and only then is the event marked handled": an
\* event answered for a user who is still there has done what it says, through
\* deaths half way and deliveries that overlap (handleCardEvent).
HandledIsDone ==
    \A e \in Events :
        handled[e] # None /\ handled[e].for # None /\ handled[e].for \notin gone
        /\ event[e].type = "purchase"
            => earned[event[e].purchase] # None

\* "A refund removes what it earned": a refund that was answered has left no
\* purchase credited and not taken back.
RefundTakesBack ==
    \A e \in Events :
        handled[e] # None /\ event[e].type = "refund" =>
            LET p == event[e].purchase
            IN earned[p] # None /\ earned[p].user \notin gone => reversed[p] # None

\* "A card event keeps only that it happened" once the account is deleted.
EventsForgetTheGone == \A e \in Events : handled[e] # None => handled[e].for \notin gone

\* "Never a number something can overwrite": an entry stays as it was written until
\* its account is deleted.
EntriesStand ==
    [][/\ \A p \in Purchases : earned[p] # None =>
            earned'[p] = earned[p] \/ earned[p].user \in gone'
       /\ \A p \in Purchases : reversed[p] # None =>
            reversed'[p] = reversed[p] \/ reversed[p].user \in gone'
       /\ \A r \in Redemptions : redeemed[r] # None =>
            redeemed'[r] = redeemed[r] \/ redeemed[r].user \in gone']_vars

\* A purchase the provider reports is credited in the end, or its buyer is gone,
\* although handling it may die half way.
PurchaseIsCredited ==
    \A e \in Events, p \in Purchases, u \in Users :
        event[e] = [type |-> "purchase", purchase |-> p]
        /\ bought[p] # None /\ bought[p].user = u
            ~> earned[p] # None \/ u \in gone
=============================================================================
