---------------------------- MODULE MilesProofs -----------------------------
(***************************************************************************)
(* MilesLedger for any number of events, deliveries and users: an event    *)
(* that was answered has done its work, entries stand, nobody owes miles,  *)
(* and, when refunds follow the answer to their purchase, each takes its   *)
(* purchase back.                                                          *)
(*                                                                         *)
(* MilesInv ties the copies of a user together (Owners): the buyer of a    *)
(* purchase is the one its entry, its deliveries and the mark of its       *)
(* events name, so that deleting the account takes all of them at once.    *)
(* DoneBeforeMark is the order of the code: a delivery that is about to    *)
(* mark its event has written the entry.  AccountsInv is about the sums,   *)
(* RefundInv about the order of refunds.                                   *)
(***************************************************************************)
EXTENDS MilesLedger, SumTheorems

\* TypeOK without the amounts.
Shape ==
    /\ gone \subseteq Users
    /\ plan \in [Users -> Rates]
    /\ bought \in [Purchases -> Purchase \union {None}]
    /\ event \in [Events -> Event \union {None}]
    /\ handled \in [Events -> Mark \union {None}]
    /\ earned = [p \in Purchases |-> earned[p]]
    /\ reversed = [p \in Purchases |-> reversed[p]]
    /\ redeemed = [r \in Redemptions |-> redeemed[r]]
    /\ call \in [Calls -> Call \union {None}]
    /\ \A e \in Events : event[e] # None => bought[event[e].purchase] # None

Buyer(e) == bought[event[e].purchase].user

Owners ==
    /\ \A p \in Purchases : earned[p] # None => bought[p] # None /\ earned[p].user = bought[p].user
    /\ \A p \in Purchases : reversed[p] # None => bought[p] # None /\ reversed[p].user = bought[p].user
    /\ \A c \in Calls : call[c] # None =>
         /\ event[call[c].event] # None
         /\ call[c].user # None => call[c].user = Buyer(call[c].event)
         /\ call[c].step = "write" => call[c].user # None
         /\ call[c].step # "mark" => event[call[c].event].type # "other"
         /\ call[c].step = "mark" /\ call[c].user = None
              => event[call[c].event].type = "other" \/ Buyer(call[c].event) \in gone
    /\ \A e \in Events : handled[e] # None =>
         /\ event[e] # None
         /\ handled[e].for # None => handled[e].for = Buyer(e)
         /\ handled[e].for = None => event[e].type = "other" \/ Buyer(e) \in gone

\* The entry is there when the event is marked: written first, and gone only with its
\* buyer.
DoneBeforeMark ==
    /\ \A c \in Calls :
         At(c, "mark") /\ event[call[c].event].type = "purchase" /\ Buyer(call[c].event) \notin gone
             => earned[event[call[c].event].purchase] # None
    /\ \A e \in Events :
         handled[e] # None /\ event[e].type = "purchase" /\ Buyer(e) \notin gone
             => earned[event[e].purchase] # None

MilesInv == Shape /\ Owners /\ DoneBeforeMark

LEMMA InitHolds == Init => MilesInv
  BY MilesAssumption DEF Init, MilesInv, Shape, Owners, DoneBeforeMark, At

LEMMA CallShape ==
  ASSUME Shape, NEW c \in Calls, call[c] # None
  PROVE  /\ call[c] \in Call /\ call[c].event \in Events
         /\ event[call[c].event] # None =>
              event[call[c].event] \in Event /\ event[call[c].event].purchase \in Purchases
  BY DEF Shape, Call, Event

LEMMA EventShape ==
  ASSUME Shape, NEW e \in Events, event[e] # None
  PROVE  /\ event[e].purchase \in Purchases /\ event[e].type \in {"purchase", "refund", "other"}
         /\ bought[event[e].purchase] # None /\ Buyer(e) \in Users
  BY DEF Shape, Event, Purchase, Buyer

LEMMA BuyKeeps ==
  ASSUME MilesInv, NEW p \in Purchases, NEW u \in Users, NEW spend \in Spends, Buy(p, u, spend)
  PROVE  MilesInv'
<1>1. [user |-> u, spend |-> spend] \in Purchase
  BY MilesAssumption DEF Purchase
<1>2. /\ bought' \in [Purchases -> Purchase \union {None}] /\ bought[p] = None /\ bought'[p] # None
      /\ \A q \in Purchases : q # p => bought'[q] = bought[q]
  BY <1>1, RecordAssumption DEF Buy, MilesInv, Shape
<1>3. UNCHANGED <<gone, plan, event, handled, earned, reversed, redeemed, call>>
  BY DEF Buy, entries
<1>4. \A e \in Events : event[e] # None =>
         event[e].purchase \in Purchases /\ event[e].purchase # p /\ Buyer(e)' = Buyer(e)
  BY <1>2, <1>3, EventShape DEF MilesInv, Shape, Buyer
<1>5. Shape'
  BY <1>2, <1>3, <1>4 DEF MilesInv, Shape
<1>6. Owners' /\ DoneBeforeMark'
  BY <1>2, <1>3, <1>4, CallShape DEF MilesInv, Owners, DoneBeforeMark, At
<1> QED  BY <1>5, <1>6 DEF MilesInv

LEMMA EmitKeeps ==
  ASSUME MilesInv, NEW e \in Events, NEW type \in {"purchase", "refund", "other"},
         NEW p \in Purchases, Emit(e, type, p)
  PROVE  MilesInv'
<1>1. [type |-> type, purchase |-> p] \in Event
  BY DEF Event
<1>2. /\ event' \in [Events -> Event \union {None}] /\ event[e] = None
      /\ event'[e] = [type |-> type, purchase |-> p] /\ bought[p] # None
      /\ \A d \in Events : d # e => event'[d] = event[d]
  BY <1>1 DEF Emit, MilesInv, Shape
<1>3. UNCHANGED <<gone, plan, bought, handled, earned, reversed, redeemed, call>>
  BY DEF Emit, entries
<1>4. /\ \A c \in Calls : call[c] # None => call[c].event \in Events /\ call[c].event # e
      /\ \A d \in Events : handled[d] # None => d # e
      /\ \A d \in Events : d # e => Buyer(d)' = Buyer(d)
  BY <1>2, <1>3, CallShape DEF MilesInv, Owners, Buyer
<1>5. Shape'
  BY <1>2, <1>3 DEF MilesInv, Shape
<1>6. Owners' /\ DoneBeforeMark'
  BY <1>2, <1>3, <1>4 DEF MilesInv, Owners, DoneBeforeMark, At
<1> QED  BY <1>5, <1>6 DEF MilesInv

LEMMA ChangePlanKeeps ==
  ASSUME MilesInv, NEW u \in Users, NEW rate \in Rates, ChangePlan(u, rate)
  PROVE  MilesInv'
<1>1. UNCHANGED <<gone, bought, event, handled, earned, reversed, redeemed, call>>
  BY DEF ChangePlan, entries
<1>2. Shape'
  BY <1>1 DEF ChangePlan, MilesInv, Shape
<1> QED  BY <1>1, <1>2 DEF MilesInv, Owners, DoneBeforeMark, At, Buyer

LEMMA ReceiveKeeps ==
  ASSUME MilesInv, NEW c \in Calls, NEW e \in Events, Receive(c, e)
  PROVE  MilesInv'
<1> DEFINE new == [event |-> e, step |-> IF event[e].type = "other" THEN "mark" ELSE "find",
                   user |-> None, rate |-> 0]
<1>1. new \in Call
  BY DEF Call
<1>2. /\ call' \in [Calls -> Call \union {None}] /\ call'[c] = new /\ event[e] # None
      /\ \A d \in Calls : d # c => call'[d] = call[d]
  BY <1>1 DEF Receive, MilesInv, Shape
<1>3. UNCHANGED <<gone, plan, bought, event, handled, earned, reversed, redeemed>>
  BY DEF Receive, outside, entries
<1>4. Shape'
  BY <1>2, <1>3 DEF MilesInv, Shape
<1>5. Owners' /\ DoneBeforeMark'
  BY <1>2, <1>3 DEF MilesInv, Owners, DoneBeforeMark, At, Buyer
<1> QED  BY <1>4, <1>5 DEF MilesInv

LEMMA FindUserKeeps ==
  ASSUME MilesInv, NEW c \in Calls, FindUser(c)
  PROVE  MilesInv'
<1> DEFINE e == call[c].event
<1>1. call[c] \in Call /\ call[c] # None /\ e \in Events /\ event[e] # None
  BY CallShape DEF FindUser, At, MilesInv, Owners
<1>2. Buyer(e) \in Users /\ plan[Buyer(e)] \in Nat /\ event[e].type \in {"purchase", "refund", "other"}
  BY <1>1, EventShape, MilesAssumption DEF MilesInv, Shape
<1>3. UNCHANGED <<gone, plan, bought, event, handled, earned, reversed, redeemed>>
  BY DEF FindUser, outside, entries
<1>4. call' = [call EXCEPT ![c] =
         IF Buyer(e) \in gone THEN [@ EXCEPT !.step = "mark"]
         ELSE [@ EXCEPT !.step = "write", !.user = Buyer(e), !.rate = plan[Buyer(e)]]]
  BY DEF FindUser, Buyer
<1>5. call[c].user = None \/ call[c].user = Buyer(e)
  BY <1>1 DEF MilesInv, Owners
<1>6. CASE Buyer(e) \in gone
  <2>1. /\ call' \in [Calls -> Call \union {None}] /\ call'[c] # None
        /\ call'[c].event = e /\ call'[c].step = "mark" /\ call'[c].user = call[c].user
        /\ \A d \in Calls : d # c => call'[d] = call[d]
    BY <1>1, <1>4, <1>6, RecordAssumption DEF MilesInv, Shape, Call
  <2> HIDE DEF e
  <2>2. Shape'
    BY <1>3, <2>1 DEF MilesInv, Shape
  <2>3. Owners' /\ DoneBeforeMark'
    BY <1>1, <1>3, <1>5, <1>6, <2>1 DEF MilesInv, Owners, DoneBeforeMark, At, Buyer
  <2> QED  BY <2>2, <2>3 DEF MilesInv
<1>7. CASE Buyer(e) \notin gone
  <2>1. /\ call' \in [Calls -> Call \union {None}] /\ call'[c] # None
        /\ call'[c].event = e /\ call'[c].step = "write" /\ call'[c].user = Buyer(e)
        /\ \A d \in Calls : d # c => call'[d] = call[d]
    BY <1>1, <1>2, <1>4, <1>7, RecordAssumption DEF MilesInv, Shape, Call
  <2>2. event[e].type # "other"
    BY <1>1 DEF FindUser, At, MilesInv, Owners
  <2> HIDE DEF e
  <2>3. Shape'
    BY <1>3, <2>1 DEF MilesInv, Shape
  <2>4. Owners' /\ DoneBeforeMark'
    BY <1>1, <1>2, <1>3, <2>1, <2>2, MilesAssumption DEF MilesInv, Owners, DoneBeforeMark, At, Buyer
  <2> QED  BY <2>3, <2>4 DEF MilesInv
<1> QED  BY <1>6, <1>7

\* A delivery that has written moves on to the mark.
LEMMA ProceedShape ==
  ASSUME MilesInv, NEW c \in Calls, At(c, "write"), Proceed(c, "mark")
  PROVE  /\ call' \in [Calls -> Call \union {None}] /\ call'[c] # None
         /\ call'[c].event = call[c].event /\ call'[c].step = "mark" /\ call'[c].user = call[c].user
         /\ \A d \in Calls : d # c => call'[d] = call[d]
         /\ call[c].user = Buyer(call[c].event) /\ call[c].user # None
         /\ event[call[c].event] # None /\ call[c].event \in Events
         /\ event[call[c].event].purchase \in Purchases
         /\ bought[event[call[c].event].purchase] # None
<1>1. call[c] \in Call /\ call[c] # None /\ call[c].event \in Events
  BY CallShape DEF At, MilesInv
<1>2. /\ call[c].user = Buyer(call[c].event) /\ call[c].user # None
      /\ event[call[c].event] # None
  BY <1>1 DEF At, MilesInv, Owners
<1>3. call' = [call EXCEPT ![c].step = "mark"]
  BY DEF Proceed
<1>4. /\ call' \in [Calls -> Call \union {None}] /\ call'[c] # None
      /\ call'[c].event = call[c].event /\ call'[c].step = "mark" /\ call'[c].user = call[c].user
      /\ \A d \in Calls : d # c => call'[d] = call[d]
  BY <1>1, <1>3, RecordAssumption DEF MilesInv, Shape, Call
<1> QED  BY <1>1, <1>2, <1>4, EventShape DEF MilesInv

LEMMA CreditKeeps ==
  ASSUME MilesInv, NEW c \in Calls, Credit(c)
  PROVE  MilesInv'
<1> DEFINE e == call[c].event
           p == event[e].purchase
<1>1. At(c, "write") /\ Proceed(c, "mark") /\ event[e].type = "purchase"
  BY DEF Credit
<1>2. UNCHANGED <<gone, plan, bought, event, handled, reversed, redeemed>>
  BY DEF Credit, outside
<1>3. /\ call' \in [Calls -> Call \union {None}] /\ call'[c] # None
      /\ call'[c].event = e /\ call'[c].step = "mark" /\ call'[c].user = call[c].user
      /\ \A d \in Calls : d # c => call'[d] = call[d]
      /\ call[c].user = bought[p].user /\ call[c].user # None
      /\ event[e] # None /\ e \in Events /\ p \in Purchases /\ bought[p] # None
  BY <1>1, ProceedShape DEF Buyer
<1>4. \E x : /\ earned' = [earned EXCEPT ![p] = x]
             /\ x # None /\ x.user = bought[p].user
  <2>1. CASE earned[p] # None
    BY <1>3, <2>1 DEF Credit, MilesInv, Owners
  <2>2. CASE earned[p] = None
    <3>1. PICK miles : miles = MilesForSpend(bought[p].spend, call[c].rate)
      OBVIOUS
    <3>2. bought[p] \in Purchase /\ call[c] \in Call
      BY <1>1, <1>3, CallShape DEF MilesInv, Shape, At
    <3>3. miles \in Nat
      <4>1. bought[p].spend \in Nat /\ call[c].rate \in Nat
        BY <3>2 DEF Purchase, Call
      <4>2. bought[p].spend \div 100 \in Nat
        BY <4>1
      <4>3. \A x, y \in Nat : x * y \in Nat
        OBVIOUS
      <4> QED  BY <3>1, <4>1, <4>2, <4>3 DEF MilesForSpend
    <3>4. [user |-> call[c].user, miles |-> miles] \in Entry
      BY <1>3, <3>2, <3>3 DEF Entry, Purchase
    <3>5. earned' = [earned EXCEPT ![p] = [user |-> call[c].user, miles |-> miles]]
      BY <2>2, <3>1 DEF Credit, MilesInv, Shape
    <3>6. [user |-> call[c].user, miles |-> miles] # None
      BY <3>4, RecordAssumption
    <3>7. [user |-> call[c].user, miles |-> miles].user = bought[p].user
      BY <1>3
    <3> QED  BY <3>5, <3>6, <3>7
  <2> QED  BY <2>1, <2>2
<1> HIDE DEF e, p
<1>5. PICK x : /\ earned' = [earned EXCEPT ![p] = x]
               /\ x # None /\ x.user = bought[p].user
  BY <1>4
<1>6. Shape'
  BY <1>2, <1>3, <1>5 DEF MilesInv, Shape
<1>7. /\ \A q \in Purchases : earned'[q] = IF q = p THEN x ELSE earned[q]
  BY <1>3, <1>5 DEF MilesInv, Shape
<1>8. Owners'
  BY <1>1, <1>2, <1>3, <1>5, <1>7 DEF MilesInv, Owners, Buyer, p
<1>9. DoneBeforeMark'
  <2>1. \A q \in Purchases : earned[q] # None => earned'[q] # None
    BY <1>5, <1>7
  <2>2. earned'[p] # None
    BY <1>3, <1>5, <1>7
  <2>3. \A d \in Calls : call[d] # None => event[call[d].event].purchase \in Purchases
    BY CallShape DEF MilesInv, Owners
  <2>4. \A f \in Events : handled[f] # None => event[f].purchase \in Purchases
    BY EventShape DEF MilesInv, Owners
  <2> QED  BY <1>2, <1>3, <2>1, <2>2, <2>3, <2>4 DEF MilesInv, DoneBeforeMark, At, Buyer, p
<1> QED  BY <1>6, <1>8, <1>9 DEF MilesInv

LEMMA ReverseKeeps ==
  ASSUME MilesInv, NEW c \in Calls, Reverse(c)
  PROVE  MilesInv'
<1> DEFINE e == call[c].event
           p == event[e].purchase
           u == call[c].user
<1>1. At(c, "write") /\ Proceed(c, "mark") /\ event[e].type = "refund"
  BY DEF Reverse
<1>2. UNCHANGED <<gone, plan, bought, event, handled, earned, redeemed>>
  BY DEF Reverse, outside
<1>3. /\ call' \in [Calls -> Call \union {None}] /\ call'[c] # None
      /\ call'[c].event = e /\ call'[c].step = "mark" /\ call'[c].user = call[c].user
      /\ \A d \in Calls : d # c => call'[d] = call[d]
      /\ u = bought[p].user /\ u # None
      /\ event[e] # None /\ e \in Events /\ p \in Purchases /\ bought[p] # None
  BY <1>1, ProceedShape DEF Buyer
<1>4. /\ reversed' = [q \in Purchases |-> reversed'[q]]
      /\ \A q \in Purchases : reversed'[q] # None => reversed'[q] = reversed[q] \/
            (q = p /\ reversed'[q].user = u)
  <2>1. CASE Reversible(p, u)
    <3>1. PICK miles : miles = Take(p, u)
      OBVIOUS
    <3>2. reversed' = [reversed EXCEPT ![p] = [user |-> u, miles |-> miles]]
      BY <2>1, <3>1 DEF Reverse
    <3> QED  BY <1>3, <3>2 DEF MilesInv, Shape
  <2>2. CASE ~Reversible(p, u)
    BY <2>2 DEF Reverse, MilesInv, Shape
  <2> QED  BY <2>1, <2>2
<1>5. Shape'
  BY <1>2, <1>3, <1>4 DEF MilesInv, Shape
<1>6. Owners'
  <2>1. \A q \in Purchases : reversed'[q] # None =>
           bought[q] # None /\ reversed'[q].user = bought[q].user
    BY <1>3, <1>4 DEF MilesInv, Owners
  <2>2. \A d \in Calls : call'[d] # None =>
         /\ event[call'[d].event] # None
         /\ call'[d].user # None => call'[d].user = Buyer(call'[d].event)
         /\ call'[d].step = "write" => call'[d].user # None
         /\ call'[d].step # "mark" => event[call'[d].event].type # "other"
         /\ call'[d].step = "mark" /\ call'[d].user = None
              => event[call'[d].event].type = "other" \/ Buyer(call'[d].event) \in gone
    BY <1>3 DEF MilesInv, Owners, Buyer
  <2> QED  BY <1>2, <2>1, <2>2 DEF MilesInv, Owners, Buyer
<1>7. DoneBeforeMark'
  BY <1>1, <1>2, <1>3 DEF MilesInv, DoneBeforeMark, At, Buyer
<1> QED  BY <1>5, <1>6, <1>7 DEF MilesInv

LEMMA MarkKeeps ==
  ASSUME MilesInv, NEW c \in Calls, MarkHandled(c)
  PROVE  MilesInv'
<1> DEFINE e == call[c].event
<1>1. call[c] \in Call /\ call[c] # None /\ call[c].step = "mark" /\ e \in Events
  BY CallShape DEF MarkHandled, At, MilesInv
<1>2. /\ event[e] # None
      /\ call[c].user # None => call[c].user = Buyer(e)
      /\ call[c].user = None => event[e].type = "other" \/ Buyer(e) \in gone
  BY <1>1 DEF MilesInv, Owners
<1>3. [for |-> call[c].user] \in Mark
  BY <1>1 DEF Mark, Call
<1>4. /\ handled' \in [Events -> Mark \union {None}]
      /\ \A d \in Events : handled'[d] = IF d = e /\ handled[d] = None
                                         THEN [for |-> call[c].user] ELSE handled[d]
  BY <1>1, <1>3 DEF MarkHandled, MilesInv, Shape
<1>5. /\ call' \in [Calls -> Call \union {None}]
      /\ \A d \in Calls : call'[d] = IF d = c THEN None ELSE call[d]
  BY DEF MarkHandled, MilesInv, Shape
<1>6. UNCHANGED <<gone, plan, bought, event, earned, reversed, redeemed>>
  BY DEF MarkHandled, outside, entries
<1>7. Shape'
  BY <1>4, <1>5, <1>6 DEF MilesInv, Shape
<1>8. Owners'
  BY <1>2, <1>4, <1>5, <1>6 DEF MilesInv, Owners, Buyer
<1>9. DoneBeforeMark'
  BY <1>1, <1>4, <1>5, <1>6 DEF MilesInv, DoneBeforeMark, At, Buyer
<1> QED  BY <1>7, <1>8, <1>9 DEF MilesInv

LEMMA DieKeeps ==
  ASSUME MilesInv, NEW c \in Calls, Die(c)
  PROVE  MilesInv'
<1>1. /\ call' \in [Calls -> Call \union {None}]
      /\ \A d \in Calls : call'[d] = IF d = c THEN None ELSE call[d]
  BY DEF Die, MilesInv, Shape
<1>2. UNCHANGED <<gone, plan, bought, event, handled, earned, reversed, redeemed>>
  BY DEF Die, outside, entries
<1> QED  BY <1>1, <1>2 DEF MilesInv, Shape, Owners, DoneBeforeMark, At, Buyer

LEMMA RedeemKeeps ==
  ASSUME MilesInv, NEW r \in Redemptions, NEW u \in Users, NEW miles \in Prices, Redeem(r, u, miles)
  PROVE  MilesInv'
<1>1. redeemed' = [x \in Redemptions |-> redeemed'[x]]
  BY DEF Redeem, MilesInv, Shape
<1>2. UNCHANGED <<gone, plan, bought, event, handled, earned, reversed, call>>
  BY DEF Redeem, outside
<1> QED  BY <1>1, <1>2 DEF MilesInv, Shape, Owners, DoneBeforeMark, At, Buyer

\* What "Without" leaves.
LEMMA WithoutEntries ==
  ASSUME NEW K, NEW entry, entry = [k \in K |-> entry[k]], NEW u
  PROVE  /\ Without(entry, u) = [k \in K |-> Without(entry, u)[k]]
         /\ \A k \in K : Without(entry, u)[k] =
                IF entry[k] # None /\ entry[k].user = u THEN None ELSE entry[k]
  BY DEF Without

LEMMA DeleteAccountKeeps ==
  ASSUME MilesInv, NEW u \in Users, DeleteAccount(u)
  PROVE  MilesInv'
<1>1. /\ UNCHANGED <<plan, bought, event, call>>
      /\ gone' = gone \union {u}
      /\ earned' = Without(earned, u) /\ reversed' = Without(reversed, u)
      /\ redeemed' = Without(redeemed, u)
  BY DEF DeleteAccount
<1>2. [for |-> None] \in Mark
  BY DEF Mark
<1>3. /\ handled' \in [Events -> Mark \union {None}]
      /\ \A e \in Events : handled'[e] =
           IF handled[e] # None /\ handled[e].for = u THEN [for |-> None] ELSE handled[e]
  BY <1>2 DEF DeleteAccount, MilesInv, Shape
<1>4. /\ earned' = [p \in Purchases |-> earned'[p]] /\ reversed' = [p \in Purchases |-> reversed'[p]]
      /\ redeemed' = [r \in Redemptions |-> redeemed'[r]]
      /\ \A p \in Purchases : earned'[p] =
            IF earned[p] # None /\ earned[p].user = u THEN None ELSE earned[p]
      /\ \A p \in Purchases : reversed'[p] =
            IF reversed[p] # None /\ reversed[p].user = u THEN None ELSE reversed[p]
  BY <1>1, WithoutEntries DEF MilesInv, Shape
<1>5. Shape'
  BY <1>1, <1>3, <1>4 DEF MilesInv, Shape
<1>6. Owners'
  BY <1>1, <1>3, <1>4 DEF MilesInv, Owners, Buyer
<1>7. DoneBeforeMark'
  <2>1. \A p \in Purchases : earned[p] # None => earned[p].user = bought[p].user
    BY DEF MilesInv, Owners
  <2>2. \A d \in Calls : call[d] # None => event[call[d].event].purchase \in Purchases
    BY CallShape DEF MilesInv, Owners
  <2>3. \A f \in Events : handled[f] # None => event[f].purchase \in Purchases
    BY EventShape DEF MilesInv, Owners
  <2> QED  BY <1>1, <1>3, <1>4, <2>1, <2>2, <2>3 DEF MilesInv, DoneBeforeMark, At, Buyer
<1> QED  BY <1>5, <1>6, <1>7 DEF MilesInv

LEMMA NextKeeps == MilesInv /\ [Next]_vars => MilesInv'
<1> SUFFICES ASSUME MilesInv, [Next]_vars PROVE MilesInv'
  OBVIOUS
<1>1. CASE UNCHANGED vars
  BY <1>1 DEF vars, outside, entries, MilesInv, Shape, Owners, DoneBeforeMark, At, Buyer
<1> QED
  BY <1>1, BuyKeeps, EmitKeeps, ChangePlanKeeps, ReceiveKeeps, FindUserKeeps, CreditKeeps,
     ReverseKeeps, MarkKeeps, DieKeeps, RedeemKeeps, DeleteAccountKeeps DEF Next

THEOREM MilesInvariant == Spec => []MilesInv
  BY InitHolds, NextKeeps, PTL DEF Spec

\* An event that was answered for somebody who is still there has done what it says,
\* whatever died half way or was delivered twice (handleCardEvent).
THEOREM AnsweredIsDone == Spec => []HandledIsDone
<1>1. MilesInv => HandledIsDone
  <2> SUFFICES ASSUME MilesInv, NEW e \in Events, handled[e] # None, handled[e].for # None,
                      handled[e].for \notin gone, event[e].type = "purchase"
               PROVE  earned[event[e].purchase] # None
    BY DEF HandledIsDone
  <2>1. handled[e].for = Buyer(e)
    BY DEF MilesInv, Owners
  <2> QED  BY <2>1 DEF MilesInv, DoneBeforeMark
<1> QED  BY <1>1, MilesInvariant, PTL

\* An entry stays as it was written until its account is deleted: a second delivery,
\* another plan or a second refund rewrite nothing (creditSpend, reverseSpend, redeem).
THEOREM EntriesAreFinal == Spec => EntriesStand
<1> DEFINE Stands(entry, next, K) ==
      \A k \in K : entry[k] # None => next[k] = entry[k] \/ entry[k].user \in gone'
<1>1. MilesInv /\ Next =>
         /\ Stands(earned, earned', Purchases)
         /\ Stands(reversed, reversed', Purchases)
         /\ Stands(redeemed, redeemed', Redemptions)
  <2> SUFFICES ASSUME MilesInv, Next
               PROVE  /\ Stands(earned, earned', Purchases)
                      /\ Stands(reversed, reversed', Purchases)
                      /\ Stands(redeemed, redeemed', Redemptions)
    OBVIOUS
  <2>1. CASE UNCHANGED <<earned, reversed, redeemed>>
    BY <2>1
  <2>2. ASSUME NEW c \in Calls, Credit(c)
        PROVE  Stands(earned, earned', Purchases) /\ UNCHANGED <<reversed, redeemed>>
    <3> DEFINE p == event[call[c].event].purchase
    <3>1. CASE earned[p] # None
      BY <2>2, <3>1 DEF Credit, MilesInv, Shape
    <3>2. CASE earned[p] = None
      <4>1. \A q \in Purchases : q # p => earned'[q] = earned[q]
        BY <2>2 DEF Credit, MilesInv, Shape
      <4> QED  BY <2>2, <3>2, <4>1 DEF Credit
    <3> QED  BY <3>1, <3>2
  <2>3. ASSUME NEW c \in Calls, Reverse(c)
        PROVE  Stands(reversed, reversed', Purchases) /\ UNCHANGED <<earned, redeemed>>
    <3> DEFINE p == event[call[c].event].purchase
    <3>1. UNCHANGED reversed \/ reversed[p] = None
      BY <2>3 DEF Reverse, Reversible
    <3>2. \A q \in Purchases : q # p => reversed'[q] = reversed[q]
      BY <2>3 DEF Reverse, MilesInv, Shape
    <3> QED  BY <2>3, <3>1, <3>2 DEF Reverse
  <2>4. ASSUME NEW r \in Redemptions, NEW u \in Users, NEW miles \in Prices, Redeem(r, u, miles)
        PROVE  Stands(redeemed, redeemed', Redemptions) /\ UNCHANGED <<earned, reversed>>
    BY <2>4 DEF Redeem, MilesInv, Shape
  <2>5. ASSUME NEW u \in Users, DeleteAccount(u)
        PROVE  /\ Stands(earned, earned', Purchases)
               /\ Stands(reversed, reversed', Purchases)
               /\ Stands(redeemed, redeemed', Redemptions)
    <3>1. /\ gone' = gone \union {u}
          /\ earned' = Without(earned, u) /\ reversed' = Without(reversed, u)
          /\ redeemed' = Without(redeemed, u)
      BY <2>5 DEF DeleteAccount
    <3> QED  BY <3>1, WithoutEntries DEF MilesInv, Shape
  <2> QED
    BY <2>1, <2>2, <2>3, <2>4, <2>5 DEF Next, Buy, Emit, ChangePlan, Receive, FindUser,
       MarkHandled, Die, entries
<1>2. MilesInv /\ [Next]_vars =>
        [/\ \A p \in Purchases : earned[p] # None =>
              earned'[p] = earned[p] \/ earned[p].user \in gone'
         /\ \A p \in Purchases : reversed[p] # None =>
              reversed'[p] = reversed[p] \/ reversed[p].user \in gone'
         /\ \A r \in Redemptions : redeemed[r] # None =>
              redeemed'[r] = redeemed[r] \/ redeemed[r].user \in gone']_vars
  BY <1>1
<1> QED  BY <1>2, MilesInvariant, PTL DEF Spec, EntriesStand

-----------------------------------------------------------------------------
(* The balance.  MilesOf is Sum as a sum of SumTheorems; a table is Kept   *)
(* when its rows are entries and only finitely many are written, which     *)
(* needs no assumption: each step writes one.                              *)

Rows(entry, u) == {k \in DOMAIN entry : entry[k] # None /\ entry[k].user = u}

MilesOf(entry, u) == SumOver([k \in Rows(entry, u) |-> entry[k].miles], Rows(entry, u))

Kept(entry, K) ==
    /\ entry \in [K -> Entry \union {None}]
    /\ IsFiniteSet({k \in K : entry[k] # None})

\* The balance as the entries have it, before Math.max(0, ...).
NothingOwed(e, r, s) == \A u \in Users : MilesOf(e, u) - MilesOf(r, u) - MilesOf(s, u) >= 0

AccountsInv ==
    /\ Kept(earned, Purchases) /\ Kept(reversed, Purchases) /\ Kept(redeemed, Redemptions)
    /\ NothingOwed(earned, reversed, redeemed)

LEMMA RowsAreFinite ==
    ASSUME NEW K, NEW entry, Kept(entry, K), NEW u
    PROVE  /\ IsFiniteSet(Rows(entry, u)) /\ Rows(entry, u) \subseteq K
           /\ \A k \in Rows(entry, u) : entry[k].miles \in Nat
<1>1. DOMAIN entry = K
  BY DEF Kept
<1>2. Rows(entry, u) \subseteq {k \in K : entry[k] # None}
  BY <1>1 DEF Rows
<1>3. IsFiniteSet(Rows(entry, u))
  BY <1>2, FS_Subset DEF Kept
<1>4. \A k \in Rows(entry, u) : entry[k].miles \in Nat
  BY <1>2 DEF Kept, Entry
<1> QED
  BY <1>2, <1>3, <1>4

LEMMA MilesAddUp ==
    ASSUME NEW entry, NEW S, IsFiniteSet(S)
    PROVE  (CHOOSE g : g = [s \in SUBSET S |-> IF s = {} THEN 0
                ELSE entry[CHOOSE x \in s : TRUE].miles + g[s \ {CHOOSE x \in s : TRUE}]])[S]
           = SumOver([k \in S |-> entry[k].miles], S)
<1> DEFINE f == [k \in S |-> entry[k].miles]
           P(g) == g = [s \in SUBSET S |-> IF s = {} THEN 0
                ELSE entry[CHOOSE x \in s : TRUE].miles + g[s \ {CHOOSE x \in s : TRUE}]]
<1>1. ASSUME NEW g PROVE P(g) <=> IsTable(g, f, S)
  <2>1. \A s \in SUBSET S : s # {} => f[FirstOf(s)] = entry[CHOOSE x \in s : TRUE].miles
    BY DEF FirstOf
  <2> HIDE DEF f
  <2>2. [s \in SUBSET S |-> IF s = {} THEN 0
             ELSE entry[CHOOSE x \in s : TRUE].miles + g[s \ {CHOOSE x \in s : TRUE}]]
      = [s \in SUBSET S |-> IF s = {} THEN 0 ELSE f[FirstOf(s)] + g[s \ {FirstOf(s)}]]
    BY <2>1 DEF FirstOf
  <2> QED
    BY <2>2 DEF IsTable
<1> HIDE DEF P
<1>2. \E g : P(g)
  BY <1>1, TableExists
<1>3. P(CHOOSE g : P(g))
  BY <1>2
<1>4. SumOver(f, S) = (CHOOSE g : P(g))[S]
  BY <1>1, <1>3, SumIsInTable
<1> QED
  BY <1>4 DEF P

LEMMA SumIsMilesOf ==
    ASSUME NEW K, NEW entry, Kept(entry, K), NEW u
    PROVE  Sum(entry, u) = MilesOf(entry, u)
<1>1. IsFiniteSet(Rows(entry, u))
  BY RowsAreFinite
<1> QED
  BY <1>1, MilesAddUp DEF Sum, MilesOf, Rows, MapThenSumSet, MapThenFoldSet

LEMMA MilesAreNat ==
    ASSUME NEW K, NEW entry, Kept(entry, K), NEW u
    PROVE  MilesOf(entry, u) \in Nat
  BY RowsAreFinite, SumNat DEF MilesOf

LEMMA NoRowsNoMiles ==
    ASSUME NEW entry, NEW u, Rows(entry, u) = {}
    PROVE  MilesOf(entry, u) = 0
  BY SumEmpty DEF MilesOf

\* Where a row is written it counts, and nowhere else.
Adds(next, entry, x) ==
    \A u : MilesOf(next, u) = MilesOf(entry, u) + (IF u = x.user THEN x.miles ELSE 0)

LEMMA OneMoreEntry ==
    ASSUME NEW K, NEW entry, Kept(entry, K), NEW k \in K, entry[k] = None,
           NEW x \in Entry, NEW next, next = [entry EXCEPT ![k] = x]
    PROVE  Kept(next, K) /\ Adds(next, entry, x)
<1>1. /\ next \in [K -> Entry \union {None}] /\ next[k] = x /\ x # None /\ x.miles \in Nat
      /\ \A j \in K : j # k => next[j] = entry[j]
      /\ DOMAIN entry = K /\ DOMAIN next = K
  BY RecordAssumption DEF Kept, Entry
<1>2. {j \in K : next[j] # None} = {j \in K : entry[j] # None} \union {k}
  BY <1>1
<1>3. Kept(next, K)
  BY <1>1, <1>2, FS_AddElement DEF Kept
<1>4. ASSUME NEW u
      PROVE  MilesOf(next, u) = MilesOf(entry, u) + (IF u = x.user THEN x.miles ELSE 0)
  <2> DEFINE S == Rows(entry, u)
             T == Rows(next, u)
             f == [j \in S |-> entry[j].miles]
             g == [j \in T |-> next[j].miles]
  <2>1. /\ IsFiniteSet(S) /\ S \subseteq K /\ k \notin S
        /\ \A j \in S : f[j] = entry[j].miles /\ f[j] \in Nat
    <3>1. /\ IsFiniteSet(S) /\ S \subseteq K /\ \A j \in S : entry[j].miles \in Nat
      BY RowsAreFinite
    <3>2. k \notin S
      BY DEF Rows
    <3> QED
      BY <3>1, <3>2
  <2>2. MilesOf(entry, u) = SumOver(f, S) /\ MilesOf(next, u) = SumOver(g, T)
    BY DEF MilesOf
  <2>3. SumOver(f, S) \in Int
    <3>1. \A j \in S : f[j] \in Int
      BY <2>1
    <3> QED
      BY <2>1, <3>1, SumType
  <2>4. CASE u # x.user
    <3>1. T = S
      BY <1>1, <2>4 DEF Rows
    <3>2. f = g
      BY <1>1, <2>1, <3>1
    <3> HIDE DEF f, g, S, T
    <3> QED
      BY <2>2, <2>3, <2>4, <3>1, <3>2
  <2>5. CASE u = x.user
    <3>1. T = S \union {k}
      BY <1>1, <2>5 DEF Rows
    <3>2. /\ g[k] = x.miles
          /\ \A j \in S : g[j] = f[j]
      BY <1>1, <2>1, <3>1
    <3> HIDE DEF f, g, S, T
    <3>3. SumOver(g, S \union {k}) = g[k] + SumOver(g, S)
      <4>1. g[k] \in Int /\ \A j \in S : g[j] \in Int
        BY <1>1, <2>1, <3>2
      <4> QED
        BY <2>1, <4>1, SumWith
    <3>4. SumOver(g, S) = SumOver(f, S)
      BY <2>1, <3>2, SumSame
    <3> QED
      BY <1>1, <2>2, <2>3, <2>5, <3>1, <3>2, <3>3, <3>4
  <2> QED
    BY <2>4, <2>5
<1> QED
  BY <1>3, <1>4 DEF Adds

\* Deleting an account leaves nothing of its miles and all of the others'.
LEMMA EntriesWithout ==
    ASSUME NEW K, NEW entry, Kept(entry, K), NEW u
    PROVE  /\ Kept(Without(entry, u), K)
           /\ \A v : MilesOf(Without(entry, u), v) = IF v = u THEN 0 ELSE MilesOf(entry, v)
<1> DEFINE next == Without(entry, u)
<1>1. /\ DOMAIN entry = K /\ DOMAIN next = K
      /\ next \in [K -> Entry \union {None}]
      /\ \A k \in K : next[k] = IF entry[k] # None /\ entry[k].user = u THEN None ELSE entry[k]
  BY DEF Kept, Without
<1> HIDE DEF next
<1>2. {k \in K : next[k] # None} \subseteq {k \in K : entry[k] # None}
  BY <1>1
<1>3. Kept(next, K)
  BY <1>1, <1>2, FS_Subset DEF Kept
<1>4. MilesOf(next, u) = 0
  <2>1. Rows(next, u) = {}
    BY <1>1 DEF Rows
  <2> QED
    BY <2>1, NoRowsNoMiles
<1>5. ASSUME NEW v, v # u
      PROVE  MilesOf(next, v) = MilesOf(entry, v)
  <2>1. Rows(next, v) = Rows(entry, v)
    BY <1>1, <1>5 DEF Rows
  <2>2. \A k \in Rows(entry, v) : next[k].miles = entry[k].miles
    BY <1>1, <1>5 DEF Rows
  <2>3. [k \in Rows(next, v) |-> next[k].miles] = [k \in Rows(entry, v) |-> entry[k].miles]
    BY <2>1, <2>2
  <2> QED
    BY <2>1, <2>3 DEF MilesOf
<1> QED
  BY <1>3, <1>4, <1>5 DEF next

LEMMA AccountsStart == Init => AccountsInv
<1> SUFFICES ASSUME Init PROVE AccountsInv
  OBVIOUS
<1>1. /\ earned = [p \in Purchases |-> None] /\ reversed = [p \in Purchases |-> None]
      /\ redeemed = [r \in Redemptions |-> None]
  BY DEF Init
<1>2. ASSUME NEW K, NEW entry, entry = [k \in K |-> None]
      PROVE  Kept(entry, K) /\ \A u : MilesOf(entry, u) = 0
  <2>1. \A u : Rows(entry, u) = {}
    BY <1>2 DEF Rows
  <2>2. {k \in K : entry[k] # None} = {}
    BY <1>2
  <2> QED
    BY <1>2, <2>1, <2>2, NoRowsNoMiles, FS_EmptySet DEF Kept
<1>3. Kept(earned, Purchases) /\ \A u : MilesOf(earned, u) = 0
  BY <1>1, <1>2
<1>4. Kept(reversed, Purchases) /\ \A u : MilesOf(reversed, u) = 0
  BY <1>1, <1>2
<1>5. Kept(redeemed, Redemptions) /\ \A u : MilesOf(redeemed, u) = 0
  BY <1>1, <1>2
<1> QED
  BY <1>3, <1>4, <1>5 DEF AccountsInv, NothingOwed

\* What a balance is: what the entries add up to, as it is never less than nothing.
LEMMA BalanceIsRest ==
    ASSUME AccountsInv, NEW u \in Users
    PROVE  /\ Total(u) = MilesOf(earned, u) - MilesOf(reversed, u) - MilesOf(redeemed, u)
           /\ Total(u) >= 0 /\ Balance(u) = Total(u) /\ Balance(u) \in Nat
<1>1. /\ Sum(earned, u) = MilesOf(earned, u) /\ MilesOf(earned, u) \in Nat
      /\ Sum(reversed, u) = MilesOf(reversed, u) /\ MilesOf(reversed, u) \in Nat
      /\ Sum(redeemed, u) = MilesOf(redeemed, u) /\ MilesOf(redeemed, u) \in Nat
  BY SumIsMilesOf, MilesAreNat DEF AccountsInv
<1>2. MilesOf(earned, u) - MilesOf(reversed, u) - MilesOf(redeemed, u) >= 0
  BY DEF AccountsInv, NothingOwed
<1> QED
  BY <1>1, <1>2 DEF Total, Balance

LEMMA CreditKeepsAccounts ==
    ASSUME MilesInv, AccountsInv, NEW c \in Calls, Credit(c)
    PROVE  AccountsInv'
<1> DEFINE e == call[c].event
           p == event[e].purchase
<1>1. UNCHANGED <<reversed, redeemed>>
  BY DEF Credit
<1>2. /\ call[c].user = bought[p].user /\ call[c].user # None
      /\ event[e] # None /\ e \in Events /\ p \in Purchases /\ bought[p] # None
      /\ At(c, "write")
  BY ProceedShape DEF Buyer, Credit
<1>3. CASE earned[p] # None
  <2>1. earned' = earned
    BY <1>2, <1>3 DEF Credit, AccountsInv, Kept
  <2> QED
    BY <1>1, <2>1 DEF AccountsInv
<1>4. CASE earned[p] = None
  <2>1. PICK miles : miles = MilesForSpend(bought[p].spend, call[c].rate)
    OBVIOUS
  <2>2. bought[p] \in Purchase /\ call[c] \in Call
    BY <1>2, CallShape DEF MilesInv, Shape, At
  <2>3. miles \in Nat
    <3>1. bought[p].spend \in Nat /\ call[c].rate \in Nat
      BY <2>2 DEF Purchase, Call
    <3>2. bought[p].spend \div 100 \in Nat
      BY <3>1
    <3>3. \A x, y \in Nat : x * y \in Nat
      OBVIOUS
    <3> QED  BY <2>1, <3>1, <3>2, <3>3 DEF MilesForSpend
  <2>4. PICK x \in Entry : x = [user |-> call[c].user, miles |-> miles]
    BY <1>2, <2>2, <2>3 DEF Entry, Purchase
  <2>5. earned' = [earned EXCEPT ![p] = x]
    BY <1>4, <2>1, <2>4 DEF Credit, AccountsInv, Kept
  <2>6. Kept(earned', Purchases) /\ Adds(earned', earned, x)
    <3>1. Kept(earned, Purchases) /\ p \in Purchases
      BY <1>2 DEF AccountsInv
    <3> HIDE DEF p
    <3> QED
      BY <1>4, <2>5, <3>1, OneMoreEntry
  <2>7. x.miles \in Nat
    BY DEF Entry
  <2>8. NothingOwed(earned', reversed, redeemed)
    <3> SUFFICES ASSUME NEW u \in Users
                 PROVE  MilesOf(earned', u) - MilesOf(reversed, u) - MilesOf(redeemed, u) >= 0
      BY DEF NothingOwed
    <3>1. /\ MilesOf(earned, u) \in Nat /\ MilesOf(reversed, u) \in Nat
          /\ MilesOf(redeemed, u) \in Nat
      BY MilesAreNat DEF AccountsInv
    <3>2. MilesOf(earned, u) - MilesOf(reversed, u) - MilesOf(redeemed, u) >= 0
      BY DEF AccountsInv, NothingOwed
    <3>3. MilesOf(earned', u) = MilesOf(earned, u) + (IF u = x.user THEN x.miles ELSE 0)
      BY <2>6 DEF Adds
    <3> QED
      BY <2>7, <3>1, <3>2, <3>3
  <2> QED
    BY <1>1, <2>6, <2>8 DEF AccountsInv
<1> QED
  BY <1>3, <1>4

LEMMA ReverseKeepsAccounts ==
    ASSUME MilesInv, AccountsInv, NEW c \in Calls, Reverse(c)
    PROVE  AccountsInv'
<1> DEFINE p == event[call[c].event].purchase
           u == call[c].user
<1>1. UNCHANGED <<earned, redeemed>>
  BY DEF Reverse
<1>2. /\ u = bought[p].user /\ u # None /\ p \in Purchases /\ bought[p] # None
  BY ProceedShape DEF Buyer, Reverse
<1>3. CASE ~Reversible(p, u)
  BY <1>1, <1>3 DEF Reverse, AccountsInv
<1>4. CASE Reversible(p, u)
  <2>1. PICK miles : miles = Take(p, u)
    OBVIOUS
  <2>2. u \in Users
    BY <1>2 DEF MilesInv, Shape, Purchase
  <2>3. earned[p].miles \in Nat
    BY <1>2, <1>4 DEF Reversible, AccountsInv, Kept, Entry
  <2>4. /\ miles \in Nat /\ miles <= Total(u)
    BY <2>1, <2>2, <2>3, BalanceIsRest DEF Take
  <2>5. PICK x \in Entry : x = [user |-> u, miles |-> miles]
    BY <2>2, <2>4 DEF Entry
  <2>6. reversed' = [reversed EXCEPT ![p] = x] /\ reversed[p] = None
    BY <1>4, <2>1, <2>5 DEF Reverse, Reversible
  <2>7. /\ Kept(reversed', Purchases)
        /\ \A v : MilesOf(reversed', v) = MilesOf(reversed, v) + (IF v = u THEN miles ELSE 0)
    <3>1. Kept(reversed, Purchases) /\ p \in Purchases /\ x.user = u /\ x.miles = miles
      BY <1>2, <2>5 DEF AccountsInv
    <3> HIDE DEF p, u
    <3>2. Kept(reversed', Purchases) /\ Adds(reversed', reversed, x)
      BY <2>6, <3>1, OneMoreEntry
    <3> QED
      BY <3>1, <3>2 DEF Adds
  <2>8. NothingOwed(earned, reversed', redeemed)
    <3> SUFFICES ASSUME NEW v \in Users
                 PROVE  MilesOf(earned, v) - MilesOf(reversed', v) - MilesOf(redeemed, v) >= 0
      BY DEF NothingOwed
    <3>1. /\ MilesOf(earned, v) \in Nat /\ MilesOf(reversed, v) \in Nat
          /\ MilesOf(redeemed, v) \in Nat
      BY MilesAreNat DEF AccountsInv
    <3>2. /\ MilesOf(earned, v) - MilesOf(reversed, v) - MilesOf(redeemed, v) >= 0
          /\ v = u => miles <= MilesOf(earned, v) - MilesOf(reversed, v) - MilesOf(redeemed, v)
      BY <2>4, BalanceIsRest DEF AccountsInv, NothingOwed
    <3>3. MilesOf(reversed', v) = MilesOf(reversed, v) + (IF v = u THEN miles ELSE 0)
      BY <2>7
    <3> HIDE DEF u
    <3> QED
      BY <2>4, <3>1, <3>2, <3>3
  <2> QED
    BY <1>1, <2>7, <2>8 DEF AccountsInv
<1> QED
  BY <1>3, <1>4

LEMMA RedeemKeepsAccounts ==
    ASSUME AccountsInv, NEW r \in Redemptions, NEW u \in Users, NEW miles \in Prices,
           Redeem(r, u, miles)
    PROVE  AccountsInv'
<1>1. UNCHANGED <<earned, reversed>> /\ redeemed[r] = None
  BY DEF Redeem
<1>2. miles \in Nat /\ miles <= Total(u)
  BY BalanceIsRest, MilesAssumption DEF Redeem
<1>3. PICK x \in Entry : x = [user |-> u, miles |-> miles]
  BY <1>2 DEF Entry
<1>4. redeemed' = [redeemed EXCEPT ![r] = x]
  BY <1>3 DEF Redeem
<1>5. /\ Kept(redeemed', Redemptions)
      /\ \A v : MilesOf(redeemed', v) = MilesOf(redeemed, v) + (IF v = u THEN miles ELSE 0)
  <2>1. Kept(redeemed, Redemptions) /\ x.user = u /\ x.miles = miles
    BY <1>3 DEF AccountsInv
  <2>2. Kept(redeemed', Redemptions) /\ Adds(redeemed', redeemed, x)
    BY <1>1, <1>4, <2>1, OneMoreEntry
  <2> QED
    BY <2>1, <2>2 DEF Adds
<1>6. NothingOwed(earned, reversed, redeemed')
  <2> SUFFICES ASSUME NEW v \in Users
               PROVE  MilesOf(earned, v) - MilesOf(reversed, v) - MilesOf(redeemed', v) >= 0
    BY DEF NothingOwed
  <2>1. /\ MilesOf(earned, v) \in Nat /\ MilesOf(reversed, v) \in Nat
        /\ MilesOf(redeemed, v) \in Nat
    BY MilesAreNat DEF AccountsInv
  <2>2. /\ MilesOf(earned, v) - MilesOf(reversed, v) - MilesOf(redeemed, v) >= 0
        /\ v = u => miles <= MilesOf(earned, v) - MilesOf(reversed, v) - MilesOf(redeemed, v)
    BY <1>2, BalanceIsRest DEF AccountsInv, NothingOwed
  <2>3. MilesOf(redeemed', v) = MilesOf(redeemed, v) + (IF v = u THEN miles ELSE 0)
    BY <1>5
  <2> QED
    BY <1>2, <2>1, <2>2, <2>3
<1> QED
  BY <1>1, <1>5, <1>6 DEF AccountsInv

LEMMA DeleteKeepsAccounts ==
    ASSUME AccountsInv, NEW u \in Users, DeleteAccount(u)
    PROVE  AccountsInv'
<1>1. /\ earned' = Without(earned, u) /\ reversed' = Without(reversed, u)
      /\ redeemed' = Without(redeemed, u)
  BY DEF DeleteAccount
<1>2. /\ Kept(earned', Purchases)
      /\ \A v : MilesOf(earned', v) = IF v = u THEN 0 ELSE MilesOf(earned, v)
  BY <1>1, EntriesWithout DEF AccountsInv
<1>3. /\ Kept(reversed', Purchases)
      /\ \A v : MilesOf(reversed', v) = IF v = u THEN 0 ELSE MilesOf(reversed, v)
  BY <1>1, EntriesWithout DEF AccountsInv
<1>4. /\ Kept(redeemed', Redemptions)
      /\ \A v : MilesOf(redeemed', v) = IF v = u THEN 0 ELSE MilesOf(redeemed, v)
  BY <1>1, EntriesWithout DEF AccountsInv
<1>5. NothingOwed(earned', reversed', redeemed')
  BY <1>2, <1>3, <1>4 DEF AccountsInv, NothingOwed
<1> QED
  BY <1>2, <1>3, <1>4, <1>5 DEF AccountsInv

LEMMA NextKeepsAccounts == MilesInv /\ AccountsInv /\ [Next]_vars => AccountsInv'
<1> SUFFICES ASSUME MilesInv, AccountsInv, [Next]_vars PROVE AccountsInv'
  OBVIOUS
<1>1. CASE UNCHANGED <<earned, reversed, redeemed>>
  BY <1>1 DEF AccountsInv
<1> QED
  BY <1>1, CreditKeepsAccounts, ReverseKeepsAccounts, RedeemKeepsAccounts, DeleteKeepsAccounts
     DEF Next, Buy, Emit, ChangePlan, Receive, FindUser, MarkHandled, Die, entries, vars

LEMMA AccountsInvariant == Spec => []AccountsInv
  BY AccountsStart, NextKeepsAccounts, MilesInvariant, PTL DEF Spec

\* Refunds and redemptions, in whatever order and however often they are delivered, never
\* take more than there is: a reversal takes at most the balance and a redemption needs it,
\* each under the user's lock (reverseSpend, redeem).
THEOREM MilesAreNeverOwed == Spec => []NoDebt
<1>1. AccountsInv => NoDebt
  BY BalanceIsRest DEF NoDebt
<1> QED
  BY <1>1, AccountsInvariant, PTL

-----------------------------------------------------------------------------
(* Refunds that follow the answer to their purchase.                       *)

\* The purchase of a refund is credited from the start, and a delivery of the refund
\* that is about to mark it has written the reversal.
RefundInv ==
    /\ \A e \in Events :
         event[e] # None /\ event[e].type = "refund" /\ Buyer(e) \notin gone
             => earned[event[e].purchase] # None
    /\ \A c \in Calls :
         At(c, "mark") /\ event[call[c].event].type = "refund" /\ Buyer(call[c].event) \notin gone
             => reversed[event[call[c].event].purchase] # None
    /\ \A e \in Events :
         handled[e] # None /\ event[e].type = "refund" /\ Buyer(e) \notin gone
             => reversed[event[e].purchase] # None

LEMMA RefundsStart == Init => RefundInv
  BY DEF Init, RefundInv, At

\* A refund is sent once its purchase was answered, and so credited.
LEMMA EmitKeepsRefunds ==
  ASSUME InOrder, MilesInv, RefundInv, NEW e \in Events,
         NEW type \in {"purchase", "refund", "other"}, NEW p \in Purchases, Emit(e, type, p)
  PROVE  RefundInv'
<1>1. /\ event[e] = None /\ event'[e] = [type |-> type, purchase |-> p]
      /\ \A d \in Events : d # e => event'[d] = event[d]
  BY DEF Emit, MilesInv, Shape
<1>2. UNCHANGED <<gone, bought, handled, earned, reversed, call>>
  BY DEF Emit, entries
<1>3. /\ \A c \in Calls : call[c] # None => call[c].event \in Events /\ call[c].event # e
      /\ \A d \in Events : handled[d] # None => d # e
      /\ \A d \in Events : d # e => Buyer(d)' = Buyer(d)
  BY <1>1, <1>2, CallShape DEF MilesInv, Owners, Buyer
<1>4. type = "refund" /\ bought[p].user \notin gone => earned[p] # None
  <2> SUFFICES ASSUME type = "refund", bought[p].user \notin gone PROVE earned[p] # None
    OBVIOUS
  <2>1. PICK d \in Events : event[d] # None /\ handled[d] # None
                            /\ event[d].type = "purchase" /\ event[d].purchase = p
    BY DEF Emit, Answered
  <2> QED
    BY <2>1 DEF MilesInv, DoneBeforeMark, Buyer
<1>5. \A d \in Events : event'[d] # None /\ event'[d].type = "refund" /\ Buyer(d)' \notin gone
         => earned[event'[d].purchase] # None
  <2> SUFFICES ASSUME NEW d \in Events, event'[d] # None, event'[d].type = "refund",
                      Buyer(d)' \notin gone
               PROVE  earned[event'[d].purchase] # None
    OBVIOUS
  <2>1. CASE d = e
    BY <1>1, <1>2, <1>4, <2>1 DEF Buyer
  <2>2. CASE d # e
    BY <1>1, <1>3, <2>2 DEF RefundInv
  <2> QED
    BY <2>1, <2>2
<1> QED
  BY <1>1, <1>2, <1>3, <1>5 DEF RefundInv, At

\* A delivery of a refund writes the reversal, or finds it written.
LEMMA ReverseKeepsRefunds ==
  ASSUME MilesInv, AccountsInv, RefundInv, NEW c \in Calls, Reverse(c)
  PROVE  RefundInv'
<1> DEFINE e == call[c].event
           p == event[e].purchase
           u == call[c].user
<1>1. At(c, "write") /\ Proceed(c, "mark") /\ event[e].type = "refund"
  BY DEF Reverse
<1>2. UNCHANGED <<gone, bought, event, handled, earned>>
  BY DEF Reverse, outside
<1>3. /\ call'[c].event = e
      /\ \A d \in Calls : d # c => call'[d] = call[d]
      /\ u = bought[p].user /\ u # None
      /\ event[e] # None /\ e \in Events /\ p \in Purchases /\ bought[p] # None
  BY <1>1, ProceedShape DEF Buyer
<1>4. /\ \A q \in Purchases : reversed[q] # None => reversed'[q] # None
      /\ u \notin gone => reversed'[p] # None
  <2>1. CASE Reversible(p, u)
    <3>1. PICK miles : miles = Take(p, u)
      OBVIOUS
    <3>2. reversed' = [reversed EXCEPT ![p] = [user |-> u, miles |-> miles]]
      BY <2>1, <3>1 DEF Reverse
    <3>3. u \in Users
      BY <1>3 DEF MilesInv, Shape, Purchase
    <3>4. earned[p].miles \in Nat
      BY <1>3, <2>1 DEF Reversible, AccountsInv, Kept, Entry
    <3>5. miles \in Nat
      BY <3>1, <3>3, <3>4, BalanceIsRest DEF Take
    <3>6. [user |-> u, miles |-> miles] # None
      BY <3>3, <3>5, RecordAssumption DEF Entry
    <3> QED
      BY <1>3, <3>2, <3>6 DEF MilesInv, Shape
  <2>2. CASE ~Reversible(p, u)
    <3>1. UNCHANGED reversed
      BY <2>2 DEF Reverse
    <3>2. u \notin gone => earned[p] # None /\ earned[p].user = u
      BY <1>1, <1>3 DEF RefundInv, Buyer, MilesInv, Owners
    <3> QED
      BY <2>2, <3>1, <3>2 DEF Reversible
  <2> QED
    BY <2>1, <2>2
<1>5. /\ \A d \in Calls : call[d] # None => event[call[d].event].purchase \in Purchases
      /\ \A f \in Events : handled[f] # None => event[f].purchase \in Purchases
  BY CallShape, EventShape DEF MilesInv, Owners
<1> QED
  BY <1>2, <1>3, <1>4, <1>5 DEF RefundInv, At, Buyer

\* Entries are only added, but for those of the account that is deleted.
LEMMA CreditKeepsRefunds ==
  ASSUME MilesInv, RefundInv, NEW c \in Calls, Credit(c)
  PROVE  RefundInv'
<1> DEFINE e == call[c].event
           p == event[e].purchase
<1>1. At(c, "write") /\ Proceed(c, "mark") /\ event[e].type = "purchase"
  BY DEF Credit
<1>2. UNCHANGED <<gone, bought, event, handled, reversed>>
  BY DEF Credit, outside
<1>3. /\ call'[c].event = e
      /\ \A d \in Calls : d # c => call'[d] = call[d]
      /\ event[e] # None /\ e \in Events /\ p \in Purchases
  BY <1>1, ProceedShape
<1>4. \A q \in Purchases : earned[q] # None => earned'[q] # None
  <2>1. \A q \in Purchases : q # p => earned'[q] = earned[q]
    BY DEF Credit, MilesInv, Shape
  <2>2. earned[p] # None => earned'[p] = earned[p]
    BY <1>3 DEF Credit, MilesInv, Shape
  <2> QED
    BY <2>1, <2>2
<1>5. \A f \in Events : event[f] # None => event[f].purchase \in Purchases
  BY EventShape DEF MilesInv
<1> QED
  BY <1>1, <1>2, <1>3, <1>4, <1>5 DEF RefundInv, At, Buyer

LEMMA MarkKeepsRefunds ==
  ASSUME MilesInv, RefundInv, NEW c \in Calls, MarkHandled(c)
  PROVE  RefundInv'
<1> DEFINE e == call[c].event
<1>1. At(c, "mark") /\ e \in Events
  BY CallShape DEF MarkHandled, At, MilesInv
<1>2. UNCHANGED <<gone, bought, event, earned, reversed>>
  BY DEF MarkHandled, outside, entries
<1>3. /\ \A d \in Events : d # e => handled'[d] = handled[d]
      /\ \A d \in Calls : call'[d] = IF d = c THEN None ELSE call[d]
  BY DEF MarkHandled, MilesInv, Shape
<1> QED
  BY <1>1, <1>2, <1>3 DEF RefundInv, At, Buyer

LEMMA FindUserKeepsRefunds ==
  ASSUME InOrder, MilesInv, RefundInv, NEW c \in Calls, FindUser(c)
  PROVE  RefundInv'
<1> DEFINE e == call[c].event
<1>1. call[c] \in Call /\ call[c] # None /\ e \in Events
  BY CallShape DEF FindUser, At, MilesInv
<1>2. UNCHANGED <<gone, bought, event, handled, earned, reversed>>
  BY DEF FindUser, outside, entries
<1>3. /\ call'[c].event = e
      /\ call'[c].step = "mark" => Buyer(e) \in gone
      /\ \A d \in Calls : d # c => call'[d] = call[d]
  <2>1. call' = [call EXCEPT ![c] =
         IF Buyer(e) \in gone THEN [@ EXCEPT !.step = "mark"]
         ELSE [@ EXCEPT !.step = "write", !.user = Buyer(e), !.rate = plan[Buyer(e)]]]
    BY DEF FindUser, Buyer
  <2> QED
    BY <1>1, <2>1 DEF MilesInv, Shape, Call
<1> QED
  BY <1>1, <1>2, <1>3 DEF RefundInv, At, Buyer

LEMMA DeleteKeepsRefunds ==
  ASSUME MilesInv, RefundInv, NEW u \in Users, DeleteAccount(u)
  PROVE  RefundInv'
<1>1. /\ UNCHANGED <<bought, event, call>>
      /\ gone' = gone \union {u}
      /\ earned' = Without(earned, u) /\ reversed' = Without(reversed, u)
  BY DEF DeleteAccount
<1>2. \A e \in Events : handled'[e] # None => handled[e] # None
  BY DEF DeleteAccount, MilesInv, Shape
<1>3. \A p \in Purchases : bought[p].user # u =>
         /\ earned[p] # None => earned'[p] # None
         /\ reversed[p] # None => reversed'[p] # None
  BY <1>1, WithoutEntries DEF MilesInv, Shape, Owners
<1>4. /\ \A d \in Calls : call[d] # None => event[call[d].event].purchase \in Purchases
      /\ \A f \in Events : handled[f] # None => event[f].purchase \in Purchases
      /\ \A f \in Events : event[f] # None => event[f].purchase \in Purchases
  BY CallShape, EventShape DEF MilesInv, Owners
<1> QED
  BY <1>1, <1>2, <1>3, <1>4 DEF RefundInv, At, Buyer

LEMMA OthersKeepRefunds ==
  ASSUME MilesInv, RefundInv,
         \/ \E p \in Purchases, u \in Users, spend \in Spends : Buy(p, u, spend)
         \/ \E u \in Users, rate \in Rates : ChangePlan(u, rate)
         \/ \E c \in Calls, e \in Events : Receive(c, e)
         \/ \E c \in Calls : Die(c)
         \/ \E r \in Redemptions, u \in Users, miles \in Prices : Redeem(r, u, miles)
         \/ UNCHANGED vars
  PROVE  RefundInv'
<1>1. UNCHANGED <<gone, event, handled, earned, reversed>>
  BY DEF Buy, ChangePlan, Receive, Die, Redeem, outside, entries, vars
<1>2. \A e \in Events : event[e] # None => Buyer(e)' = Buyer(e)
  <2>1. ASSUME NEW p \in Purchases, NEW u \in Users, NEW spend \in Spends, Buy(p, u, spend),
               NEW e \in Events, event[e] # None
        PROVE  Buyer(e)' = Buyer(e)
    BY <2>1, EventShape DEF Buy, Buyer, MilesInv, Shape
  <2>2. UNCHANGED <<bought, event>> => \A e \in Events : Buyer(e)' = Buyer(e)
    BY DEF Buyer
  <2> QED
    BY <2>1, <2>2 DEF ChangePlan, Receive, Die, Redeem, outside, vars
<1>3. \A c \in Calls : At(c, "mark")' =>
         \/ At(c, "mark") /\ call'[c] = call[c]
         \/ call'[c].event \in Events /\ event[call'[c].event].type = "other"
  <2>1. ASSUME NEW c \in Calls, NEW e \in Events, Receive(c, e), NEW d \in Calls, At(d, "mark")'
        PROVE  \/ At(d, "mark") /\ call'[d] = call[d]
               \/ call'[d].event \in Events /\ event[call'[d].event].type = "other"
    BY <2>1 DEF Receive, At, MilesInv, Shape
  <2>2. ASSUME NEW c \in Calls, Die(c), NEW d \in Calls, At(d, "mark")'
        PROVE  At(d, "mark") /\ call'[d] = call[d]
    BY <2>2 DEF Die, At, MilesInv, Shape
  <2>3. UNCHANGED call => \A d \in Calls : At(d, "mark")' => At(d, "mark") /\ call'[d] = call[d]
    BY DEF At
  <2> QED
    BY <2>1, <2>2, <2>3 DEF Buy, ChangePlan, Redeem, vars
<1>4. /\ \A c \in Calls : call[c] # None => call[c].event \in Events /\ event[call[c].event] # None
      /\ \A e \in Events : handled[e] # None => event[e] # None
  BY CallShape DEF MilesInv, Owners
<1>5. \A c \in Calls : At(c, "mark")' => call'[c].event \in Events
  BY <1>3, <1>4 DEF At
<1>6. ASSUME NEW c \in Calls, NEW e \in Events, At(c, "mark")', call'[c].event = e,
             event[e].type = "refund", Buyer(e)' \notin gone
      PROVE  reversed[event[e].purchase] # None
  <2>1. At(c, "mark") /\ call[c].event = e
    BY <1>3, <1>6
  <2>2. Buyer(e) \notin gone
    BY <1>2, <1>4, <1>6, <2>1 DEF At
  <2> QED
    BY <1>6, <2>1, <2>2 DEF RefundInv
<1>7. \A c \in Calls : At(c, "mark")' =>
        \A e \in Events : e = call'[c].event /\ event'[e].type = "refund" /\ Buyer(e)' \notin gone'
             => reversed'[event'[e].purchase] # None
  BY <1>1, <1>6
<1>8. /\ \A e \in Events : event'[e] # None /\ event'[e].type = "refund" /\ Buyer(e)' \notin gone'
           => earned'[event'[e].purchase] # None
      /\ \A e \in Events : handled'[e] # None /\ event'[e].type = "refund" /\ Buyer(e)' \notin gone'
           => reversed'[event'[e].purchase] # None
  BY <1>1, <1>2, <1>4 DEF RefundInv
<1> QED
  BY <1>5, <1>7, <1>8 DEF RefundInv, Buyer

LEMMA NextKeepsRefunds ==
  ASSUME InOrder PROVE MilesInv /\ AccountsInv /\ RefundInv /\ [Next]_vars => RefundInv'
  BY EmitKeepsRefunds, ReverseKeepsRefunds, CreditKeepsRefunds, MarkKeepsRefunds,
     FindUserKeepsRefunds, DeleteKeepsRefunds, OthersKeepRefunds DEF Next

\* When the provider sends a refund only after its purchase was answered, a refund that
\* was answered has left no purchase credited and not taken back, whatever died half way,
\* came twice or overlapped (handleCardEvent).  Without that order a refund that comes
\* first finds nothing to take back, and is not sent again.
THEOREM RefundsAreTakenBack ==
  ASSUME InOrder PROVE Spec => []RefundTakesBack
<1>1. MilesInv /\ AccountsInv /\ RefundInv /\ [Next]_vars => RefundInv'
  BY NextKeepsRefunds
<1>2. MilesInv /\ RefundInv => RefundTakesBack
  <2> SUFFICES ASSUME MilesInv, RefundInv, NEW e \in Events, handled[e] # None,
                      event[e].type = "refund", earned[event[e].purchase] # None,
                      earned[event[e].purchase].user \notin gone
               PROVE  reversed[event[e].purchase] # None
    BY DEF RefundTakesBack
  <2>1. event[e] # None /\ event[e].purchase \in Purchases
    BY EventShape DEF MilesInv, Owners
  <2>2. Buyer(e) \notin gone
    BY <2>1 DEF MilesInv, Owners, Buyer
  <2> QED
    BY <2>2 DEF RefundInv
<1> QED
  BY <1>1, <1>2, RefundsStart, MilesInvariant, AccountsInvariant, PTL DEF Spec
=============================================================================
