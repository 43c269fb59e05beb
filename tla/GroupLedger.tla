---------------------------- MODULE GroupLedger -----------------------------
(***************************************************************************)
(* Who owes what in a group, and how a debt is paid:                       *)
(* backend/services/group.service.ts (expenses, shares, quotes,            *)
(* settlements) and paymentRequest.service.ts, over GroupMembers.          *)
(*                                                                         *)
(* A serializable transaction is one action.  Asking for a quote, settling *)
(* with a payment and confirming a request first check things outside      *)
(* their transaction, so each has a Read and a Write and what was read     *)
(* waits in "work".  Payments are made outside: "payment" is what the      *)
(* chain and the transaction table say of them.  A share has one key, its  *)
(* expense and its debtor.  Descriptions, the token and retry keys are     *)
(* left out; amounts are whole units.                                      *)
(***************************************************************************)
EXTENDS GroupMembers, FiniteSetsExt

CONSTANTS
    Expenses, Quotes, Payments, Requests,   \* identifiers
    Amounts,        \* amounts of shares and of requests
    Handlers,       \* settlement requests that can be half way at once
    Leavers,        \* the users who may delete their account
    QuoteLife, RequestLife, MaxTime

ASSUME LedgerAssumption ==
    /\ Amounts \subseteq Nat /\ Leavers \subseteq Users
    /\ QuoteLife \in Nat /\ RequestLife \in Nat /\ MaxTime \in Nat
    /\ None \notin Quotes \union Payments \union Requests \union Nat
    /\ Quotes \intersect Requests = {} /\ Expenses \intersect (Quotes \union Requests) = {}

\* As many as there are when somebody looks.
ASSUME FiniteAssumption == IsFiniteSet(Expenses) /\ IsFiniteSet(Users)

Shares == Expenses \X Users

VARIABLES
    now,        \* the time
    expense,    \* expenses, also those deleted since
    share,      \* a row per expense and debtor
    quote,      \* settlement intents
    payment,    \* payments on chain that the backend has recorded
    use,        \* what each payment was used for
    request,    \* payment requests
    dropped,    \* expenses, quotes and requests that were deleted
    work        \* requests to settle or to confirm, half way

debts == <<expense, share, quote>>
money == <<payment, use, request>>
ledger == <<now, debts, money, dropped, work>>
vars == <<mvars, ledger>>

Expense == [group : Groups, payer : Users]
Share == [amount : Nat, decision : {"pending", "accepted", "disputed"},
          settled : BOOLEAN, by : Payments \union {None}]
Quote == [group : Groups, from : Users, to : Users, shares : SUBSET Shares,
          amount : Nat, made : Nat, expires : Nat, settled : BOOLEAN]
Payment == [from : Users, to : Users, amount : Nat, at : Nat]
Request == [creator : Users, amount : Nat, made : Nat, expires : Nat,
            paidBy : Payments \union {None}, cancelledAt : Nat \union {None}]
Work == [kind : {"quote"}, quote : Quotes, group : Groups, from : Users, to : Users]
        \union [kind : {"settle"}, quote : Quotes, payment : Payments]
        \union [kind : {"confirm"}, request : Requests, payment : Payments]

ASSUME RecordAssumption ==
    None \notin Expense \union Share \union Quote \union Payment \union Request \union Work

\* Groups begin founded, some people invited and some in: GroupMembers has how.
Founded ==
    /\ gone = {} /\ blocks = {} /\ closed = {}
    /\ creator \in [Groups -> Users]
    /\ status \in [Groups -> [Users -> {"active", "invited"}]]
    /\ \A g \in Groups : status[g][creator[g]] = "active"
    /\ invitedBy = [g \in Groups |-> [u \in Users |-> creator[g]]]
    /\ call = [c \in Calls |-> None]

LedgerInit ==
    /\ Founded
    /\ now = 0
    /\ expense = [e \in Expenses |-> None]
    /\ share = [s \in Shares |-> None]
    /\ quote = [q \in Quotes |-> None]
    /\ payment = [t \in Payments |-> None]
    /\ use = [t \in Payments |-> None]
    /\ request = [r \in Requests |-> None]
    /\ dropped = {}
    /\ work = [h \in Handlers |-> None]

Start(h, w) == work[h] = None /\ work' = [work EXCEPT ![h] = w]

Finish(h) == work' = [work EXCEPT ![h] = None]

Total(S) == MapThenSumSet(LAMBDA s : share[s].amount, S)

Unpaid(s) == share[s] # None /\ ~share[s].settled

Accepted(s) == share[s] # None /\ share[s].decision = "accepted"

\* The shares of g that are not settled.
UnpaidIn(g) == {s \in Shares : Unpaid(s) /\ expense[s[1]].group = g}

\* What u has accepted to pay v in g and has not paid yet.
Owed(g, u, v) ==
    {s \in UnpaidIn(g) : s[2] = u /\ expense[s[1]].payer = v /\ Accepted(s)}

\* A quote that is neither used nor out of date.
Active(q) ==
    quote[q] # None /\ q \notin dropped /\ ~quote[q].settled /\ now < quote[q].expires

\* verifyTokenPayment and the comparisons after it: the right amount, from the
\* right account to the right one, within the period of the quote or the request.
PaidInTime(t, to, item) ==
    /\ payment[t] # None
    /\ payment[t].to = to /\ payment[t].amount = item.amount
    /\ item.made <= payment[t].at /\ payment[t].at <= item.expires

Pays(t, q) == PaidInTime(t, quote[q].to, quote[q]) /\ payment[t].from = quote[q].from

-----------------------------------------------------------------------------
(* Expenses.                                                               *)

\* Nobody accepts for another: only shares that ask for nothing start accepted.
NewShare(p, u, a) ==
    LET square == u = p \/ a = 0
    IN [amount |-> a, decision |-> IF square THEN "accepted" ELSE "pending",
        settled |-> square, by |-> None]

\* "amount" has a share for each participant.
AddExpense(e, g, p, amount) ==
    /\ expense[e] = None
    /\ p \notin gone /\ IsMember(g, p)
    /\ \A u \in DOMAIN amount : status[g][u] = "active"
    /\ DOMAIN amount \ {p} # {}
    /\ \A u, v \in DOMAIN amount \union {p} : ~Blocked(u, v)
    /\ \E u \in DOMAIN amount : amount[u] > 0
    /\ expense' = [expense EXCEPT ![e] = [group |-> g, payer |-> p]]
    /\ share' = [s \in Shares |-> IF s[1] = e /\ s[2] \in DOMAIN amount
                                  THEN NewShare(p, s[2], amount[s[2]]) ELSE share[s]]
    /\ UNCHANGED <<mvars, now, quote, money, dropped, work>>

\* Defect: a quote no longer holds its shares once it is nearly out of date.
HeldShortly(s) == \E q \in Quotes : Active(q) /\ s \in quote[q].shares /\ now + 1 < quote[q].expires

\* A quote the debtor may be paying by now.
Held(s) == \E q \in Quotes : Active(q) /\ quote[q].from = s[2] /\ s \in quote[q].shares

\* Defect: a share that is paid can still be disputed.
Undecided(s) == share[s] # None /\ ~Held(s)

Decidable(s) == Unpaid(s) /\ ~Held(s)

DecideShare(s, decision) ==
    /\ s[2] \notin gone
    /\ Decidable(s)
    /\ share' = [share EXCEPT ![s].decision = decision]
    /\ UNCHANGED <<mvars, now, expense, quote, money, dropped, work>>

\* "An acknowledged or paid expense must remain in the history".
Acknowledged(e) ==
    \E u \in Users \ {expense[e].payer} :
        Accepted(<<e, u>>) \/ (share[<<e, u>>] # None /\ share[<<e, u>>].by # None)

\* The rows go with the expense (onDelete: Cascade).
SharesWithout(e) == [s \in Shares |-> IF s[1] = e THEN None ELSE share[s]]

DeleteExpense(e, u) ==
    /\ u \notin gone
    /\ expense[e] # None /\ e \notin dropped
    /\ u \in {creator[expense[e].group], expense[e].payer}
    /\ ~Acknowledged(e)
    /\ dropped' = dropped \union {e}
    /\ share' = SharesWithout(e)
    /\ UNCHANGED <<mvars, now, expense, quote, money, work>>

-----------------------------------------------------------------------------
(* Quotes and settlements.                                                 *)

\* "q" is the identifier a new quote will get.
QuoteRead(h, q, g, u, v) ==
    /\ quote[q] = None
    /\ ~\E o \in Handlers : work[o] # None /\ work[o].kind = "quote" /\ work[o].quote = q
    /\ u \notin gone /\ IsMember(g, u) /\ IsMember(g, v) /\ u # v
    /\ Start(h, [kind |-> "quote", quote |-> q, group |-> g, from |-> u, to |-> v])
    /\ UNCHANGED <<mvars, now, debts, money, dropped>>

\* The quote for this debt that still runs is handed out again.
Running(g, u, v) ==
    \E q \in Quotes : Active(q) /\ quote[q].group = g /\ quote[q].from = u /\ quote[q].to = v

QuoteWrite(h) ==
    /\ work[h] # None /\ work[h].kind = "quote"
    /\ LET q == work[h].quote
           g == work[h].group
           u == work[h].from
           v == work[h].to
       IN IF v \notin gone /\ ~Running(g, u, v) /\ Owed(g, u, v) # {}
          THEN quote' = [quote EXCEPT ![q] =
                 [group |-> g, from |-> u, to |-> v, shares |-> Owed(g, u, v),
                  amount |-> Total(Owed(g, u, v)), made |-> now,
                  expires |-> now + QuoteLife, settled |-> FALSE]]
          ELSE UNCHANGED quote
    /\ Finish(h)
    /\ UNCHANGED <<mvars, now, expense, share, money, dropped>>

OnFile(q) == quote[q] # None /\ q \notin dropped

\* The debtor's phone sends the payment it made for this quote.
SettleRead(h, q, t) ==
    /\ OnFile(q)
    /\ gone \intersect {quote[q].from, quote[q].to} = {}
    /\ Pays(t, q)
    /\ Start(h, [kind |-> "settle", quote |-> q, payment |-> t])
    /\ UNCHANGED <<mvars, now, debts, money, dropped>>

\* Defect: a payment is looked up among those used for groups only.
UnusedInGroups(t) == \A s \in Shares : share[s] # None => share[s].by # t

Unused(t) == use[t] = None /\ \A s \in Shares : share[s] # None => share[s].by # t

\* Defect: a share somebody has paid meanwhile is paid again.
AllAccepted(S) == \A s \in S : Accepted(s)

AllPayable(S) == \A s \in S : Unpaid(s) /\ Accepted(s)

SettleWrite(h) ==
    /\ work[h] # None /\ work[h].kind = "settle"
    /\ LET q == work[h].quote
           t == work[h].payment
       IN IF Unused(t) /\ (\A x \in Payments : use[x] # q)
             /\ AllPayable(quote[q].shares) /\ q \notin dropped
          THEN /\ use' = [use EXCEPT ![t] = q]
               /\ share' = [s \in Shares |->
                     IF s \in quote[q].shares
                     THEN [share[s] EXCEPT !.settled = TRUE, !.by = t] ELSE share[s]]
               /\ quote' = [quote EXCEPT ![q].settled = TRUE]
          ELSE UNCHANGED <<use, share, quote>>
    /\ Finish(h)
    /\ UNCHANGED <<mvars, now, expense, payment, request, dropped>>

\* What a payment may amount to.
Prices == Amounts \union {quote[q].amount : q \in {x \in Quotes : quote[x] # None}}

\* Anyone may pay anyone.
Pay(t, u, v, a) ==
    /\ payment[t] = None /\ u # v /\ a > 0
    /\ payment' = [payment EXCEPT ![t] = [from |-> u, to |-> v, amount |-> a, at |-> now]]
    /\ UNCHANGED <<mvars, now, debts, use, request, dropped, work>>

-----------------------------------------------------------------------------
(* Payment requests.                                                       *)

CreateRequest(r, u, a) ==
    /\ request[r] = None /\ u \notin gone /\ a > 0
    /\ request' = [request EXCEPT ![r] =
          [creator |-> u, amount |-> a, made |-> now, expires |-> now + RequestLife,
           paidBy |-> None, cancelledAt |-> None]]
    /\ UNCHANGED <<mvars, now, debts, payment, use, dropped, work>>

CancelRequest(r) ==
    /\ request[r] # None /\ r \notin dropped /\ request[r].creator \notin gone
    /\ request[r].paidBy = None /\ request[r].cancelledAt = None
    /\ request' = [request EXCEPT ![r].cancelledAt = now]
    /\ UNCHANGED <<mvars, now, debts, payment, use, dropped, work>>

ConfirmRead(h, r, t) ==
    /\ request[r] # None /\ r \notin dropped
    /\ PaidInTime(t, request[r].creator, request[r])
    /\ Start(h, [kind |-> "confirm", request |-> r, payment |-> t])
    /\ UNCHANGED <<mvars, now, debts, money, dropped>>

\* A payment made before the cancellation still counts.
StillDue(r, t) ==
    /\ request[r].paidBy = None
    /\ request[r].cancelledAt # None => payment[t].at <= request[r].cancelledAt

ConfirmWrite(h) ==
    /\ work[h] # None /\ work[h].kind = "confirm"
    /\ LET r == work[h].request
           t == work[h].payment
       IN IF r \notin dropped /\ StillDue(r, t) /\ Unused(t)
          THEN /\ use' = [use EXCEPT ![t] = r]
               /\ request' = [request EXCEPT ![r].paidBy = t]
          ELSE UNCHANGED <<use, request>>
    /\ Finish(h)
    /\ UNCHANGED <<mvars, now, debts, payment, dropped>>

GiveUp(h) ==
    /\ MayFail /\ work[h] # None
    /\ Finish(h)
    /\ UNCHANGED <<mvars, now, debts, money, dropped>>

Tick ==
    /\ now < MaxTime
    /\ now' = now + 1
    /\ UNCHANGED <<mvars, debts, money, dropped, work>>

-----------------------------------------------------------------------------
(* What GroupMembers leaves to the ledger.                                 *)

\* Defect: only what the member owes is looked at.
OwesNothing(g, v) == \A s \in UnpaidIn(g) : s[2] # v

Square(g, v) == \A s \in UnpaidIn(g) : v \notin {s[2], expense[s[1]].payer}

RemoveSquare(u, v, g) ==
    /\ RemoveMember(u, v, g)
    /\ Square(g, v)
    /\ UNCHANGED ledger

\* Defect: debts that were disputed do not count.
NothingAccepted(g) == \A s \in UnpaidIn(g) : share[s].amount > 0 => ~Accepted(s)

NothingOwed(g) == \A s \in UnpaidIn(g) : share[s].amount = 0

NothingRunning(g) == \A q \in Quotes : Active(q) => quote[q].group # g

DeleteSquare(u, g) ==
    /\ DeleteGroup(u, g)
    /\ NothingOwed(g) /\ NothingRunning(g)
    /\ UNCHANGED ledger

\* Quotes and requests that are open go with either party; debts stay.
DeleteAccountAndDrop(u) ==
    /\ DeleteAccount(u)
    /\ dropped' = dropped
         \union {q \in Quotes : quote[q] # None /\ ~quote[q].settled
                                /\ u \in {quote[q].from, quote[q].to}}
         \union {r \in Requests : request[r] # None /\ request[r].creator = u
                                  /\ request[r].paidBy = None}
    /\ UNCHANGED <<now, debts, money, work>>

LedgerSteps ==
    \/ \E e \in Expenses, g \in Groups, p \in Users, S \in SUBSET Users :
         \E amount \in [S -> Amounts] : AddExpense(e, g, p, amount)
    \/ \E s \in Shares, d \in {"accepted", "disputed"} : DecideShare(s, d)
    \/ \E e \in Expenses, u \in Users : DeleteExpense(e, u)
    \/ \E h \in Handlers, q \in Quotes, g \in Groups, u, v \in Users : QuoteRead(h, q, g, u, v)
    \/ \E h \in Handlers, q \in Quotes, t \in Payments : SettleRead(h, q, t)
    \/ \E h \in Handlers, r \in Requests, t \in Payments : ConfirmRead(h, r, t)
    \/ \E h \in Handlers : QuoteWrite(h) \/ SettleWrite(h) \/ ConfirmWrite(h) \/ GiveUp(h)
    \/ \E t \in Payments, u, v \in Users, a \in Prices : Pay(t, u, v, a)
    \/ \E r \in Requests, u \in Users, a \in Amounts : CreateRequest(r, u, a)
    \/ \E r \in Requests : CancelRequest(r)
    \/ Tick

MemberSteps ==
    \/ Social /\ UNCHANGED ledger
    \/ \E u, v \in Users, g \in Groups : RemoveSquare(u, v, g)
    \/ \E u \in Users, g \in Groups : DeleteSquare(u, g)
    \/ \E u \in Leavers : DeleteAccountAndDrop(u)

LedgerNext == LedgerSteps \/ MemberSteps

LedgerSpec == LedgerInit /\ [][LedgerNext]_vars

-----------------------------------------------------------------------------
(* Properties.                                                             *)

\* Every variable has its type, and rows point at rows that exist or existed.
LedgerTypeOK ==
    /\ now \in 0 .. MaxTime
    /\ expense \in [Expenses -> Expense \union {None}]
    /\ share \in [Shares -> Share \union {None}]
    /\ quote \in [Quotes -> Quote \union {None}]
    /\ payment \in [Payments -> Payment \union {None}]
    /\ use \in [Payments -> Quotes \union Requests \union {None}]
    /\ request \in [Requests -> Request \union {None}]
    /\ dropped \subseteq Expenses \union Quotes \union Requests
    /\ work \in [Handlers -> Work \union {None}]
    /\ \A s \in Shares : share[s] # None => expense[s[1]] # None /\ s[1] \notin dropped

PaidBy(t) == {s \in Shares : share[s] # None /\ share[s].by = t}

\* A payment that was used for a quote has settled shares of its sender, owed to its
\* recipient, that add up to what it paid, and no share that asked for something
\* is settled otherwise (settleAllWithMemberByInternalTx).
SettledMeansPaid ==
    /\ \A t \in Payments :
         use[t] \in Quotes =>
            /\ Total(PaidBy(t)) = payment[t].amount
            /\ \A s \in PaidBy(t) : /\ s[2] = payment[t].from
                                    /\ expense[s[1]].payer = payment[t].to
    /\ \A s \in Shares :
         share[s] # None /\ share[s].settled /\ share[s].amount > 0
         /\ s[2] # expense[s[1]].payer => share[s].by # None

\* "A chain receipt can discharge only one request or one group intent", although both
\* are checked before the transaction that writes.  And a request is paid only by what it
\* asked for, made before the request was cancelled, also when the two overlap.
OneReceiptOneDebt ==
    /\ \A s \in Shares, t \in Payments :
         share[s] # None /\ share[s].by = t => use[t] \in Quotes
    /\ \A r \in Requests :
         request[r] # None /\ request[r].paidBy # None =>
            /\ use[request[r].paidBy] = r
            /\ PaidInTime(request[r].paidBy, request[r].creator, request[r])
            /\ request[r].cancelledAt # None
                 => payment[request[r].paidBy].at <= request[r].cancelledAt

\* Whoever owes something in a group, or is owed something, is in it: nobody leaves,
\* is removed or turned away with a debt open (removeMember, addExpense).
MembersOwe ==
    \A s \in Shares : Unpaid(s) =>
        \A u \in {s[2], expense[s[1]].payer} : status[expense[s[1]].group][u] = "active"

\* In a group that was deleted nothing is owed and nothing is being paid, whatever
\* was half way (deleteGroup, against addExpense and createSettlementIntent).
ClosedIsSquare ==
    \A g \in closed :
        /\ \A s \in Shares : share[s] # None /\ expense[s[1]].group = g /\ share[s].amount > 0
                            => share[s].settled
        /\ \A q \in Quotes : Active(q) => quote[q].group # g

\* While a quote runs its debtor stands by every share in it, so that a payment on its way
\* finds them acknowledged (decideSplit, deleteExpense), and no other quote runs for the same
\* debt, so that it is not paid twice from two phones (createSettlementIntent).
QuotesStand ==
    \A q \in Quotes : Active(q) =>
        /\ \A s \in quote[q].shares : Accepted(s)
        /\ \A p \in Quotes \ {q} : Active(p) => quote[p].shares \intersect quote[q].shares = {}
=============================================================================
