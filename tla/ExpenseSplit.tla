---------------------------- MODULE ExpenseSplit ----------------------------
(***************************************************************************)
(* Adding an expense, from the screen to the server: the shares the screen *)
(* shows, frontend/utils/expenseSplit.ts; the shares the server stores,    *)
(* backend/utils/expenseAmounts.ts; and what a lost answer does,           *)
(* frontend/components/groupDetails/AddExpenseModal.tsx against the retry  *)
(* key of addExpense in backend/services/group.service.ts.                 *)
(*                                                                         *)
(* One payer adds expenses to one group.  Amounts are whole cents on both  *)
(* sides: the text between them has two decimals and loses nothing.  What  *)
(* is typed is a number, or Wrong for a text that is none; a field that    *)
(* was left empty counts as 0.  Percentages add up to Whole.               *)
(***************************************************************************)
EXTENDS Integers, FiniteSets, FiniteSetsExt, Functions

CONSTANTS
    Members,        \* people, by their place in the order of identifiers
    Payer,
    Forms,          \* what the payer may fill in
    LaterForms,     \* what the payer may fill in, or change it into, after the first try
    Whole,          \* a hundred per cent, 10000 in the code
    Joiners,        \* members who have not accepted their invitation at first
    Quarrels,       \* pairs of members one of whom may block the other
    MaxTries        \* how often "Add expense" is pressed

CONSTANTS None, Wrong

ASSUME SplitAssumption ==
    /\ Members \subseteq Nat /\ IsFiniteSet(Members) /\ Payer \in Members
    /\ Joiners \subseteq Members \ {Payer} /\ Quarrels \subseteq SUBSET Members
    /\ Whole \in Nat \ {0} /\ MaxTries \in Nat
    /\ LaterForms \subseteq Forms
    /\ \A f \in Forms : f.total \in Nat /\ f.mode \in {"equal", "custom", "percent"}
                        /\ f.excluded \subseteq Members
                        /\ f.typed \in [Members -> Nat \union {Wrong}]
    /\ None \notin Forms /\ Wrong \notin Nat

VARIABLES
    active,         \* who is in the group
    apart,          \* the pairs one of whom blocked the other
    stored,         \* by retry key, the expense the server created
    known,          \* who is in the group for all the phone knows
    form,           \* what is filled in, None when the form is empty
    filling,        \* how often a form was emptied
    unconfirmed,    \* the last attempt the server may have received
    call,           \* the request the phone waits for
    stray,          \* requests the phone no longer waits for
    tries,
    reviewed        \* by key, what the last summary showed, and whether a try was refused

server == <<active, apart, stored>>
phone == <<known, form, filling, unconfirmed, call, stray, tries, reviewed>>
vars == <<server, phone>>

Split == UNION {[S -> Nat] : S \in SUBSET Members}     \* whose share is how much
TypedIn(f) == IF f.mode = "equal" THEN None ELSE f.typed
Expense == [total : Nat, shares : Split]
Review == [shares : Split, form : Forms, filling : Nat, refused : BOOLEAN]
Try == [inputs : {<<f.total, f.mode, S, TypedIn(f)>> : f \in Forms, S \in SUBSET Members},
        id : 1 .. MaxTries, with : SUBSET Members, total : Nat, custom : Split \union {None}]
Call == [attempt : Try, answer : {None, "added", "refused", "failed"}]

\* "None" is used where the code has null: it is no record.
ASSUME RecordAssumption ==
    /\ \A S \in SUBSET Members : None \notin [S -> Nat]
    /\ None \notin {"added", "refused", "failed"}
    /\ None \notin Expense \union Review \union Try \union Call

-----------------------------------------------------------------------------
(* Shares, in cents.                                                       *)

Place(i, S) == Cardinality({j \in S : j < i})

\* The leftover cents go to the first people.
equalShares(total, S) ==
    [i \in S |-> total \div Cardinality(S)
                 + IF Place(i, S) < total % Cardinality(S) THEN 1 ELSE 0]

\* Defect: the leftover cents of percentages go to the first people, share or none.
CarelessShares(total, basis) ==
    LET floor == [i \in DOMAIN basis |-> (total * basis[i]) \div Whole]
        left == total - SumFunction(floor)
    IN [i \in DOMAIN basis |-> floor[i] + IF Place(i, DOMAIN basis) < left THEN 1 ELSE 0]

\* Defect: the leftover cents are nobody's.
FlooredShares(total, basis) == [i \in DOMAIN basis |-> (total * basis[i]) \div Whole]

\* The leftover cents go to the first people with a share.
percentShares(total, basis) ==
    LET floor == [i \in DOMAIN basis |-> (total * basis[i]) \div Whole]
        left == total - SumFunction(floor)
        sharing == {i \in DOMAIN basis : basis[i] > 0}
    IN [i \in DOMAIN basis |-> floor[i]
            + IF i \in sharing /\ Place(i, sharing) < left THEN 1 ELSE 0]

\* What the screen makes of the form for the people S: None while it does not add up.
computeSplit(f, S) ==
    LET typed == Restrict(f.typed, S)
        fits(sum) == Wrong \notin Range(typed) /\ SumFunction(typed) = sum
    IN CASE f.mode = "equal" -> equalShares(f.total, S)
         [] f.mode = "custom" -> IF fits(f.total) THEN typed ELSE None
         [] f.mode = "percent" -> IF fits(Whole) THEN percentShares(f.total, typed) ELSE None

\* The server divides itself when it is not told the shares, and else checks them.
splitExpense(a) == IF a.custom = None THEN equalShares(a.total, a.with) ELSE a.custom

Adds(a) == a.custom # None => DOMAIN a.custom = a.with /\ SumFunction(a.custom) = a.total

-----------------------------------------------------------------------------
Init ==
    /\ active = Members \ Joiners
    /\ apart = {}
    /\ stored = [id \in 1 .. MaxTries |-> None]
    /\ known = active
    /\ form = None /\ filling = 0
    /\ unconfirmed = None /\ call = None /\ stray = {}
    /\ tries = 0
    /\ reviewed = [id \in 1 .. MaxTries |-> None]

\* Others accept their invitations, block each other and think better of it.
Join(u) ==
    /\ u \in Joiners \ active
    /\ active' = active \union {u}
    /\ UNCHANGED <<apart, stored, phone>>

Quarrel(pair) ==
    /\ apart' = (apart \ {pair}) \union ({pair} \ apart)
    /\ UNCHANGED <<active, stored, phone>>

Refresh ==
    /\ known' = active
    /\ UNCHANGED <<server, form, filling, unconfirmed, call, stray, tries, reviewed>>

\* Before the first try, a change of the form is no different from filling it in.
Fill(f) ==
    /\ call = None /\ tries < MaxTries
    /\ tries = 0 => form = None
    /\ form' = f
    /\ UNCHANGED <<server, known, filling, unconfirmed, call, stray, tries, reviewed>>

-----------------------------------------------------------------------------
(* "Add expense".                                                          *)

\* Everyone in the group who is not unticked, and always the payer.
sharingIds == {Payer} \union (known \ form.excluded)

Inputs == <<form.total, form.mode, sharingIds, TypedIn(form)>>

\* Defect: every try has a key of its own.
AlwaysNew == [inputs |-> Inputs, id |-> tries + 1, with |-> sharingIds, total |-> form.total,
              custom |-> IF form.mode = "equal" THEN None ELSE computeSplit(form, sharingIds)]

\* The last attempt as it was, when it may have arrived and the inputs are the same.
Attempt ==
    IF unconfirmed # None /\ unconfirmed.inputs = Inputs THEN unconfirmed
    ELSE [inputs |-> Inputs, id |-> tries + 1, with |-> sharingIds, total |-> form.total,
          custom |-> IF form.mode = "equal" THEN None ELSE computeSplit(form, sharingIds)]

Submit ==
    /\ call = None /\ form # None /\ tries < MaxTries
    /\ form.total > 0 /\ sharingIds # {Payer} /\ computeSplit(form, sharingIds) # None
    /\ tries' = tries + 1
    /\ call' = [attempt |-> Attempt, answer |-> None]
    /\ reviewed' = [reviewed EXCEPT ![Attempt.id] =
          [shares |-> computeSplit(form, sharingIds), form |-> form,
           filling |-> filling, refused |-> FALSE]]
    /\ UNCHANGED <<server, known, form, filling, unconfirmed, stray>>

\* What the server checks of a request before it looks for its key.
Accepts(a) ==
    /\ a.with \subseteq active /\ a.with # {Payer}
    /\ ~\E pair \in apart : pair \subseteq a.with
    /\ Adds(a)

\* A key that was used answers with its expense, if it is the same one.
Same(a) == stored[a.id].total = a.total /\ stored[a.id].shares = splitExpense(a)

\* The stored expenses and the answer once the server has handled "a".
Serve(a, answer) ==
    \/ /\ ~Accepts(a) /\ answer = "refused"
       /\ UNCHANGED stored
    \/ /\ Accepts(a) /\ stored[a.id] # None
       /\ answer = (IF Same(a) THEN "added" ELSE "refused")
       /\ UNCHANGED stored
    \/ /\ Accepts(a) /\ stored[a.id] = None /\ answer = "added"
       /\ stored' = [stored EXCEPT ![a.id] = [total |-> a.total, shares |-> splitExpense(a)]]
    \/ /\ answer = "failed"
       /\ UNCHANGED stored

ServeCall ==
    /\ call # None /\ call.answer = None
    /\ \E answer \in {"added", "refused", "failed"} :
         /\ Serve(call.attempt, answer)
         /\ call' = [call EXCEPT !.answer = answer]
    /\ UNCHANGED <<active, apart, known, form, filling, unconfirmed, stray, tries, reviewed>>

\* A request that arrives after the phone has given up waiting; nobody hears the answer.
ServeStray(a) ==
    /\ \E answer \in {"added", "refused", "failed"} : Serve(a, answer)
    /\ stray' = stray \ {a}
    /\ UNCHANGED <<active, apart, known, form, filling, unconfirmed, call, tries, reviewed>>

\* Defect: what was unconfirmed stays so once it is answered.
HearAddedOnly ==
    /\ call # None /\ call.answer = "added"
    /\ form' = None /\ filling' = filling + 1
    /\ known' \in {known, active}
    /\ call' = None
    /\ UNCHANGED <<server, unconfirmed, stray, tries, reviewed>>

\* The expense was added: the form is emptied, and the group is read again, if it can be.
HearAdded ==
    /\ call # None /\ call.answer = "added"
    /\ unconfirmed' = None /\ form' = None /\ filling' = filling + 1
    /\ known' \in {known, active}
    /\ call' = None
    /\ UNCHANGED <<server, stray, tries, reviewed>>

\* A 4xx means nothing was created; after a 5xx the attempt is kept.
HearError ==
    /\ call # None /\ call.answer \in {"refused", "failed"}
    /\ unconfirmed' = IF call.answer = "failed" THEN call.attempt ELSE None
    /\ reviewed' = IF call.answer = "failed" THEN reviewed
                   ELSE [reviewed EXCEPT ![call.attempt.id].refused = TRUE]
    /\ call' = None
    /\ UNCHANGED <<server, known, form, filling, stray, tries>>

\* No answer in time: the request, or the answer to it, is lost or late.
GiveUp ==
    /\ call # None
    /\ unconfirmed' = call.attempt
    /\ stray' \in IF call.answer = None THEN {stray, stray \union {call.attempt}} ELSE {stray}
    /\ call' = None
    /\ UNCHANGED <<server, known, form, filling, tries, reviewed>>

Next ==
    \/ \E u \in Joiners : Join(u)
    \/ \E pair \in Quarrels : Quarrel(pair)
    \/ Refresh
    \/ \E f \in IF tries = 0 THEN Forms ELSE LaterForms : Fill(f)
    \/ Submit
    \/ ServeCall
    \/ \E a \in stray : ServeStray(a)
    \/ HearAdded
    \/ HearError
    \/ GiveUp

Spec == Init /\ [][Next]_vars

-----------------------------------------------------------------------------
(* Properties.                                                             *)

Stored == {id \in 1 .. MaxTries : stored[id] # None}

\* A split the screen lets through is never turned down by the server for its numbers, and
\* what the server stores is what the payer saw in the summary, person by person, although
\* it divides equal shares itself (computeSplit, splitExpense, equalShares).
StoredAsReviewed ==
    /\ call # None => Adds(call.attempt)
    /\ \A id \in Stored : stored[id].shares = reviewed[id].shares

\* The shares of an expense add up to it, to the cent.  Equal shares are a cent apart at
\* most; nobody pays a cent less than a percentage, or more than a cent above it, and
\* whoever has none pays nothing (splitExpense, computeSplit).
SharesAreFair ==
    \A id \in Stored :
        LET f == reviewed[id].form
            shares == stored[id].shares
        IN /\ SumFunction(shares) = f.total
           /\ f.mode = "equal" => \A i, j \in DOMAIN shares : shares[i] <= shares[j] + 1
           /\ f.mode = "percent" => \A i \in DOMAIN shares :
                LET over == shares[i] * Whole - f.total * f.typed[i]
                IN -Whole < over /\ over <= Whole /\ (f.typed[i] = 0 => shares[i] = 0)

SameSummary(i, j) == /\ reviewed[i].form = reviewed[j].form
                     /\ reviewed[i].shares = reviewed[j].shares
                     /\ reviewed[i].filling = reviewed[j].filling

\* What its payer saw in one summary is added once, however often the answer is lost
\* and it is sent again: for a second expense with the same summary, a try of the first
\* was refused or something else was sent in between (Attempt, addExpense).
OneExpensePerSummary ==
    \A i, j \in Stored :
        SameSummary(i, j) /\ i < j =>
            reviewed[i].refused \/ \E k \in i + 1 .. j - 1 : reviewed[k] # None

\* One form that is not changed between its tries becomes one expense.  This is what the
\* comment in AddExpenseModal.tsx promises, and it fails once somebody joins.
OneExpensePerForm ==
    \A i, j \in Stored :
        reviewed[i].form = reviewed[j].form /\ reviewed[i].filling = reviewed[j].filling => i = j

\* A form that was reported as added has an expense of its own: the retry of a lost
\* answer never swallows the next expense, even one that is filled in the same.
EachFormIsAdded ==
    \A n \in 0 .. filling - 1 : \E id \in Stored : reviewed[id].filling = n

\* Neither one expense too many nor one too few, however answers are lost (Attempt, addExpense).
FormsBecomeExpenses == OneExpensePerSummary /\ EachFormIsAdded
=============================================================================
