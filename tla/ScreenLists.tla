------------------------------ MODULE ScreenLists ------------------------------
(***************************************************************************)
(* What the phone shows of the service: the balances, the history with its *)
(* contacts, the groups, the people found by a search, and the nicknames   *)
(* that are kept on the phone alone. Every list is read by calls that may  *)
(* overlap and answer in any order, while the person signs out or another  *)
(* one signs in.                                                           *)
(*                                                                         *)
(* A call remembers when it was made (`accountRevision`, the counter of    *)
(* balance requests); the answer of one made before a reset is dropped.    *)
(* Here a reset marks the calls under way instead of counting.             *)
(***************************************************************************)
EXTENDS Integers, FiniteSets, ScreenCommon

CONSTANTS
    People,         \* the accounts that sign in on this phone
    Parties,        \* the addresses they pay and are paid by
    Members,        \* those of them that have a handle in the service
    Entries,      \* payments on record: with whom, sent or received, in the app or not
    Nicknames, Groups,
    Queries,        \* texts of three letters or more
    Found,          \* Found[q]: the parties whose name matches q
    Readings,       \* bound: amounts a reading may bring, in base units
    Grain,          \* base units of the last digit the service writes
    Histories,      \* bound: what the service may answer of the payments and their notes
    MaxResets,      \* bound: sign-ins, sign-outs and restarts, before so many requests
    MaxRequests,    \* bound: requests for balances
    Calls,          \* bound: calls under way at one time
    Kept            \* what may be in storage: [books, legacy]

ASSUME ListsAssumption ==
    /\ None \notin People \cup Parties \cup Nicknames \cup Groups \cup Queries \cup {"service", "chain"}
    /\ Entries \subseteq [with : Parties, sent : BOOLEAN, inApp : BOOLEAN]
    /\ Members \subseteq Parties /\ Found \in [Queries -> SUBSET Parties]
    /\ Readings \subseteq Nat /\ Grain \in Nat \ {0} /\ Unread \notin Nat
    /\ Histories \subseteq UNION {[shown -> {"none", "written", "hidden"}] : shown \in SUBSET Entries}
    /\ MaxResets \in Nat /\ MaxRequests \in Nat

VARIABLES
    person,         \* who is signed in, None when nobody is
    calls,          \* calls[c]: the call under way as c
    wallet,         \* the balance of one token and where it comes from
    history,        \* payments, by the party they were made with
    groups, detail, \* the groups, and the one that is open
    contacts,       \* recent contacts, and what a search found
    search,         \* what is typed, and the text a search is due for
    debts,          \* the shares with the contact on screen
    book,           \* the nicknames: in memory, and what is open
    stored          \* the nicknames in storage

listVars == <<person, calls, wallet, history, groups, detail, contacts, search, debts, book, stored>>

-----------------------------------------------------------------------------
\* Calls.

NoCall == [what |-> "free"]
Free(c) == calls[c].what = "free"
Begins(c, what, arg) ==
    /\ Free(c)
    /\ calls' = [calls EXCEPT ![c] = [what |-> what, of |-> person, arg |-> arg, live |-> TRUE]]
Under(c, what) == calls[c].what = what
Ends(c) == calls' = [calls EXCEPT ![c] = NoCall]
Live(c) == calls[c].live

-----------------------------------------------------------------------------
\* Nicknames (addressBookScope).

Nobody == [p \in {} |-> None]
BookOf(books, p) == IF p \in DOMAIN books THEN books[p] ELSE Nobody
WithBook(books, p, names) == [q \in DOMAIN books \cup {p} |-> IF q = p THEN names ELSE books[q]]
WithoutKey(f, k) == [q \in DOMAIN f \ {k} |-> f[q]]

\* The nicknames of before the books were split go to the first account that opens its book.
openBook(state, p) ==
    IF state.legacy = None \/ p \in DOMAIN state.books
    THEN [state EXCEPT !.owner = p, !.names = BookOf(state.books, p)]
    ELSE [state EXCEPT !.owner = p, !.names = state.legacy, !.legacy = None,
                       !.books = WithBook(state.books, p, state.legacy)]

forgetBook(state, p) == [state EXCEPT !.books = WithoutKey(state.books, p)]

\* What is written of a book; which one is open is decided by who is signed in.
Persisted(state) == [books |-> state.books, legacy |-> state.legacy]
Keep(state) == book' = state /\ stored' = Persisted(state)
hasNickname(names, a) == a \in DOMAIN names

-----------------------------------------------------------------------------
\* The history as it is shown.

Notes == {"none", "written", "hidden"}

\* Whoever has a handle goes by it; of the others a nickname is shown, or the address.
buildTransactionName(t, names) ==
    IF t.inApp /\ t.with \in Members THEN t.with
    ELSE IF t.with \notin Members /\ hasNickname(names, t.with) THEN names[t.with] ELSE "0x..."

transformTransaction(rows, names) == [t \in DOMAIN rows |-> buildTransactionName(t, names)]

NoHistory == [of |-> None, rows |-> Nobody, shown |-> Nobody, loading |-> FALSE, error |-> FALSE]
Rebuilt(rows, names) == [history EXCEPT !.rows = rows, !.shown = transformTransaction(rows, names)]

\* One thread for each party.
groupTransactionsByContact ==
    {[address |-> a, names |-> {history.shown[t] : t \in {u \in DOMAIN history.rows : u.with = a}}]
        : a \in {t.with : t \in DOMAIN history.rows}}

\* A row of a thread: the text of the note, that there is one, or nothing; a note of somebody
\* else can be reported.
RowShows(t) ==
    [note |-> CASE history.rows[t] = "written" -> "text" [] history.rows[t] = "hidden" -> "Note hidden" [] OTHER -> "none",
     report |-> history.rows[t] = "written" /\ ~t.sent /\ t.inApp /\ t.with \in Members]

\* One note and one category are stored for a payment; the sender alone changes them.
canEdit(t) == t.inApp /\ t.sent

-----------------------------------------------------------------------------
\* Balances.

\* The service writes an amount to the digits it shows, rounded to the nearest.
Written(n) == ((2 * n + Grain) \div (2 * Grain)) * Grain

\* `since`, `reading` and `of` are the specification's: the request the address was set at, the
\* one the shown amount was read for, and whose amount it is.
emptyPortfolio(address) ==
    [address |-> address, request |-> wallet.request + 1, since |-> wallet.request + 1,
     reading |-> wallet.request + 1, of |-> None, text |-> Unread, exact |-> None,
     loading |-> FALSE, error |-> FALSE, source |-> None]

\* The figure the funds of a payment are checked against: "exact" when there is one.
assetBaseUnits == IF wallet.exact # None THEN wallet.exact ELSE wallet.text

BalanceView ==
    IF wallet.source = None /\ wallet.loading THEN "skeleton"
    ELSE IF wallet.source = None /\ wallet.error THEN "Balance unavailable"
    ELSE IF wallet.source = "chain" THEN "amount" ELSE "total"

-----------------------------------------------------------------------------
\* Whoever signs in and out, and the phone that is closed.

NoGroups == [of |-> None, rows |-> [g \in Groups |-> "none"], loading |-> FALSE, error |-> FALSE]
NoDetail == [of |-> None, id |-> None, loading |-> FALSE, error |-> FALSE]
NoPeople == [of |-> None, who |-> {}]
NoContacts == [recents |-> NoPeople, results |-> NoPeople, loadingRecents |-> FALSE,
               loadingSearch |-> FALSE, error |-> FALSE]
NoSearch == [text |-> None, due |-> None]
NoDebts == [at |-> None, state |-> "closed", of |-> None]

\* Every list is emptied, and no call of before may fill it.
resetAccountScope ==
    /\ calls' = [c \in Calls |-> IF Free(c) THEN NoCall ELSE [calls[c] EXCEPT !.live = FALSE]]
    /\ history' = NoHistory /\ groups' = NoGroups /\ detail' = NoDetail /\ contacts' = NoContacts

\* The screens go with the account.
Leaves == search' = NoSearch /\ debts' = NoDebts

\* setAuth and loadSession. An account and the address of its wallet are one, here.
SignIn(p) ==
    /\ person # p /\ wallet.request < MaxResets
    /\ person' = p
    /\ resetAccountScope /\ Leaves
    /\ Keep(openBook(book, p))
    /\ wallet' = IF wallet.address = p THEN wallet ELSE emptyPortfolio(p)

SignsOut(names) ==
    /\ person # None /\ wallet.request < MaxResets
    /\ person' = None
    /\ resetAccountScope /\ Leaves
    /\ Keep([names EXCEPT !.owner = None, !.names = Nobody])
    /\ wallet' = emptyPortfolio(None)

logout == SignsOut(book)

\* Deleting a profile forgets its nicknames and then signs out.
DeleteProfile == SignsOut(forgetBook(book, person))

\* The stored nicknames arrive some time after the start. What was there before they came is
\* replaced, and the book of whoever is signed in is opened again.
Hydrate ==
    /\ ~book.hydrated
    /\ LET read == [book EXCEPT !.books = book.reading.books, !.legacy = book.reading.legacy, !.hydrated = TRUE]
           open == openBook(read, book.owner)
       IN  IF book.owner = None THEN book' = read /\ UNCHANGED <<stored, history>>
           ELSE Keep(open) /\ history' = Rebuilt(history.rows, open.names)
    /\ UNCHANGED <<person, calls, wallet, groups, detail, contacts, search, debts>>

Started(kept) == [books |-> Nobody, legacy |-> None, owner |-> None, names |-> Nobody,
                  hydrated |-> FALSE, reading |-> kept]

\* Bound: the phone is not closed before the stored nicknames have arrived and been written
\* back; what is written until then is an empty book.
Kill == /\ book.hydrated /\ stored = Persisted(book) /\ wallet.request < MaxResets
        /\ person' = None
        /\ calls' = [c \in Calls |-> NoCall]
        /\ history' = NoHistory /\ groups' = NoGroups /\ detail' = NoDetail /\ contacts' = NoContacts
        /\ Leaves
        /\ book' = Started(stored) /\ UNCHANGED stored
        /\ wallet' = emptyPortfolio(None)

Accounts == (\E p \in People : SignIn(p)) \/ logout \/ DeleteProfile \/ Hydrate \/ Kill

ListInit ==
    /\ person = None
    /\ calls = [c \in Calls |-> NoCall]
    /\ wallet = [address |-> None, request |-> 0, since |-> 0, reading |-> 0, of |-> None,
                 text |-> Unread, exact |-> None, loading |-> FALSE, error |-> FALSE, source |-> None]
    /\ history = NoHistory /\ groups = NoGroups /\ detail = NoDetail /\ contacts = NoContacts
    /\ search = NoSearch /\ debts = NoDebts
    /\ \E kept \in Kept : book = Started(kept) /\ stored = kept

-----------------------------------------------------------------------------
\* Balances: the newest request counts. The service answers, or the chain is asked.

refreshBalances(c) ==
    /\ Free(c) /\ wallet.request < MaxRequests
    /\ LET asks == [wallet EXCEPT !.request = wallet.request + 1]
       IN  IF wallet.address = None
           THEN wallet' = [asks EXCEPT !.error = TRUE] /\ UNCHANGED calls
           ELSE /\ wallet' = [asks EXCEPT !.loading = TRUE, !.error = FALSE]
                /\ Begins(c, "portfolio", [request |-> wallet.request + 1, address |-> wallet.address])
    /\ UNCHANGED <<person, history, groups, detail, contacts, search, debts, book, stored>>

Newest(c) == calls[c].arg.request = wallet.request

\* A reading of the address, by the request of call c.
Reads(c, source, text, exact) ==
    wallet' = [wallet EXCEPT !.text = text, !.exact = exact, !.source = source, !.loading = FALSE, !.error = FALSE,
                             !.of = calls[c].arg.address, !.reading = calls[c].arg.request]

OnlyWallet == UNCHANGED <<person, history, groups, detail, contacts, search, debts, book, stored>>

\* The service lists the token, or answers without it: nothing is held. A listed token keeps
\* the exact figure of an earlier reading of the chain.
PortfolioAnswers(c, amount) ==
    /\ Under(c, "portfolio")
    /\ Ends(c)
    /\ IF ~Newest(c) THEN UNCHANGED wallet
       ELSE IF amount = None THEN Reads(c, "service", 0, 0)
       ELSE Reads(c, "service", Written(amount), wallet.exact)
    /\ OnlyWallet

PortfolioFails(c) ==
    /\ Under(c, "portfolio")
    /\ IF Newest(c) THEN calls' = [calls EXCEPT ![c].what = "chain"] ELSE Ends(c)
    /\ UNCHANGED wallet /\ OnlyWallet

ChainAnswers(c, amount) ==
    /\ Under(c, "chain")
    /\ Ends(c)
    /\ IF Newest(c) THEN Reads(c, "chain", amount, amount) ELSE UNCHANGED wallet
    /\ OnlyWallet

\* What was last read stays; only the error changes.
ChainFails(c) ==
    /\ Under(c, "chain")
    /\ Ends(c)
    /\ wallet' = IF Newest(c) THEN [wallet EXCEPT !.error = TRUE, !.loading = FALSE] ELSE wallet
    /\ OnlyWallet

-----------------------------------------------------------------------------
\* The history, its notes and the nicknames.

OnlyHistory == UNCHANGED <<person, wallet, groups, detail, contacts, search, debts>>

fetchHistory(c) ==
    /\ person # None /\ ~history.loading
    /\ Begins(c, "history", None)
    /\ history' = [history EXCEPT !.loading = TRUE, !.error = FALSE]
    /\ OnlyHistory /\ UNCHANGED <<book, stored>>

\* Defect: an answer is put on screen whoever is signed in.
HistoryOfAnybody(c, rows) ==
    /\ Under(c, "history")
    /\ Ends(c)
    /\ history' = [Rebuilt(rows, book.names) EXCEPT !.of = calls[c].of, !.loading = FALSE]
    /\ OnlyHistory /\ UNCHANGED <<book, stored>>

HistoryAnswers(c, rows) ==
    /\ Under(c, "history")
    /\ Ends(c)
    /\ history' = IF Live(c) THEN [Rebuilt(rows, book.names) EXCEPT !.of = calls[c].of, !.loading = FALSE]
                  ELSE history
    /\ OnlyHistory /\ UNCHANGED <<book, stored>>

HistoryFails(c) ==
    /\ Under(c, "history")
    /\ Ends(c)
    /\ history' = IF Live(c) THEN [history EXCEPT !.error = TRUE, !.loading = FALSE] ELSE history
    /\ OnlyHistory /\ UNCHANGED <<book, stored>>

\* The screen of a payment saves its note; what is shown is changed in place, whoever is signed
\* in by then.
handleSave(c, t, note) ==
    /\ person # None /\ t \in DOMAIN history.rows /\ canEdit(t) /\ note \in {"none", "written"}
    /\ Begins(c, "note", [entry |-> t, note |-> note])
    /\ UNCHANGED history /\ OnlyHistory /\ UNCHANGED <<book, stored>>

updateLocalTransaction(c) ==
    /\ Under(c, "note")
    /\ Ends(c)
    /\ LET t == calls[c].arg.entry
           changed == [u \in DOMAIN history.rows |-> IF u = t THEN calls[c].arg.note ELSE history.rows[u]]
       IN  history' = Rebuilt(changed, book.names)
    /\ OnlyHistory /\ UNCHANGED <<book, stored>>

SaveFails(c) == /\ Under(c, "note")
                /\ Ends(c)
                /\ UNCHANGED history /\ OnlyHistory /\ UNCHANGED <<book, stored>>

\* A nickname is written to the book that is open, and the history is shown again.
writeContacts(names) ==
    /\ person # None
    /\ Keep([book EXCEPT !.names = names,
                         !.books = IF book.owner = None THEN book.books ELSE WithBook(book.books, book.owner, names)])
    /\ history' = Rebuilt(history.rows, names)
    /\ UNCHANGED calls /\ OnlyHistory

setNickname(a, n) == writeContacts([b \in DOMAIN book.names \cup {a} |-> IF b = a THEN n ELSE book.names[b]])
removeNickname(a) == writeContacts(WithoutKey(book.names, a))

-----------------------------------------------------------------------------
\* Groups.

OnlyGroups == UNCHANGED <<person, wallet, history, contacts, search, debts, book, stored>>

fetchGroups(c) ==
    /\ person # None /\ ~groups.loading
    /\ Begins(c, "groups", None)
    /\ groups' = [groups EXCEPT !.loading = TRUE, !.error = FALSE]
    /\ UNCHANGED detail /\ OnlyGroups

GroupsAnswer(c, rows) ==
    /\ Under(c, "groups")
    /\ Ends(c)
    /\ groups' = IF Live(c) THEN [groups EXCEPT !.rows = rows, !.of = calls[c].of, !.loading = FALSE] ELSE groups
    /\ UNCHANGED detail /\ OnlyGroups

GroupsFail(c) ==
    /\ Under(c, "groups")
    /\ Ends(c)
    /\ groups' = IF Live(c) THEN [groups EXCEPT !.error = TRUE, !.loading = FALSE] ELSE groups
    /\ UNCHANGED detail /\ OnlyGroups

\* Archiving, restoring and deleting change the list once the service has answered; a group
\* that has been created is fetched with the list, unless a fetch is under way.
Changes == {"archiveGroup", "unarchiveGroup", "deleteGroup"}

ChangeGroup(c, what, g) ==
    /\ person # None
    /\ groups.rows[g] = (IF what = "unarchiveGroup" THEN "archived" ELSE "open")
    /\ Begins(c, what, g)
    /\ UNCHANGED <<groups, detail>> /\ OnlyGroups

GroupChanged(c) ==
    /\ \E what \in Changes : Under(c, what)
    /\ Ends(c)
    /\ LET g == calls[c].arg
           row == IF groups.rows[g] = "none" THEN "none" ELSE IF Under(c, "archiveGroup") THEN "archived"
                  ELSE IF Under(c, "unarchiveGroup") THEN "open" ELSE "none"
       IN  IF Live(c)
           THEN /\ groups' = [groups EXCEPT !.rows[g] = row]
                /\ detail' = IF Under(c, "deleteGroup") THEN [detail EXCEPT !.id = None, !.of = None] ELSE detail
           ELSE UNCHANGED <<groups, detail>>
    /\ OnlyGroups

createGroup(c) == /\ person # None
                  /\ Begins(c, "create", None)
                  /\ UNCHANGED <<groups, detail>> /\ OnlyGroups

GroupCreated(c) ==
    /\ Under(c, "create")
    /\ IF Live(c) /\ ~groups.loading
       THEN /\ calls' = [calls EXCEPT ![c].what = "groups"]
            /\ groups' = [groups EXCEPT !.loading = TRUE, !.error = FALSE]
       ELSE Ends(c) /\ UNCHANGED groups
    /\ UNCHANGED detail /\ OnlyGroups

\* The open group is read when its screen opens, after an expense, and again on request.
fetchGroupDetail(c, g, silent) ==
    /\ person # None
    /\ Begins(c, "detail", [group |-> g, silent |-> silent])
    /\ detail' = [detail EXCEPT !.error = FALSE, !.loading = silent => detail.loading]
    /\ UNCHANGED groups /\ OnlyGroups

DetailAnswers(c) ==
    /\ Under(c, "detail")
    /\ Ends(c)
    /\ detail' = IF Live(c) THEN [detail EXCEPT !.id = calls[c].arg.group, !.of = calls[c].of, !.loading = FALSE]
                 ELSE detail
    /\ UNCHANGED groups /\ OnlyGroups

\* A refresh in place that fails leaves what is on screen.
DetailFails(c) ==
    /\ Under(c, "detail")
    /\ Ends(c)
    /\ detail' = IF ~Live(c) THEN detail
                 ELSE [detail EXCEPT !.loading = FALSE,
                                     !.error = detail.error \/ ~(calls[c].arg.silent /\ detail.id # None)]
    /\ UNCHANGED groups /\ OnlyGroups

addExpense(c, g) == /\ person # None
                    /\ Begins(c, "expense", [group |-> g, silent |-> FALSE])
                    /\ UNCHANGED <<groups, detail>> /\ OnlyGroups

ExpenseAdded(c) ==
    /\ Under(c, "expense")
    /\ IF Live(c)
       THEN /\ calls' = [calls EXCEPT ![c].what = "detail"]
            /\ detail' = [detail EXCEPT !.loading = TRUE, !.error = FALSE]
       ELSE Ends(c) /\ UNCHANGED detail
    /\ UNCHANGED groups /\ OnlyGroups

ChangeFails(c) == /\ \E what \in Changes \cup {"create", "expense"} : Under(c, what)
                  /\ Ends(c)
                  /\ UNCHANGED <<groups, detail>> /\ OnlyGroups

clearDetail == /\ detail.id # None \/ detail.error
               /\ detail' = [detail EXCEPT !.id = None, !.of = None, !.error = FALSE]
               /\ UNCHANGED <<calls, groups>> /\ OnlyGroups

-----------------------------------------------------------------------------
\* People: recent contacts, the search, and the shares with one of them.

OnlyPeople == UNCHANGED <<person, wallet, history, groups, detail, book, stored>>

getRecentContacts(c) ==
    /\ person # None
    /\ Begins(c, "recents", None)
    /\ contacts' = [contacts EXCEPT !.loadingRecents = TRUE]
    /\ UNCHANGED <<search, debts>> /\ OnlyPeople

RecentsEnd(c, who) ==
    /\ Under(c, "recents")
    /\ Ends(c)
    /\ contacts' = IF Live(c) THEN [contacts EXCEPT !.recents = [of |-> calls[c].of, who |-> who], !.loadingRecents = FALSE]
                   ELSE contacts
    /\ UNCHANGED <<search, debts>> /\ OnlyPeople

\* A text is searched for half a second after the last one was typed; clearing it cancels nothing.
TypeSearch(text) ==
    /\ person # None /\ text # search.text
    /\ search' = [text |-> text, due |-> IF text = None THEN search.due ELSE text]
    /\ UNCHANGED <<calls, contacts, debts>> /\ OnlyPeople

debouncedSearch(c) ==
    /\ search.due # None
    /\ search' = [search EXCEPT !.due = None]
    /\ IF search.due = "@" THEN UNCHANGED <<calls, contacts>>
       ELSE /\ Begins(c, "search", search.due)
            /\ contacts' = [contacts EXCEPT !.loadingSearch = TRUE, !.error = FALSE]
    /\ UNCHANGED debts /\ OnlyPeople

SearchAnswers(c) ==
    /\ Under(c, "search")
    /\ Ends(c)
    /\ contacts' = IF Live(c)
                   THEN [contacts EXCEPT !.results = [of |-> calls[c].of, who |-> Found[calls[c].arg] \cap Members],
                                         !.loadingSearch = FALSE]
                   ELSE contacts
    /\ UNCHANGED <<search, debts>> /\ OnlyPeople

SearchFails(c) ==
    /\ Under(c, "search")
    /\ Ends(c)
    /\ contacts' = IF Live(c) THEN [contacts EXCEPT !.results = NoPeople, !.error = TRUE, !.loadingSearch = FALSE]
                   ELSE contacts
    /\ UNCHANGED <<search, debts>> /\ OnlyPeople

\* Whoever is known on this phone; what is typed filters them and whatever was found last.
knownContacts == contacts.recents.who \cup DOMAIN book.names
displayContacts ==
    CASE search.text = None -> contacts.recents.who
      [] search.text = "@" -> knownContacts
      [] OTHER -> (contacts.results.who \cup knownContacts) \cap Found[search.text]

ContactsView ==
    IF search.text = None /\ contacts.loadingRecents THEN "Loading Contacts..."
    ELSE IF search.text \in Queries /\ contacts.loadingSearch /\ displayContacts = {} THEN "Searching..."
    ELSE IF displayContacts # {} THEN "list" ELSE IF contacts.error THEN "network-error"
    ELSE IF search.text # None THEN "no-search-results" ELSE "no-contacts"

\* The screen of a contact reads the shares with it; an answer for another is ignored.
OpenContact(c, a) ==
    /\ person # None /\ debts.at = None
    /\ Begins(c, "debts", a)
    /\ debts' = [at |-> a, state |-> "Loading", of |-> None]
    /\ UNCHANGED <<contacts, search>> /\ OnlyPeople

CloseContact ==
    /\ debts.at # None
    /\ calls' = [d \in Calls |-> IF Under(d, "debts") THEN [calls[d] EXCEPT !.live = FALSE] ELSE calls[d]]
    /\ debts' = NoDebts
    /\ UNCHANGED <<contacts, search>> /\ OnlyPeople

DebtsEnd(c, state) ==
    /\ Under(c, "debts")
    /\ Ends(c)
    /\ debts' = IF Live(c) THEN [debts EXCEPT !.state = state, !.of = calls[c].arg] ELSE debts
    /\ UNCHANGED <<contacts, search>> /\ OnlyPeople

-----------------------------------------------------------------------------
GroupRows == [Groups -> {"none", "open", "archived"}]

BalanceAnswers(c) == \/ \E amount \in Readings \cup {None} : PortfolioAnswers(c, amount)
                     \/ PortfolioFails(c)
                     \/ \E amount \in Readings : ChainAnswers(c, amount)
                     \/ ChainFails(c)
BalancesNext == \E c \in Calls : refreshBalances(c) \/ BalanceAnswers(c)

HistoryReply(c) == \/ \E rows \in Histories : HistoryAnswers(c, rows)
                   \/ HistoryFails(c) \/ updateLocalTransaction(c) \/ SaveFails(c)
HistoryNext ==
    \/ \E c \in Calls : fetchHistory(c) \/ HistoryReply(c)
    \/ \E c \in Calls, t \in Entries, note \in Notes : handleSave(c, t, note)
    \/ \E a \in Parties, n \in Nicknames : setNickname(a, n)
    \/ \E a \in Parties : removeNickname(a)

GroupsReply(c) == \/ \E rows \in GroupRows : GroupsAnswer(c, rows)
                  \/ GroupsFail(c) \/ GroupChanged(c) \/ GroupCreated(c) \/ ChangeFails(c)
                  \/ DetailAnswers(c) \/ DetailFails(c) \/ ExpenseAdded(c)
GroupsNext ==
    \/ \E c \in Calls : fetchGroups(c) \/ createGroup(c) \/ GroupsReply(c)
    \/ \E c \in Calls, what \in Changes, g \in Groups : ChangeGroup(c, what, g)
    \/ \E c \in Calls, g \in Groups : addExpense(c, g) \/ \E silent \in BOOLEAN : fetchGroupDetail(c, g, silent)
    \/ clearDetail

PeopleReply(c) == \/ \E who \in SUBSET Parties : RecentsEnd(c, who)
                  \/ SearchAnswers(c) \/ SearchFails(c)
PeopleNext ==
    \/ \E c \in Calls : getRecentContacts(c) \/ debouncedSearch(c) \/ PeopleReply(c)
    \/ \E text \in Queries \cup {None, "@"} : TypeSearch(text)

ContactReply(c) == \E state \in {"read", "unavailable"} : DebtsEnd(c, state)
ContactNext ==
    \/ \E c \in Calls : ContactReply(c) \/ \E a \in Parties : OpenContact(c, a)
    \/ CloseContact

Reply(c) == BalanceAnswers(c) \/ HistoryReply(c) \/ GroupsReply(c) \/ PeopleReply(c) \/ ContactReply(c)

-----------------------------------------------------------------------------
\* Properties.

\* Whatever a screen shows is of the person who is signed in: lists, the open group, what a
\* search found, the balance, the nicknames; the names in the history are those of the book
\* that is open, and the shares with a contact are of the contact on screen.
ShownIsOfPerson ==
    /\ DOMAIN history.rows # {} => history.of = person
    /\ (\E g \in Groups : groups.rows[g] # "none") => groups.of = person
    /\ detail.id # None => detail.of = person
    /\ contacts.recents.who # {} => contacts.recents.of = person
    /\ contacts.results.who # {} => contacts.results.of = person
    /\ wallet.address = person /\ (wallet.source # None => wallet.of = person)
    /\ book.owner = person
    /\ book.hydrated => book.names = (IF person = None THEN Nobody ELSE BookOf(book.books, person))
    /\ history.shown = transformTransaction(history.rows, book.names)
    /\ debts.state = "read" => debts.of = debts.at

\* What the lists say is so: a thread carries the name the person gave or the one of the app, only
\* the other side of a payment can report its note, a list that says it is empty is, and the figure
\* a payment is checked against is the one on screen when the chain was read for it.
ListsTellTruth ==
    /\ \A thread \in groupTransactionsByContact : \A name \in thread.names :
          name \in {"0x...", thread.address} \/ (hasNickname(book.names, thread.address) /\ name = book.names[thread.address])
    /\ \A t \in DOMAIN history.rows : RowShows(t).report => (RowShows(t).note = "text" /\ ~canEdit(t))
    /\ ContactsView \in {"no-contacts", "no-search-results"} => (displayContacts = {} /\ ~contacts.error)
    /\ wallet.source = None => assetBaseUnits = Unread
    /\ wallet.source = "chain" => assetBaseUnits = wallet.text

\* The balance on screen is never an earlier reading than the one it replaces, and a wallet
\* that was asked for and could not be read is not shown as an empty one ("placeholder zeros
\* that look like an empty wallet", useWalletStore).
NewestReadingStands ==
    [][/\ wallet'.address = wallet.address => wallet'.reading >= wallet.reading
       /\ wallet'.source = None /\ wallet'.request > wallet'.since /\ wallet'.address # None => BalanceView' # "total"]_listVars

\* The nicknames of somebody who is not signed in stay as they are, across sign-ins of others
\* and restarts of the phone, and those of before the books were split go to one account whole.
BookNow == IF book.hydrated THEN [books |-> book.books, legacy |-> book.legacy] ELSE book.reading
NicknamesStay ==
    [][/\ \A p \in People \ {person, person'} : BookOf(BookNow'.books, p) = BookOf(BookNow.books, p)
       /\ BookNow'.legacy # BookNow.legacy =>
            /\ BookNow'.legacy = None
            /\ person' # None /\ BookOf(BookNow'.books, person') = BookNow.legacy]_listVars

\* What is loading. A person looks at one list at a time, with the group or the search beside it.
Loading == \/ wallet.loading \/ history.loading \/ groups.loading
           \/ contacts.loadingRecents \/ debts.state = "Loading"
LoadingBeside == detail.loading \/ contacts.loadingSearch
=============================================================================
