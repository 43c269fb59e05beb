---------------------------- MODULE PhoneAccounts ----------------------------
(***************************************************************************)
(* The accounts a phone knows about: the list kept on it and nowhere else, *)
(* the passkeys of each account, switching from one account to another,    *)
(* removing an account or a passkey, and deleting a profile.               *)
(*                                                                         *)
(* An account is a user of the provider (Privy), who may have a profile at *)
(* the service. An entry of the list is found by the provider's user id    *)
(* first and by the profile's id second; it may have only one of the two.  *)
(* Every write to the list waits until the stored list has been loaded;    *)
(* from then on it is made in the step that asks for it, since nothing but *)
(* microtasks comes between. A write in memory is a write in storage; one  *)
(* that a kill cuts short is as if it had not been made.                   *)
(***************************************************************************)
EXTENDS Naturals, FiniteSets, SequencesExt

CONSTANTS
    Accounts,       \* users of the provider
    Passkeys,       \* credentials, each made for one user
    Owner,          \* Owner[k]: the user k is made for
    Google,         \* the other way to sign in
    Social,         \* users who come with it
    Keys,           \* local identifiers of entries
    MaxProfiles,    \* bound: profiles one user makes, one after the other
    MaxStarts,      \* bound: starts of the app
    MaxWaiting,     \* bound: writes that wait for the stored list
    Slow,           \* TRUE: a stored list may take more than five seconds to load
    Lost,           \* TRUE: a removal whose answer is lost may have been made
    Nothing

VARIABLES
    joined,         \* users there are
    linked,         \* linked[u]: the ways to sign in the provider lists for u
    held,           \* passkeys in the keychain of this phone
    made,           \* made[u]: profiles u has made so far
    live,           \* users who have a profile now
    privy,          \* the provider's session on this phone, with its copy of the ways to sign in
    profile,        \* the profile the screens show
    list,           \* the entries in memory
    disk,           \* the entries in storage, Nothing before the first write
    reading,        \* what storage is about to answer
    ready,          \* the stored list has been loaded
    waiting,        \* writes that wait for it
    due,            \* the effect that records who is signed in has to run
    intent,         \* the switch under way
    work,           \* the removal of a passkey under way
    starts,
    chosen, told,   \* whom the last switch was aimed at; whether a landing elsewhere was told
    saved           \* whose entry has been stored and has not been removed by the owner

external == <<joined, linked, held, made, live>>
onPhone == <<privy, profile, list, disk, reading, ready, waiting, due, intent, work, starts>>
history == <<chosen, told, saved>>
accountVars == <<external, onPhone, history>>

Ways == Passkeys \cup {Google}
Profiles == Accounts \X (1 .. MaxProfiles)

\* `of` is whose account the entry is about; the code never reads it.
Entry == [of : Accounts, privy : Accounts \cup {Nothing}, user : Profiles \cup {Nothing},
          passkeys : SUBSET Passkeys, verified : SUBSET Passkeys]

Snapshot == [key : Keys, of : Accounts, privy : Accounts \cup {Nothing}, user : Profiles \cup {Nothing},
             passkeys : SUBSET Passkeys, listed : BOOLEAN, used : SUBSET Passkeys]

\* What stands for nothing there is no value of anything kept.
ASSUME AccountsAssumption ==
    /\ Owner \in [Passkeys -> Accounts] /\ Google \notin Passkeys
    /\ MaxProfiles \in Nat \ {0} /\ MaxStarts \in Nat \ {0} /\ MaxWaiting \in Nat
    /\ Nothing \notin Accounts \cup Passkeys \cup Keys \cup Profiles \cup Entry \cup [Keys -> Entry \cup {Nothing}]
    /\ Nothing \notin [user : Accounts, ways : SUBSET Ways]
    /\ Nothing \notin [key : Keys, passkey : Passkeys \cup {Nothing}]
    /\ Nothing \notin [user : Accounts, passkey : Passkeys, key : Keys, served : BOOLEAN]

AccountsTypeOK ==
    /\ joined \subseteq Accounts /\ linked \in [Accounts -> SUBSET Ways] /\ held \subseteq Passkeys
    /\ made \in [Accounts -> 0 .. MaxProfiles] /\ live \subseteq joined
    /\ privy \in [user : Accounts, ways : SUBSET Ways] \cup {Nothing}
    /\ profile \in Profiles \cup {Nothing}
    /\ list \in [Keys -> Entry \cup {Nothing}]
    /\ disk \in [Keys -> Entry \cup {Nothing}] \cup {Nothing} /\ reading \in [Keys -> Entry \cup {Nothing}] \cup {Nothing}
    /\ ready \in BOOLEAN /\ waiting \in Seq(Snapshot) /\ Len(waiting) <= MaxWaiting /\ due \in BOOLEAN
    /\ intent \in [key : Keys, passkey : Passkeys \cup {Nothing}] \cup {Nothing}
    /\ work \in [user : Accounts, passkey : Passkeys, key : Keys, served : BOOLEAN] \cup {Nothing}
    /\ starts \in 0 .. MaxStarts
    /\ chosen \in Accounts \cup {Nothing} /\ told \in BOOLEAN /\ saved \subseteq Accounts

----------------------------------------------------------------------------
(* The list. *)

Or(a, b) == IF a # Nothing THEN a ELSE b

emptyRegistry == [k \in Keys |-> Nothing]

Entries(l) == {k \in Keys : l[k] # Nothing}
ByPrivy(l, u) == {k \in Entries(l) : u # Nothing /\ l[k].privy = u}
ByUser(l, p) == {k \in Entries(l) : p # Nothing /\ l[k].user = p}

\* The provider's id decides; the profile's id only when the first finds nothing.
findAccount(l, u, p) == IF ByPrivy(l, u) # {} THEN ByPrivy(l, u) ELSE ByUser(l, p)

TheKey(ks) == CHOOSE k \in ks : TRUE

\* Defect: both entries stay.
DuplicatesStay(l, s) == l

\* One entry known by the provider's id, another by the profile's: they are one account.
mergeDuplicates(l, s) ==
    LET as == ByPrivy(l, s.privy)
        bs == ByUser(l, s.user)
        a == TheKey(as)
        b == TheKey(bs)
    IN  IF as = {} \/ bs = {} \/ as = bs THEN l
        ELSE [l EXCEPT ![b] = Nothing,
                       ![a].user = Or(l[a].user, l[b].user),
                       ![a].passkeys = @ \cup l[b].passkeys,
                       ![a].verified = @ \cup l[b].verified]

\* Records of passkeys the provider no longer lists are dropped, except the young ones.
syncPasskeys(records, s, young) ==
    IF s.listed THEN (records \cap (s.passkeys \cup young)) \cup s.passkeys ELSE records

recordSignIn(l, s, young) ==
    LET m == mergeDuplicates(l, s)
        found == findAccount(m, s.privy, s.user)
        k == IF found # {} THEN TheKey(found) ELSE s.key
        base == IF found # {} THEN m[k]
                ELSE [of |-> s.of, privy |-> s.privy, user |-> Nothing, passkeys |-> {}, verified |-> {}]
        passkeys == syncPasskeys(base.passkeys, s, young) \cup s.used
    IN  [m EXCEPT ![k] =
            [of |-> base.of, privy |-> Or(base.privy, s.privy), user |-> Or(s.user, base.user),
             passkeys |-> passkeys, verified |-> (base.verified \cap passkeys) \cup s.used]]

\* Sign-ins recorded one after the other.
recordSignIns(l, ss, young) == FoldLeft(LAMBDA m, s : recordSignIn(m, s, young), l, ss)

addPasskeyRecord(l, k, p) ==
    IF l[k] = Nothing \/ p \in l[k].passkeys THEN l
    ELSE [l EXCEPT ![k].passkeys = @ \cup {p}, ![k].verified = @ \cup {p}]

removePasskeyRecord(l, k, p) ==
    IF l[k] = Nothing THEN l
    ELSE [l EXCEPT ![k].passkeys = @ \ {p}, ![k].verified = @ \ {p}]

markPasskeyVerified(l, k, p) ==
    [l EXCEPT ![k].verified = @ \cup ({p} \cap l[k].passkeys)]

\* The entry of a deleted profile stays, for its wallet.
markProfileDeleted(l, ks) ==
    [k \in Keys |-> IF k \in ks THEN [l[k] EXCEPT !.user = Nothing] ELSE l[k]]

\* The credentials a switch may offer: a proven one, else Google or Apple, any known one, or a free choice.
planSwitch(e) == IF e.verified # {} THEN e.verified ELSE e.passkeys \cup {Nothing}

People(l) == IF l = Nothing THEN {} ELSE {l[k].of : k \in Entries(l)}

\* An account that is known keeps the identifier of its entry; a new one is random: any that nothing has yet.
NewKeys(u, p) ==
    LET known == findAccount(Or(reading, list), u, p) IN
    IF known # {} THEN known
    ELSE {k \in Keys :
            /\ k \notin Entries(list) \cup Entries(Or(reading, list))
            /\ intent # Nothing => k # intent.key
            /\ \A i \in 1 .. Len(waiting) : waiting[i].key # k}

\* A write, in memory and in storage.
Put(l) == list' = l /\ disk' = l /\ saved' = saved \cup People(l)

\* Defect: the stored list is not waited for.
WriteAtOnce(s, young) == Put(recordSignIn(list, s, young)) /\ UNCHANGED waiting

\* A sign-in is written at once, or waits for the stored list.
Write(s, young) ==
    IF ready THEN Put(recordSignIn(list, s, young)) /\ UNCHANGED waiting
    ELSE /\ Len(waiting) < MaxWaiting /\ waiting' = Append(waiting, s)
         /\ UNCHANGED <<list, disk, saved>>

----------------------------------------------------------------------------
(* Ways to sign in. *)

\* Defect: the provider's own rule, any other way will do.
AnotherRemains(ways, p, verified) == p \in ways /\ ways \ {p} # {}

\* May passkey p be removed? ways: what the phone believes the provider lists.
assessPasskeyRemoval(ways, p, verified) ==
    /\ p \in ways
    /\ (ways \ {p}) \cap ({Google} \cup verified) # {}

\* The entry of whoever is signed in.
Active == findAccount(list, IF privy = Nothing THEN Nothing ELSE privy.user, profile)

\* The screen of passkeys is open, for an account that is ready.
Managing == ready /\ profile # Nothing /\ privy # Nothing /\ Active # {} /\ work = Nothing
----------------------------------------------------------------------------
AccountsInit ==
    /\ joined \in SUBSET Accounts
    /\ held \in SUBSET Passkeys
    /\ linked \in [Accounts -> SUBSET Ways]
    /\ \A u \in Accounts :
        /\ \A p \in linked[u] \cap Passkeys : Owner[p] = u
        /\ Google \in linked[u] => u \in Social
        /\ IF u \in joined THEN linked[u] \cap (held \cup {Google}) # {} ELSE linked[u] = {}
    /\ \A p \in held : p \in linked[Owner[p]]
    /\ live \in SUBSET joined
    /\ made = [u \in Accounts |-> IF u \in live THEN 1 ELSE 0]
    \* The app may have been signed in before it kept a list.
    /\ profile \in {<<u, 1>> : u \in live} \cup {Nothing}
    /\ privy \in {[user |-> u, ways |-> linked[u]] : u \in {v \in Accounts : profile = <<v, 1>>}} \cup {Nothing}
    /\ due = (profile # Nothing)
    /\ list = emptyRegistry /\ disk = Nothing /\ reading = Nothing /\ ready = FALSE /\ waiting = <<>>
    /\ intent = Nothing /\ work = Nothing /\ starts = 1
    /\ chosen = Nothing /\ told = FALSE /\ saved = {}

(* Signing in. The gate shows no session; the provider's last one is closed first. *)

Gate == profile = Nothing /\ privy = Nothing

Enter(u, ways) == privy' = [user |-> u, ways |-> ways]

\* What a passkey sign-in teaches the list. A credential the switch offered that belongs to another account is taken off.
rememberPasskeySignIn(u, p, targeted) ==
    \E young \in SUBSET Passkeys, key \in NewKeys(u, Nothing) :
        LET passkeys == linked[u] \cap Passkeys
            used == IF targeted \/ passkeys = {p} THEN {p} ELSE {}
            s == [key |-> key, of |-> u, privy |-> u, user |-> Nothing, passkeys |-> passkeys, listed |-> TRUE, used |-> used]
            l == recordSignIn(list, s, young)
        IN  IF targeted /\ ready
            THEN /\ Put(IF ByPrivy(l, u) = {intent.key} THEN l ELSE removePasskeyRecord(l, intent.key, p))
                 /\ UNCHANGED waiting
            ELSE Write(s, young)

\* With the credential the switch offers, or with any the picker shows.
SignInWithPasskey(p, targeted) ==
    LET u == Owner[p] IN
    /\ Gate
    /\ p \in held \cap linked[u]
    /\ targeted => intent # Nothing /\ intent.passkey = p
    /\ Enter(u, linked[u])
    /\ rememberPasskeySignIn(u, p, targeted)
    /\ UNCHANGED <<external, profile, reading, ready, due, intent, work, starts, chosen, told>>

\* A sign-in with Google or Apple makes the user when there is none; it writes nothing to the list.
SignInWithGoogle(u) ==
    /\ Gate
    /\ IF u \in joined THEN Google \in linked[u] ELSE u \in Social
    /\ joined' = joined \cup {u}
    /\ linked' = [linked EXCEPT ![u] = @ \cup {Google}]
    /\ Enter(u, linked'[u])
    /\ UNCHANGED <<held, made, live, profile, list, disk, reading, ready, waiting, due, intent, work, starts, history>>

\* A new passkey makes a new user, and its entry at once.
SignUp(p) ==
    LET u == Owner[p]
        Pending(key) == [key |-> key, of |-> u, privy |-> u, user |-> Nothing,
                         passkeys |-> {p}, listed |-> FALSE, used |-> {p}]
    IN
    /\ Gate /\ ready
    /\ u \notin joined \cup Social /\ p \notin held
    /\ joined' = joined \cup {u}
    /\ linked' = [linked EXCEPT ![u] = {p}]
    /\ held' = held \cup {p}
    /\ Enter(u, {p})
    /\ \E key \in NewKeys(u, Nothing) : Put(recordSignIn(list, Pending(key), {}))
    /\ UNCHANGED <<made, live, profile, reading, ready, waiting, due, intent, work, starts, chosen, told>>

\* The service knows the wallet, or makes a profile for it.
OpenSession ==
    /\ profile = Nothing /\ privy # Nothing
    /\ LET u == privy.user IN
        \/ u \in live /\ profile' = <<u, made[u]>> /\ UNCHANGED <<made, live>>
        \/ /\ u \notin live /\ made[u] < MaxProfiles
           /\ made' = [made EXCEPT ![u] = @ + 1]
           /\ live' = live \cup {u}
           /\ profile' = <<u, made[u] + 1>>
    /\ due' = TRUE
    /\ UNCHANGED <<joined, linked, held, privy, list, disk, reading, ready, waiting, intent, work, starts, history>>

Snap(key) ==
        [key |-> key, of |-> profile[1], privy |-> IF privy = Nothing THEN Nothing ELSE privy.user, user |-> profile,
         passkeys |-> IF privy = Nothing THEN {} ELSE privy.ways \cap Passkeys, listed |-> privy # Nothing, used |-> {}]

\* Defect: any account of the list will do.
LandedSomewhere(l) == intent = Nothing \/ findAccount(l, IF privy = Nothing THEN Nothing ELSE privy.user, profile) \cap Entries(l) # {}

\* Did the switch reach the account that was chosen?
checkLanding(l) == intent = Nothing \/ findAccount(l, IF privy = Nothing THEN Nothing ELSE privy.user, profile) = {intent.key}

\* Who is signed in goes to the list, and ends the switch.
Sync ==
    /\ due /\ profile # Nothing
    /\ LET u == IF privy = Nothing THEN Nothing ELSE privy.user IN
       \E young \in SUBSET Passkeys, key \in NewKeys(u, profile) : Write(Snap(key), young)
    /\ due' = FALSE
    /\ IF ready
       THEN intent' = Nothing /\ told' = IF intent = Nothing THEN told ELSE ~checkLanding(list')
       ELSE UNCHANGED <<intent, told>>
    /\ UNCHANGED <<external, privy, profile, reading, ready, work, starts, chosen>>

(* Signing out, alone or on the way to another account or to none. *)

Leave ==
    /\ profile' = Nothing /\ privy' = Nothing /\ due' = FALSE /\ told' = FALSE

\* The owner, or a 401, at any time.
SignOut ==
    /\ profile # Nothing \/ privy # Nothing
    /\ Leave
    /\ chosen' = IF intent = Nothing THEN Nothing ELSE chosen
    /\ UNCHANGED <<external, list, disk, reading, ready, waiting, intent, work, starts, saved>>

\* "Add another account": whatever switch was under way is not any more.
startAddingAccount ==
    /\ profile # Nothing /\ ready /\ work = Nothing
    /\ Leave
    /\ intent' = Nothing /\ chosen' = Nothing
    /\ UNCHANGED <<external, list, disk, reading, ready, waiting, work, starts, saved>>

switchToAccount(k) ==
    /\ profile # Nothing /\ ready /\ work = Nothing
    /\ k \in Entries(list) \ Active
    /\ Leave
    /\ \E p \in planSwitch(list[k]) : intent' = [key |-> k, passkey |-> p]
    /\ chosen' = list[k].of
    /\ UNCHANGED <<external, list, disk, reading, ready, waiting, work, starts, saved>>

\* "Choose another way", on the gate.
DismissIntent ==
    /\ profile = Nothing /\ intent # Nothing
    /\ intent' = Nothing /\ chosen' = Nothing
    /\ UNCHANGED <<external, privy, profile, list, disk, reading, ready, waiting, due, work, starts, told, saved>>

\* "Remove from this iPhone": the account that is signed in is signed out first.
removeAccountFromDevice(k) ==
    /\ profile # Nothing /\ ready /\ work = Nothing
    /\ k \in Entries(list)
    /\ list' = [list EXCEPT ![k] = Nothing] /\ disk' = list'
    /\ saved' = (saved \ {list[k].of}) \cup People(list')
    /\ IF Active = {k}
       THEN Leave /\ chosen' = IF intent = Nothing THEN Nothing ELSE chosen
       ELSE UNCHANGED <<profile, privy, due, told, chosen>>
    /\ UNCHANGED <<external, reading, ready, waiting, intent, work, starts>>

\* The service has deleted the profile; if the answer is heard the phone marks the entry and signs out.
deleteAccount(heard) ==
    /\ profile # Nothing /\ profile[1] \in live /\ profile[2] = made[profile[1]]
    /\ live' = live \ {profile[1]}
    /\ IF heard
       THEN /\ IF ByUser(list, profile) = {} THEN UNCHANGED <<list, disk, saved>>
               ELSE Put(markProfileDeleted(list, ByUser(list, profile)))
            /\ Leave /\ chosen' = IF intent = Nothing THEN Nothing ELSE chosen
       ELSE UNCHANGED <<list, disk, saved, profile, privy, due, told, chosen>>
    /\ UNCHANGED <<joined, linked, held, made, reading, ready, waiting, intent, work, starts>>

(* Passkeys of the account that is signed in. *)

\* A second passkey: created and linked in one ceremony. The refresh of the provider's list may fail.
AddPasskey(p, refreshed) ==
    /\ Managing
    /\ Owner[p] = privy.user /\ p \notin held /\ p \notin linked[privy.user]
    /\ linked' = [linked EXCEPT ![privy.user] = @ \cup {p}]
    /\ held' = held \cup {p}
    /\ Put(addPasskeyRecord(list, TheKey(Active), p))
    /\ privy' = IF refreshed THEN [privy EXCEPT !.ways = linked'[privy.user]] ELSE privy
    /\ due' = (due \/ refreshed)
    /\ UNCHANGED <<joined, made, live, profile, reading, ready, waiting, intent, work, starts, chosen, told>>

\* iOS proves a passkey only if it is in the keychain.
TestPasskey(p) ==
    /\ Managing
    /\ p \in privy.ways \cap held
    /\ Put(markPasskeyVerified(list, TheKey(Active), p))
    /\ UNCHANGED <<external, privy, profile, reading, ready, waiting, due, intent, work, starts, chosen, told>>

\* The provider itself asks only for another linked account, and the wallet is one.
RemovePasskey(p) ==
    /\ Managing
    /\ assessPasskeyRemoval(privy.ways, p, list[TheKey(Active)].verified)
    /\ work' = [user |-> privy.user, passkey |-> p, key |-> TheKey(Active), served |-> FALSE]
    /\ UNCHANGED <<external, privy, profile, list, disk, reading, ready, waiting, due, intent, starts, history>>

Unlink ==
    /\ work # Nothing /\ ~work.served
    /\ linked' = [linked EXCEPT ![work.user] = @ \ {work.passkey}]
    /\ work' = [work EXCEPT !.served = TRUE]
    /\ UNCHANGED <<joined, held, made, live, privy, profile, list, disk, reading, ready, waiting, due, intent, starts, history>>

\* The provider's list is read again, and the record goes only when the passkey is gone from it.
Unlinked ==
    /\ work # Nothing /\ work.served
    /\ IF privy # Nothing /\ privy.user = work.user
       THEN /\ privy' = [privy EXCEPT !.ways = linked[work.user]]
            /\ Put(removePasskeyRecord(list, work.key, work.passkey))
            /\ due' = (due \/ profile # Nothing)
       ELSE UNCHANGED <<privy, list, disk, saved, due>>
    /\ work' = Nothing
    /\ UNCHANGED <<external, profile, reading, ready, waiting, intent, starts, chosen, told>>

\* "The passkey could not be removed", or "could not confirm": the phone keeps what it believed.
NotConfirmed ==
    /\ work # Nothing /\ (Lost \/ ~work.served)
    /\ work' = Nothing
    /\ UNCHANGED <<external, privy, profile, list, disk, reading, ready, waiting, due, intent, starts, history>>

\* Another device adds a passkey, which this phone may hold or not.
LinkElsewhere(p) ==
    /\ Owner[p] \in joined /\ p \notin held /\ p \notin linked[Owner[p]]
    /\ linked' = [linked EXCEPT ![Owner[p]] = @ \cup {p}]
    /\ held' \in {held, held \cup {p}}
    /\ UNCHANGED <<joined, made, live, onPhone, history>>

(* Storage. *)

\* The app is killed and started. The provider may not know the session any more.
Restart ==
    /\ starts < MaxStarts /\ starts' = starts + 1
    /\ list' = emptyRegistry /\ reading' = disk /\ ready' = FALSE /\ waiting' = <<>>
    /\ intent' = Nothing /\ chosen' = Nothing /\ told' = FALSE /\ work' = Nothing
    /\ privy' \in {Nothing} \cup (IF privy = Nothing THEN {} ELSE {[privy EXCEPT !.ways = linked[privy.user]]})
    /\ due' = (profile # Nothing)
    /\ UNCHANGED <<external, profile, disk, saved>>

\* Defect: nothing stored replaces the list too.
HydrateBlindly ==
    /\ ~ready /\ ready' = TRUE
    /\ list' = reading
    /\ waiting' = <<>> /\ reading' = Nothing
    /\ UNCHANGED <<external, privy, profile, disk, due, intent, work, starts, history>>

\* The stored list is there: it replaces what is in memory, and what waited is written upon it.
Hydrate ==
    /\ ~ready /\ ready' = TRUE
    /\ \E young \in SUBSET Passkeys :
        LET loaded == Or(reading, list) IN
        IF waiting = <<>> THEN list' = loaded /\ UNCHANGED <<disk, saved>>
        ELSE Put(recordSignIns(loaded, waiting, young))
    /\ waiting' = <<>> /\ reading' = Nothing
    /\ UNCHANGED <<external, privy, profile, due, intent, work, starts, chosen, told>>

\* Storage has not answered for five seconds: what waits is written all the same.
Overdue ==
    /\ Slow \/ reading = Nothing
    /\ ~ready /\ waiting # <<>>
    /\ Put(recordSignIns(list, waiting, {}))
    /\ waiting' = <<>>
    /\ UNCHANGED <<external, privy, profile, reading, ready, due, intent, work, starts, chosen, told>>

AccountsNext ==
    \/ \E p \in Passkeys, b \in BOOLEAN : SignInWithPasskey(p, b) \/ AddPasskey(p, b)
    \/ \E p \in Passkeys : SignUp(p) \/ TestPasskey(p) \/ RemovePasskey(p) \/ LinkElsewhere(p)
    \/ \E u \in Accounts : SignInWithGoogle(u)
    \/ \E k \in Keys : switchToAccount(k) \/ removeAccountFromDevice(k)
    \/ \E heard \in BOOLEAN : deleteAccount(heard)
    \/ OpenSession \/ Sync \/ SignOut \/ startAddingAccount \/ DismissIntent
    \/ Unlink \/ Unlinked \/ NotConfirmed
    \/ Restart \/ Hydrate \/ Overdue

AccountsSpec == AccountsInit /\ [][AccountsNext]_accountVars

----------------------------------------------------------------------------
\* loginMethods.ts: a passkey is removed "only if another method remains AND one of the
\* remaining methods is known to work". Nobody who could sign in on this phone is locked out.
AWayInRemains == \A u \in joined : linked[u] \cap (held \cup {Google}) # {}

\* accountRegistry.ts, in memory and in storage, however sign-ins, lost sessions, switches and
\* deletions follow each other: no identifier is on two entries, so that an account whose
\* identifiers are known is one entry; and an entry names identifiers and passkeys of one account.
EntriesAreAccounts ==
    \A l \in {list, disk} \ {Nothing} :
        /\ \A j, k \in Entries(l) :
              j # k => /\ l[j].privy = Nothing \/ l[j].privy # l[k].privy
                       /\ l[j].user = Nothing \/ l[j].user # l[k].user
        /\ \A k \in Entries(l) :
              /\ l[k].privy \in {Nothing, l[k].of}
              /\ l[k].user # Nothing => l[k].user[1] = l[k].of
              /\ \A p \in l[k].passkeys : Owner[p] = l[k].of

\* useAccountRegistryStore.ts: signing out, switching and starting again forget no account;
\* only the owner's "remove" takes a stored entry away.
NoAccountIsForgotten == saved \subseteq People(disk)

\* The list is that of the accounts of this phone: an entry is an account, and none is missing.
AccountsAreKept == EntriesAreAccounts /\ NoAccountIsForgotten

\* accountActions.ts: whoever chose one account and is signed in to another has been told so.
LandingIsTold ==
    profile # Nothing /\ ready /\ ~due /\ chosen \notin {Nothing, IF profile = Nothing THEN Nothing ELSE profile[1]} => told

\* The alert says "Signed in to a different account" only of a different account.
AlarmsAreTrue == told => chosen # profile[1]
=============================================================================
