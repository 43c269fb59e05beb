---------------------------- MODULE PhoneSession ----------------------------
(***************************************************************************)
(* Who is signed in on a phone: the session of the service (useAuthStore,  *)
(* kept in secure storage), the session of the sign-in provider (Privy),   *)
(* and the code between them (AuthProvider): a press on the sign-in        *)
(* screen, automatic sign-in, registration, sign-out, an answer of the     *)
(* service that says the session is over, and the app being killed.        *)
(*                                                                         *)
(* An action is the code between two awaits.  Tokens are numbered in the   *)
(* order the service hands them out.                                       *)
(***************************************************************************)
EXTENDS Naturals, Sequences

CONSTANTS
    People,         \* those with a passkey or an account of a provider
    Registered,     \* those who have an account of the service at first
    Attempts,       \* sign-ins and registrations under way
    Exits,          \* sign-outs under way
    MaxTokens,      \* bound: sessions the service opens
    MaxCrashes,     \* bound: how often the app is killed
    Absent

ASSUME SessionAssumption ==
    /\ Registered \subseteq People /\ MaxTokens \in Nat
    /\ Absent \notin People \union Attempts \union Exits \union Nat

VARIABLES
    disk,           \* auth_token, user_profile, just_logged_out
    queue,          \* authStorageQueue: writes to come, the first under way
    shown,          \* the token and user of the store, or Absent
    justLoggedOut,
    accounts,       \* who has an account of the service
    owner,          \* by token, whose session it is
    privy,          \* who is signed in with the provider, or Absent
    cleanup,        \* is the provider being signed out?
    ignored,        \* ignoredAutoLoginUserIdRef
    attempt,        \* by slot, a sign-in or registration under way
    autoKey,        \* autoLoginKeyRef
    auto,           \* autoLoginAbortRef: the automatic sign-in that counts
    reg,            \* registrationRef
    checking,       \* isCheckingBackend
    starting,       \* isStartingOAuth
    step,           \* onboardingStep
    entry,          \* a press on the sign-in screen, or Absent
    exit,           \* by slot, a sign-out under way
    fetch,          \* a request of the screens, or Absent
    list,           \* whose data the screens show, or Absent
    crashes,
    signedOut       \* has somebody signed out, and not come back since?

session  == <<shown, justLoggedOut>>
attempts    == <<attempt, autoKey, auto, reg, checking>>
gate     == <<starting, step, entry, ignored>>
screens  == <<fetch, list>>
service  == <<accounts, owner>>
provider == <<privy, cleanup>>
history  == <<crashes, signedOut>>
sessionVars == <<disk, queue, session, attempts, gate, exit, screens, service, provider, history>>

Token == 1 .. MaxTokens
Entry == [at : {"closing", "unblocking", "asking"}, stale : BOOLEAN]
SignIn == [kind : {"auto", "register"}, who : People, aborted : BOOLEAN, at : {"asking", "saving"}]
Write == [kind : {"open", "close", "unblock", "expire"}, token : Token \union {Absent},
          by : Attempts \union Exits \union {Absent}, current : BOOLEAN, done : 0 .. 3]
Shown == [token : Token, who : People]
Request == [fresh : BOOLEAN, sent : BOOLEAN, token : Token \union {Absent}]

\* "Absent" is used where the code has null: it is no record.
ASSUME SessionRecordAssumption == Absent \notin Entry \union SignIn \union Shown \union Request

Blank == [token |-> Absent, profile |-> Absent, out |-> FALSE]

SessionInit ==
    /\ disk = Blank /\ queue = <<>>
    /\ shown = Absent /\ justLoggedOut = FALSE
    /\ accounts = Registered /\ owner = <<>>
    /\ privy \in People \union {Absent} /\ cleanup = FALSE
    /\ ignored = Absent
    /\ attempt = [a \in Attempts |-> Absent]
    /\ autoKey = Absent /\ auto = Absent /\ reg = Absent
    /\ checking = FALSE /\ starting = FALSE /\ step = "gate"
    /\ entry = Absent
    /\ exit = [x \in Exits |-> Absent]
    /\ fetch = Absent /\ list = Absent
    /\ crashes = 0 /\ signedOut = FALSE

-----------------------------------------------------------------------------
(* Storage.  Writes are queued; one that was asked for before the revision *)
(* went up stops at its next check.                                        *)

Task(kind, token, by) ==
    [kind |-> kind, token |-> token, by |-> by, current |-> TRUE, done |-> 0]

\* authMutationRevision goes up: what was asked for before is no longer current.
Outdated == [i \in DOMAIN queue |-> [queue[i] EXCEPT !.current = FALSE]]

First(kind) == queue # <<>> /\ queue[1].kind = kind

StillWanted ==
    /\ queue[1].current
    /\ queue[1].kind = "open" => ~attempt[queue[1].by].aborted

Written == queue' = [queue EXCEPT ![1].done = @ + 1]

Dequeue == queue' = Tail(queue)

\* Defect: the lists are emptied, answers to earlier requests still listened to.
EmptyLists == list' = Absent /\ UNCHANGED fetch

\* resetAccountScope: lists are emptied, answers to earlier requests not listened to.
ResetAccountScope ==
    /\ list' = Absent
    /\ fetch' = IF fetch = Absent THEN Absent ELSE [fetch EXCEPT !.fresh = FALSE]

\* Defect: an attempt lowers the spinner only while the key is its own.
FinishOwn(a) ==
    /\ attempt' = [attempt EXCEPT ![a] = Absent]
    /\ auto' = IF auto = a THEN Absent ELSE auto
    /\ reg' = IF reg = a THEN Absent ELSE reg
    /\ IF attempt[a].kind = "auto" /\ autoKey = attempt[a].who
       THEN autoKey' = Absent /\ checking' = FALSE
       ELSE UNCHANGED <<autoKey, checking>>

\* Defect: a registration that fails is never forgotten.
FinishInPart(a) ==
    /\ attempt' = [attempt EXCEPT ![a] = Absent]
    /\ auto' = IF auto = a THEN Absent ELSE auto
    /\ UNCHANGED reg
    /\ IF attempt[a].kind = "auto" /\ autoKey \in {attempt[a].who, Absent}
       THEN autoKey' = Absent /\ checking' = FALSE
       ELSE UNCHANGED <<autoKey, checking>>

\* What the finally block of an attempt does.
Finish(a) ==
    /\ attempt' = [attempt EXCEPT ![a] = Absent]
    /\ auto' = IF auto = a THEN Absent ELSE auto
    /\ reg' = IF reg = a THEN Absent ELSE reg
    /\ IF attempt[a].kind = "auto" /\ autoKey \in {attempt[a].who, Absent}
       THEN autoKey' = Absent /\ checking' = FALSE
       ELSE UNCHANGED <<autoKey, checking>>

\* setAuth saves the token, then the profile, and clears the flag ...
SaveSession ==
    /\ First("open") /\ StillWanted /\ queue[1].done < 3
    /\ disk' = CASE queue[1].done = 0 -> [disk EXCEPT !.token = queue[1].token]
                 [] queue[1].done = 1 -> [disk EXCEPT !.profile = owner[queue[1].token]]
                 [] OTHER             -> [disk EXCEPT !.out = FALSE]
    /\ Written
    /\ UNCHANGED <<session, attempts, gate, exit, screens, service, provider, history>>

\* ... and only then shows the account.
ShowSession ==
    /\ First("open") /\ StillWanted /\ queue[1].done = 3
    /\ LET who == owner[queue[1].token] IN
         /\ shown' = [token |-> queue[1].token, who |-> who]
         /\ IF shown = Absent \/ shown.who # who
            THEN ResetAccountScope ELSE UNCHANGED screens
    /\ justLoggedOut' = FALSE
    /\ Dequeue /\ Finish(queue[1].by)
    /\ UNCHANGED <<disk, gate, exit, service, provider, history>>

\* It was called off meanwhile, or storage refuses to write.
DropSession ==
    /\ First("open") /\ (~StillWanted \/ queue[1].done < 2)
    /\ Dequeue /\ Finish(queue[1].by)
    /\ UNCHANGED <<disk, session, gate, exit, screens, service, provider, history>>

\* A sign-out erases the token, the profile, and sets the flag that says so ...
SaveExit ==
    /\ First("close") /\ queue[1].done < 2
    /\ disk' = IF queue[1].done = 0 THEN [disk EXCEPT !.token = Absent]
               ELSE [disk EXCEPT !.profile = Absent]
    /\ Written
    /\ UNCHANGED <<session, attempts, gate, exit, screens, service, provider, history>>

\* ... and goes on to sign out of the provider, or waits for that if it is under way.
ExitSaved ==
    /\ First("close") /\ queue[1].done = 2
    /\ disk' = [disk EXCEPT !.out = TRUE]
    /\ IF queue[1].current THEN shown' = Absent /\ justLoggedOut' = TRUE
       ELSE UNCHANGED session
    /\ Dequeue
    /\ exit' = [exit EXCEPT ![queue[1].by] = "closing"]
    /\ starting' = TRUE
    /\ cleanup' = TRUE
    /\ UNCHANGED <<attempts, step, entry, ignored, screens, service, privy, history>>

\* Storage refuses to erase: the screen is told, and the provider left alone.
ExitFails ==
    /\ First("close") /\ queue[1].done < 2
    /\ Dequeue
    /\ exit' = [exit EXCEPT ![queue[1].by] = Absent]
    /\ UNCHANGED <<disk, session, attempts, gate, screens, service, provider, history>>

\* clearJustLoggedOut, for a press on the sign-in screen: nothing holds back any more.
Unblock ==
    /\ First("unblock") /\ StillWanted
    /\ \/ /\ queue[1].done = 0
          /\ disk' = [disk EXCEPT !.out = FALSE]
          /\ Written
          /\ UNCHANGED <<justLoggedOut, entry, ignored>>
       \/ /\ queue[1].done = 1
          /\ justLoggedOut' = FALSE
          /\ entry' = [entry EXCEPT !.at = "asking"]
          /\ ignored' = Absent
          /\ Dequeue
          /\ UNCHANGED disk
    /\ UNCHANGED <<shown, attempts, starting, step, exit, screens, service, provider, history>>

\* Somebody signed out meanwhile.
UnblockRefused ==
    /\ First("unblock") /\ ~StillWanted
    /\ Dequeue
    /\ entry' = Absent /\ starting' = FALSE
    /\ UNCHANGED <<disk, session, attempts, step, ignored, exit, screens, service, provider, history>>

\* The token found at the start had run out: it is erased, unless outdated.
Expire ==
    /\ First("expire")
    /\ \/ /\ ~StillWanted
          /\ Dequeue /\ UNCHANGED disk
       \/ /\ StillWanted /\ queue[1].done = 0
          /\ disk' = [disk EXCEPT !.token = Absent] /\ Written
       \/ /\ StillWanted /\ queue[1].done = 1
          /\ disk' = [disk EXCEPT !.profile = Absent] /\ Dequeue
    /\ UNCHANGED <<session, attempts, gate, exit, screens, service, provider, history>>

-----------------------------------------------------------------------------
(* Signing out.                                                            *)

\* Defect: a registration under way is left alone.
AbortAutoOnly(S) ==
    [a \in Attempts |-> IF a \in S \ {reg} /\ attempt[a] # Absent
                        THEN [attempt[a] EXCEPT !.aborted = TRUE] ELSE attempt[a]]

\* Tells those attempts that their answer is not wanted any more.
Abort(S) ==
    [a \in Attempts |-> IF a \in S /\ attempt[a] # Absent
                        THEN [attempt[a] EXCEPT !.aborted = TRUE] ELSE attempt[a]]

\* Everything under way is called off and the account leaves the screens at once.
Leave(x) ==
    /\ exit[x] = Absent
    /\ exit' = [exit EXCEPT ![x] = "saving"]
    /\ entry' = IF entry = Absent THEN Absent ELSE [entry EXCEPT !.stale = TRUE]
    /\ attempt' = Abort({reg, auto}) /\ reg' = Absent /\ auto' = Absent
    /\ ignored' = privy
    /\ autoKey' = Absent /\ checking' = FALSE /\ step' = "gate"
    /\ shown' = Absent /\ justLoggedOut' = TRUE /\ ResetAccountScope
    /\ queue' = Append(Outdated, Task("close", Absent, x))
    /\ signedOut' = TRUE
    /\ UNCHANGED <<disk, starting, service, provider, crashes>>

Logout(x) ==
    /\ shown # Absent \/ step = "identity" \/ starting \/ checking
    /\ Leave(x)

\* A sign-out that waited for the provider ends.
ExitEnds ==
    /\ exit' = [x \in Exits |-> IF exit[x] = "closing" THEN Absent ELSE exit[x]]
    /\ IF \E x \in Exits : exit[x] = "closing"
       THEN step' = "gate" /\ autoKey' = Absent
       ELSE UNCHANGED <<step, autoKey>>

\* The provider answers: whoever waited goes on, a press that was called off does not.
CleanupEnds ==
    /\ cleanup /\ cleanup' = FALSE
    /\ privy' = Absent
    /\ ExitEnds
    /\ IF entry # Absent /\ entry.at = "closing" /\ ~entry.stale
       THEN /\ entry' = [entry EXCEPT !.at = "unblocking"]
            /\ queue' = Append(queue, Task("unblock", Absent, Absent))
            /\ starting' = (starting /\ exit' = exit)
       ELSE /\ entry' = IF entry # Absent /\ entry.at = "closing" THEN Absent ELSE entry
            /\ starting' = (starting /\ exit' = exit /\ entry' = entry)
            /\ UNCHANGED queue
    /\ UNCHANGED <<disk, session, attempt, auto, reg, checking, ignored, screens, service, history>>

Unwait ==
    /\ ExitEnds
    /\ entry' = IF entry # Absent /\ entry.at = "closing" THEN Absent ELSE entry
    /\ starting' = (starting /\ exit' = exit /\ entry' = entry)
    /\ UNCHANGED <<disk, queue, session, attempt, auto, reg, checking, ignored, screens, service, privy, history>>

\* The provider refuses.
CleanupFails == cleanup /\ cleanup' = FALSE /\ Unwait

\* Nobody waits longer than twelve seconds; the provider may still answer.
CleanupTimesOut ==
    /\ cleanup /\ UNCHANGED cleanup
    /\ (\E x \in Exits : exit[x] = "closing") \/ (entry # Absent /\ entry.at = "closing")
    /\ Unwait

-----------------------------------------------------------------------------
(* Signing in.                                                             *)

\* startPasskey, startOAuth: a fresh sign-in, never with the user the provider still has.
Press ==
    /\ shown = Absent /\ step = "gate" /\ ~checking /\ ~starting /\ entry = Absent
    /\ starting' = TRUE
    /\ entry' = [at |-> "closing", stale |-> FALSE]
    /\ attempt' = Abort({auto}) /\ autoKey' = Absent
    /\ ignored' = privy
    /\ cleanup' = TRUE
    /\ signedOut' = FALSE
    /\ UNCHANGED <<disk, queue, session, auto, reg, checking, step, exit, screens, service, privy, crashes>>

\* The provider signs somebody in, or the person gives up.
ProviderAnswers ==
    /\ entry # Absent /\ entry.at = "asking"
    /\ \/ \E p \in People : privy' = p
       \/ UNCHANGED privy
    /\ entry' = Absent /\ starting' = FALSE
    /\ UNCHANGED <<disk, queue, session, attempts, step, ignored, exit, screens, service, cleanup, history>>

MaySignIn ==
    /\ ~starting /\ reg = Absent /\ privy # Absent
    /\ ~justLoggedOut /\ shown = Absent /\ ignored # privy

\* The effect of AuthenticationManager runs again: the attempt of its last run is
\* called off, and what the provider says is looked at anew.
Look ==
    /\ auto # Absent \/ (MaySignIn /\ autoKey # privy) \/ (justLoggedOut /\ privy # Absent /\ ignored # privy)
    /\ LET mine == auto # Absent /\ autoKey = attempt[auto].who
           key  == IF mine THEN Absent ELSE autoKey
           off  == Abort({auto})
       IN
       \/ /\ MaySignIn /\ key # privy
          /\ \/ \E a \in Attempts :
                  /\ attempt[a] = Absent
                  /\ attempt' = [off EXCEPT ![a] = [kind |-> "auto", who |-> privy,
                                                    aborted |-> FALSE, at |-> "asking"]]
                  /\ autoKey' = privy /\ auto' = a /\ checking' = TRUE
                  /\ UNCHANGED <<step, ignored>>
             \/ /\ privy \notin accounts        \* no wallet of the app yet
                /\ step' = "identity"
                /\ attempt' = off /\ autoKey' = key /\ auto' = Absent
                /\ checking' = (checking /\ ~mine)
                /\ UNCHANGED ignored
       \/ /\ ~(MaySignIn /\ key # privy)
          /\ attempt' = off /\ autoKey' = key /\ auto' = Absent
          /\ checking' = (checking /\ ~mine)
          /\ ignored' = IF ~starting /\ reg = Absent /\ privy # Absent /\ justLoggedOut THEN privy ELSE ignored
          /\ UNCHANGED step
    /\ UNCHANGED <<disk, queue, session, reg, starting, entry, exit, screens, service, provider, history>>

\* registerWithHandle, from the identity screen.
Register(a) ==
    /\ shown = Absent /\ step = "identity" /\ reg = Absent /\ privy # Absent
    /\ attempt[a] = Absent
    /\ attempt' = [attempt EXCEPT ![a] = [kind |-> "register", who |-> privy,
                                          aborted |-> FALSE, at |-> "asking"]]
    /\ reg' = a
    /\ UNCHANGED <<disk, queue, session, autoKey, auto, checking, gate, exit, screens, service, provider, history>>

\* setAuth: a token to be saved, and whatever was asked for earlier outdated.
Save(a, who) ==
    /\ Len(owner) < MaxTokens
    /\ owner' = Append(owner, who)
    /\ queue' = Append(Outdated, Task("open", Len(owner) + 1, a))
    /\ attempt' = [attempt EXCEPT ![a].at = "saving"]
    /\ UNCHANGED <<autoKey, auto, reg, checking>>

\* The service opens a session for the wallet that signed.
SignedIn(a) ==
    /\ attempt[a] # Absent /\ attempt[a].at = "asking"
    /\ attempt[a].kind = "auto" => attempt[a].who \in accounts
    /\ accounts' = accounts \union {attempt[a].who}
    /\ IF attempt[a].aborted THEN Finish(a) /\ UNCHANGED <<owner, queue>>
       ELSE Save(a, attempt[a].who)
    /\ UNCHANGED <<disk, session, gate, exit, screens, provider, history>>

\* There is no account (404), which shows the identity screen, or the request failed.
Refused(a) ==
    /\ attempt[a] # Absent /\ attempt[a].at = "asking"
    /\ step' = IF /\ attempt[a].kind = "auto" /\ attempt[a].who \notin accounts
                  /\ autoKey = attempt[a].who /\ ~attempt[a].aborted
               THEN "identity" ELSE step
    /\ Finish(a)
    /\ UNCHANGED <<disk, queue, session, starting, entry, ignored, exit, screens, service, provider, history>>

-----------------------------------------------------------------------------
(* The screens, and the app being killed.                                  *)

\* A screen asks for the account's data; the token is read from storage, later.
Fetch ==
    /\ shown # Absent /\ fetch = Absent
    /\ fetch' = [fresh |-> TRUE, sent |-> FALSE, token |-> Absent]
    /\ UNCHANGED <<disk, queue, session, attempts, gate, exit, list, service, provider, history>>

Send ==
    /\ fetch # Absent /\ ~fetch.sent
    /\ fetch' = [fetch EXCEPT !.sent = TRUE, !.token = disk.token]
    /\ UNCHANGED <<disk, queue, session, attempts, gate, exit, list, service, provider, history>>

Answered ==
    /\ fetch # Absent /\ fetch.sent
    /\ list' = IF fetch.fresh /\ fetch.token # Absent THEN owner[fetch.token] ELSE list
    /\ fetch' = Absent
    /\ UNCHANGED <<disk, queue, session, attempts, gate, exit, service, provider, history>>

\* 401: signs out, if the token is still the one in storage.
Unauthorized ==
    /\ fetch # Absent /\ fetch.sent
    /\ IF disk.token # Absent /\ disk.token = fetch.token
       THEN \E x \in Exits : Leave(x)
       ELSE /\ fetch' = Absent
            /\ UNCHANGED <<disk, queue, session, attempts, gate, exit, list, service, provider, history>>

\* The app is killed and started again: loadSession reads what was saved, and
\* erases a token that has run out or that has no profile.
Restart ==
    /\ crashes < MaxCrashes /\ crashes' = crashes + 1
    /\ attempt' = [a \in Attempts |-> Absent]
    /\ autoKey' = Absent /\ auto' = Absent /\ reg' = Absent /\ checking' = FALSE
    /\ starting' = FALSE /\ step' = "gate" /\ entry' = Absent /\ ignored' = Absent
    /\ exit' = [x \in Exits |-> Absent]
    /\ fetch' = Absent /\ list' = Absent
    /\ justLoggedOut' = disk.out
    /\ \/ /\ ~disk.out /\ disk.token # Absent /\ disk.profile # Absent
          /\ shown' = [token |-> disk.token, who |-> disk.profile]
          /\ queue' = <<>>
       \/ /\ shown' = Absent
          /\ queue' = IF ~disk.out /\ disk.token # Absent
                      THEN <<Task("expire", Absent, Absent)>> ELSE <<>>
    /\ cleanup' = FALSE
    /\ privy' \in {privy} \union (IF cleanup THEN {Absent} ELSE {})
    /\ signedOut' = disk.out
    /\ UNCHANGED <<disk, service>>

SessionNext ==
    \/ SaveSession \/ ShowSession \/ DropSession
    \/ SaveExit \/ ExitSaved \/ ExitFails
    \/ Unblock \/ UnblockRefused \/ Expire
    \/ \E x \in Exits : Logout(x)
    \/ CleanupEnds \/ CleanupFails \/ CleanupTimesOut
    \/ Press \/ ProviderAnswers \/ Look
    \/ \E a \in Attempts : Register(a) \/ SignedIn(a) \/ Refused(a)
    \/ Fetch \/ Send \/ Answered \/ Unauthorized
    \/ Restart

SessionSpec == SessionInit /\ [][SessionNext]_sessionVars

\* The phone's storage answers in the end.
StorageAnswers == SaveSession \/ ShowSession \/ DropSession \/ SaveExit \/ ExitSaved
                    \/ Unblock \/ UnblockRefused \/ Expire

\* ... and so does the service, or the request fails.
SessionFairSpec == SessionSpec /\ WF_sessionVars(StorageAnswers)
                 /\ \A a \in Attempts : WF_sessionVars(SignedIn(a) \/ Refused(a))

-----------------------------------------------------------------------------
(* Properties.                                                             *)

\* Every variable keeps its shape, a token in storage is one the service handed out,
\* and autoLoginAbortRef and registrationRef hold what is under way: a ref left behind
\* would refuse every later registration.
TypeOK ==
    /\ disk \in [token : Token \union {Absent}, profile : People \union {Absent}, out : BOOLEAN]
    /\ queue \in Seq(Write)
    /\ shown \in Shown \union {Absent} /\ justLoggedOut \in BOOLEAN
    /\ owner \in Seq(People) /\ Len(owner) <= MaxTokens
    /\ disk.token # Absent => disk.token <= Len(owner)
    /\ shown # Absent => shown.token <= Len(owner)
    /\ accounts \subseteq People
    /\ privy \in People \union {Absent}
    /\ attempt \in [Attempts -> SignIn \union {Absent}]
    /\ autoKey \in People \union {Absent} /\ auto \in Attempts \union {Absent}
    /\ reg \in Attempts \union {Absent}
    /\ auto # Absent => attempt[auto] # Absent /\ attempt[auto].kind = "auto"
    /\ reg # Absent => attempt[reg] # Absent /\ attempt[reg].kind = "register"
    /\ starting \in BOOLEAN /\ step \in {"gate", "identity"}
    /\ entry \in Entry \union {Absent}
    /\ exit \in [Exits -> {Absent, "saving", "closing"}]
    /\ fetch \in Request \union {Absent} /\ list \in People \union {Absent}
    /\ signedOut \in BOOLEAN

\* Whoever signed out, or was signed out by a 401, is not signed in again until
\* somebody presses a button of the sign-in screen: not by the automatic sign-in,
\* which still finds the provider's user, not by a sign-in or a registration that was
\* half way at the service or in storage, and not by the next start of the app, once
\* the flag of the sign-out is in storage.
SignedOutStaysOut == signedOut => shown = Absent

\* The data on the screens is that of the session shown: no answer to a request that
\* was sent for, or under the token of, an earlier or a later session is put there.
ListIsOfShown == list # Absent => shown # Absent /\ list = owner[shown.token]

\* The spinner of the automatic sign-in, which greys out every button of the gate, is
\* lowered in the end, whatever sign-outs, presses and late attempts take the key
\* that says which attempt is to lower it.
SpinnerStops == checking ~> ~checking

\* The code does not keep these two (see the README).  The profile that is shown is
\* that of the token's owner ...
ShownIsTokens == shown # Absent => shown.who = owner[shown.token]

\* ... and a session that is opened is that of the person the provider has signed in.
SessionIsOfWhoSignedIn ==
    [][/\ shown' # shown /\ shown' # Absent /\ crashes' = crashes /\ privy # Absent
       => owner[shown'.token] = privy]_sessionVars
=============================================================================
