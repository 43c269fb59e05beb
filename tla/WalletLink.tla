------------------------------ MODULE WalletLink ------------------------------
(***************************************************************************)
(* Signing in with a wallet of one's own: the connection module, which is  *)
(* loaded when somebody asks for it or when a connection of the last time  *)
(* may be resumed, the picker, and the automatic sign-in that follows once *)
(* a wallet is there. The module and the wallet app are external: they     *)
(* answer, answer late, fail, or never answer.                             *)
(*                                                                         *)
(* A sign-in that is called off goes on in the wallet; its end still       *)
(* reaches the app and must find its own flags, not those of the next one. *)
(***************************************************************************)
EXTENDS FiniteSets, ScreenCommon

CONSTANTS
    Signers,        \* addresses the wallet app may connect with
    Tries           \* bound: automatic sign-ins under way at one time

\* A run of the effect that signs in, and the sign-in it has begun.
LinkRun == [try : Tries, of : Signers]
LinkTry == [of : Signers, live : BOOLEAN, at : {"network", "login"}]

ASSUME LinkAssumption == None \notin Signers \cup Tries \cup LinkRun \cup LinkTry

VARIABLES
    link,           \* the providers, the gate and the session
    tries           \* tries[t]: the automatic sign-in under way as t

linkVars == <<link, tries>>

-----------------------------------------------------------------------------
\* What the rest of the app sees of the wallet.
isConnected(l) == l.runtime = "ready" /\ l.address # None
HasWallet(l) == isConnected(l) /\ l.provider

FreeTries(ts) == {t \in Tries : ts[t] = None}
CallOff(ts, t) == [u \in Tries |-> IF u = t /\ ts[u] # None THEN [ts[u] EXCEPT !.live = FALSE] ELSE ts[u]]

\* autoLoginKeyRef and the spinner, where the sign-in for `of` still owns them.
Lowered(l, of) == IF l.key = of THEN [l EXCEPT !.key = None, !.checking = FALSE] ELSE l
Unheld(l, t) == IF l.auto = t THEN [l EXCEPT !.auto = None] ELSE l

\* A connection is new: it is noted for the next launch, and without a sign-in in progress it is
\* what the app signs in with.
Noticed(l) == IF ~isConnected(l) \/ isConnected(link) THEN l
              ELSE [l EXCEPT !.marker = TRUE,
                             !.method = IF l.entry = "idle" THEN "external_wallet" ELSE l.method]

\* What the effect of AuthenticationManager watches, and when it signs in.
Watched(l) == <<l.starting, l.method, l.reg, l.signedIn, l.loggedOut, isConnected(l),
                IF HasWallet(l) THEN l.address ELSE None>>

\* Defect: who has just signed out is signed in again.
MayTryAtOnce(l) == /\ ~l.starting /\ l.method = "external_wallet" /\ ~l.reg /\ ~l.signedIn
                   /\ HasWallet(l) /\ l.key # l.address

MayTry(l) == /\ ~l.starting /\ l.method = "external_wallet" /\ ~l.reg
             /\ ~l.signedIn /\ ~l.loggedOut
             /\ HasWallet(l) /\ l.key # l.address

\* The app is in l and the sign-ins are ts: if something it watches has changed, the effect takes
\* its last run back, then looks anew.
Step(l, ts) ==
    LET new == Noticed(l)
        back == IF new.run = None THEN new
                ELSE [Lowered(Unheld(new, new.run.try), new.run.of) EXCEPT !.run = None]
        off == IF new.run = None THEN ts ELSE CallOff(ts, new.run.try)
    IN  IF Watched(new) = Watched(link) THEN link' = new /\ tries' = ts
        ELSE IF ~MayTry(back) THEN link' = back /\ tries' = off
        ELSE \E t \in FreeTries(off) :
                /\ link' = [back EXCEPT !.key = back.address, !.auto = t, !.checking = TRUE,
                                        !.run = [try |-> t, of |-> back.address]]
                /\ tries' = [CallOff(off, back.auto) EXCEPT ![t] = [of |-> back.address, live |-> TRUE, at |-> "network"]]

-----------------------------------------------------------------------------
Launched(marker, address, signedIn, loggedOut) ==
    [runtime |-> IF marker THEN "mounted" ELSE "none", pending |-> FALSE, picker |-> "none", open |-> FALSE,
     asked |-> FALSE, address |-> address, provider |-> FALSE, marker |-> marker,
     entry |-> "idle", stale |-> FALSE, cleanup |-> FALSE, leaving |-> FALSE, starting |-> FALSE,
     method |-> "privy", signedIn |-> signedIn, loggedOut |-> loggedOut, step |-> "gate", reg |-> FALSE,
     checking |-> FALSE, key |-> None, auto |-> None, run |-> None]

LinkInit == /\ link = Launched(FALSE, None, FALSE, FALSE)
            /\ tries = [t \in Tries |-> None]

\* startExternalWallet is over.
EntryEnds(l) == [l EXCEPT !.entry = "idle", !.starting = FALSE]

\* ExternalWalletProvider.disconnect begins: who waits for the module is told, the picker is off.
Disconnects(l) == [(IF l.pending THEN EntryEnds(l) ELSE l) EXCEPT
                      !.pending = FALSE, !.picker = IF l.picker \in {"open", "seen"} THEN "off" ELSE l.picker]

\* One cleanup at a time, shared by all who wait for it.
clearProviderSessions(l) == IF l.cleanup THEN l ELSE [Disconnects(l) EXCEPT !.cleanup = TRUE]

-----------------------------------------------------------------------------
\* The connection module.

\* The picker opens, unless it is open already.
Picks(l) == IF l.picker # "none" THEN EntryEnds(l)
            ELSE [l EXCEPT !.picker = "open", !.open = TRUE, !.asked = TRUE]

Broken(l) == [(IF l.pending THEN EntryEnds(l) ELSE l) EXCEPT
                 !.runtime = "none", !.pending = FALSE, !.marker = FALSE, !.provider = FALSE, !.open = FALSE,
                 !.picker = IF l.picker \in {"open", "seen"} THEN "off" ELSE l.picker]

connect(l) == IF l.runtime = "ready" THEN {Picks(l)}
              ELSE {[l EXCEPT !.pending = TRUE, !.runtime = "mounted"], EntryEnds(Broken(l))}

handleRuntimeValue ==
    /\ link.runtime = "mounted"
    /\ LET ready == [link EXCEPT !.runtime = "ready", !.pending = FALSE]
       IN  Step(IF link.pending THEN Picks(ready) ELSE ready, tries)

\* Also when the module is there but cannot be set up.
handleRuntimeError == link.runtime # "none" /\ Step(Broken(link), tries)

\* Defect: nobody waits for the module only so long.
NoRuntimeTimeout == FALSE

\* 15 seconds for the module to come up.
RuntimeTimesOut == link.pending /\ Step([EntryEnds(link) EXCEPT !.pending = FALSE], tries)

\* The picker is over; its window is closed, or was asked to.
PickerFails == /\ link.picker \in {"open", "seen", "off"}
               /\ \E open \in {FALSE, link.open} : Step([EntryEnds(link) EXCEPT !.picker = "none", !.open = open], tries)

\* waitForExternalConnection looks every tenth of a second.
PickerPolls ==
    CASE link.picker = "off" -> PickerFails
      [] link.picker \in {"open", "seen"} ->
            IF link.address # None /\ link.provider THEN Step([link EXCEPT !.picker = "closing"], tries)
            ELSE IF link.picker = "seen" /\ ~link.open /\ link.address = None THEN PickerFails
            ELSE /\ link.picker = "open" /\ link.open
                 /\ Step([link EXCEPT !.picker = "seen"], tries)
      [] OTHER -> FALSE

PickerTimesOut == link.picker \in {"open", "seen"} /\ PickerFails

PickerCloses == /\ link.picker = "closing"
                /\ Step([EntryEnds(link) EXCEPT !.picker = "none", !.open = FALSE], tries)

\* The window is closed by hand; the wallet app approves, now or long after; the provider follows;
\* the wallet app ends the connection.
WindowCloses == link.open /\ Step([link EXCEPT !.open = FALSE], tries)
WalletAnswers(s) == /\ link.asked /\ link.runtime = "ready"
                    /\ Step([link EXCEPT !.asked = FALSE, !.address = s, !.provider = FALSE], tries)
ProviderComes == /\ isConnected(link) /\ ~link.provider
                 /\ Step([link EXCEPT !.provider = TRUE], tries)
WalletLeaves == /\ link.address # None /\ link.runtime = "ready"
                /\ Step([link EXCEPT !.address = None, !.provider = FALSE], tries)

-----------------------------------------------------------------------------
\* Signing in and out.

\* The button is there, and at rest, on the gate.
startExternalWallet ==
    /\ ~link.signedIn /\ link.step = "gate" /\ ~link.checking /\ ~link.starting /\ link.entry = "idle"
    /\ Step(clearProviderSessions([link EXCEPT !.entry = "clearing", !.stale = FALSE, !.starting = TRUE, !.key = None]),
            CallOff(tries, link.auto))

\* logout: nothing it waits for keeps the session.
linkLogout ==
    /\ link.signedIn \/ link.step = "identity" \/ link.starting \/ link.checking
    /\ Step(clearProviderSessions([link EXCEPT !.stale = TRUE, !.reg = FALSE, !.auto = None, !.key = None, !.checking = FALSE,
                                               !.step = "gate", !.signedIn = FALSE, !.loggedOut = TRUE,
                                               !.leaving = TRUE, !.starting = TRUE]),
            CallOff(tries, link.auto))

Left(l) == IF l.leaving THEN [l EXCEPT !.leaving = FALSE, !.starting = FALSE, !.step = "gate", !.key = None] ELSE l

\* Who waits to sign in goes on, unless they have signed out since.
Cleared(l, ok) == IF l.entry # "clearing" THEN l
                  ELSE IF ~ok \/ l.stale THEN EntryEnds(l)
                  ELSE [l EXCEPT !.entry = "unblocking", !.method = "external_wallet"]

\* The providers have closed, or one of them could not. The note for the next launch goes in
\* either case; a request that lies with the wallet app may or may not.
CleanupEnds(ok) ==
    /\ link.cleanup
    /\ \E address \in IF ok /\ link.runtime = "ready" THEN {None} ELSE {None, link.address}, asked \in {FALSE, link.asked} :
          LET closed == [link EXCEPT !.cleanup = FALSE, !.marker = FALSE, !.asked = asked,
                                     !.address = address, !.provider = (address # None /\ link.provider)]
          IN  Step(Cleared(Left(closed), ok), tries)

\* 12 seconds; the cleanup goes on.
ClearingTimesOut == link.entry = "clearing" /\ Step(EntryEnds(link), tries)
LeavingTimesOut == link.leaving /\ Step(Left(link), tries)

\* clearJustLoggedOut has been written; a sign-out in between is repeated.
Unblocked ==
    /\ link.entry = "unblocking"
    /\ IF link.stale THEN Step([EntryEnds(link) EXCEPT !.signedIn = FALSE, !.loggedOut = TRUE], tries)
       ELSE \E l \in connect([link EXCEPT !.loggedOut = FALSE, !.entry = "connecting"]) : Step(l, tries)

-----------------------------------------------------------------------------
\* The automatic sign-in.

\* The chain the wallet is on, or the one it is on after it was asked to switch.
Chains == {"base", "other", "none"}
ensureSupportedNetwork(chain, after) == chain = "base" \/ (chain = "other" /\ after = "base")

TryOver(l, t) == IF l.key = None THEN [Unheld(l, t) EXCEPT !.checking = FALSE]
                 ELSE Lowered(Unheld(l, t), tries[t].of)

TryEnds(l, t) == Step(TryOver(l, t), [tries EXCEPT ![t] = None])

\* 20 and 60 seconds for the network, 60 for the signature.
TryFails(t) == tries[t] # None /\ TryEnds(link, t)

TryConnects(t) ==
    /\ tries[t] # None /\ tries[t].at = "network"
    /\ \E chain \in Chains, after \in Chains :
          IF isConnected(link) /\ ensureSupportedNetwork(chain, after) /\ tries[t].live
          THEN Step(link, [tries EXCEPT ![t].at = "login"])
          ELSE TryEnds(link, t)

\* The service knows the signer, or not (404).
TrySignsIn(t) == /\ tries[t] # None /\ tries[t].at = "login" /\ tries[t].live
                 /\ TryEnds([link EXCEPT !.signedIn = TRUE, !.loggedOut = FALSE], t)
TryIsUnknown(t) == /\ tries[t] # None /\ tries[t].at = "login" /\ tries[t].live
                   /\ TryEnds(IF link.key = tries[t].of THEN [link EXCEPT !.step = "identity"] ELSE link, t)

\* registerWithHandle, with the wallet.
RegisterWallet == /\ link.step = "identity" /\ ~link.signedIn /\ ~link.reg
                  /\ link.method = "external_wallet" /\ HasWallet(link)
                  /\ Step([link EXCEPT !.reg = TRUE], tries)
RegisterEnds(ok) == /\ link.reg
                    /\ Step(IF ok THEN [link EXCEPT !.reg = FALSE, !.signedIn = TRUE, !.loggedOut = FALSE]
                                  ELSE [link EXCEPT !.reg = FALSE], tries)

\* The app is closed and opened again: a connection is resumed if it was noted.
Relaunch == /\ link' = Launched(link.marker, link.address, link.signedIn, link.loggedOut)
            /\ tries' = [t \in Tries |-> None]

-----------------------------------------------------------------------------
LinkTimer == RuntimeTimesOut \/ PickerPolls \/ PickerTimesOut \/ ClearingTimesOut \/ LeavingTimesOut
             \/ PickerCloses \/ Unblocked

LinkNext ==
    \/ LinkTimer \/ handleRuntimeValue \/ handleRuntimeError
    \/ WindowCloses \/ ProviderComes \/ WalletLeaves
    \/ \E s \in Signers : WalletAnswers(s)
    \/ startExternalWallet \/ linkLogout
    \/ \E ok \in BOOLEAN : CleanupEnds(ok) \/ RegisterEnds(ok)
    \/ \E t \in Tries : TryFails(t) \/ TryConnects(t) \/ TrySignsIn(t) \/ TryIsUnknown(t)
    \/ RegisterWallet \/ Relaunch

-----------------------------------------------------------------------------
\* Properties.

\* However late the wallet answers: signed out is signed out, with no sign-in left that could
\* succeed; the one that could is the one a sign-out calls off; the gate never stays behind
\* "Verifying ownership" with nobody left to raise it; and whoever pressed the button waits for
\* the module, for the picker, or for a cleanup that is under way.
NobodySlipsIn ==
    /\ link.loggedOut => (~link.signedIn /\ \A t \in Tries : tries[t] # None => ~tries[t].live)
    /\ \A t \in Tries : (tries[t] # None /\ tries[t].live) => (link.auto = t /\ tries[t].of = link.address)
    /\ link.checking => \E t \in Tries : tries[t] # None /\ link.key \in {None, tries[t].of}
    /\ (link.entry = "connecting") <=> (link.pending \/ link.picker # "none")
    /\ (link.entry = "clearing" \/ link.leaving) => link.cleanup

\* Pressing the button ends: in a connection or in a reason.
Connecting == link.entry # "idle"
=============================================================================
