--------------------------- MODULE IdentityScreen ---------------------------
(***************************************************************************)
(* How a newcomer gets a handle, after the sign-in of PhoneSession:        *)
(*   frontend/app/onboarding.tsx, utils/onboardingDraft.ts     the form    *)
(*   frontend/components/onboarding/{Gate,Identity}Screen.tsx              *)
(*   backend/services/auth.service.ts                 who has which handle *)
(*                                                                         *)
(* A text is the handle left of it once cleaned, and what cleaning it      *)
(* takes away.  The account name goes the way of the handle beside it.     *)
(***************************************************************************)
EXTENDS Integers, ScreenCommon

CONSTANTS
    Newcomers,      \* who signs in on this phone without a handle
    Handles,        \* handles long enough to be had
    Lookups         \* bound: questions about a handle on their way

ASSUME IdentityAssumption == None \notin Newcomers \cup Handles

VARIABLES
    newcomer,     \* who is signed in with the provider
    form,       \* Onboarding: the step, the texts, whose they are, whether they are to be saved
    drafts,     \* useOnboardingDraftStore, by person; hydrated: has it been read from storage?
    hydrated,
    identity,   \* IdentityScreen, None while it is not there
    lookups,    \* the effect that asks for the typed handle, run by run
    signup,     \* the registration under way
    handles,    \* the service: by handle, who has it
    banner      \* GateScreen: the account chosen in "Manage accounts", the sheet that names a new one

identityVars == <<newcomer, form, drafts, hydrated, identity, lookups, signup, handles, banner>>

-----------------------------------------------------------------------------
(* Texts. *)

Typable == [clean : Handles \cup {None}, odd : BOOLEAN]
sanitizeHandle(text) == text.clean
\* The service refuses what cleaning would change, or leaves nothing of.
normalizeHandle(text) == IF text.odd THEN None ELSE text.clean

-----------------------------------------------------------------------------
(* Drafts: by person, without the terms box; one that is seven days old reads as none. *)

clearDraft(of, p) == [of EXCEPT ![p] = None]
saveDraft(of, p, f) ==
    IF f.handle = None THEN clearDraft(of, p)
    ELSE [of EXCEPT ![p] = [handle |-> f.handle, by |-> f.by]]
readDraft(p) == IF p = None THEN None ELSE drafts[p]

Empty == [handle |-> None, by |-> None]
NewForm == [handle |-> None, by |-> None, step |-> "gate",
            restored |-> None, finished |-> FALSE, unsaved |-> FALSE]

\* The effects of Onboarding, once the person, the step or the loading of the drafts has changed.
Settle(f, p, loaded) ==
    LET back == f.step = "identity" /\ loaded /\ p # None /\ f.restored # p
        draft == readDraft(p)
        text == IF p = None THEN Empty
                ELSE IF ~back THEN [handle |-> f.handle, by |-> f.by]
                ELSE IF draft = None THEN Empty
                ELSE [handle |-> draft.handle, by |-> draft.by]
        restored == IF p = None THEN None ELSE IF back THEN p ELSE f.restored
        finished == f.finished /\ p # None /\ ~back
    IN  [handle |-> text.handle, by |-> text.by, step |-> f.step,
         restored |-> restored, finished |-> finished,
         unsaved |-> f.step = "identity" /\ loaded /\ restored = p /\ p # None /\ ~finished]

-----------------------------------------------------------------------------
(* The effect of IdentityScreen: half a second after the last change the service is asked. *)

NewIdentity(handle) == [available |-> None, about |-> None, checking |-> handle # None, error |-> FALSE,
                        terms |-> FALSE, busy |-> FALSE, leaving |-> FALSE]

Stale == [c \in Lookups |-> IF lookups[c] = None \/ lookups[c].at = "timer" THEN None
                            ELSE [lookups[c] EXCEPT !.live = FALSE, !.free = FALSE]]
\* bound: a lookup is free.
LooksUp(handle) ==
    IF handle = None THEN lookups' = Stale
    ELSE \E c \in Lookups : /\ Stale[c] = None
                            /\ lookups' = [Stale EXCEPT ![c] = [about |-> handle, at |-> "timer", live |-> TRUE, free |-> FALSE]]

\* The screen that follows from a form: it is mounted, its effect runs again, or it goes.
Follows(f) ==
    IF f.step # "identity" THEN identity' = None /\ lookups' = Stale
    ELSE IF identity = None THEN identity' = NewIdentity(f.handle) /\ LooksUp(f.handle)
    ELSE IF f.handle # form.handle
         THEN /\ identity' = [identity EXCEPT !.available = None, !.about = None, !.error = FALSE,
                                              !.checking = f.handle # None]
              /\ LooksUp(f.handle)
         ELSE UNCHANGED <<identity, lookups>>

Moves(f) == form' = f /\ Follows(f)

handleStatus ==
    IF form.handle = None THEN "too short" ELSE IF identity.error THEN "error"
    ELSE IF identity.checking THEN "checking" ELSE IF identity.available = TRUE THEN "available"
    ELSE IF identity.available = FALSE THEN "taken" ELSE "nothing"

canSubmit == /\ form.handle # None /\ identity.available = TRUE /\ identity.terms
             /\ ~identity.busy /\ ~identity.leaving /\ ~identity.checking

FieldsOpen == identity # None /\ ~identity.busy /\ ~identity.leaving
\* What is drawn: the status under the handle, and the buttons that can be pressed.
IdentityShows == [status |-> handleStatus, getStarted |-> canSubmit,
                  fields |-> FieldsOpen, back |-> ~identity.leaving]

-----------------------------------------------------------------------------
IdentityInit ==
    /\ newcomer = None /\ form = NewForm /\ hydrated = FALSE
    /\ drafts = [p \in Newcomers |-> None]
    /\ identity = None /\ lookups = [c \in Lookups |-> None] /\ signup = None
    /\ handles = [h \in Handles |-> None]
    /\ banner = [target |-> FALSE, sheet |-> "closed"]

Phone == <<newcomer, form, drafts, hydrated, identity, lookups, signup, banner>>

\* bound: the drafts are kept in memory only once they have been read.
Hydrates ==
    /\ ~hydrated /\ hydrated' = TRUE
    /\ Moves(Settle(form, newcomer, TRUE))
    /\ UNCHANGED <<newcomer, drafts, signup, handles, banner>>

DraftAges(p) ==
    /\ drafts[p] # None /\ drafts' = clearDraft(drafts, p)
    /\ UNCHANGED <<newcomer, form, hydrated, identity, lookups, signup, handles, banner>>

-----------------------------------------------------------------------------
(* GateScreen: what can be pressed, and that another way gives a switch up. *)

GateShows == [banner |-> banner.target, passkey |-> form.step = "gate" /\ newcomer = None /\ banner.sheet = "closed"]

OpenNaming == /\ GateShows.passkey
              /\ banner' = [banner EXCEPT !.sheet = "open"]
              /\ UNCHANGED <<newcomer, form, drafts, hydrated, identity, lookups, signup, handles>>
\* Confirmed or cancelled; once confirmed, the sheet closes before another way is started.
CloseNaming ==   /\ banner.sheet = "open"
                 /\ banner' = [banner EXCEPT !.sheet = "closed"]
                 /\ UNCHANGED <<newcomer, form, drafts, hydrated, identity, lookups, signup, handles>>
ComesToSwitch == /\ GateShows.passkey /\ ~banner.target
                 /\ banner' = [banner EXCEPT !.target = TRUE]
                 /\ UNCHANGED <<newcomer, form, drafts, hydrated, identity, lookups, signup, handles>>
DismissIntent == /\ form.step = "gate" /\ banner.target
                 /\ banner' = [banner EXCEPT !.target = FALSE]
                 /\ UNCHANGED <<newcomer, form, drafts, hydrated, identity, lookups, signup, handles>>

\* Somebody signs in with the provider: with the account of the banner, which stays, or another way.
startAnotherWay(p) ==
    /\ form.step = "gate" /\ newcomer = None /\ banner.sheet # "open"
    /\ newcomer' = p
    /\ \E t \in {FALSE, banner.target} : banner' = [target |-> t, sheet |-> "closed"]
    /\ Moves(Settle(form, p, hydrated))
    /\ UNCHANGED <<drafts, hydrated, signup, handles>>

HasHandle(p) == \E h \in Handles : handles[h] = p

\* AuthenticationManager: who has an account goes home, who has none is asked for a handle.
Recognised ==
    /\ form.step = "gate" /\ newcomer # None
    /\ IF HasHandle(newcomer) THEN Moves([NewForm EXCEPT !.step = "home"])
       ELSE Moves(Settle([form EXCEPT !.step = "identity"], newcomer, hydrated))
    /\ UNCHANGED <<newcomer, drafts, hydrated, signup, handles, banner>>

-----------------------------------------------------------------------------
(* IdentityScreen. *)

onHandleChange(text) ==
    /\ FieldsOpen /\ sanitizeHandle(text) # form.handle
    /\ Moves(Settle([form EXCEPT !.handle = sanitizeHandle(text),
                                    !.by = IF sanitizeHandle(text) = None THEN None ELSE newcomer], newcomer, hydrated))
    /\ UNCHANGED <<newcomer, drafts, hydrated, signup, handles, banner>>

AcceptTerms ==
    /\ identity # None /\ identity' = [identity EXCEPT !.terms = ~@]
    /\ UNCHANGED <<newcomer, form, drafts, hydrated, lookups, signup, handles, banner>>

\* The text has rested for 300 ms. The timer was set for this person and this text.
SaveDraft ==
    /\ form.unsaved
    /\ form' = [form EXCEPT !.unsaved = FALSE]
    /\ drafts' = saveDraft(drafts, newcomer, form)
    /\ UNCHANGED <<newcomer, hydrated, identity, lookups, signup, handles, banner>>

checkHandle(c) ==
    /\ lookups[c] # None /\ lookups[c].at = "timer"
    /\ lookups' = [lookups EXCEPT ![c].at = "asked", ![c].free = lookups[c].live /\ handles[lookups[c].about] = None]
    /\ UNCHANGED <<newcomer, form, drafts, hydrated, identity, signup, handles, banner>>

\* An answer to a run of the effect that a later change has called off is dropped.
LookupEnds(c) ==
    /\ lookups[c] # None /\ lookups[c].at = "asked"
    /\ lookups' = [lookups EXCEPT ![c] = None]
    /\ IF ~lookups[c].live THEN UNCHANGED identity
       ELSE \/ identity' = [identity EXCEPT !.checking = FALSE, !.available = lookups[c].free, !.about = lookups[c].about]
            \/ identity' = [identity EXCEPT !.checking = FALSE, !.error = TRUE]
    /\ UNCHANGED <<newcomer, form, drafts, hydrated, signup, handles, banner>>

handleFinish ==
    /\ identity # None /\ canSubmit /\ signup = None
    /\ identity' = [identity EXCEPT !.busy = TRUE, !.error = FALSE]
    /\ signup' = [by |-> newcomer, handle |-> form.handle, at |-> "asked"]
    /\ UNCHANGED <<newcomer, form, drafts, hydrated, lookups, handles, banner>>

\* AuthService.register: a handle and a wallet have one account.
register ==
    /\ signup # None /\ signup.at = "asked"
    /\ LET handle == normalizeHandle([clean |-> signup.handle, odd |-> FALSE])
           taken == handle = None \/ handles[handle] # None \/ HasHandle(signup.by)
       IN  /\ handles' = IF taken THEN handles ELSE [handles EXCEPT ![handle] = signup.by]
           /\ signup' = [signup EXCEPT !.at = IF taken THEN "refused" ELSE "created"]
    /\ UNCHANGED <<newcomer, form, drafts, hydrated, identity, lookups, banner>>

\* submit: nothing of the draft is needed any more.
RegisterAnswers ==
    /\ signup # None /\ signup.at = "created" /\ identity # None /\ identity.busy
    /\ signup' = None
    /\ drafts' = clearDraft(drafts, signup.by)
    /\ form' = [form EXCEPT !.finished = TRUE]
    /\ identity' = [identity EXCEPT !.busy = FALSE]
    /\ UNCHANGED <<newcomer, hydrated, lookups, handles, banner>>

\* playAuthenticatedTransition is over.
GoesHome ==
    /\ form.step = "identity" /\ form.finished
    /\ Moves([NewForm EXCEPT !.step = "home"])
    /\ UNCHANGED <<newcomer, drafts, hydrated, signup, handles, banner>>

\* Refused, not reached, the answer lost, or aborted by a sign-out.
RegisterFails ==
    /\ signup # None /\ signup' = None
    /\ identity' = IF identity = None \/ ~identity.busy THEN identity
                   ELSE [identity EXCEPT !.busy = FALSE, !.error = TRUE]
    /\ UNCHANGED <<newcomer, form, drafts, hydrated, lookups, handles, banner>>

\* handleBack asks first; signing out aborts the registration and closes the screen, then the
\* provider lets the person go, late or after another try.
signOut ==
    /\ form.step \in {"identity", "home"} /\ (identity # None => ~identity.leaving)
    /\ \/ /\ signup' = IF signup = None \/ signup.at = "created" THEN signup ELSE [signup EXCEPT !.at = "refused"]
          /\ Moves([form EXCEPT !.step = "gate", !.unsaved = FALSE])
       \/ /\ identity # None /\ identity' = [identity EXCEPT !.leaving = TRUE, !.error = FALSE]
          /\ UNCHANGED <<form, lookups, signup>>
    /\ UNCHANGED <<newcomer, drafts, hydrated, handles, banner>>

\* logout ends: the step is the gate, or the sign-out has failed and the screen says so.
SignOutEnds ==
    /\ identity # None /\ identity.leaving
    /\ \/ Moves([form EXCEPT !.step = "gate", !.unsaved = FALSE])
       \/ identity' = [identity EXCEPT !.leaving = FALSE, !.error = TRUE] /\ UNCHANGED <<form, lookups>>
    /\ UNCHANGED <<newcomer, drafts, hydrated, signup, handles, banner>>

ProviderLets ==
    /\ form.step = "gate" /\ newcomer # None
    /\ newcomer' = None /\ Moves(Settle(form, None, hydrated))
    /\ UNCHANGED <<drafts, hydrated, signup, handles, banner>>

OtherTakes(h) ==
    /\ handles[h] = None /\ handles' = [handles EXCEPT ![h] = "other"]
    /\ UNCHANGED Phone

\* The process dies: the drafts that were saved and the session of the provider survive.
IdentityAppDies ==
    /\ form' = NewForm /\ identity' = None /\ hydrated' = FALSE
    /\ lookups' = [c \in Lookups |-> None] /\ signup' = None
    /\ banner' = [target |-> FALSE, sheet |-> "closed"]
    /\ UNCHANGED <<newcomer, drafts, handles>>

LookupStep == \E c \in Lookups : checkHandle(c) \/ LookupEnds(c)
SignupStep == RegisterAnswers \/ RegisterFails

IdentityNext ==
    \/ Hydrates \/ (\E p \in Newcomers : DraftAges(p) \/ startAnotherWay(p))
    \/ OpenNaming \/ CloseNaming \/ ComesToSwitch \/ DismissIntent \/ Recognised
    \/ (\E text \in Typable : onHandleChange(text)) \/ AcceptTerms
    \/ SaveDraft \/ LookupStep \/ handleFinish \/ register \/ SignupStep \/ GoesHome \/ signOut \/ SignOutEnds
    \/ ProviderLets \/ (\E h \in Handles : OtherTakes(h)) \/ IdentityAppDies

-----------------------------------------------------------------------------
(* Properties. *)

\* What the screen says of a handle is an answer about the handle that stands there, and "Get
\* started" can be pressed only under "available", or under the reason why it failed.
AvailableIsOfTyped ==
    identity # None => /\ identity.available # None => identity.about = form.handle
                       /\ IdentityShows.getStarted => IdentityShows.status \in {"available", "error"}

\* The form shows to a person, and keeps for a person, only what that person typed.
FormIsOwn ==
    /\ form.step = "identity" => form.by \in {newcomer, None}
    /\ \A p \in Newcomers : drafts[p] # None => drafts[p].by = p
=============================================================================
