---------------------------- MODULE AuthSessions ----------------------------
(***************************************************************************)
(* Signing in: backend/services/auth.service.ts (challenges, registering,  *)
(* signing in, signing out everywhere), middleware/auth.middleware.ts and  *)
(* what user.service.ts does to an account (deleteAccount, updateProfile). *)
(*                                                                         *)
(* A wallet signs a challenge; the request that brings the signature reads *)
(* the challenge, consumes it, and then signs in or registers.  A request  *)
(* with a session is let in by the middleware and acts afterwards.  Each   *)
(* of these is an action of its own, and "call" holds what was read.       *)
(* Wallets sign only their own challenges.  What a session says is fixed   *)
(* when its account is read, so that reading and signing are one action.   *)
(* Sessions also end by age, which only shuts out more; rates are limited, *)
(* and messages formatted, elsewhere.                                      *)
(***************************************************************************)
EXTENDS Naturals

CONSTANTS
    Wallets, Handles, Users,    \* Users: identifiers of accounts
    Challenges, Sessions,       \* identifiers of challenges and of tokens
    Calls,                      \* requests that can be half way at once
    MaxVersion,                 \* how often an account signs out everywhere
    None

ASSUME AuthAssumption ==
    /\ MaxVersion \in Nat
    /\ None \notin Wallets \union Handles \union Users \union Challenges

VARIABLES
    challenge,  \* rows of AuthChallenge, also those deleted since
    expired,    \* challenges whose time is over
    deleted,    \* challenges whose row is gone
    account,    \* rows of User
    session,    \* the tokens given out
    revoked,    \* tokens whose owner has signed out everywhere since, or is gone
    call        \* requests half way

vars == <<challenge, expired, deleted, account, session, revoked, call>>

Challenge == [wallet : Wallets, purpose : {"login", "register"}, consumed : BOOLEAN]
Account == [wallet : Wallets \union {None}, handle : Handles \union {None},
            version : Nat, gone : BOOLEAN]
Session == [user : Users, tv : Nat, nonce : Challenges]
Call == [step : {"consume", "enter", "create"}, nonce : Challenges, handle : Handles]
        \union [step : {"logoutAll", "delete", "profile"}, user : Users, version : Nat]

ASSUME RecordAssumption == None \notin Challenge \union Account \union Session \union Call

Init ==
    /\ challenge = [n \in Challenges |-> None]
    /\ expired = {} /\ deleted = {}
    /\ account = [u \in Users |-> None]
    /\ session = [s \in Sessions |-> None]
    /\ revoked = {}
    /\ call = [c \in Calls |-> None]

At(c, step) == call[c] # None /\ call[c].step = step

End(c) == call' = [call EXCEPT ![c] = None]

Signer(c) == challenge[call[c].nonce].wallet

Purpose(c) == challenge[call[c].nonce].purpose

\* The unique keys of User.
TakenWallet(w) == \E u \in Users : account[u] # None /\ account[u].wallet = w

TakenHandle(h) == \E u \in Users : account[u] # None /\ account[u].handle = h

Open(s, u, tv, n) ==
    /\ session[s] = None
    /\ session' = [session EXCEPT ![s] = [user |-> u, tv |-> tv, nonce |-> n]]

-----------------------------------------------------------------------------
(* Challenges.                                                             *)

\* Those that are out of date go when a new one is made.
CreateChallenge(n, w, purpose) ==
    /\ challenge[n] = None
    /\ challenge' = [challenge EXCEPT ![n] = [wallet |-> w, purpose |-> purpose, consumed |-> FALSE]]
    /\ deleted' = deleted \union expired
    /\ UNCHANGED <<expired, account, session, revoked, call>>

Expire(n) ==
    /\ challenge[n] # None /\ n \notin expired
    /\ expired' = expired \union {n}
    /\ UNCHANGED <<challenge, deleted, account, session, revoked, call>>

\* verifyChallenge: the checks.  "h" is the handle asked for, when registering.
Verify(c, n, h) ==
    /\ call[c] = None
    /\ challenge[n] # None /\ n \notin deleted \union expired
    /\ ~challenge[n].consumed
    /\ call' = [call EXCEPT ![c] = [step |-> "consume", nonce |-> n, handle |-> h]]
    /\ UNCHANGED <<challenge, expired, deleted, account, session, revoked>>

\* Defect: the challenge is marked whoever has marked it before.
Present(n) == n \notin deleted

\* The row, if nobody has used it meanwhile.  That its time may be over by now is not
\* noticed: the update compares with the time the checks began.
Unused(n) == n \notin deleted /\ ~challenge[n].consumed

Consume(c) ==
    /\ At(c, "consume")
    /\ LET n == call[c].nonce
       IN IF Unused(n)
          THEN /\ challenge' = [challenge EXCEPT ![n].consumed = TRUE]
               /\ call' = [call EXCEPT ![c].step = "enter"]
          ELSE End(c) /\ UNCHANGED challenge
    /\ UNCHANGED <<expired, deleted, account, session, revoked>>

-----------------------------------------------------------------------------
(* Signing in and registering.                                             *)

Login(c, s) ==
    /\ At(c, "enter") /\ Purpose(c) = "login"
    /\ End(c)
    /\ \/ /\ ~TakenWallet(Signer(c))
          /\ UNCHANGED session
       \/ \E u \in Users :
            /\ account[u] # None /\ account[u].wallet = Signer(c) /\ ~account[u].gone
            /\ Open(s, u, account[u].version, call[c].nonce)
    /\ UNCHANGED <<challenge, expired, deleted, account, revoked>>

\* register: is the handle free, and the wallet?
RegisterCheck(c) ==
    /\ At(c, "enter") /\ Purpose(c) = "register"
    /\ IF TakenWallet(Signer(c)) \/ TakenHandle(call[c].handle)
       THEN End(c)
       ELSE call' = [call EXCEPT ![c].step = "create"]
    /\ UNCHANGED <<challenge, expired, deleted, account, session, revoked>>

\* Defect: the database does not know that a wallet has one account.
HandleFree(w, h) == ~TakenHandle(h)

\* The row is refused when another request was faster.
KeysFree(w, h) == ~TakenWallet(w) /\ ~TakenHandle(h)

RegisterCreate(c, u, s) ==
    /\ At(c, "create") /\ account[u] = None
    /\ End(c)
    /\ IF KeysFree(Signer(c), call[c].handle)
       THEN /\ account' = [account EXCEPT ![u] =
                  [wallet |-> Signer(c), handle |-> call[c].handle, version |-> 0, gone |-> FALSE]]
            /\ Open(s, u, 0, call[c].nonce)
       ELSE UNCHANGED <<account, session>>
    /\ UNCHANGED <<challenge, expired, deleted, revoked>>

-----------------------------------------------------------------------------
(* Requests with a session.                                                *)

\* The middleware: the account is there, and the session of its version.
Accepted(s) ==
    /\ session[s] # None /\ account[session[s].user] # None
    /\ ~account[session[s].user].gone
    /\ session[s].tv = account[session[s].user].version

Authenticate(c, s, step) ==
    /\ call[c] = None /\ Accepted(s)
    /\ call' = [call EXCEPT ![c] = [step |-> step, user |-> session[s].user, version |-> session[s].tv]]
    /\ UNCHANGED <<challenge, expired, deleted, account, session, revoked>>

SessionsOf(u) == {s \in Sessions : session[s] # None /\ session[s].user = u}

\* Defect: the version goes up from what the middleware has read.
NextVersionRead(c, u) == call[c].version + 1

\* tokenVersion: { increment: 1 }
NextVersion(c, u) == account[u].version + 1

LogoutAll(c) ==
    /\ At(c, "logoutAll")
    /\ LET u == call[c].user
       IN /\ account[u].version < MaxVersion
          /\ account' = [account EXCEPT ![u].version = NextVersion(c, u)]
          /\ revoked' = revoked \union SessionsOf(u)
    /\ End(c)
    /\ UNCHANGED <<challenge, expired, deleted, session>>

DeleteAccount(c) ==
    /\ At(c, "delete")
    /\ LET u == call[c].user
       IN /\ account[u].version < MaxVersion
          /\ deleted' = deleted \union
                {n \in Challenges : challenge[n] # None /\ challenge[n].wallet = account[u].wallet}
          /\ account' = [account EXCEPT ![u] =
                [wallet |-> None, handle |-> None, version |-> NextVersion(c, u), gone |-> TRUE]]
          /\ revoked' = revoked \union SessionsOf(u)
    /\ End(c)
    /\ UNCHANGED <<challenge, expired, session>>

\* The row is updated by its identifier, whatever has become of it.
UpdateProfile(c, h) ==
    /\ At(c, "profile")
    /\ LET u == call[c].user
       IN IF \E v \in Users \ {u} : account[v] # None /\ account[v].handle = h
          THEN UNCHANGED account
          ELSE account' = [account EXCEPT ![u].handle = h]
    /\ End(c)
    /\ UNCHANGED <<challenge, expired, deleted, session, revoked>>

Die(c) ==
    /\ call[c] # None
    /\ End(c)
    /\ UNCHANGED <<challenge, expired, deleted, account, session, revoked>>

Next ==
    \/ \E n \in Challenges, w \in Wallets, purpose \in {"login", "register"} :
         CreateChallenge(n, w, purpose)
    \/ \E n \in Challenges : Expire(n)
    \/ \E c \in Calls, n \in Challenges, h \in Handles : Verify(c, n, h)
    \/ \E c \in Calls : Consume(c) \/ RegisterCheck(c) \/ LogoutAll(c) \/ DeleteAccount(c) \/ Die(c)
    \/ \E c \in Calls, s \in Sessions : Login(c, s)
    \/ \E c \in Calls, u \in Users, s \in Sessions : RegisterCreate(c, u, s)
    \/ \E c \in Calls, s \in Sessions, step \in {"logoutAll", "delete", "profile"} :
         Authenticate(c, s, step)
    \/ \E c \in Calls, h \in Handles : UpdateProfile(c, h)

Spec == Init /\ [][Next]_vars

-----------------------------------------------------------------------------
(* Properties.                                                             *)

\* Every variable has its type; sessions name accounts and challenges that exist or
\* existed, and nobody signs in or registers before the challenge is used up.
TypeOK ==
    /\ challenge \in [Challenges -> Challenge \union {None}]
    /\ expired \subseteq Challenges /\ deleted \subseteq Challenges
    /\ account \in [Users -> Account \union {None}]
    /\ session \in [Sessions -> Session \union {None}]
    /\ revoked \subseteq Sessions
    /\ call \in [Calls -> Call \union {None}]
    /\ \A s \in Sessions : session[s] # None =>
         account[session[s].user] # None /\ challenge[session[s].nonce] # None
    /\ \A c \in Calls : At(c, "enter") \/ At(c, "create") => challenge[call[c].nonce].consumed

\* A signature opens one session, however many requests bring it at once
\* (verifyChallenge reads the challenge and marks it later).
OneSignInPerChallenge ==
    \A s, t \in Sessions :
        session[s] # None /\ session[t] # None /\ session[s].nonce = session[t].nonce => s = t

\* Who signs out everywhere, or deletes the account, has no session left that was
\* opened before, also when two of these requests overlap (logoutAll, deleteAccount).
RevokedStayOut == \A s \in revoked : ~Accepted(s)

\* A wallet, and a handle, belong to one account, although registering looks first
\* and writes later (register).
OneAccountPerWallet ==
    \A u, v \in Users :
        account[u] # None /\ account[v] # None /\ u # v =>
            /\ account[u].wallet = None \/ account[u].wallet # account[v].wallet
            /\ account[u].handle = None \/ account[u].handle # account[v].handle

\* "The profile is anonymised, the handle freed" when an account is deleted.
GoneAreAnonymous ==
    \A u \in Users : account[u] # None /\ account[u].gone => account[u].handle = None
=============================================================================
