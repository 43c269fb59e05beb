---------------------------- MODULE AccountProofs ----------------------------
(***************************************************************************)
(* Who may sign in, at the service and on the phone.                       *)
(*                                                                         *)
(* AuthSessions for any number of wallets, accounts and overlapping        *)
(* requests: the shape of its rows, one session per signature, nobody      *)
(* still in after signing out everywhere, one account per wallet.  The     *)
(* strengthening follows a challenge from request to session: at most one  *)
(* request is past consuming it (OnePast), and none is once it has a       *)
(* session (PastIsNew).  A session that was revoked is of an older version *)
(* than its account (RevokedIsOld): versions only grow.                    *)
(*                                                                         *)
(* PhoneAccounts for any number of accounts, passkeys, entries, starts and *)
(* writes that wait: no account is forgotten or listed twice, nobody is    *)
(* locked out by a removal, who lands elsewhere is told.  Its invariant,   *)
(* KeptInv, is about what is stored (Stored) and about the rest (Whole).   *)
(***************************************************************************)
EXTENDS AuthSessions, PhoneAccounts, SumTheorems

Past(c) == At(c, "enter") \/ At(c, "create")

OnePast == \A c, d \in Calls : Past(c) /\ Past(d) /\ call[c].nonce = call[d].nonce => c = d

\* A challenge that has a session is used up, and no request is on its way with it.
PastIsNew ==
    \A s \in Sessions : session[s] # None =>
        /\ challenge[session[s].nonce].consumed
        /\ \A c \in Calls : Past(c) => call[c].nonce # session[s].nonce

\* What requests half way refer to exists.
CallsRefer ==
    \A c \in Calls : call[c] # None =>
        IF call[c].step \in {"consume", "enter", "create"}
        THEN challenge[call[c].nonce] # None
        ELSE account[call[c].user] # None

\* Sessions are not newer than their account, those revoked are older.
RevokedIsOld ==
    \A s \in Sessions : session[s] # None =>
        /\ session[s].tv <= account[session[s].user].version
        /\ s \in revoked => session[s].tv < account[session[s].user].version

RevokedExist == \A s \in revoked : session[s] # None

AuthInv ==
    /\ TypeOK /\ OnePast /\ PastIsNew /\ CallsRefer
    /\ OneSignInPerChallenge /\ RevokedIsOld /\ RevokedExist

LEMMA InitHolds == Init => AuthInv
  BY AuthAssumption DEF Init, AuthInv, TypeOK, OnePast, Past, At, PastIsNew, CallsRefer,
     OneSignInPerChallenge, RevokedIsOld, RevokedExist

LEMMA CallShape ==
  ASSUME TypeOK, NEW c \in Calls, call[c] # None
  PROVE  /\ call[c] \in Call
         /\ call[c].step \in {"consume", "enter", "create"} =>
              call[c].nonce \in Challenges /\ call[c].handle \in Handles
         /\ call[c].step \in {"logoutAll", "delete", "profile"} =>
              call[c].user \in Users /\ call[c].version \in Nat
  BY DEF TypeOK, Call

\* A request that ends disturbs none of the parts about requests.
LEMMA EndKeeps ==
  ASSUME AuthInv, NEW c \in Calls, End(c),
         UNCHANGED <<challenge, expired, account, session, revoked>>,
         deleted' \subseteq Challenges
  PROVE  AuthInv'
<1>1. \A d \in Calls : call'[d] = IF d = c THEN None ELSE call[d]
  BY DEF End, AuthInv, TypeOK
<1>2. TypeOK'
  BY <1>1 DEF End, AuthInv, TypeOK, At
<1>3. OnePast' /\ PastIsNew' /\ CallsRefer'
  BY <1>1 DEF AuthInv, OnePast, PastIsNew, CallsRefer, Past, At
<1>4. OneSignInPerChallenge' /\ RevokedIsOld' /\ RevokedExist'
  BY DEF AuthInv, OneSignInPerChallenge, RevokedIsOld, RevokedExist
<1> QED  BY <1>2, <1>3, <1>4 DEF AuthInv

LEMMA CreateChallengeKeeps ==
  ASSUME AuthInv, NEW n \in Challenges, NEW w \in Wallets, NEW purpose \in {"login", "register"},
         CreateChallenge(n, w, purpose)
  PROVE  AuthInv'
<1>1. [wallet |-> w, purpose |-> purpose, consumed |-> FALSE] \in Challenge
  BY DEF Challenge
<1>2. /\ \A m \in Challenges : challenge'[m] = IF m = n
            THEN [wallet |-> w, purpose |-> purpose, consumed |-> FALSE] ELSE challenge[m]
      /\ challenge' \in [Challenges -> Challenge \union {None}]
      /\ challenge[n] = None /\ challenge'[n] # None
  BY <1>1, RecordAssumption DEF CreateChallenge, AuthInv, TypeOK
<1>3. UNCHANGED <<expired, account, session, revoked, call>>
  BY DEF CreateChallenge
<1>4. \A c \in Calls : Past(c) => call[c].nonce \in Challenges /\ call[c].nonce # n
  <2> SUFFICES ASSUME NEW c \in Calls, Past(c)
               PROVE  call[c].nonce \in Challenges /\ call[c].nonce # n
    OBVIOUS
  <2>1. call[c].nonce \in Challenges
    BY CallShape DEF Past, At, AuthInv
  <2> QED  BY <2>1, <1>2 DEF AuthInv, CallsRefer, Past, At
<1>5. \A s \in Sessions : session[s] # None => session[s].nonce \in Challenges /\ session[s].nonce # n
  BY <1>2 DEF AuthInv, TypeOK, Session
<1>6. TypeOK'
  <2>1. deleted' \subseteq Challenges
    BY DEF CreateChallenge, AuthInv, TypeOK
  <2> QED  BY <1>2, <1>3, <1>4, <1>5, <2>1 DEF AuthInv, TypeOK, At, Past
<1>7. OnePast' /\ PastIsNew'
  BY <1>2, <1>3, <1>4, <1>5 DEF AuthInv, OnePast, PastIsNew, Past, At
<1>8. CallsRefer'
  <2> SUFFICES ASSUME NEW c \in Calls, call[c] # None,
                      call[c].step \in {"consume", "enter", "create"}
               PROVE  challenge'[call[c].nonce] # None
    BY <1>3 DEF AuthInv, CallsRefer
  <2>1. call[c].nonce \in Challenges
    BY CallShape DEF AuthInv
  <2> QED  BY <1>2, <2>1 DEF AuthInv, CallsRefer
<1>9. OneSignInPerChallenge' /\ RevokedIsOld' /\ RevokedExist'
  BY <1>3 DEF AuthInv, OneSignInPerChallenge, RevokedIsOld, RevokedExist
<1> QED  BY <1>6, <1>7, <1>8, <1>9 DEF AuthInv

LEMMA VerifyKeeps ==
  ASSUME AuthInv, NEW c \in Calls, NEW n \in Challenges, NEW h \in Handles, Verify(c, n, h)
  PROVE  AuthInv'
<1>1. [step |-> "consume", nonce |-> n, handle |-> h] \in Call
  BY DEF Call
<1>2. \A d \in Calls : call'[d] = IF d = c
          THEN [step |-> "consume", nonce |-> n, handle |-> h] ELSE call[d]
  BY DEF Verify, AuthInv, TypeOK
<1>3. UNCHANGED <<challenge, expired, deleted, account, session, revoked>> /\ challenge[n] # None
  BY DEF Verify
<1>4. TypeOK'
  BY <1>1, <1>2, <1>3 DEF Verify, AuthInv, TypeOK, At
<1>5. OnePast' /\ PastIsNew' /\ CallsRefer'
  BY <1>2, <1>3 DEF AuthInv, OnePast, PastIsNew, CallsRefer, Past, At
<1>6. OneSignInPerChallenge' /\ RevokedIsOld' /\ RevokedExist'
  BY <1>3 DEF AuthInv, OneSignInPerChallenge, RevokedIsOld, RevokedExist
<1> QED  BY <1>4, <1>5, <1>6 DEF AuthInv

LEMMA ConsumeKeeps ==
  ASSUME AuthInv, NEW c \in Calls, Consume(c)
  PROVE  AuthInv'
<1> DEFINE n == call[c].nonce
<1>1. n \in Challenges /\ challenge[n] # None /\ challenge[n] \in Challenge
      /\ call[c] \in Call /\ call[c] # None /\ call[c].step = "consume"
  BY CallShape DEF Consume, At, AuthInv, CallsRefer, TypeOK
<1>2. CASE ~Unused(n)
  BY <1>2, EndKeeps DEF Consume, AuthInv, TypeOK
<1>3. CASE Unused(n)
  <2>1. /\ challenge' = [challenge EXCEPT ![n].consumed = TRUE]
        /\ call' = [call EXCEPT ![c].step = "enter"]
        /\ UNCHANGED <<expired, deleted, account, session, revoked>>
    BY <1>3 DEF Consume
  <2>2. /\ call' \in [Calls -> Call \union {None}]
        /\ \A d \in Calls : d # c => call'[d] = call[d]
        /\ call'[c] # None /\ call'[c].step = "enter" /\ call'[c].nonce = n
    BY <1>1, <2>1, RecordAssumption DEF AuthInv, TypeOK, Call
  <2>3. /\ challenge' \in [Challenges -> Challenge \union {None}]
        /\ challenge'[n] # None /\ challenge'[n].consumed /\ ~challenge[n].consumed
        /\ \A m \in Challenges : m # n => challenge'[m] = challenge[m]
    BY <1>1, <1>3, <2>1, RecordAssumption DEF AuthInv, TypeOK, Challenge, Unused
  <2>4. \A d \in Calls : Past(d) => call[d].nonce \in Challenges /\ call[d].nonce # n
    <3> SUFFICES ASSUME NEW d \in Calls, Past(d)
                 PROVE  call[d].nonce \in Challenges /\ call[d].nonce # n
      OBVIOUS
    <3>1. call[d].nonce \in Challenges
      BY CallShape DEF Past, At, AuthInv
    <3>2. challenge[call[d].nonce].consumed
      BY DEF Past, AuthInv, TypeOK
    <3> QED  BY <3>1, <3>2, <2>3
  <2>5. \A s \in Sessions : session[s] # None => session[s].nonce \in Challenges /\ session[s].nonce # n
    BY <2>3 DEF AuthInv, PastIsNew, TypeOK, Session
  <2> HIDE DEF n
  <2>6. TypeOK'
    <3>1. \A d \in Calls : Past(d)' => challenge'[call'[d].nonce].consumed
      BY <2>2, <2>3, <2>4 DEF AuthInv, TypeOK, Past, At
    <3>2. \A s \in Sessions : session[s] # None => challenge'[session[s].nonce] # None
      BY <2>3, <2>5 DEF AuthInv, TypeOK
    <3> QED  BY <2>1, <2>2, <2>3, <3>1, <3>2 DEF AuthInv, TypeOK, Past, At
  <2>7. OnePast'
    BY <2>2, <2>4 DEF AuthInv, OnePast, Past, At
  <2>8. PastIsNew'
    BY <2>1, <2>2, <2>3, <2>5 DEF AuthInv, PastIsNew, Past, At
  <2>9. CallsRefer'
    <3> SUFFICES ASSUME NEW d \in Calls, d # c, call[d] # None,
                        call[d].step \in {"consume", "enter", "create"}
                 PROVE  challenge'[call[d].nonce] # None
      BY <2>1, <2>2, <2>3 DEF AuthInv, CallsRefer
    <3>1. call[d].nonce \in Challenges /\ challenge[call[d].nonce] # None
      BY CallShape DEF AuthInv, CallsRefer
    <3> QED  BY <2>3, <3>1
  <2>10. OneSignInPerChallenge' /\ RevokedIsOld' /\ RevokedExist'
    BY <2>1 DEF AuthInv, OneSignInPerChallenge, RevokedIsOld, RevokedExist
  <2> QED  BY <2>6, <2>7, <2>8, <2>9, <2>10 DEF AuthInv
<1> QED  BY <1>2, <1>3

\* A request past its challenge opens the only session there is for it.
LEMMA OpenKeeps ==
  ASSUME AuthInv, NEW c \in Calls, Past(c), End(c), NEW s \in Sessions, NEW u \in Users,
         NEW tv \in Nat, Open(s, u, tv, call[c].nonce),
         UNCHANGED <<challenge, expired, deleted, revoked>>,
         account' \in [Users -> Account \union {None}],
         account'[u] # None, account'[u].version = tv,
         \A v \in Users : account[v] # None => account'[v] = account[v]
  PROVE  AuthInv'
<1> DEFINE n == call[c].nonce
<1>1. n \in Challenges /\ challenge[n] # None /\ challenge[n].consumed
  BY CallShape DEF Past, At, AuthInv, CallsRefer, TypeOK
<1>2. \A d \in Calls : call'[d] = IF d = c THEN None ELSE call[d]
  BY DEF End, AuthInv, TypeOK
<1>3. [user |-> u, tv |-> tv, nonce |-> n] \in Session
  BY <1>1 DEF Session
<1>4. /\ session' \in [Sessions -> Session \union {None}]
      /\ session[s] = None
      /\ \A t \in Sessions : session'[t] = IF t = s THEN [user |-> u, tv |-> tv, nonce |-> n]
                                           ELSE session[t]
  BY <1>3 DEF Open, AuthInv, TypeOK
<1>5. \A t \in Sessions : session[t] # None => session[t].nonce # n
  BY DEF AuthInv, PastIsNew
<1>6. \A t \in Sessions : session[t] # None =>
         /\ session[t].user \in Users /\ account'[session[t].user] = account[session[t].user]
         /\ account[session[t].user] # None
  BY DEF AuthInv, TypeOK, Session
<1>7. \A d \in Calls : d # c /\ Past(d) => call[d].nonce # n
  BY DEF AuthInv, OnePast
<1> HIDE DEF n
<1>8. TypeOK'
  <2>1. call' \in [Calls -> Call \union {None}]
    BY DEF End, AuthInv, TypeOK
  <2> QED  BY <1>1, <1>2, <1>4, <1>6, <2>1 DEF AuthInv, TypeOK, At
<1>9. OnePast'
  BY <1>2 DEF AuthInv, OnePast, Past, At
<1>10. PastIsNew'
  BY <1>1, <1>2, <1>4, <1>7 DEF AuthInv, PastIsNew, Past, At
<1>11. CallsRefer'
  <2> SUFFICES ASSUME NEW d \in Calls, d # c, call[d] # None
               PROVE  IF call[d].step \in {"consume", "enter", "create"}
                      THEN challenge[call[d].nonce] # None ELSE account'[call[d].user] # None
    BY <1>2 DEF CallsRefer
  <2>1. call[d].step \in {"consume", "enter", "create", "logoutAll", "delete", "profile"}
    BY CallShape DEF AuthInv, Call
  <2> QED  BY <2>1, CallShape DEF AuthInv, CallsRefer
<1>12. OneSignInPerChallenge'
  BY <1>4, <1>5 DEF AuthInv, OneSignInPerChallenge
<1>13. RevokedIsOld' /\ RevokedExist'
  <2>1. s \notin revoked
    BY <1>4 DEF AuthInv, RevokedExist
  <2>2. RevokedExist'
    BY <1>4, <2>1 DEF AuthInv, RevokedExist, TypeOK
  <2>3. RevokedIsOld'
    <3> SUFFICES ASSUME NEW t \in Sessions, session'[t] # None
                 PROVE  /\ session'[t].tv <= account'[session'[t].user].version
                        /\ t \in revoked => session'[t].tv < account'[session'[t].user].version
      BY DEF RevokedIsOld
    <3>1. CASE t = s
      BY <1>4, <2>1, <3>1
    <3>2. CASE t # s
      <4>1. session'[t] = session[t] /\ session[t] # None
        BY <1>4, <3>2
      <4> QED  BY <4>1, <1>6 DEF AuthInv, RevokedIsOld
    <3> QED  BY <3>1, <3>2
  <2> QED  BY <2>2, <2>3
<1> QED  BY <1>8, <1>9, <1>10, <1>11, <1>12, <1>13 DEF AuthInv

LEMMA LoginKeeps ==
  ASSUME AuthInv, NEW c \in Calls, NEW s \in Sessions, Login(c, s)
  PROVE  AuthInv'
<1>1. Past(c) /\ End(c) /\ UNCHANGED <<challenge, expired, deleted, account, revoked>>
  BY DEF Login, Past
<1>2. CASE UNCHANGED session
  BY <1>1, <1>2, EndKeeps DEF AuthInv, TypeOK
<1>3. ASSUME NEW u \in Users, account[u] # None, Open(s, u, account[u].version, call[c].nonce)
      PROVE  AuthInv'
  <2>1. account[u].version \in Nat /\ account' \in [Users -> Account \union {None}]
    BY <1>1, <1>3 DEF AuthInv, TypeOK, Account
  <2> QED  BY <1>1, <1>3, <2>1, OpenKeeps
<1> QED  BY <1>2, <1>3 DEF Login

LEMMA RegisterCheckKeeps ==
  ASSUME AuthInv, NEW c \in Calls, RegisterCheck(c)
  PROVE  AuthInv'
<1>1. UNCHANGED <<challenge, expired, deleted, account, session, revoked>> /\ At(c, "enter")
  BY DEF RegisterCheck
<1>2. CASE End(c)
  BY <1>1, <1>2, EndKeeps DEF AuthInv, TypeOK
<1>3. CASE call' = [call EXCEPT ![c].step = "create"]
  <2>1. call[c] \in Call /\ call[c] # None /\ call[c].step = "enter"
    BY <1>1, CallShape DEF At, AuthInv
  <2>2. /\ call' \in [Calls -> Call \union {None}]
        /\ \A d \in Calls : d # c => call'[d] = call[d]
        /\ call'[c] # None /\ call'[c].step = "create" /\ call'[c].nonce = call[c].nonce
    BY <1>3, <2>1, RecordAssumption DEF AuthInv, TypeOK, Call
  <2>3. TypeOK'
    BY <1>1, <2>1, <2>2 DEF AuthInv, TypeOK, At
  <2>4. OnePast' /\ PastIsNew' /\ CallsRefer'
    BY <1>1, <2>1, <2>2 DEF AuthInv, OnePast, PastIsNew, CallsRefer, Past, At
  <2>5. OneSignInPerChallenge' /\ RevokedIsOld' /\ RevokedExist'
    BY <1>1 DEF AuthInv, OneSignInPerChallenge, RevokedIsOld, RevokedExist
  <2> QED  BY <2>3, <2>4, <2>5 DEF AuthInv
<1> QED  BY <1>2, <1>3 DEF RegisterCheck

LEMMA RegisterCreateKeeps ==
  ASSUME AuthInv, NEW c \in Calls, NEW u \in Users, NEW s \in Sessions, RegisterCreate(c, u, s)
  PROVE  AuthInv'
<1>1. Past(c) /\ End(c) /\ account[u] = None /\ UNCHANGED <<challenge, expired, deleted, revoked>>
  BY DEF RegisterCreate, Past
<1>2. CASE UNCHANGED <<account, session>>
  BY <1>1, <1>2, EndKeeps DEF AuthInv, TypeOK
<1>3. CASE /\ account' = [account EXCEPT ![u] =
                 [wallet |-> Signer(c), handle |-> call[c].handle, version |-> 0, gone |-> FALSE]]
           /\ Open(s, u, 0, call[c].nonce)
  <2>1. call[c].nonce \in Challenges /\ call[c].handle \in Handles /\ challenge[call[c].nonce] # None
    BY <1>1, CallShape DEF Past, At, AuthInv, CallsRefer
  <2>2. [wallet |-> Signer(c), handle |-> call[c].handle, version |-> 0, gone |-> FALSE] \in Account
    BY <2>1 DEF Account, Signer, AuthInv, TypeOK, Challenge
  <2>3. account' \in [Users -> Account \union {None}] /\ account'[u] # None /\ account'[u].version = 0
    BY <1>3, <2>2, RecordAssumption DEF AuthInv, TypeOK
  <2>4. \A v \in Users : account[v] # None => account'[v] = account[v]
    BY <1>1, <1>3 DEF AuthInv, TypeOK
  <2> QED  BY <1>1, <1>3, <2>3, <2>4, OpenKeeps
<1> QED  BY <1>2, <1>3 DEF RegisterCreate

LEMMA AuthenticateKeeps ==
  ASSUME AuthInv, NEW c \in Calls, NEW s \in Sessions,
         NEW step \in {"logoutAll", "delete", "profile"}, Authenticate(c, s, step)
  PROVE  AuthInv'
<1>1. session[s] \in Session /\ session[s] # None /\ account[session[s].user] # None
  BY DEF Authenticate, Accepted, AuthInv, TypeOK
<1>2. [step |-> step, user |-> session[s].user, version |-> session[s].tv] \in Call
  BY <1>1 DEF Call, Session
<1>3. \A d \in Calls : call'[d] = IF d = c
          THEN [step |-> step, user |-> session[s].user, version |-> session[s].tv] ELSE call[d]
  BY DEF Authenticate, AuthInv, TypeOK
<1>4. UNCHANGED <<challenge, expired, deleted, account, session, revoked>>
  BY DEF Authenticate
<1>5. TypeOK'
  BY <1>2, <1>3, <1>4 DEF Authenticate, AuthInv, TypeOK, At
<1>6. OnePast' /\ PastIsNew' /\ CallsRefer'
  BY <1>1, <1>3, <1>4 DEF AuthInv, OnePast, PastIsNew, CallsRefer, Past, At
<1>7. OneSignInPerChallenge' /\ RevokedIsOld' /\ RevokedExist'
  BY <1>4 DEF AuthInv, OneSignInPerChallenge, RevokedIsOld, RevokedExist
<1> QED  BY <1>5, <1>6, <1>7 DEF AuthInv

\* An account whose version does not go down stays ahead of the sessions revoked,
\* and of those revoked with it when the version goes up.
LEMMA AccountKeeps ==
  ASSUME AuthInv, NEW c \in Calls, End(c), UNCHANGED <<challenge, expired, session>>,
         deleted' \subseteq Challenges, NEW u \in Users, account[u] # None,
         account' \in [Users -> Account \union {None}],
         account'[u] # None,
         \A v \in Users \ {u} : account'[v] = account[v],
         \/ revoked' = revoked /\ account'[u].version = account[u].version
         \/ revoked' = revoked \union SessionsOf(u) /\ account'[u].version = account[u].version + 1
  PROVE  AuthInv'
<1>1. \A d \in Calls : call'[d] = IF d = c THEN None ELSE call[d]
  BY DEF End, AuthInv, TypeOK
<1>2. call' \in [Calls -> Call \union {None}] /\ revoked' \subseteq Sessions
  BY DEF End, AuthInv, TypeOK, SessionsOf
<1>3. \A v \in Users : account[v] # None => account'[v] # None
  OBVIOUS
<1>4. \A s \in Sessions : session[s] # None => session[s].user \in Users /\ session[s].tv \in Nat
  BY DEF AuthInv, TypeOK, Session
<1>5. TypeOK'
  BY <1>1, <1>2, <1>3, <1>4 DEF AuthInv, TypeOK, At
<1>6. OnePast' /\ PastIsNew'
  BY <1>1 DEF AuthInv, OnePast, PastIsNew, Past, At
<1>7. CallsRefer'
  <2> SUFFICES ASSUME NEW d \in Calls, d # c, call[d] # None
               PROVE  IF call[d].step \in {"consume", "enter", "create"}
                      THEN challenge[call[d].nonce] # None ELSE account'[call[d].user] # None
    BY <1>1 DEF CallsRefer
  <2>1. call[d].step \in {"consume", "enter", "create", "logoutAll", "delete", "profile"}
    BY CallShape DEF AuthInv, Call
  <2> QED  BY <1>3, <2>1, CallShape DEF AuthInv, CallsRefer
<1>8. OneSignInPerChallenge' /\ RevokedExist'
  BY DEF AuthInv, OneSignInPerChallenge, RevokedExist, SessionsOf
<1>9. RevokedIsOld'
  <2> SUFFICES ASSUME NEW s \in Sessions, session[s] # None
               PROVE  /\ session[s].tv <= account'[session[s].user].version
                      /\ s \in revoked' => session[s].tv < account'[session[s].user].version
    BY DEF RevokedIsOld
  <2>1. /\ session[s].tv <= account[session[s].user].version
        /\ s \in revoked => session[s].tv < account[session[s].user].version
    BY DEF AuthInv, RevokedIsOld
  <2>2. CASE session[s].user # u
    BY <1>4, <2>1, <2>2 DEF SessionsOf
  <2>3. CASE session[s].user = u
    <3>1. account[u].version \in Nat
      BY DEF AuthInv, TypeOK, Account
    <3> QED  BY <1>4, <2>1, <2>3, <3>1
  <2> QED  BY <2>2, <2>3
<1> QED  BY <1>5, <1>6, <1>7, <1>8, <1>9 DEF AuthInv

LEMMA RequestShape ==
  ASSUME AuthInv, NEW c \in Calls, At(c, "logoutAll") \/ At(c, "delete") \/ At(c, "profile")
  PROVE  /\ call[c].user \in Users /\ account[call[c].user] # None
         /\ account[call[c].user] \in Account
<1>1. call[c].user \in Users /\ account[call[c].user] # None
  BY CallShape DEF At, AuthInv, CallsRefer
<1> QED  BY <1>1 DEF AuthInv, TypeOK

LEMMA LogoutAllKeeps ==
  ASSUME AuthInv, NEW c \in Calls, LogoutAll(c)
  PROVE  AuthInv'
<1> DEFINE u == call[c].user
<1>1. u \in Users /\ account[u] # None /\ account[u] \in Account
  BY RequestShape DEF LogoutAll
<1>2. account' = [account EXCEPT ![u].version = account[u].version + 1]
      /\ revoked' = revoked \union SessionsOf(u)
      /\ End(c) /\ UNCHANGED <<challenge, expired, deleted, session>>
  BY DEF LogoutAll, NextVersion
<1> HIDE DEF u
<1>3. /\ account' \in [Users -> Account \union {None}] /\ account'[u] # None
      /\ account'[u].version = account[u].version + 1
      /\ \A v \in Users \ {u} : account'[v] = account[v]
  BY <1>1, <1>2, RecordAssumption DEF AuthInv, TypeOK, Account
<1>4. deleted' \subseteq Challenges
  BY <1>2 DEF AuthInv, TypeOK
<1> QED  BY <1>1, <1>2, <1>3, <1>4, AccountKeeps

LEMMA DeleteAccountKeeps ==
  ASSUME AuthInv, NEW c \in Calls, DeleteAccount(c)
  PROVE  AuthInv'
<1> DEFINE u == call[c].user
<1>1. u \in Users /\ account[u] # None /\ account[u] \in Account
  BY RequestShape DEF DeleteAccount
<1>2. account' = [account EXCEPT ![u] =
          [wallet |-> None, handle |-> None, version |-> account[u].version + 1, gone |-> TRUE]]
      /\ revoked' = revoked \union SessionsOf(u)
      /\ End(c) /\ UNCHANGED <<challenge, expired, session>>
  BY DEF DeleteAccount, NextVersion
<1>3. deleted' \subseteq Challenges
  BY DEF DeleteAccount, AuthInv, TypeOK
<1> HIDE DEF u
<1>4. [wallet |-> None, handle |-> None, version |-> account[u].version + 1, gone |-> TRUE] \in Account
  BY <1>1 DEF Account
<1>5. /\ account' \in [Users -> Account \union {None}] /\ account'[u] # None
      /\ account'[u].version = account[u].version + 1
      /\ \A v \in Users \ {u} : account'[v] = account[v]
  BY <1>1, <1>2, <1>4, RecordAssumption DEF AuthInv, TypeOK
<1> QED  BY <1>1, <1>2, <1>3, <1>5, AccountKeeps

LEMMA UpdateProfileKeeps ==
  ASSUME AuthInv, NEW c \in Calls, NEW h \in Handles, UpdateProfile(c, h)
  PROVE  AuthInv'
<1> DEFINE u == call[c].user
<1>1. u \in Users /\ account[u] # None /\ account[u] \in Account
  BY RequestShape DEF UpdateProfile
<1>2. End(c) /\ UNCHANGED <<challenge, expired, deleted, session, revoked>>
  BY DEF UpdateProfile
<1>3. account' = account \/ account' = [account EXCEPT ![u].handle = h]
  BY DEF UpdateProfile
<1> HIDE DEF u
<1>4. /\ account' \in [Users -> Account \union {None}] /\ account'[u] # None
      /\ account'[u].version = account[u].version
      /\ \A v \in Users \ {u} : account'[v] = account[v]
  BY <1>1, <1>3, RecordAssumption DEF AuthInv, TypeOK, Account
<1>5. deleted' \subseteq Challenges
  BY <1>2 DEF AuthInv, TypeOK
<1> QED  BY <1>1, <1>2, <1>4, <1>5, AccountKeeps

LEMMA NextKeeps == AuthInv /\ [Next]_vars => AuthInv'
<1> SUFFICES ASSUME AuthInv, [Next]_vars PROVE AuthInv'
  OBVIOUS
<1>1. CASE UNCHANGED vars
  BY <1>1 DEF vars, AuthInv, TypeOK, OnePast, Past, At, PastIsNew, CallsRefer,
     OneSignInPerChallenge, RevokedIsOld, RevokedExist
<1>2. ASSUME NEW n \in Challenges, Expire(n) PROVE AuthInv'
  BY <1>2 DEF Expire, AuthInv, TypeOK, OnePast, Past, At, PastIsNew, CallsRefer,
     OneSignInPerChallenge, RevokedIsOld, RevokedExist
<1>3. ASSUME NEW c \in Calls, Die(c) PROVE AuthInv'
  BY <1>3, EndKeeps DEF Die, AuthInv, TypeOK
<1> QED
  BY <1>1, <1>2, <1>3, CreateChallengeKeeps, VerifyKeeps, ConsumeKeeps, LoginKeeps,
     RegisterCheckKeeps, RegisterCreateKeeps, AuthenticateKeeps, LogoutAllKeeps,
     DeleteAccountKeeps, UpdateProfileKeeps DEF Next

THEOREM AuthInvariant == Spec => []AuthInv
  BY InitHolds, NextKeeps, PTL DEF Spec

\* Rows keep their shape, and nobody signs in or registers with a challenge that is
\* not used up, however many requests overlap.
THEOREM AuthTypeCorrect == Spec => []TypeOK
<1>1. AuthInv => TypeOK
  BY DEF AuthInv
<1> QED  BY <1>1, AuthInvariant, PTL

\* A signature opens one session at most: of all the requests that bring it, one gets
\* past verifyChallenge.
THEOREM SignatureOpensOne == Spec => []OneSignInPerChallenge
<1>1. AuthInv => OneSignInPerChallenge
  BY DEF AuthInv
<1> QED  BY <1>1, AuthInvariant, PTL

\* Signing out everywhere, or deleting the account, ends every session opened before
\* (logoutAll, deleteAccount, and the version check of the middleware).
THEOREM SignOutIsFinal == Spec => []RevokedStayOut
<1>1. AuthInv => RevokedStayOut
  <2> SUFFICES ASSUME AuthInv, NEW s \in revoked, Accepted(s) PROVE FALSE
    BY DEF RevokedStayOut
  <2>1. s \in Sessions /\ session[s] # None
    BY DEF AuthInv, TypeOK, RevokedExist
  <2>2. session[s].tv \in Nat /\ session[s].tv < account[session[s].user].version
    BY <2>1 DEF AuthInv, RevokedIsOld, TypeOK, Session
  <2> QED  BY <2>2 DEF Accepted
<1> QED  BY <1>1, AuthInvariant, PTL

LEMMA KeysKept ==
  ASSUME AuthInv, OneAccountPerWallet, [Next]_vars
  PROVE  OneAccountPerWallet'
<1>1. CASE UNCHANGED account
  BY <1>1 DEF OneAccountPerWallet
<1>2. ASSUME NEW c \in Calls, NEW u \in Users, NEW s \in Sessions, RegisterCreate(c, u, s),
             ~UNCHANGED account
      PROVE  OneAccountPerWallet'
  <2>1. /\ account' = [account EXCEPT ![u] =
              [wallet |-> Signer(c), handle |-> call[c].handle, version |-> 0, gone |-> FALSE]]
        /\ ~TakenWallet(Signer(c)) /\ ~TakenHandle(call[c].handle)
    BY <1>2 DEF RegisterCreate, KeysFree
  <2>2. \A v \in Users : account'[v] = IF v = u
          THEN [wallet |-> Signer(c), handle |-> call[c].handle, version |-> 0, gone |-> FALSE]
          ELSE account[v]
    BY <2>1 DEF AuthInv, TypeOK
  <2> QED  BY <2>1, <2>2 DEF OneAccountPerWallet, TakenWallet, TakenHandle
<1>3. ASSUME NEW c \in Calls, LogoutAll(c)
      PROVE  OneAccountPerWallet'
  <2> DEFINE u == call[c].user
  <2>1. u \in Users /\ account[u] # None /\ account[u] \in Account
    BY <1>3, RequestShape DEF LogoutAll
  <2>2. \A v \in Users : account'[v] = IF v = u
          THEN [account[u] EXCEPT !.version = account[u].version + 1] ELSE account[v]
    BY <1>3, <2>1 DEF LogoutAll, NextVersion, AuthInv, TypeOK
  <2>3. /\ \A v \in Users : account'[v] # None => account[v] # None
        /\ \A v \in Users : account[v] # None =>
             account'[v].wallet = account[v].wallet /\ account'[v].handle = account[v].handle
    BY <2>1, <2>2 DEF Account
  <2> QED  BY <2>3 DEF OneAccountPerWallet
<1>4. ASSUME NEW c \in Calls, DeleteAccount(c)
      PROVE  OneAccountPerWallet'
  <2> DEFINE u == call[c].user
  <2>1. \A v \in Users : v # u => account'[v] = account[v]
    BY <1>4 DEF DeleteAccount, AuthInv, TypeOK
  <2>2. u \in Users /\ account[u] # None
    BY <1>4, RequestShape DEF DeleteAccount
  <2>3. account'[u].wallet = None /\ account'[u].handle = None
    BY <1>4, <2>2 DEF DeleteAccount, AuthInv, TypeOK
  <2> QED  BY <2>1, <2>3 DEF OneAccountPerWallet
<1>5. ASSUME NEW c \in Calls, NEW h \in Handles, UpdateProfile(c, h), ~UNCHANGED account
      PROVE  OneAccountPerWallet'
  <2> DEFINE u == call[c].user
  <2>1. u \in Users /\ account[u] # None /\ account[u] \in Account
    BY <1>5, RequestShape DEF UpdateProfile
  <2>2. /\ ~\E v \in Users \ {u} : account[v] # None /\ account[v].handle = h
        /\ account' = [account EXCEPT ![u].handle = h]
    BY <1>5 DEF UpdateProfile
  <2>3. /\ \A v \in Users : v # u => account'[v] = account[v]
        /\ account'[u].wallet = account[u].wallet /\ account'[u].handle = h
    BY <2>1, <2>2 DEF AuthInv, TypeOK, Account
  <2> QED  BY <2>1, <2>2, <2>3 DEF OneAccountPerWallet
<1> QED
  BY <1>1, <1>2, <1>3, <1>4, <1>5 DEF Next, vars, CreateChallenge, Expire, Verify, Consume,
     RegisterCheck, Die, Login, Authenticate

\* Two accounts never share a wallet or a handle, whoever registers at the same time
\* (register's check, and the unique keys behind it).
THEOREM WalletsAreUnique == Spec => []OneAccountPerWallet
<1>1. Init => OneAccountPerWallet
  BY DEF Init, OneAccountPerWallet
<1> QED  BY <1>1, AuthInvariant, KeysKept, PTL DEF Spec

-----------------------------------------------------------------------------
(* The list of accounts of the phone, in whose keychain are the passkeys `has`. *)

\* An entry names identifiers and passkeys of its account, and has proven only passkeys that are here.
Entered(e, has) ==
    /\ e.privy \in {Nothing, e.of}
    /\ e.user # Nothing => e.user[1] = e.of
    /\ \A p \in e.passkeys : Owner[p] = e.of
    /\ e.verified \subseteq has

\* No identifier is on two entries.
Distinct(l) ==
    \A j, k \in Entries(l) : j # k => /\ l[j].privy = Nothing \/ l[j].privy # l[k].privy
                                      /\ l[j].user = Nothing \/ l[j].user # l[k].user

ListOK(l, has) == l \in [Keys -> Entry \cup {Nothing}] /\ Distinct(l) /\ \A k \in Entries(l) : Entered(l[k], has)

\* A sign-in teaches the list of one account.
SnapOK(s, has) ==
    /\ s \in Snapshot
    /\ s.privy \in {Nothing, s.of}
    /\ s.user # Nothing => s.user[1] = s.of
    /\ \A p \in s.passkeys \cup s.used : Owner[p] = s.of
    /\ s.used \subseteq has

\* The key is not somebody else's.
Fits(k, u, l) == k \in Entries(l) => l[k].of = u

LEMMA KeyIsOne ==
    ASSUME NEW ks, ks # {}
    PROVE  TheKey(ks) \in ks
BY DEF TheKey

LEMMA EntryOf ==
    ASSUME NEW l \in [Keys -> Entry \cup {Nothing}], NEW k \in Entries(l)
    PROVE  k \in Keys /\ l[k] \in Entry
BY DEF Entries

LEMMA EntriesOf ==
    ASSUME NEW l \in [Keys -> Entry \cup {Nothing}], NEW k \in Keys, l[k] \in Entry
    PROVE  k \in Entries(l)
BY AccountsAssumption DEF Entries

\* The two entries of an account become one, under a key that one of them had.
LEMMA MergeKeeps ==
    ASSUME NEW has, NEW l, ListOK(l, has), NEW s, SnapOK(s, has)
    PROVE  LET m == mergeDuplicates(l, s) IN
           /\ ListOK(m, has)
           /\ \A k \in Entries(m) : k \in Entries(l) /\ m[k].of = l[k].of
           /\ People(l) \subseteq People(m)
           /\ \A j \in ByPrivy(m, s.privy), k \in ByUser(m, s.user) : j = k
           /\ findAccount(l, s.privy, s.user) # {} => findAccount(m, s.privy, s.user) # {}
<1> DEFINE as == ByPrivy(l, s.privy)
           bs == ByUser(l, s.user)
           a == TheKey(as)
           b == TheKey(bs)
           m == mergeDuplicates(l, s)
<1>l. l \in [Keys -> Entry \cup {Nothing}] /\ Distinct(l) /\ \A k \in Entries(l) : Entered(l[k], has)
  BY DEF ListOK
<1>o. \A j, k \in as : j = k
  BY <1>l DEF Distinct, ByPrivy
<1>u. \A j, k \in bs : j = k
  BY <1>l DEF Distinct, ByUser
<1>1. CASE as = {} \/ bs = {} \/ as = bs
  <2>1. m = l
    BY <1>1 DEF mergeDuplicates
  <2>2. \A j \in as, k \in bs : j = k
    BY <1>1, <1>o
  <2> QED
    BY <2>1, <2>2
<1>2. CASE ~(as = {} \/ bs = {} \/ as = bs)
  <2>1. a \in as /\ b \in bs
    BY <1>2, KeyIsOne
  <2>2. a # b
    BY <1>2, <1>o, <1>u, <2>1
  <2>3. /\ a \in Keys /\ l[a] \in Entry /\ a \in Entries(l)
        /\ b \in Keys /\ l[b] \in Entry /\ b \in Entries(l)
        /\ s.privy # Nothing /\ l[a].privy = s.privy
        /\ s.user # Nothing /\ l[b].user = s.user
    BY <1>l, <2>1, EntryOf DEF ByPrivy, ByUser
  <2>4. /\ l[a].of = s.of /\ l[b].of = s.of
        /\ l[a].of \in Accounts /\ l[a].privy \in Accounts \cup {Nothing}
        /\ l[a].user \in Profiles \cup {Nothing} /\ l[b].user \in Profiles \cup {Nothing}
        /\ l[a].passkeys \in SUBSET Passkeys /\ l[b].passkeys \in SUBSET Passkeys
        /\ l[a].verified \in SUBSET Passkeys /\ l[b].verified \in SUBSET Passkeys
    BY <1>l, <2>3 DEF Entered, SnapOK, Entry
  <2> HIDE DEF a, b, as, bs
  <2>5. m = [l EXCEPT ![b] = Nothing,
                      ![a].user = Or(l[a].user, l[b].user),
                      ![a].passkeys = @ \cup l[b].passkeys,
                      ![a].verified = @ \cup l[b].verified]
    BY <1>2 DEF mergeDuplicates, a, b, as, bs
  <2> HIDE DEF m
  <2>6. /\ DOMAIN m = Keys
        /\ m[b] = Nothing
        /\ \A k \in Keys : k # a /\ k # b => m[k] = l[k]
        /\ m[a].of = l[a].of /\ m[a].privy = l[a].privy
        /\ m[a].user = Or(l[a].user, l[b].user)
        /\ m[a].passkeys = l[a].passkeys \cup l[b].passkeys
        /\ m[a].verified = l[a].verified \cup l[b].verified
    BY <1>l, <2>2, <2>3, <2>5 DEF Entry
  <2>7. m[a] \in Entry
    BY <1>l, <2>2, <2>3, <2>4, <2>5 DEF Entry, Or
  <2>8. m \in [Keys -> Entry \cup {Nothing}]
    <3>1. \A k \in Keys : m[k] \in Entry \cup {Nothing}
      BY <1>l, <2>6, <2>7
    <3>2. m = [k \in Keys |-> m[k]]
      BY <1>l, <2>5
    <3> QED
      BY <3>1, <3>2
  <2>9. Entries(m) = Entries(l) \ {b} /\ a \in Entries(m)
    BY <2>2, <2>3, <2>6, <2>7, AccountsAssumption DEF Entries
  <2>10. \A k \in Entries(m) : m[k].of = l[k].of
    BY <2>6, <2>9 DEF Entries
  <2>11. People(l) \subseteq People(m)
    <3>1. l # Nothing /\ m # Nothing
      BY <1>l, <2>8, AccountsAssumption
    <3> SUFFICES ASSUME NEW k \in Entries(l) PROVE \E j \in Entries(m) : m[j].of = l[k].of
      BY <3>1 DEF People
    <3>2. CASE k = b
      BY <2>4, <2>6, <2>9, <3>2
    <3>3. CASE k # b
      BY <2>9, <2>10, <3>3
    <3> QED
      BY <3>2, <3>3
  <2>12. m[a].user = l[a].user \/ (l[a].user = Nothing /\ m[a].user = l[b].user)
    BY <2>6 DEF Or
  <2>13. Distinct(m)
    <3> SUFFICES ASSUME NEW j \in Entries(m), NEW k \in Entries(m), j # k
                 PROVE  /\ m[j].privy = Nothing \/ m[j].privy # m[k].privy
                        /\ m[j].user = Nothing \/ m[j].user # m[k].user
      BY DEF Distinct
    <3>1. j \in Entries(l) /\ k \in Entries(l) /\ j # b /\ k # b /\ j \in Keys /\ k \in Keys
      BY <2>9 DEF Entries
    <3>2. m[j].privy = l[j].privy /\ m[k].privy = l[k].privy
      BY <2>6, <3>1
    <3>3. CASE j # a /\ k # a
      BY <1>l, <2>6, <3>1, <3>3 DEF Distinct
    <3>4. CASE j = a
      BY <1>l, <2>6, <2>12, <2>3, <3>1, <3>2, <3>4 DEF Distinct
    <3>5. CASE k = a
      BY <1>l, <2>6, <2>12, <2>3, <3>1, <3>2, <3>5 DEF Distinct
    <3> QED
      BY <3>3, <3>4, <3>5
  <2>14. \A k \in Entries(m) : Entered(m[k], has)
    <3> SUFFICES ASSUME NEW k \in Entries(m) PROVE Entered(m[k], has)
      OBVIOUS
    <3>1. k \in Entries(l) /\ k # b /\ k \in Keys
      BY <2>9 DEF Entries
    <3>2. CASE k # a
      BY <1>l, <2>6, <3>1, <3>2
    <3>3. CASE k = a
      <4>1. Entered(l[a], has) /\ Entered(l[b], has)
        BY <1>l, <2>3
      <4> QED
        BY <2>4, <2>6, <2>12, <3>3, <4>1 DEF Entered
    <3> QED
      BY <3>2, <3>3
  <2>15. \A j \in ByPrivy(m, s.privy), k \in ByUser(m, s.user) : j = k
    <3> SUFFICES ASSUME NEW j \in ByPrivy(m, s.privy), NEW k \in ByUser(m, s.user) PROVE j = k
      OBVIOUS
    <3>1. /\ j \in Entries(m) /\ m[j].privy = s.privy
          /\ k \in Entries(m) /\ m[k].user = s.user
      BY DEF ByPrivy, ByUser
    <3>2. j = a
      BY <2>3, <2>6, <2>9, <2>13, <3>1 DEF Distinct
    <3>3. k = a
      <4> SUFFICES ASSUME k # a PROVE FALSE
        OBVIOUS
      <4>1. k \in Entries(l) /\ k # b /\ k \in Keys
        BY <2>9, <3>1 DEF Entries
      <4>2. l[k].user = s.user
        BY <2>6, <3>1, <4>1
      <4> QED
        BY <1>l, <2>3, <4>1, <4>2 DEF Distinct
    <3> QED
      BY <3>2, <3>3
  <2>16. findAccount(m, s.privy, s.user) # {}
    <3>1. a \in ByPrivy(m, s.privy)
      BY <2>3, <2>6, <2>9 DEF ByPrivy
    <3> QED
      BY <3>1 DEF findAccount
  <2>17. ListOK(m, has)
    BY <2>8, <2>13, <2>14 DEF ListOK
  <2> QED
    BY <2>9, <2>10, <2>11, <2>15, <2>16, <2>17 DEF m
<1> QED
  BY <1>1, <1>2

\* The people of the result, key by key.
Recorded(m, l, s) == \A k \in Entries(m) : (k \in Entries(l) /\ m[k].of = l[k].of) \/ (k = s.key /\ m[k].of = s.of)

LEMMA RecordKeeps ==
    ASSUME NEW has, NEW l, ListOK(l, has), NEW s, SnapOK(s, has), Fits(s.key, s.of, l),
           NEW young \in SUBSET Passkeys
    PROVE  LET n == recordSignIn(l, s, young) IN
           /\ ListOK(n, has)
           /\ Recorded(n, l, s)
           /\ People(l) \subseteq People(n)
           /\ findAccount(l, s.privy, s.user) # {} => Entries(n) \subseteq Entries(l)
<1> DEFINE m == mergeDuplicates(l, s)
<1>1. /\ ListOK(m, has)
      /\ \A j \in Entries(m) : j \in Entries(l) /\ m[j].of = l[j].of
      /\ People(l) \subseteq People(m)
      /\ \A i \in ByPrivy(m, s.privy), j \in ByUser(m, s.user) : i = j
      /\ findAccount(l, s.privy, s.user) # {} => findAccount(m, s.privy, s.user) # {}
  <2> HIDE DEF m
  <2>1. m = mergeDuplicates(l, s)
    BY DEF m
  <2> QED
    BY <2>1, MergeKeeps
<1> DEFINE found == findAccount(m, s.privy, s.user)
           k == IF found # {} THEN TheKey(found) ELSE s.key
           base == IF found # {} THEN m[k]
                   ELSE [of |-> s.of, privy |-> s.privy, user |-> Nothing, passkeys |-> {}, verified |-> {}]
           passkeys == syncPasskeys(base.passkeys, s, young) \cup s.used
           e == [of |-> base.of, privy |-> Or(base.privy, s.privy), user |-> Or(s.user, base.user),
                 passkeys |-> passkeys, verified |-> (base.verified \cap passkeys) \cup s.used]
           n == recordSignIn(l, s, young)
<1>2. n = [m EXCEPT ![k] = e]
  BY DEF recordSignIn
<1>s. /\ s.key \in Keys /\ s.of \in Accounts /\ s.privy \in {Nothing, s.of} /\ s.user \in Profiles \cup {Nothing}
      /\ s.passkeys \in SUBSET Passkeys /\ s.used \in SUBSET Passkeys /\ s.used \subseteq has
      /\ \A p \in s.passkeys \cup s.used : Owner[p] = s.of
      /\ s.user # Nothing => s.user[1] = s.of
  BY DEF SnapOK, Snapshot
<1>v. s.of # Nothing /\ Nothing \notin Profiles /\ Nothing \notin Entry
  BY <1>s, AccountsAssumption
<1> HIDE DEF m, n
<1>m. m \in [Keys -> Entry \cup {Nothing}] /\ Distinct(m) /\ \A j \in Entries(m) : Entered(m[j], has)
  BY <1>1 DEF ListOK
<1>3. found # {} => k \in found
  BY KeyIsOne
<1>4. found # {} => k \in Entries(m) /\ ((m[k].privy = s.privy /\ s.privy # Nothing) \/ (m[k].user = s.user /\ s.user # Nothing))
  BY <1>3 DEF findAccount, ByPrivy, ByUser
<1>5. k \in Keys
  BY <1>4, <1>m, <1>s, EntryOf
\* No other entry has what the sign-in brings.
<1>6. \A j \in Entries(m) : j # k => /\ s.privy # Nothing => m[j].privy # s.privy
                                     /\ s.user # Nothing => m[j].user # s.user
  <2> SUFFICES ASSUME NEW j \in Entries(m), j # k
               PROVE  (s.privy # Nothing => m[j].privy # s.privy) /\ (s.user # Nothing => m[j].user # s.user)
    OBVIOUS
  <2>1. ASSUME s.privy # Nothing, m[j].privy = s.privy PROVE FALSE
    <3>1. j \in ByPrivy(m, s.privy)
      BY <2>1 DEF ByPrivy
    <3>2. found = ByPrivy(m, s.privy)
      BY <3>1 DEF findAccount
    <3>3. k \in ByPrivy(m, s.privy)
      BY <1>3, <3>1, <3>2
    <3> QED
      BY <1>m, <2>1, <3>3 DEF ByPrivy, Distinct
  <2>2. ASSUME s.user # Nothing, m[j].user = s.user PROVE FALSE
    <3>1. j \in ByUser(m, s.user)
      BY <2>2 DEF ByUser
    <3>2. CASE ByPrivy(m, s.privy) # {}
      <4>1. k \in ByPrivy(m, s.privy)
        BY <1>3, <3>2 DEF findAccount
      <4> QED
        BY <1>1, <3>1, <4>1
    <3>3. CASE ByPrivy(m, s.privy) = {}
      <4>1. k \in ByUser(m, s.user)
        BY <1>3, <3>1, <3>3 DEF findAccount
      <4> QED
        BY <1>m, <2>2, <4>1 DEF ByUser, Distinct
    <3> QED
      BY <3>2, <3>3
  <2> QED
    BY <2>1, <2>2
<1>7. /\ base.of = s.of
      /\ base.privy \in {Nothing, s.of} /\ base.user \in Profiles \cup {Nothing}
      /\ base.passkeys \in SUBSET Passkeys /\ base.verified \in SUBSET Passkeys
      /\ base.user # Nothing => base.user[1] = s.of
      /\ \A p \in base.passkeys : Owner[p] = s.of
      /\ base.verified \subseteq has
  <2>1. CASE found = {}
    BY <2>1, <1>s
  <2>2. CASE found # {}
    <3>1. base = m[k] /\ m[k] \in Entry /\ Entered(m[k], has)
      BY <2>2, <1>4, <1>m, EntryOf
    <3>2. base \in Entry /\ Entered(base, has) /\ ((base.privy = s.privy /\ s.privy # Nothing) \/ (base.user = s.user /\ s.user # Nothing))
      BY <2>2, <3>1, <1>4
    <3> HIDE DEF base
    <3>3. base.of = s.of
      BY <3>2, <1>s DEF Entered
    <3> QED
      BY <3>2, <3>3 DEF Entered, Entry
  <2> QED
    BY <2>1, <2>2
\* What it had before is on no other entry either.
<1>8. found # {} => \A j \in Entries(m) : j # k => /\ base.privy = Nothing \/ m[j].privy # base.privy
                                                   /\ base.user = Nothing \/ m[j].user # base.user
  BY <1>4, <1>m DEF Distinct
<1>9. found = {} => base.privy = s.privy /\ base.user = Nothing
  OBVIOUS
<1> HIDE DEF base
<1>10. passkeys \in SUBSET Passkeys /\ \A p \in passkeys : Owner[p] = s.of
  BY <1>7, <1>s DEF syncPasskeys
<1> HIDE DEF passkeys
<1>11. e \in Entry
  BY <1>7, <1>10, <1>s DEF Entry, Or
<1>12. Entered(e, has)
  BY <1>7, <1>10, <1>s, <1>v DEF Entered, Or
<1>13. \A j \in Entries(m) : j # k => /\ e.privy = Nothing \/ m[j].privy # e.privy
                                      /\ e.user = Nothing \/ m[j].user # e.user
  BY <1>6, <1>8, <1>9 DEF Or
<1>14. e.of = s.of
  BY <1>7
<1> HIDE DEF e, k, found
<1>15. n \in [Keys -> Entry \cup {Nothing}] /\ n[k] = e /\ \A j \in Keys : j # k => n[j] = m[j]
  BY <1>2, <1>5, <1>11, <1>m
<1>16. Entries(n) = Entries(m) \cup {k}
  BY <1>5, <1>11, <1>15, <1>v DEF Entries
<1>17. Distinct(n)
  <2> SUFFICES ASSUME NEW i \in Entries(n), NEW j \in Entries(n), i # j
               PROVE  /\ n[i].privy = Nothing \/ n[i].privy # n[j].privy
                      /\ n[i].user = Nothing \/ n[i].user # n[j].user
    BY DEF Distinct
  <2>1. i \in Keys /\ j \in Keys
    BY DEF Entries
  <2>2. CASE i # k /\ j # k
    BY <2>1, <2>2, <1>15, <1>16, <1>m DEF Distinct
  <2>3. CASE i = k
    BY <2>1, <2>3, <1>13, <1>15, <1>16
  <2>4. CASE j = k
    BY <2>1, <2>4, <1>13, <1>15, <1>16
  <2> QED
    BY <2>2, <2>3, <2>4
<1>18. \A j \in Entries(n) : Entered(n[j], has)
  <2> SUFFICES ASSUME NEW j \in Entries(n) PROVE Entered(n[j], has)
    OBVIOUS
  <2>1. j \in Keys
    BY DEF Entries
  <2> QED
    BY <2>1, <1>12, <1>15, <1>16, <1>m
<1>19. ListOK(n, has)
  BY <1>15, <1>17, <1>18 DEF ListOK
<1>20. k \in Entries(m) => m[k].of = s.of
  BY <1>1, <1>4, <1>7 DEF k, base, Fits
<1>21. Recorded(n, l, s)
  <2> SUFFICES ASSUME NEW j \in Entries(n)
               PROVE  (j \in Entries(l) /\ n[j].of = l[j].of) \/ (j = s.key /\ n[j].of = s.of)
    BY DEF Recorded
  <2>0. j \in Keys
    BY DEF Entries
  <2>1. CASE j # k
    BY <2>0, <2>1, <1>1, <1>15, <1>16
  <2>2. CASE j = k /\ k \in Entries(m)
    BY <2>2, <1>1, <1>14, <1>15, <1>20
  <2>3. CASE j = k /\ k \notin Entries(m)
    <3>1. k = s.key
      BY <2>3, <1>4 DEF k
    <3> QED
      BY <3>1, <2>3, <1>14, <1>15
  <2> QED
    BY <2>1, <2>2, <2>3, <1>16
<1>22. People(l) \subseteq People(n)
  <2>1. l # Nothing /\ m # Nothing /\ n # Nothing
    BY <1>m, <1>15, AccountsAssumption DEF ListOK
  <2>2. ASSUME NEW j \in Entries(m) PROVE \E i \in Entries(n) : n[i].of = m[j].of
    <3>1. j \in Entries(n) /\ j \in Keys
      BY <1>16 DEF Entries
    <3>2. n[j].of = m[j].of
      BY <3>1, <1>14, <1>15, <1>20
    <3> QED
      BY <3>1, <3>2
  <2>3. People(m) \subseteq People(n)
    BY <2>1, <2>2 DEF People
  <2> QED
    BY <2>3, <1>1
<1>23. ASSUME findAccount(l, s.privy, s.user) # {} PROVE Entries(n) \subseteq Entries(l)
  <2>1. k \in Entries(m)
    BY <1>23, <1>1, <1>4 DEF found
  <2> QED
    BY <2>1, <1>1, <1>16
<1> QED
  BY <1>19, <1>21, <1>22, <1>23 DEF n

-----------------------------------------------------------------------------
(* Writes that waited are made one upon the other: a table of what the list *)
(* is after each set of them, as SumTheorems has tables of sums.            *)

IsReplay(g, start, queue, young, D) ==
    g = [s \in SUBSET D |-> IF s = {} THEN start ELSE recordSignIn(g[s \ {Max(s)}], queue[Max(s)], young)]

LEMMA ReplayIsOfTable ==
    ASSUME NEW start, NEW queue, NEW young
    PROVE  recordSignIns(start, queue, young)
             = (CHOOSE g : IsReplay(g, start, queue, young, DOMAIN queue))[DOMAIN queue]
BY DEF recordSignIns, FoldLeft, MapThenFoldSet, IsReplay

LEMMA SpanIsFinite ==
    ASSUME NEW n \in Nat, NEW D \in SUBSET (1 .. n)
    PROVE  IsFiniteSet(D)
<1>1. IsFiniteSet(1 .. n)
  BY FS_Interval
<1> QED
  BY <1>1, FS_Subset

LEMMA LastIsIn ==
    ASSUME NEW n \in Nat, NEW s \in SUBSET (1 .. n), s # {}
    PROVE  Max(s) \in s
<1> DEFINE Bad == {t \in SUBSET s : t # {} /\ ~\E x \in t : \A y \in t : x >= y}
<1>1. IsFiniteSet(s)
  BY SpanIsFinite
<1>2. Bad = {}
  <2> SUFFICES ASSUME Bad # {} PROVE FALSE
    OBVIOUS
  <2>1. Bad \in SUBSET SUBSET s
    OBVIOUS
  <2>2. PICK t \in Bad : \A u \in SUBSET t : u # t => u \notin Bad
    <3> HIDE DEF Bad
    <3> QED
      BY <1>1, <2>1, SmallestSubset
  <2>3. t \in SUBSET s /\ t # {} /\ ~\E x \in t : \A y \in t : x >= y
    OBVIOUS
  <2>4. PICK z : z \in t
    BY <2>3
  <2>5. \A y \in t : y \in Int
    BY <2>3
  <2>6. CASE t = {z}
    BY <2>3, <2>4, <2>5, <2>6
  <2>7. CASE t # {z}
    <3>1. t \ {z} \in SUBSET t /\ t \ {z} # t /\ t \ {z} # {}
      BY <2>4, <2>7
    <3>2. \E x \in t \ {z} : \A y \in t \ {z} : x >= y
      BY <2>2, <2>3, <3>1
    <3>3. PICK x \in t \ {z} : \A y \in t \ {z} : x >= y
      BY <3>2
    <3>4. x >= z \/ z >= x
      BY <2>4, <2>5
    <3>5. CASE x >= z
      <4>1. \A y \in t : x >= y
        BY <3>3, <3>5
      <4> QED
        BY <2>3, <3>3, <4>1
    <3>6. CASE z >= x
      <4>1. \A y \in t : z >= y
        BY <2>4, <2>5, <3>3, <3>6
      <4> QED
        BY <2>3, <2>4, <4>1
    <3> QED
      BY <3>4, <3>5, <3>6
  <2> QED
    BY <2>6, <2>7
<1>3. \E x \in s : \A y \in s : x >= y
  BY <1>2
<1> QED
  BY <1>3 DEF Max

LEMMA ReplayEntry ==
    ASSUME NEW g, NEW start, NEW queue, NEW young, NEW D, IsReplay(g, start, queue, young, D), NEW s \in SUBSET D
    PROVE  g[s] = IF s = {} THEN start ELSE recordSignIn(g[s \ {Max(s)}], queue[Max(s)], young)
BY DEF IsReplay

LEMMA ReplaysAgree ==
    ASSUME NEW start, NEW queue, NEW young, NEW n \in Nat, NEW D \in SUBSET (1 .. n), NEW E \in SUBSET (1 .. n),
           NEW g, NEW h, IsReplay(g, start, queue, young, D), IsReplay(h, start, queue, young, E),
           NEW s \in SUBSET D, s \in SUBSET E
    PROVE  g[s] = h[s]
<1> DEFINE Bad == {t \in SUBSET D : t \in SUBSET E /\ g[t] # h[t]}
<1> SUFFICES ASSUME Bad # {} PROVE FALSE
  OBVIOUS
<1>1. PICK t \in Bad : \A u \in SUBSET t : u # t => u \notin Bad
  <2>1. Bad \in SUBSET SUBSET D
    OBVIOUS
  <2> HIDE DEF Bad
  <2>2. IsFiniteSet(D)
    BY SpanIsFinite
  <2> QED
    BY <2>1, <2>2, SmallestSubset
<1>0. t \in SUBSET D /\ t \in SUBSET E /\ g[t] # h[t]
  OBVIOUS
<1> HIDE DEF Bad
<1>2. t # {}
  BY <1>0, ReplayEntry
<1>3. Max(t) \in t /\ t \ {Max(t)} \in SUBSET t /\ t \ {Max(t)} # t
  <2>1. t \in SUBSET (1 .. n)
    BY <1>0
  <2> QED
    BY <1>2, <2>1, LastIsIn
<1>4. g[t \ {Max(t)}] = h[t \ {Max(t)}]
  BY <1>0, <1>1, <1>3 DEF Bad
<1>5. g[t] = recordSignIn(g[t \ {Max(t)}], queue[Max(t)], young)
  BY <1>0, <1>2, ReplayEntry
<1>6. h[t] = recordSignIn(h[t \ {Max(t)}], queue[Max(t)], young)
  <2>1. t \in SUBSET E /\ IsReplay(h, start, queue, young, E)
    BY <1>0
  <2> QED
    BY <1>2, <2>1 DEF IsReplay
<1> QED
  BY <1>0, <1>4, <1>5, <1>6

LEMMA ReplayExists ==
    ASSUME NEW start, NEW queue, NEW young, NEW n \in Nat, NEW S \in SUBSET (1 .. n)
    PROVE  \E g : IsReplay(g, start, queue, young, S)
<1> DEFINE Bad == {T \in SUBSET S : ~\E g : IsReplay(g, start, queue, young, T)}
<1> SUFFICES ASSUME Bad # {} PROVE FALSE
  OBVIOUS
<1>1. PICK T \in Bad : \A U \in SUBSET T : U # T => U \notin Bad
  <2>1. Bad \in SUBSET SUBSET S
    OBVIOUS
  <2> HIDE DEF Bad
  <2>2. IsFiniteSet(S)
    BY SpanIsFinite
  <2> QED
    BY <2>1, <2>2, SmallestSubset
<1> DEFINE Table(U) == CHOOSE g : IsReplay(g, start, queue, young, U)
<1>2. ASSUME NEW U \in SUBSET T, U # T
      PROVE  IsReplay(Table(U), start, queue, young, U) /\ U \in SUBSET (1 .. n)
  BY <1>1, <1>2
<1> HIDE DEF Table
<1> DEFINE h == [s \in SUBSET T |-> IF s = {} THEN start
                                     ELSE recordSignIn(Table(s \ {Max(s)})[s \ {Max(s)}], queue[Max(s)], young)]
<1>3. ASSUME NEW U \in SUBSET T, U # T
      PROVE  h[U] = Table(U)[U]
  <2>1. CASE U = {}
    BY <1>2, <1>3, <2>1, ReplayEntry
  <2>2. CASE U # {}
    <3> DEFINE V == U \ {Max(U)}
    <3>0. U \in SUBSET (1 .. n)
      BY <1>2, <1>3
    <3>1. V \in SUBSET T /\ V # T /\ V \in SUBSET U
      BY <1>3
    <3>2. IsReplay(Table(U), start, queue, young, U) /\ IsReplay(Table(V), start, queue, young, V)
          /\ V \in SUBSET (1 .. n)
      BY <1>2, <1>3, <3>1
    <3>3. Table(U)[V] = Table(V)[V]
      <4>1. V \in SUBSET U /\ V \in SUBSET V
        BY <3>1
      <4> HIDE DEF V
      <4> QED
        BY <3>0, <3>2, <4>1, ReplaysAgree
    <3>4. Table(U)[U] = recordSignIn(Table(U)[V], queue[Max(U)], young)
      BY <2>2, <3>2, ReplayEntry
    <3> QED
      BY <1>3, <2>2, <3>3, <3>4
  <2> QED
    BY <2>1, <2>2
<1>4. ASSUME NEW s \in SUBSET T, s # {}
      PROVE  h[s \ {Max(s)}] = Table(s \ {Max(s)})[s \ {Max(s)}]
  <2>1. s \ {Max(s)} \in SUBSET T /\ s \ {Max(s)} # T
    <3>1. s \in SUBSET (1 .. n)
      BY <1>4
    <3>2. Max(s) \in s
      BY <1>4, <3>1, LastIsIn
    <3> QED
      BY <1>4, <3>2
  <2> QED
    BY <1>3, <2>1
<1>5. IsReplay(h, start, queue, young, T)
  BY <1>4 DEF IsReplay
<1> QED
  BY <1>1, <1>5

\* What all that waited makes of a list.
Replayed(n, l, queue, D) ==
    \A k \in Entries(n) : (k \in Entries(l) /\ n[k].of = l[k].of) \/ \E i \in D : queue[i].key = k /\ queue[i].of = n[k].of

LEMMA ReplayKeeps ==
    ASSUME NEW has, NEW l, ListOK(l, has), NEW young \in SUBSET Passkeys,
           NEW queue \in Seq(Snapshot),
           \A i \in DOMAIN queue : SnapOK(queue[i], has) /\ Fits(queue[i].key, queue[i].of, l),
           \A i, j \in DOMAIN queue : queue[i].key = queue[j].key => queue[i].of = queue[j].of
    PROVE  LET n == recordSignIns(l, queue, young) IN
           /\ ListOK(n, has)
           /\ People(l) \subseteq People(n)
           /\ Replayed(n, l, queue, DOMAIN queue)
<1> DEFINE D == DOMAIN queue
<1>0. D = 1 .. Len(queue) /\ Len(queue) \in Nat
  OBVIOUS
<1> HIDE DEF D
<1>1. IsReplay(CHOOSE g : IsReplay(g, l, queue, young, D), l, queue, young, D)
  BY <1>0, ReplayExists
<1>2. PICK g : g = CHOOSE h : IsReplay(h, l, queue, young, D)
  OBVIOUS
<1>3. IsReplay(g, l, queue, young, D)
  BY <1>1, <1>2
<1> DEFINE Good(s) == ListOK(g[s], has) /\ People(l) \subseteq People(g[s]) /\ Replayed(g[s], l, queue, s)
           Bad == {s \in SUBSET D : ~Good(s)}
<1>4. Bad = {}
  <2> SUFFICES ASSUME Bad # {} PROVE FALSE
    OBVIOUS
  <2>1. Bad \in SUBSET SUBSET D /\ IsFiniteSet(D)
    BY <1>0, FS_Interval
  <2>2. PICK s \in Bad : \A u \in SUBSET s : u # s => u \notin Bad
    <3> HIDE DEF Bad
    <3> QED
      BY <2>1, SmallestSubset
  <2> DEFINE r == s \ {Max(s)}
             i == Max(s)
             b == g[r]
  <2>3. s \in SUBSET D /\ ~Good(s)
    OBVIOUS
  <2>4. s # {}
    <3> SUFFICES ASSUME s = {} PROVE FALSE
      OBVIOUS
    <3>1. g[s] = l
      BY <1>3, <2>3, ReplayEntry
    <3> QED
      BY <2>3, <3>1 DEF Replayed
  <2>5. i \in s /\ r \in SUBSET s /\ r # s
    BY <1>0, <2>3, <2>4, LastIsIn
  <2>6. Good(r)
    BY <2>2, <2>3, <2>5
  <2>7. g[s] = recordSignIn(b, queue[i], young)
    BY <1>3, <2>3, <2>4, ReplayEntry
  <2> HIDE DEF b, r, i
  <2>8. ListOK(b, has) /\ People(l) \subseteq People(b) /\ Replayed(b, l, queue, r)
    BY <2>6 DEF b
  <2>9. /\ i \in D /\ SnapOK(queue[i], has) /\ Fits(queue[i].key, queue[i].of, l)
        /\ \A j \in r : queue[i].key = queue[j].key => queue[i].of = queue[j].of
    BY <2>3, <2>5 DEF D
  <2>10. Fits(queue[i].key, queue[i].of, b)
    BY <2>8, <2>9 DEF Fits, Replayed
  <2>11. /\ ListOK(g[s], has) /\ Recorded(g[s], b, queue[i]) /\ People(b) \subseteq People(g[s])
    BY <2>7, <2>8, <2>9, <2>10, RecordKeeps
  <2>12. Replayed(g[s], l, queue, s)
    <3> SUFFICES ASSUME NEW k \in Entries(g[s])
                 PROVE  (k \in Entries(l) /\ g[s][k].of = l[k].of) \/ \E j \in s : queue[j].key = k /\ queue[j].of = g[s][k].of
      BY DEF Replayed
    <3>1. CASE k = queue[i].key /\ g[s][k].of = queue[i].of
      BY <2>5, <3>1
    <3>2. CASE k \in Entries(b) /\ g[s][k].of = b[k].of
      BY <2>5, <2>8, <3>2 DEF Replayed
    <3> QED
      BY <2>11, <3>1, <3>2 DEF Recorded
  <2> QED
    BY <2>3, <2>8, <2>11, <2>12
<1>5. Good(D)
  BY <1>4
<1>6. recordSignIns(l, queue, young) = g[D]
  BY <1>2, ReplayIsOfTable DEF D
<1> QED
  BY <1>5, <1>6 DEF D

-----------------------------------------------------------------------------
(* What is done to one entry leaves the entries what they are. *)

SameOf(n, l) == Entries(n) = Entries(l) /\ \A k \in Entries(l) : n[k].of = l[k].of

LEMMA SamePeople ==
    ASSUME NEW n, NEW l, n # Nothing, l # Nothing, SameOf(n, l)
    PROVE  People(n) = People(l)
BY DEF SameOf, People

LEMMA PeopleAreUsers ==
    ASSUME NEW has, NEW l, ListOK(l, has)
    PROVE  People(l) \subseteq Accounts /\ l # Nothing
<1>1. l \in [Keys -> Entry \cup {Nothing}]
  BY DEF ListOK
<1>2. l # Nothing
  BY <1>1, AccountsAssumption
<1>3. \A k \in Entries(l) : l[k].of \in Accounts
  BY <1>1, EntryOf DEF Entry
<1> QED
  BY <1>2, <1>3 DEF People

\* A change of one entry that keeps its identifiers.
LEMMA EditKeeps ==
    ASSUME NEW has, NEW more, NEW l, ListOK(l, has), has \subseteq more, NEW k \in Entries(l), NEW e \in Entry,
           e.of = l[k].of, e.privy = l[k].privy, e.user \in {Nothing, l[k].user},
           \A p \in e.passkeys : Owner[p] = e.of, e.verified \subseteq more,
           NEW n, n = [l EXCEPT ![k] = e]
    PROVE  ListOK(n, more) /\ SameOf(n, l)
<1>1. l \in [Keys -> Entry \cup {Nothing}] /\ Distinct(l) /\ \A j \in Entries(l) : Entered(l[j], has)
  BY DEF ListOK
<1>2. k \in Keys /\ l[k] \in Entry
  BY <1>1, EntryOf
<1>3. n \in [Keys -> Entry \cup {Nothing}] /\ n[k] = e /\ \A j \in Keys : j # k => n[j] = l[j]
  BY <1>1, <1>2
<1>4. Entries(n) = Entries(l)
  BY <1>2, <1>3, AccountsAssumption DEF Entries
<1>5. SameOf(n, l)
  BY <1>2, <1>3, <1>4 DEF SameOf, Entries
<1>6. Distinct(n)
  <2> SUFFICES ASSUME NEW i \in Entries(n), NEW j \in Entries(n), i # j
               PROVE  /\ n[i].privy = Nothing \/ n[i].privy # n[j].privy
                      /\ n[i].user = Nothing \/ n[i].user # n[j].user
    BY DEF Distinct
  <2>1. i \in Entries(l) /\ j \in Entries(l) /\ i \in Keys /\ j \in Keys
    BY <1>4 DEF Entries
  <2>2. /\ l[i].privy = Nothing \/ l[i].privy # l[j].privy
        /\ l[i].user = Nothing \/ l[i].user # l[j].user
    BY <1>1, <2>1 DEF Distinct
  <2>3. /\ n[i].privy = l[i].privy /\ n[j].privy = l[j].privy
        /\ n[i].user \in {Nothing, l[i].user} /\ n[j].user \in {Nothing, l[j].user}
    BY <1>3, <2>1
  <2> QED
    BY <2>2, <2>3
<1>7. \A j \in Entries(n) : Entered(n[j], more)
  <2> SUFFICES ASSUME NEW j \in Entries(n) PROVE Entered(n[j], more)
    OBVIOUS
  <2>1. j \in Entries(l) /\ j \in Keys /\ Entered(l[j], has)
    BY <1>1, <1>4 DEF Entries
  <2>2. CASE j = k
    BY <1>3, <2>1, <2>2 DEF Entered
  <2>3. CASE j # k
    BY <1>3, <2>1, <2>3 DEF Entered
  <2> QED
    BY <2>2, <2>3
<1> QED
  BY <1>3, <1>5, <1>6, <1>7 DEF ListOK

LEMMA MoreHeld ==
    ASSUME NEW has, NEW more, NEW l, ListOK(l, has), has \subseteq more
    PROVE  ListOK(l, more)
BY DEF ListOK, Entered

LEMMA SameIsSame ==
    ASSUME NEW l
    PROVE  SameOf(l, l)
BY DEF SameOf

LEMMA AddKeeps ==
    ASSUME NEW has, NEW l, ListOK(l, has), NEW k \in Entries(l), NEW p \in Passkeys, Owner[p] = l[k].of
    PROVE  ListOK(addPasskeyRecord(l, k, p), has \cup {p}) /\ SameOf(addPasskeyRecord(l, k, p), l)
<1>1. l \in [Keys -> Entry \cup {Nothing}] /\ Entered(l[k], has)
  BY DEF ListOK
<1>2. k \in Keys /\ l[k] \in Entry /\ l[k] # Nothing
  BY <1>1, EntryOf, AccountsAssumption
<1>3. CASE p \in l[k].passkeys
  <2>1. addPasskeyRecord(l, k, p) = l
    BY <1>3 DEF addPasskeyRecord
  <2> QED
    BY <2>1, MoreHeld, SameIsSame
<1>4. CASE p \notin l[k].passkeys
  <2> DEFINE e == [l[k] EXCEPT !.passkeys = @ \cup {p}, !.verified = @ \cup {p}]
             n == addPasskeyRecord(l, k, p)
  <2>1. n = [l EXCEPT ![k] = e]
    BY <1>2, <1>4, <1>1 DEF addPasskeyRecord
  <2>2. /\ e \in Entry /\ e.of = l[k].of /\ e.privy = l[k].privy /\ e.user = l[k].user
        /\ e.passkeys = l[k].passkeys \cup {p} /\ e.verified = l[k].verified \cup {p}
    BY <1>2 DEF Entry
  <2> HIDE DEF e, n
  <2>3. (\A q \in e.passkeys : Owner[q] = e.of) /\ e.verified \subseteq has \cup {p}
    BY <1>1, <2>2 DEF Entered
  <2>4. ListOK(n, has \cup {p}) /\ SameOf(n, l)
    BY <2>1, <2>2, <2>3, EditKeeps
  <2> QED
    BY <2>4 DEF n
<1> QED
  BY <1>3, <1>4

LEMMA RemoveKeeps ==
    ASSUME NEW has, NEW l, ListOK(l, has), NEW k \in Keys, NEW p
    PROVE  ListOK(removePasskeyRecord(l, k, p), has) /\ SameOf(removePasskeyRecord(l, k, p), l)
<1>1. l \in [Keys -> Entry \cup {Nothing}]
  BY DEF ListOK
<1>3. CASE l[k] = Nothing
  <2>1. removePasskeyRecord(l, k, p) = l
    BY <1>3 DEF removePasskeyRecord
  <2> QED
    BY <2>1, SameIsSame
<1>4. CASE l[k] # Nothing
  <2>0. k \in Entries(l) /\ l[k] \in Entry /\ Entered(l[k], has)
    BY <1>4, <1>1 DEF Entries, ListOK
  <2> DEFINE e == [l[k] EXCEPT !.passkeys = @ \ {p}, !.verified = @ \ {p}]
             n == removePasskeyRecord(l, k, p)
  <2>1. n = [l EXCEPT ![k] = e]
    BY <2>0, <1>4, <1>1 DEF removePasskeyRecord
  <2>2. /\ e \in Entry /\ e.of = l[k].of /\ e.privy = l[k].privy /\ e.user = l[k].user
        /\ e.passkeys = l[k].passkeys \ {p} /\ e.verified = l[k].verified \ {p}
    BY <2>0 DEF Entry
  <2> HIDE DEF e, n
  <2>3. (\A q \in e.passkeys : Owner[q] = e.of) /\ e.verified \subseteq has
    BY <2>0, <2>2 DEF Entered
  <2>4. ListOK(n, has) /\ SameOf(n, l)
    BY <2>0, <2>1, <2>2, <2>3, EditKeeps
  <2> QED
    BY <2>4 DEF n
<1> QED
  BY <1>3, <1>4

LEMMA ProofKeeps ==
    ASSUME NEW has, NEW l, ListOK(l, has), NEW k \in Entries(l), NEW p \in has
    PROVE  ListOK(markPasskeyVerified(l, k, p), has) /\ SameOf(markPasskeyVerified(l, k, p), l)
<1>1. l \in [Keys -> Entry \cup {Nothing}] /\ Entered(l[k], has)
  BY DEF ListOK
<1>2. k \in Keys /\ l[k] \in Entry
  BY <1>1, EntryOf
<1> DEFINE e == [l[k] EXCEPT !.verified = @ \cup ({p} \cap l[k].passkeys)]
           n == markPasskeyVerified(l, k, p)
<1>3. n = [l EXCEPT ![k] = e]
  BY <1>2, <1>1 DEF markPasskeyVerified
<1>4. /\ e \in Entry /\ e.of = l[k].of /\ e.privy = l[k].privy /\ e.user = l[k].user
      /\ e.passkeys = l[k].passkeys /\ e.verified = l[k].verified \cup ({p} \cap l[k].passkeys)
  BY <1>2 DEF Entry
<1> HIDE DEF e, n
<1>5. (\A q \in e.passkeys : Owner[q] = e.of) /\ e.verified \subseteq has
  BY <1>1, <1>4 DEF Entered
<1>6. ListOK(n, has) /\ SameOf(n, l)
  BY <1>3, <1>4, <1>5, EditKeeps
<1> QED
  BY <1>6 DEF n

LEMMA DeletedKeeps ==
    ASSUME NEW has, NEW l, ListOK(l, has), NEW p, ByUser(l, p) # {}
    PROVE  ListOK(markProfileDeleted(l, ByUser(l, p)), has) /\ SameOf(markProfileDeleted(l, ByUser(l, p)), l)
<1>1. l \in [Keys -> Entry \cup {Nothing}] /\ Distinct(l)
  BY DEF ListOK
<1>2. PICK k : k \in ByUser(l, p)
  OBVIOUS
<1>3. ByUser(l, p) = {k} /\ k \in Entries(l)
  BY <1>1, <1>2 DEF ByUser, Distinct
<1>4. k \in Keys /\ l[k] \in Entry /\ Entered(l[k], has)
  BY <1>1, <1>3, EntryOf DEF ListOK
<1> DEFINE e == [l[k] EXCEPT !.user = Nothing]
           n == markProfileDeleted(l, ByUser(l, p))
<1>5. n = [l EXCEPT ![k] = e]
  BY <1>1, <1>3, <1>4 DEF markProfileDeleted
<1>6. /\ e \in Entry /\ e.of = l[k].of /\ e.privy = l[k].privy /\ e.user = Nothing
      /\ e.passkeys = l[k].passkeys /\ e.verified = l[k].verified
  BY <1>4 DEF Entry
<1> HIDE DEF e, n
<1>7. (\A q \in e.passkeys : Owner[q] = e.of) /\ e.verified \subseteq has
  BY <1>4, <1>6 DEF Entered
<1>8. ListOK(n, has) /\ SameOf(n, l)
  BY <1>3, <1>5, <1>6, <1>7, EditKeeps
<1> QED
  BY <1>8 DEF n

LEMMA DropKeeps ==
    ASSUME NEW has, NEW l, ListOK(l, has), NEW k \in Entries(l), NEW n, n = [l EXCEPT ![k] = Nothing]
    PROVE  /\ ListOK(n, has)
           /\ Entries(n) = Entries(l) \ {k}
           /\ \A j \in Entries(n) : n[j] = l[j]
<1>1. l \in [Keys -> Entry \cup {Nothing}] /\ Distinct(l) /\ k \in Keys
  BY DEF ListOK, Entries
<1>2. n \in [Keys -> Entry \cup {Nothing}] /\ n[k] = Nothing /\ \A j \in Keys : j # k => n[j] = l[j]
  BY <1>1
<1>3. Entries(n) = Entries(l) \ {k} /\ \A j \in Entries(n) : n[j] = l[j]
  BY <1>2 DEF Entries
<1>4. Distinct(n)
  <2> SUFFICES ASSUME NEW i \in Entries(n), NEW j \in Entries(n), i # j
               PROVE  /\ n[i].privy = Nothing \/ n[i].privy # n[j].privy
                      /\ n[i].user = Nothing \/ n[i].user # n[j].user
    BY DEF Distinct
  <2>1. i \in Entries(l) /\ j \in Entries(l) /\ n[i] = l[i] /\ n[j] = l[j]
    BY <1>3
  <2> QED
    BY <1>1, <2>1 DEF Distinct
<1> QED
  BY <1>2, <1>3, <1>4 DEF ListOK

\* The entry that is found is of whoever signs in.
LEMMA FoundIsOwn ==
    ASSUME NEW has, NEW l, ListOK(l, has), NEW u \in Accounts, NEW v \in {Nothing, u}, NEW p \in Profiles \cup {Nothing},
           p # Nothing => p[1] = u, NEW k \in findAccount(l, v, p)
    PROVE  k \in Entries(l) /\ l[k].of = u
<1>1. l \in [Keys -> Entry \cup {Nothing}] /\ \A j \in Entries(l) : Entered(l[j], has)
  BY DEF ListOK
<1>2. k \in Entries(l) /\ ((v # Nothing /\ l[k].privy = v) \/ (p # Nothing /\ l[k].user = p))
  BY DEF findAccount, ByPrivy, ByUser
<1> QED
  BY <1>1, <1>2 DEF Entered

-----------------------------------------------------------------------------
(* The invariant. *)

ProviderSessions == [user : Accounts, ways : SUBSET Ways]
Intents == [key : Keys, passkey : Passkeys \cup {Nothing}]
Removals == [user : Accounts, passkey : Passkeys, key : Keys, served : BOOLEAN]

StoredTyped ==
    /\ saved \subseteq Accounts
    /\ ready \in BOOLEAN /\ waiting \in Seq(Snapshot) /\ Len(waiting) <= MaxWaiting

ListsInv ==
    /\ ListOK(list, held)
    /\ disk # Nothing => ListOK(disk, held)
    /\ reading # Nothing => ListOK(reading, held)

\* A sign-in waits only for the stored list, under a key that is nobody else's there or in memory.
WaitInv ==
    /\ ready => waiting = <<>> /\ reading = Nothing
    /\ work # Nothing => ready
    /\ \A i \in DOMAIN waiting :
          /\ SnapOK(waiting[i], held)
          /\ Fits(waiting[i].key, waiting[i].of, list)
          /\ reading # Nothing => Fits(waiting[i].key, waiting[i].of, reading)
    /\ \A i, j \in DOMAIN waiting : waiting[i].key = waiting[j].key => waiting[i].of = waiting[j].of
    /\ reading # Nothing => \A k \in Entries(list) : Fits(k, list[k].of, reading)

\* Storage holds what memory holds, or will.
StoreInv ==
    ~Slow =>
        /\ disk = Nothing => reading = Nothing /\ list = emptyRegistry
        /\ disk # Nothing => disk = Or(reading, list)
        /\ reading # Nothing => list = emptyRegistry
        /\ saved \subseteq People(disk)

Stored == StoredTyped /\ ListsInv /\ WaitInv /\ StoreInv

OthersTyped ==
    /\ joined \subseteq Accounts /\ linked \in [Accounts -> SUBSET Ways] /\ held \subseteq Passkeys
    /\ made \in [Accounts -> 0 .. MaxProfiles] /\ live \subseteq joined
    /\ privy \in ProviderSessions \cup {Nothing}
    /\ profile \in Profiles \cup {Nothing}
    /\ due \in BOOLEAN
    /\ intent \in Intents \cup {Nothing}
    /\ work \in Removals \cup {Nothing}
    /\ starts \in 0 .. MaxStarts
    /\ chosen \in Accounts \cup {Nothing} /\ told \in BOOLEAN

PeopleInv ==
    /\ \A u \in live : made[u] > 0
    /\ \A u \in Accounts : linked[u] # {} => u \in joined
    /\ \A u \in Accounts : \A p \in linked[u] \cap Passkeys : Owner[p] = u
    /\ privy # Nothing =>
          /\ privy.user \in joined
          /\ \A p \in privy.ways \cap Passkeys : Owner[p] = privy.user
          /\ profile # Nothing => profile[1] = privy.user
    /\ work # Nothing => work.user \in joined

\* The phone believes linked only what is, but for the passkey whose removal is about to be answered; and
\* whoever loses that passkey keeps another way.
WaysInv ==
    /\ AWayInRemains
    /\ privy # Nothing =>
          \A w \in privy.ways \ linked[privy.user] :
              work # Nothing /\ work.served /\ work.user = privy.user /\ work.passkey = w
    /\ work # Nothing /\ ~work.served =>
          (linked[work.user] \ {work.passkey}) \cap (held \cup {Google}) # {}

\* A switch under way is aimed at an entry of the chosen account; one that ended, ended there or was told.
LandInv ==
    /\ intent = Nothing /\ chosen # Nothing => profile # Nothing /\ (chosen = profile[1] \/ told)
    /\ intent # Nothing =>
          /\ ready /\ chosen # Nothing
          /\ Fits(intent.key, chosen, list)
          /\ profile # Nothing => due

Whole == OthersTyped /\ PeopleInv /\ (~Lost => WaysInv) /\ LandInv

KeptInv == Stored /\ Whole

LEMMA ListTyped ==
    ASSUME Stored
    PROVE  /\ list \in [Keys -> Entry \cup {Nothing}] /\ list # Nothing
           /\ disk \in [Keys -> Entry \cup {Nothing}] \cup {Nothing}
           /\ reading \in [Keys -> Entry \cup {Nothing}] \cup {Nothing}
BY PeopleAreUsers DEF Stored, ListsInv, ListOK

LEMMA InvTyped ==
    ASSUME KeptInv
    PROVE  AccountsTypeOK
BY ListTyped DEF KeptInv, Whole, Stored, StoredTyped, OthersTyped, AccountsTypeOK, ProviderSessions, Intents, Removals

LEMMA NoneIsApart ==
    /\ Nothing \notin Accounts /\ Nothing \notin Passkeys /\ Nothing \notin Keys /\ Nothing \notin Profiles /\ Nothing \notin Entry
    /\ Nothing \notin ProviderSessions /\ Nothing \notin Intents /\ Nothing \notin Removals
BY AccountsAssumption DEF ProviderSessions, Intents, Removals

LEMMA EmptyIsOK ==
    ASSUME NEW has
    PROVE  ListOK(emptyRegistry, has) /\ Entries(emptyRegistry) = {} /\ emptyRegistry # Nothing
<1>1. emptyRegistry \in [Keys -> Entry \cup {Nothing}] /\ Entries(emptyRegistry) = {}
  BY DEF emptyRegistry, Entries
<1> QED
  BY <1>1, AccountsAssumption DEF ListOK, Distinct

-----------------------------------------------------------------------------
(* The list, in memory and in storage. *)

LEMMA StoredInit ==
    ASSUME AccountsInit
    PROVE  Stored
<1>1. /\ list = emptyRegistry /\ disk = Nothing /\ reading = Nothing /\ ready = FALSE /\ waiting = <<>>
      /\ work = Nothing /\ saved = {}
  BY DEF AccountsInit
<1>2. StoredTyped
  <2>1. <<>> \in Seq(Snapshot) /\ Len(<<>>) <= MaxWaiting
    <3>1. MaxWaiting \in Nat
      BY AccountsAssumption
    <3> QED
      BY <3>1
  <2> QED
    BY <1>1, <2>1 DEF StoredTyped
<1>3. ListsInv
  BY <1>1, EmptyIsOK DEF ListsInv
<1>4. WaitInv
  BY <1>1, EmptyIsOK DEF WaitInv
<1>5. StoreInv
  BY <1>1 DEF StoreInv
<1> QED
  BY <1>2, <1>3, <1>4, <1>5 DEF Stored

\* Steps that leave the list alone.
LEMMA StoredStays ==
    ASSUME Stored, UNCHANGED <<list, disk, reading, ready, waiting, saved>>, held \subseteq held',
           work' # Nothing => ready
    PROVE  Stored'
<1>1. StoredTyped'
  BY DEF Stored, StoredTyped
<1>2. ListsInv'
  BY MoreHeld DEF Stored, ListsInv
<1>3. WaitInv'
  <2>1. \A i \in DOMAIN waiting : SnapOK(waiting[i], held')
    BY DEF Stored, WaitInv, SnapOK
  <2> QED
    BY <2>1 DEF Stored, WaitInv
<1>4. StoreInv'
  BY DEF Stored, StoreInv
<1> QED
  BY <1>1, <1>2, <1>3, <1>4 DEF Stored

\* A write, when the stored list has been loaded.
LEMMA PutKeeps ==
    ASSUME Stored, NEW n, Put(n), ListOK(n, held'), People(list) \subseteq People(n),
           held \subseteq held', ready, UNCHANGED <<reading, ready, waiting>>
    PROVE  Stored'
<1>1. reading = Nothing /\ waiting = <<>> /\ list' = n /\ disk' = n /\ saved' = saved \cup People(n)
  BY DEF Stored, WaitInv, Put
<1>2. n # Nothing /\ People(n) \subseteq Accounts
  BY PeopleAreUsers
<1>3. StoredTyped'
  BY <1>1, <1>2 DEF Stored, StoredTyped
<1>4. ListsInv'
  BY <1>1 DEF ListsInv
<1>5. WaitInv'
  BY <1>1 DEF WaitInv
<1>6. ~Slow => saved \subseteq People(list)
  BY <1>1, EmptyIsOK DEF Stored, StoreInv, Or, People
<1>7. StoreInv'
  BY <1>1, <1>2, <1>6 DEF StoreInv, Or
<1> QED
  BY <1>3, <1>4, <1>5, <1>7 DEF Stored

\* A write that leaves the entries those of the same people, whether the list is loaded or not.
LEMMA PutSame ==
    ASSUME Stored, NEW n, Put(n), ListOK(n, held), SameOf(n, list), Entries(list) # {},
           UNCHANGED <<held, reading, ready, waiting, work>>
    PROVE  Stored'
<1>1. list' = n /\ disk' = n /\ saved' = saved \cup People(n)
  BY DEF Put
<1>2. n # Nothing /\ People(n) \subseteq Accounts
  BY PeopleAreUsers
<1>3. StoredTyped'
  BY <1>1, <1>2 DEF Stored, StoredTyped
<1>4. ListsInv'
  BY <1>1 DEF Stored, ListsInv
<1>5. \A k, u : Fits(k, u, list) => Fits(k, u, n)
  BY DEF Fits, SameOf
<1>6. WaitInv'
  BY <1>1, <1>5 DEF Stored, WaitInv, SameOf
<1>7. ~Slow => reading = Nothing /\ saved \subseteq People(list)
  BY EmptyIsOK DEF Stored, StoreInv, Or, People
<1>8. People(n) = People(list)
  BY <1>2, ListTyped, SamePeople
<1>9. StoreInv'
  BY <1>1, <1>2, <1>7, <1>8 DEF StoreInv, Or
<1> QED
  BY <1>3, <1>4, <1>6, <1>9 DEF Stored

\* The key of a write is that of the account it is about, or nobody's.
LEMMA KeyIsOwn ==
    ASSUME Stored, NEW u \in Accounts, NEW v \in {Nothing, u}, NEW p \in Profiles \cup {Nothing}, p # Nothing => p[1] = u,
           NEW key \in NewKeys(v, p)
    PROVE  /\ key \in Keys
           /\ Fits(key, u, list)
           /\ reading # Nothing => Fits(key, u, reading)
           /\ \A i \in DOMAIN waiting : waiting[i].key = key => waiting[i].of = u
           /\ ready => (findAccount(list, v, p) # {} /\ key \in Entries(list)) \/ (intent # Nothing => key # intent.key)
<1> DEFINE known == findAccount(Or(reading, list), v, p)
<1>0. DOMAIN waiting = 1 .. Len(waiting)
  BY DEF Stored, StoredTyped
<1>1. ListOK(Or(reading, list), held)
  BY DEF Stored, ListsInv, Or
<1>2. CASE known # {}
  <2>1. key \in known
    BY <1>2 DEF NewKeys
  <2>2. key \in Entries(Or(reading, list)) /\ Or(reading, list)[key].of = u
    BY <1>1, <2>1, FoundIsOwn
  <2> HIDE DEF known
  <2>3. CASE reading = Nothing
    <3>1. key \in Entries(list) /\ list[key].of = u /\ known = findAccount(list, v, p)
      BY <2>2, <2>3 DEF Or, known
    <3>2. \A i \in DOMAIN waiting : waiting[i].key = key => waiting[i].of = u
      BY <3>1 DEF Stored, WaitInv, Fits
    <3>3. key \in Keys /\ Fits(key, u, list)
      BY <3>1 DEF Entries, Fits
    <3> QED
      BY <1>2, <2>3, <3>1, <3>2, <3>3
  <2>4. CASE reading # Nothing
    <3>1. key \in Entries(reading) /\ reading[key].of = u /\ ~ready
      BY <2>2, <2>4 DEF Or, Stored, WaitInv
    <3>2. \A i \in DOMAIN waiting : waiting[i].key = key => waiting[i].of = u
      BY <2>4, <3>1 DEF Stored, WaitInv, Fits
    <3>3. Fits(key, u, list)
      BY <2>4, <3>1 DEF Stored, WaitInv, Fits
    <3>4. key \in Keys /\ Fits(key, u, reading)
      BY <3>1 DEF Entries, Fits
    <3> QED
      BY <3>1, <3>2, <3>3, <3>4
  <2> QED
    BY <2>3, <2>4
<1>3. CASE known = {}
  <2>1. /\ key \in Keys /\ key \notin Entries(list) /\ key \notin Entries(Or(reading, list))
        /\ intent # Nothing => key # intent.key
        /\ \A i \in 1 .. Len(waiting) : waiting[i].key # key
    BY <1>3 DEF NewKeys
  <2> QED
    BY <1>0, <2>1 DEF Fits, Or
<1> QED
  BY <1>2, <1>3

LEMMA WriteKeeps ==
    ASSUME Stored, NEW s, SnapOK(s, held), s.key \in NewKeys(s.privy, s.user), NEW young \in SUBSET Passkeys,
           Write(s, young), UNCHANGED <<held, reading, ready, work>>
    PROVE  Stored'
<1>s. /\ s.of \in Accounts /\ s.privy \in {Nothing, s.of} /\ s.user \in Profiles \cup {Nothing} /\ s.key \in Keys
      /\ s.user # Nothing => s.user[1] = s.of
      /\ s \in Snapshot
  BY DEF SnapOK, Snapshot
<1>k. /\ Fits(s.key, s.of, list)
      /\ reading # Nothing => Fits(s.key, s.of, reading)
      /\ \A i \in DOMAIN waiting : waiting[i].key = s.key => waiting[i].of = s.of
  BY <1>s, KeyIsOwn
<1>1. CASE ready
  <2> DEFINE n == recordSignIn(list, s, young)
  <2>1. ListOK(list, held)
    BY DEF Stored, ListsInv
  <2>2. ListOK(n, held) /\ People(list) \subseteq People(n)
    BY <1>k, <2>1, RecordKeeps
  <2>3. Put(n) /\ UNCHANGED waiting
    BY <1>1 DEF Write
  <2> HIDE DEF n
  <2> QED
    BY <1>1, <2>2, <2>3, PutKeeps
<1>2. CASE ~ready
  <2>1. Len(waiting) < MaxWaiting /\ waiting' = Append(waiting, s) /\ UNCHANGED <<list, disk, saved>>
    BY <1>2 DEF Write
  <2>2. StoredTyped'
    BY <1>s, <2>1, AccountsAssumption DEF Stored, StoredTyped
  <2>3. ListsInv'
    BY <2>1 DEF Stored, ListsInv
  <2>4. waiting \in Seq(Snapshot)
    BY DEF Stored, StoredTyped
  <2>5. /\ DOMAIN waiting' = 1 .. Len(waiting) + 1 /\ DOMAIN waiting = 1 .. Len(waiting)
        /\ waiting'[Len(waiting) + 1] = s
        /\ \A i \in DOMAIN waiting : waiting'[i] = waiting[i]
    BY <1>s, <2>1, <2>4
  <2>6. \A i \in DOMAIN waiting' : i \in DOMAIN waiting \/ i = Len(waiting) + 1
    BY <2>4, <2>5
  <2>7. ASSUME NEW i \in DOMAIN waiting'
        PROVE  /\ SnapOK(waiting'[i], held')
               /\ Fits(waiting'[i].key, waiting'[i].of, list')
               /\ reading' # Nothing => Fits(waiting'[i].key, waiting'[i].of, reading')
    BY <1>k, <2>1, <2>5, <2>6 DEF Stored, WaitInv
  <2>8. ASSUME NEW i \in DOMAIN waiting', NEW j \in DOMAIN waiting', waiting'[i].key = waiting'[j].key
        PROVE  waiting'[i].of = waiting'[j].of
    <3>1. CASE i \in DOMAIN waiting /\ j \in DOMAIN waiting
      BY <2>5, <2>8, <3>1 DEF Stored, WaitInv
    <3>2. CASE i = Len(waiting) + 1 /\ j \in DOMAIN waiting
      BY <1>k, <2>5, <2>8, <3>2
    <3>3. CASE j = Len(waiting) + 1 /\ i \in DOMAIN waiting
      BY <1>k, <2>5, <2>8, <3>3
    <3>4. CASE i = j
      BY <3>4
    <3> QED
      BY <2>6, <3>1, <3>2, <3>3, <3>4
  <2>9. WaitInv'
    <3>1. work' = Nothing \/ ready
      BY DEF Stored, WaitInv
    <3>2. reading' # Nothing => \A k \in Entries(list') : Fits(k, list'[k].of, reading')
      BY <2>1 DEF Stored, WaitInv
    <3> QED
      BY <1>2, <2>7, <2>8, <3>1, <3>2 DEF WaitInv
  <2>10. StoreInv'
    BY <2>1 DEF Stored, StoreInv
  <2> QED
    BY <2>2, <2>3, <2>9, <2>10 DEF Stored
<1> QED
  BY <1>1, <1>2

\* What is written keeps the switch under way where it is aimed.
LEMMA WriteLands ==
    ASSUME Stored, LandInv, ready, NEW s, SnapOK(s, held), s.key \in NewKeys(s.privy, s.user),
           NEW young \in SUBSET Passkeys, intent # Nothing
    PROVE  Fits(intent.key, chosen, recordSignIn(list, s, young))
<1>s. /\ s.of \in Accounts /\ s.privy \in {Nothing, s.of} /\ s.user \in Profiles \cup {Nothing} /\ s.key \in Keys
      /\ s.user # Nothing => s.user[1] = s.of
  BY DEF SnapOK, Snapshot
<1>k. /\ Fits(s.key, s.of, list)
      /\ (findAccount(list, s.privy, s.user) # {} /\ s.key \in Entries(list)) \/ s.key # intent.key
  BY <1>s, KeyIsOwn
<1> DEFINE n == recordSignIn(list, s, young)
<1>1. ListOK(list, held)
  BY DEF Stored, ListsInv
<1>2. Recorded(n, list, s)
  BY <1>k, <1>1, RecordKeeps
<1>3. Fits(intent.key, chosen, list)
  BY DEF LandInv
<1> HIDE DEF n
<1>4. ASSUME intent.key \in Entries(n) PROVE n[intent.key].of = chosen
  BY <1>2, <1>3, <1>4, <1>k DEF Recorded, Fits
<1> QED
  BY <1>4 DEF Fits, n

LEMMA HydrateKeeps ==
    ASSUME Stored, Hydrate
    PROVE  Stored'
<1>1. ~ready /\ ready' = TRUE /\ waiting' = <<>> /\ reading' = Nothing /\ UNCHANGED <<held, work>>
  BY DEF Hydrate, external
<1> DEFINE loaded == Or(reading, list)
<1>2. PICK young \in SUBSET Passkeys :
        IF waiting = <<>> THEN list' = loaded /\ UNCHANGED <<disk, saved>>
        ELSE Put(recordSignIns(loaded, waiting, young))
  BY DEF Hydrate
<1>3. ListOK(loaded, held) /\ \A i \in DOMAIN waiting : Fits(waiting[i].key, waiting[i].of, loaded)
  BY DEF Stored, ListsInv, WaitInv, Or
<1>4. ~Slow => /\ disk = Nothing => loaded = emptyRegistry
               /\ disk # Nothing => disk = loaded
               /\ saved \subseteq People(loaded)
  <2>1. People(Nothing) = {} 
    BY DEF People
  <2> QED
    BY <2>1 DEF Stored, StoreInv, Or
<1> HIDE DEF loaded
<1>5. WaitInv'
  BY <1>1 DEF WaitInv
<1>t. waiting \in Seq(Snapshot) /\ <<>> \in Seq(Snapshot) /\ Len(<<>>) <= MaxWaiting
  <2>1. MaxWaiting \in Nat
    BY AccountsAssumption
  <2> QED
    BY <2>1 DEF Stored, StoredTyped
<1>6. CASE waiting = <<>>
  <2>1. list' = loaded /\ UNCHANGED <<disk, saved>>
    BY <1>2, <1>6
  <2>2. StoredTyped'
    BY <1>1, <1>t, <2>1 DEF Stored, StoredTyped
  <2>3. ListsInv'
    BY <1>1, <1>3, <2>1 DEF Stored, ListsInv
  <2>4. StoreInv'
    BY <1>1, <1>4, <2>1 DEF Stored, StoreInv, Or
  <2> QED
    BY <1>5, <2>2, <2>3, <2>4 DEF Stored
<1>7. CASE waiting # <<>>
  <2> DEFINE n == recordSignIns(loaded, waiting, young)
  <2>1. Put(n)
    BY <1>2, <1>7
  <2>2. ListOK(n, held) /\ People(loaded) \subseteq People(n)
    <3>1. /\ \A i \in DOMAIN waiting : SnapOK(waiting[i], held)
          /\ \A i, j \in DOMAIN waiting : waiting[i].key = waiting[j].key => waiting[i].of = waiting[j].of
      BY DEF Stored, WaitInv
    <3> QED
      BY <1>3, <1>t, <3>1, ReplayKeeps
  <2> HIDE DEF n
  <2>3. list' = n /\ disk' = n /\ saved' = saved \cup People(n) /\ n # Nothing /\ People(n) \subseteq Accounts
    BY <2>1, <2>2, PeopleAreUsers DEF Put
  <2>4. StoredTyped'
    BY <1>1, <1>t, <2>3 DEF Stored, StoredTyped
  <2>5. ListsInv'
    BY <1>1, <2>2, <2>3 DEF ListsInv
  <2>6. StoreInv'
    BY <1>1, <1>4, <2>2, <2>3 DEF StoreInv, Or
  <2> QED
    BY <1>5, <2>4, <2>5, <2>6 DEF Stored
<1> QED
  BY <1>6, <1>7

LEMMA OverdueKeeps ==
    ASSUME Stored, Overdue
    PROVE  Stored'
<1>1. /\ Slow \/ reading = Nothing
      /\ ~ready /\ waiting' = <<>> /\ UNCHANGED <<held, work, reading, ready>>
      /\ Put(recordSignIns(list, waiting, {}))
  BY DEF Overdue, external
<1>t. waiting \in Seq(Snapshot) /\ <<>> \in Seq(Snapshot) /\ Len(<<>>) <= MaxWaiting
  <2>1. MaxWaiting \in Nat
    BY AccountsAssumption
  <2> QED
    BY <2>1 DEF Stored, StoredTyped
<1> DEFINE n == recordSignIns(list, waiting, {})
<1>2. ListOK(n, held) /\ People(list) \subseteq People(n) /\ Replayed(n, list, waiting, DOMAIN waiting)
  <2>1. /\ \A i \in DOMAIN waiting : SnapOK(waiting[i], held) /\ Fits(waiting[i].key, waiting[i].of, list)
        /\ \A i, j \in DOMAIN waiting : waiting[i].key = waiting[j].key => waiting[i].of = waiting[j].of
        /\ ListOK(list, held)
    BY DEF Stored, WaitInv, ListsInv
  <2>2. {} \in SUBSET Passkeys
    OBVIOUS
  <2> QED
    BY <1>t, <2>1, <2>2, ReplayKeeps
<1>3. Put(n)
  BY <1>1
<1> HIDE DEF n
<1>4. list' = n /\ disk' = n /\ saved' = saved \cup People(n) /\ n # Nothing /\ People(n) \subseteq Accounts
  BY <1>2, <1>3, PeopleAreUsers DEF Put
<1>5. StoredTyped'
  BY <1>1, <1>t, <1>4 DEF Stored, StoredTyped
<1>6. ListsInv'
  BY <1>1, <1>2, <1>4 DEF Stored, ListsInv
<1>7. reading # Nothing => \A k \in Entries(n) : Fits(k, n[k].of, reading)
  <2> SUFFICES ASSUME reading # Nothing, NEW k \in Entries(n), k \in Entries(reading) PROVE reading[k].of = n[k].of
    BY DEF Fits
  <2>1. CASE k \in Entries(list) /\ n[k].of = list[k].of
    BY <2>1 DEF Stored, WaitInv, Fits
  <2>2. CASE \E i \in DOMAIN waiting : waiting[i].key = k /\ waiting[i].of = n[k].of
    BY <2>2 DEF Stored, WaitInv, Fits
  <2> QED
    BY <1>2, <2>1, <2>2 DEF Replayed
<1>8. WaitInv'
  BY <1>1, <1>4, <1>7 DEF Stored, WaitInv
<1>9. StoreInv'
  <2>1. ~Slow => reading = Nothing /\ saved \subseteq People(list)
    BY <1>1, EmptyIsOK DEF Stored, StoreInv, Or, People
  <2> QED
    BY <1>1, <1>2, <1>4, <2>1 DEF StoreInv, Or
<1> QED
  BY <1>5, <1>6, <1>8, <1>9 DEF Stored

LEMMA RestartKeeps ==
    ASSUME Stored, Restart
    PROVE  Stored'
<1>1. /\ list' = emptyRegistry /\ reading' = disk /\ ready' = FALSE /\ waiting' = <<>> /\ work' = Nothing
      /\ UNCHANGED <<held, disk, saved>>
  BY DEF Restart, external
<1>t. <<>> \in Seq(Snapshot) /\ Len(<<>>) <= MaxWaiting
  <2>1. MaxWaiting \in Nat
    BY AccountsAssumption
  <2> QED
    BY <2>1
<1>2. StoredTyped'
  BY <1>1, <1>t DEF Stored, StoredTyped
<1>3. ListsInv'
  BY <1>1, EmptyIsOK DEF Stored, ListsInv
<1>4. WaitInv'
  BY <1>1, EmptyIsOK DEF WaitInv
<1>5. StoreInv'
  BY <1>1, EmptyIsOK DEF Stored, StoreInv, Or
<1> QED
  BY <1>2, <1>3, <1>4, <1>5 DEF Stored

LEMMA KeysOfIntent ==
    ASSUME OthersTyped, intent # Nothing
    PROVE  intent.key \in Keys
BY DEF OthersTyped, Intents

LEMMA SameFits ==
    ASSUME NEW n, NEW l, SameOf(n, l), NEW k, NEW u, Fits(k, u, l)
    PROVE  Fits(k, u, n)
BY DEF Fits, SameOf

LEMMA WriteMovesList ==
    ASSUME Stored, LandInv, NEW s, SnapOK(s, held), s.key \in NewKeys(s.privy, s.user),
           NEW young \in SUBSET Passkeys, Write(s, young), intent # Nothing
    PROVE  list' = recordSignIn(list, s, young) /\ Fits(intent.key, chosen, list')
<1>1. ready
  BY DEF LandInv
<1>2. list' = recordSignIn(list, s, young)
  BY <1>1 DEF Write, Put
<1> QED
  BY <1>1, <1>2, WriteLands

LEMMA RememberKeeps ==
    ASSUME KeptInv, NEW p \in Passkeys, p \in held, p \in linked[Owner[p]], NEW targeted \in BOOLEAN,
           targeted => intent # Nothing,
           rememberPasskeySignIn(Owner[p], p, targeted),
           UNCHANGED <<held, reading, ready, work>>
    PROVE  Stored' /\ (intent # Nothing => Fits(intent.key, chosen, list'))
<1> DEFINE u == Owner[p]
           passkeys == linked[u] \cap Passkeys
           used == IF targeted \/ passkeys = {p} THEN {p} ELSE {}
           Shown(key) == [key |-> key, of |-> u, privy |-> u, user |-> Nothing, passkeys |-> passkeys, listed |-> TRUE, used |-> used]
<1>0. Stored /\ LandInv /\ OthersTyped /\ PeopleInv
  BY DEF KeptInv, Whole
<1>u. u \in Accounts /\ linked[u] \in SUBSET Ways /\ Google \notin Passkeys
  BY <1>0, AccountsAssumption DEF OthersTyped
<1>1. PICK young \in SUBSET Passkeys, key \in NewKeys(u, Nothing) :
        IF targeted /\ ready
        THEN /\ Put(IF ByPrivy(recordSignIn(list, Shown(key), young), u) = {intent.key}
                    THEN recordSignIn(list, Shown(key), young)
                    ELSE removePasskeyRecord(recordSignIn(list, Shown(key), young), intent.key, p))
             /\ UNCHANGED waiting
        ELSE Write(Shown(key), young)
  BY DEF rememberPasskeySignIn
<1> DEFINE s == Shown(key)
<1>2. key \in Keys
  <2>1. Nothing \in Profiles \cup {Nothing} /\ u \in {Nothing, u}
    OBVIOUS
  <2> QED
    BY <1>0, <1>u, <2>1, KeyIsOwn
<1>3. /\ s \in Snapshot
      /\ s.of = u /\ s.privy = u /\ s.user = Nothing /\ s.key = key /\ s.passkeys = passkeys /\ s.used = used
  BY <1>u, <1>2 DEF Snapshot
<1>4. used \subseteq {p} /\ used \subseteq passkeys /\ used \subseteq held /\ \A q \in passkeys : Owner[q] = u
  BY <1>0, <1>u DEF PeopleInv
<1> HIDE DEF used, passkeys, s
<1>5. SnapOK(s, held)
  BY <1>3, <1>4 DEF SnapOK
<1>6. s.key \in NewKeys(s.privy, s.user)
  BY <1>3
<1>7. CASE ~(targeted /\ ready)
  <2>1. Write(s, young)
    BY <1>1, <1>7 DEF s
  <2>2. Stored'
    BY <1>0, <1>5, <1>6, <2>1, WriteKeeps
  <2>3. intent # Nothing => Fits(intent.key, chosen, list')
    BY <1>0, <1>5, <1>6, <2>1, WriteMovesList
  <2> QED
    BY <2>2, <2>3
<1>8. CASE targeted /\ ready
  <2> DEFINE l == recordSignIn(list, s, young)
             n == IF ByPrivy(l, u) = {intent.key} THEN l ELSE removePasskeyRecord(l, intent.key, p)
  <2>1. Put(n) /\ UNCHANGED waiting
    BY <1>1, <1>8 DEF s
  <2>2. intent # Nothing /\ intent.key \in Keys
    BY <1>0, <1>8, KeysOfIntent
  <2>3. Fits(s.key, s.of, list) /\ ListOK(list, held)
    <3>1. s.of \in Accounts /\ s.privy \in {Nothing, s.of} /\ s.user \in Profiles \cup {Nothing} /\ (s.user # Nothing => s.user[1] = s.of)
      BY <1>3, <1>u
    <3> QED
      BY <1>0, <1>6, <3>1, KeyIsOwn DEF Stored, ListsInv
  <2>4. ListOK(l, held) /\ People(list) \subseteq People(l) /\ Fits(intent.key, chosen, l)
    <3>1. ListOK(l, held) /\ People(list) \subseteq People(l)
      BY <1>5, <2>3, RecordKeeps
    <3>2. Fits(intent.key, chosen, l)
      BY <1>0, <1>5, <1>6, <1>8, <2>2, WriteLands
    <3> QED
      BY <3>1, <3>2
  <2> HIDE DEF l
  <2>5. ListOK(n, held) /\ SameOf(n, l)
    <3>1. ListOK(removePasskeyRecord(l, intent.key, p), held) /\ SameOf(removePasskeyRecord(l, intent.key, p), l)
      BY <2>2, <2>4, RemoveKeeps
    <3> QED
      BY <2>4, <3>1, SameIsSame
  <2> HIDE DEF n
  <2>6. People(n) = People(l)
    BY <2>4, <2>5, PeopleAreUsers, SamePeople
  <2>7. Stored'
    BY <1>0, <1>8, <2>1, <2>4, <2>5, <2>6, PutKeeps
  <2>8. list' = n
    BY <2>1 DEF Put
  <2>9. Fits(intent.key, chosen, list')
    BY <2>4, <2>5, <2>8, SameFits
  <2> QED
    BY <2>7, <2>9
<1> QED
  BY <1>7, <1>8

LEMMA SignInWithPasskeyKeeps ==
    ASSUME KeptInv, NEW p \in Passkeys, NEW targeted \in BOOLEAN, SignInWithPasskey(p, targeted)
    PROVE  KeptInv'
<1> DEFINE u == Owner[p]
<1>0. Stored /\ LandInv /\ OthersTyped /\ PeopleInv /\ (~Lost => WaysInv)
  BY DEF KeptInv, Whole
<1>1. /\ profile = Nothing /\ privy = Nothing /\ p \in held /\ p \in linked[u] /\ (targeted => intent # Nothing)
      /\ privy' = [user |-> u, ways |-> linked[u]]
      /\ rememberPasskeySignIn(u, p, targeted)
      /\ UNCHANGED <<joined, linked, held, made, live, profile, reading, ready, due, intent, work, starts, chosen, told>>
  BY DEF SignInWithPasskey, Gate, Enter, external
<1>2. Stored' /\ (intent # Nothing => Fits(intent.key, chosen, list'))
  BY <1>1, RememberKeeps
<1>3. u \in Accounts /\ linked[u] \in SUBSET Ways /\ linked[u] # {}
  BY <1>0, <1>1, AccountsAssumption DEF OthersTyped
<1> HIDE DEF u
<1>4. privy' \in ProviderSessions /\ privy'.user = u /\ privy'.ways = linked[u]
  BY <1>1, <1>3 DEF ProviderSessions
<1>5. OthersTyped'
  BY <1>0, <1>1, <1>4 DEF OthersTyped
<1>6. PeopleInv'
  BY <1>0, <1>1, <1>3, <1>4 DEF PeopleInv
<1>7. ~Lost => WaysInv'
  BY <1>0, <1>1, <1>4 DEF WaysInv, AWayInRemains
<1>8. LandInv'
  BY <1>0, <1>1, <1>2 DEF LandInv
<1> QED
  BY <1>2, <1>5, <1>6, <1>7, <1>8 DEF KeptInv, Whole

LEMMA SignInWithGoogleKeeps ==
    ASSUME KeptInv, NEW u \in Accounts, SignInWithGoogle(u)
    PROVE  KeptInv'
<1>0. Stored /\ LandInv /\ OthersTyped /\ PeopleInv /\ (~Lost => WaysInv)
  BY DEF KeptInv, Whole
<1>1. /\ profile = Nothing /\ privy = Nothing
      /\ joined' = joined \cup {u}
      /\ linked' = [linked EXCEPT ![u] = @ \cup {Google}]
      /\ privy' = [user |-> u, ways |-> linked'[u]]
      /\ UNCHANGED <<held, made, live, profile, list, disk, reading, ready, waiting, due, intent, work, starts, chosen, told, saved>>
  BY DEF SignInWithGoogle, Gate, Enter, history
<1>2. Stored'
  BY <1>0, <1>1, StoredStays DEF Stored, WaitInv
<1>3. /\ linked' \in [Accounts -> SUBSET Ways] /\ linked'[u] = linked[u] \cup {Google}
      /\ \A v \in Accounts : v # u => linked'[v] = linked[v]
      /\ \A v \in Accounts : linked[v] \subseteq linked'[v] /\ linked'[v] \cap Passkeys = linked[v] \cap Passkeys
  BY <1>0, <1>1, AccountsAssumption DEF OthersTyped, Ways
<1>4. privy' \in ProviderSessions /\ privy'.user = u /\ privy'.ways = linked'[u] /\ privy' # Nothing
  BY <1>1, <1>3, NoneIsApart DEF ProviderSessions
<1>5. OthersTyped'
  BY <1>0, <1>1, <1>3, <1>4 DEF OthersTyped
<1>w. work # Nothing => work.user \in Accounts
  BY <1>0 DEF OthersTyped, Removals
<1>6. PeopleInv'
  BY <1>0, <1>1, <1>3, <1>4 DEF PeopleInv
<1>7. ~Lost => WaysInv'
  <2> SUFFICES ASSUME ~Lost PROVE WaysInv'
    OBVIOUS
  <2>1. AWayInRemains'
    BY <1>0, <1>1, <1>3 DEF WaysInv, AWayInRemains, OthersTyped
  <2>2. work # Nothing /\ ~work.served => (linked'[work.user] \ {work.passkey}) \cap (held \cup {Google}) # {}
    BY <1>0, <1>3, <1>w DEF WaysInv
  <2> QED
    BY <1>1, <1>4, <2>1, <2>2 DEF WaysInv
<1>8. LandInv'
  BY <1>0, <1>1 DEF LandInv
<1> QED
  BY <1>2, <1>5, <1>6, <1>7, <1>8 DEF KeptInv, Whole

LEMMA SignUpKeeps ==
    ASSUME KeptInv, NEW p \in Passkeys, SignUp(p)
    PROVE  KeptInv'
<1> DEFINE u == Owner[p]
           Pending(key) == [key |-> key, of |-> u, privy |-> u, user |-> Nothing,
                            passkeys |-> {p}, listed |-> FALSE, used |-> {p}]
<1>0. Stored /\ LandInv /\ OthersTyped /\ PeopleInv /\ (~Lost => WaysInv)
  BY DEF KeptInv, Whole
<1>1. /\ profile = Nothing /\ privy = Nothing /\ ready /\ u \notin joined
      /\ joined' = joined \cup {u}
      /\ linked' = [linked EXCEPT ![u] = {p}]
      /\ held' = held \cup {p}
      /\ privy' = [user |-> u, ways |-> {p}]
      /\ UNCHANGED <<made, live, profile, reading, ready, waiting, due, intent, work, starts, chosen, told>>
      /\ \E key \in NewKeys(u, Nothing) : Put(recordSignIn(list, Pending(key), {}))
  BY DEF SignUp, Gate, Enter
<1>u. u \in Accounts
  BY AccountsAssumption
<1>2. PICK key \in NewKeys(u, Nothing) : Put(recordSignIn(list, Pending(key), {}))
  BY <1>1
<1> DEFINE s == Pending(key)
           n == recordSignIn(list, s, {})
<1>k. key \in Keys /\ Fits(key, u, list) /\ ((findAccount(list, u, Nothing) # {} /\ key \in Entries(list)) \/ (intent # Nothing => key # intent.key))
  <2>1. Nothing \in Profiles \cup {Nothing} /\ u \in {Nothing, u}
    OBVIOUS
  <2> HIDE DEF u
  <2> QED
    BY <1>0, <1>1, <1>u, <2>1, KeyIsOwn
<1>3. /\ s \in Snapshot
      /\ s.of = u /\ s.privy = u /\ s.user = Nothing /\ s.key = key /\ s.passkeys = {p} /\ s.used = {p}
  BY <1>u, <1>k DEF Snapshot
<1>4. Put(n)
  BY <1>2
<1> HIDE DEF s
<1>5. SnapOK(s, held')
  BY <1>1, <1>3 DEF SnapOK
<1>6. ListOK(list, held) /\ held \subseteq held'
  BY <1>0, <1>1 DEF Stored, ListsInv
<1>7. ListOK(list, held')
  BY <1>6, MoreHeld
<1>8. ListOK(n, held') /\ Recorded(n, list, s) /\ People(list) \subseteq People(n)
  <2>1. {} \in SUBSET Passkeys /\ Fits(s.key, s.of, list)
    BY <1>3, <1>k
  <2> QED
    BY <1>5, <1>7, <2>1, RecordKeeps
<1> HIDE DEF n
<1>9. Stored'
  BY <1>0, <1>1, <1>4, <1>6, <1>8, PutKeeps
<1>10. intent # Nothing => Fits(intent.key, chosen, list')
  <2> SUFFICES ASSUME intent # Nothing PROVE Fits(intent.key, chosen, list')
    OBVIOUS
  <2>1. list' = n /\ Fits(intent.key, chosen, list)
    BY <1>0, <1>4 DEF Put, LandInv
  <2>2. ASSUME intent.key \in Entries(n) PROVE n[intent.key].of = chosen
    BY <1>3, <1>8, <1>k, <2>1, <2>2 DEF Recorded, Fits
  <2> QED
    BY <2>1, <2>2 DEF Fits
<1>11. /\ linked' \in [Accounts -> SUBSET Ways] /\ linked'[u] = {p} /\ held' \subseteq Passkeys
       /\ \A v \in Accounts : v # u => linked'[v] = linked[v]
  BY <1>0, <1>1, <1>u DEF OthersTyped, Ways
<1>12. privy' \in ProviderSessions /\ privy'.user = u /\ privy'.ways = {p}
  BY <1>1, <1>u DEF ProviderSessions, Ways
<1>13. OthersTyped'
  BY <1>0, <1>1, <1>11, <1>12, <1>u DEF OthersTyped
<1>14. PeopleInv'
  BY <1>0, <1>1, <1>11, <1>12 DEF PeopleInv
<1>15. ~Lost => WaysInv'
  <2> SUFFICES ASSUME ~Lost PROVE WaysInv'
    OBVIOUS
  <2>1. AWayInRemains'
    BY <1>0, <1>1, <1>11 DEF WaysInv, AWayInRemains, OthersTyped
  <2>2. work # Nothing => work.user # u /\ work.user \in Accounts
    BY <1>0, <1>1 DEF PeopleInv, OthersTyped
  <2>3. work # Nothing /\ ~work.served => (linked'[work.user] \ {work.passkey}) \cap (held' \cup {Google}) # {}
    BY <1>0, <1>6, <1>11, <2>2 DEF WaysInv
  <2> QED
    BY <1>1, <1>11, <1>12, <2>1, <2>3 DEF WaysInv
<1>16. LandInv'
  BY <1>0, <1>1, <1>10 DEF LandInv
<1> QED
  BY <1>9, <1>13, <1>14, <1>15, <1>16 DEF KeptInv, Whole

LEMMA OpenSessionKeeps ==
    ASSUME KeptInv, OpenSession
    PROVE  KeptInv'
<1> DEFINE u == privy.user
<1>0. Stored /\ LandInv /\ OthersTyped /\ PeopleInv /\ (~Lost => WaysInv)
  BY DEF KeptInv, Whole
<1>1. /\ profile = Nothing /\ privy # Nothing /\ due' = TRUE
      /\ UNCHANGED <<joined, linked, held, privy, list, disk, reading, ready, waiting, intent, work, starts, chosen, told, saved>>
  BY DEF OpenSession, history
<1>2. u \in Accounts /\ u \in joined /\ MaxProfiles \in Nat
  BY <1>0, <1>1, AccountsAssumption DEF OthersTyped, PeopleInv, ProviderSessions
<1>3. \/ u \in live /\ profile' = <<u, made[u]>> /\ UNCHANGED <<made, live>>
      \/ /\ u \notin live /\ made[u] < MaxProfiles
         /\ made' = [made EXCEPT ![u] = @ + 1]
         /\ live' = live \cup {u}
         /\ profile' = <<u, made[u] + 1>>
  BY DEF OpenSession
<1> HIDE DEF u
<1>m. made[u] \in 0 .. MaxProfiles
  BY <1>0, <1>2 DEF OthersTyped
<1>4. /\ made' \in [Accounts -> 0 .. MaxProfiles] /\ live' \subseteq joined
      /\ profile' \in Profiles /\ profile'[1] = u
      /\ \A v \in live' : made'[v] > 0
  <2>1. CASE u \in live /\ profile' = <<u, made[u]>> /\ UNCHANGED <<made, live>>
    BY <1>0, <1>2, <1>m, <2>1 DEF OthersTyped, PeopleInv, Profiles
  <2>2. CASE /\ u \notin live /\ made[u] < MaxProfiles
             /\ made' = [made EXCEPT ![u] = @ + 1]
             /\ live' = live \cup {u}
             /\ profile' = <<u, made[u] + 1>>
    <3>1. made[u] + 1 \in 1 .. MaxProfiles
      BY <1>2, <1>m, <2>2
    <3>2. made' \in [Accounts -> 0 .. MaxProfiles] /\ made'[u] = made[u] + 1 /\ \A v \in Accounts : v # u => made'[v] = made[v]
      BY <1>0, <1>2, <2>2, <3>1 DEF OthersTyped
    <3>3. \A v \in live' : made'[v] > 0
      BY <1>0, <1>2, <2>2, <3>1, <3>2 DEF OthersTyped, PeopleInv
    <3> QED
      BY <1>0, <1>2, <2>2, <3>1, <3>2, <3>3 DEF OthersTyped, Profiles
  <2> QED
    BY <1>3, <2>1, <2>2
<1>5. Stored'
  BY <1>0, <1>1, StoredStays DEF Stored, WaitInv
<1>6. OthersTyped'
  BY <1>0, <1>1, <1>4 DEF OthersTyped
<1>7. PeopleInv'
  BY <1>0, <1>1, <1>4 DEF PeopleInv, u
<1>8. ~Lost => WaysInv'
  BY <1>0, <1>1 DEF WaysInv, AWayInRemains
<1>9. LandInv'
  BY <1>0, <1>1 DEF LandInv
<1> QED
  BY <1>5, <1>6, <1>7, <1>8, <1>9 DEF KeptInv, Whole

LEMMA SnapIsOK ==
    ASSUME Stored, OthersTyped, PeopleInv, profile # Nothing,
           NEW key \in NewKeys(IF privy = Nothing THEN Nothing ELSE privy.user, profile)
    PROVE  /\ SnapOK(Snap(key), held)
           /\ Snap(key).key = key /\ Snap(key).of = profile[1]
           /\ Snap(key).privy = (IF privy = Nothing THEN Nothing ELSE privy.user) /\ Snap(key).user = profile
<1> DEFINE u == profile[1]
           v == IF privy = Nothing THEN Nothing ELSE privy.user
           ks == IF privy = Nothing THEN {} ELSE privy.ways \cap Passkeys
<1>1. profile \in Profiles /\ u \in Accounts /\ v \in {Nothing, u}
  BY DEF OthersTyped, PeopleInv, Profiles
<1>2. \A p \in ks : Owner[p] = u
  BY DEF PeopleInv
<1>3. key \in Keys
  BY <1>1, KeyIsOwn
<1>4. Snap(key) = [key |-> key, of |-> u, privy |-> v, user |-> profile,
                   passkeys |-> ks, listed |-> privy # Nothing, used |-> {}]
  BY DEF Snap
<1>5. ks \in SUBSET Passkeys /\ v \in Accounts \cup {Nothing}
  BY <1>1
<1>6. (privy # Nothing) \in BOOLEAN
  OBVIOUS
<1> DEFINE listed == privy # Nothing
           s == Snap(key)
<1> HIDE DEF u, v, ks, listed, s
<1>7. /\ s = [key |-> key, of |-> u, privy |-> v, user |-> profile,
              passkeys |-> ks, listed |-> listed, used |-> {}]
      /\ listed \in BOOLEAN
  BY <1>4, <1>6 DEF listed, s
<1>8. s \in Snapshot /\ s.key = key /\ s.of = u /\ s.privy = v /\ s.user = profile /\ s.passkeys = ks /\ s.used = {}
  BY <1>1, <1>3, <1>5, <1>7 DEF Snapshot
<1>9. profile[1] = u
  BY DEF u
<1>10. SnapOK(s, held)
  BY <1>1, <1>2, <1>8, <1>9 DEF SnapOK
<1> QED
  BY <1>8, <1>9, <1>10 DEF s, v

LEMMA SyncKeeps ==
    ASSUME KeptInv, Sync
    PROVE  KeptInv'
<1> DEFINE u == IF privy = Nothing THEN Nothing ELSE privy.user
<1>0. Stored /\ LandInv /\ OthersTyped /\ PeopleInv /\ (~Lost => WaysInv)
  BY DEF KeptInv, Whole
<1>1. /\ profile # Nothing /\ due' = FALSE
      /\ UNCHANGED <<joined, linked, held, made, live, privy, profile, reading, ready, work, starts, chosen>>
      /\ IF ready
         THEN intent' = Nothing /\ told' = IF intent = Nothing THEN told ELSE ~checkLanding(list')
         ELSE UNCHANGED <<intent, told>>
  BY DEF Sync, external
<1>2. PICK young \in SUBSET Passkeys, key \in NewKeys(u, profile) : Write(Snap(key), young)
  BY DEF Sync
<1> DEFINE s == Snap(key)
<1>3. /\ SnapOK(s, held) /\ s.key = key /\ s.of = profile[1] /\ s.privy = u /\ s.user = profile
  BY <1>0, <1>1, SnapIsOK
<1> HIDE DEF s
<1>4. s.key \in NewKeys(s.privy, s.user) /\ Write(s, young)
  BY <1>2, <1>3 DEF s
<1>5. Stored'
  BY <1>0, <1>1, <1>3, <1>4, WriteKeeps
<1>6. told' \in BOOLEAN /\ intent' \in {Nothing, intent}
  BY <1>0, <1>1 DEF OthersTyped
<1>7. OthersTyped'
  BY <1>0, <1>1, <1>6 DEF OthersTyped
<1>8. PeopleInv'
  BY <1>0, <1>1 DEF PeopleInv
<1>9. ~Lost => WaysInv'
  BY <1>0, <1>1 DEF WaysInv, AWayInRemains
<1>10. LandInv'
  <2>1. CASE ~ready
    BY <1>0, <1>1, <2>1 DEF LandInv
  <2>2. CASE ready /\ intent = Nothing
    BY <1>0, <1>1, <2>2 DEF LandInv
  <2>3. CASE ready /\ intent # Nothing
    <3>1. Fits(intent.key, chosen, list')
      BY <1>0, <1>3, <1>4, <2>3, WriteMovesList
    <3>2. ASSUME checkLanding(list') PROVE chosen = profile[1]
      <4>1. intent.key \in findAccount(list', u, profile)
        BY <2>3, <3>2 DEF checkLanding
      <4>2. ListOK(list', held) /\ profile \in Profiles \cup {Nothing} /\ profile[1] \in Accounts /\ u \in {Nothing, profile[1]}
        BY <1>0, <1>1, <1>5 DEF Stored, ListsInv, OthersTyped, Profiles, PeopleInv
      <4> HIDE DEF u
      <4>3. intent.key \in Entries(list') /\ list'[intent.key].of = profile[1]
        BY <4>1, <4>2, FoundIsOwn
      <4> QED
        BY <3>1, <4>3 DEF Fits
    <3>3. told' = ~checkLanding(list') /\ intent' = Nothing
      BY <1>1, <2>3
    <3>4. chosen = profile[1] \/ told'
      BY <3>2, <3>3
    <3> QED
      BY <1>1, <3>3, <3>4 DEF LandInv
  <2> QED
    BY <2>1, <2>2, <2>3
<1> QED
  BY <1>5, <1>7, <1>8, <1>9, <1>10 DEF KeptInv, Whole

LEMMA SignOutKeeps ==
    ASSUME KeptInv, SignOut
    PROVE  KeptInv'
<1>0. Stored /\ LandInv /\ OthersTyped /\ PeopleInv /\ (~Lost => WaysInv)
  BY DEF KeptInv, Whole
<1>1. /\ profile' = Nothing /\ privy' = Nothing /\ due' = FALSE /\ told' = FALSE
      /\ chosen' = IF intent = Nothing THEN Nothing ELSE chosen
      /\ UNCHANGED <<joined, linked, held, made, live, list, disk, reading, ready, waiting, intent, work, starts, saved>>
  BY DEF SignOut, Leave, external
<1>2. Stored'
  BY <1>0, <1>1, StoredStays DEF Stored, WaitInv
<1> QED
  BY <1>0, <1>1, <1>2 DEF KeptInv, Whole, OthersTyped, PeopleInv, WaysInv, AWayInRemains, LandInv

LEMMA StartAddingKeeps ==
    ASSUME KeptInv, startAddingAccount
    PROVE  KeptInv'
<1>0. Stored /\ LandInv /\ OthersTyped /\ PeopleInv /\ (~Lost => WaysInv)
  BY DEF KeptInv, Whole
<1>1. /\ profile' = Nothing /\ privy' = Nothing /\ due' = FALSE /\ told' = FALSE /\ intent' = Nothing /\ chosen' = Nothing
      /\ UNCHANGED <<joined, linked, held, made, live, list, disk, reading, ready, waiting, work, starts, saved>>
  BY DEF startAddingAccount, Leave, external
<1>2. Stored'
  BY <1>0, <1>1, StoredStays DEF Stored, WaitInv
<1> QED
  BY <1>0, <1>1, <1>2 DEF KeptInv, Whole, OthersTyped, PeopleInv, WaysInv, AWayInRemains, LandInv

LEMMA DismissKeeps ==
    ASSUME KeptInv, DismissIntent
    PROVE  KeptInv'
<1>0. Stored /\ LandInv /\ OthersTyped /\ PeopleInv /\ (~Lost => WaysInv)
  BY DEF KeptInv, Whole
<1>1. /\ intent' = Nothing /\ chosen' = Nothing
      /\ UNCHANGED <<joined, linked, held, made, live, privy, profile, list, disk, reading, ready, waiting, due, work, starts, told, saved>>
  BY DEF DismissIntent, external
<1>2. Stored'
  BY <1>0, <1>1, StoredStays DEF Stored, WaitInv
<1> QED
  BY <1>0, <1>1, <1>2 DEF KeptInv, Whole, OthersTyped, PeopleInv, WaysInv, AWayInRemains, LandInv

LEMMA SwitchKeeps ==
    ASSUME KeptInv, NEW k \in Keys, switchToAccount(k)
    PROVE  KeptInv'
<1>0. Stored /\ LandInv /\ OthersTyped /\ PeopleInv /\ (~Lost => WaysInv)
  BY DEF KeptInv, Whole
<1>1. /\ profile' = Nothing /\ privy' = Nothing /\ due' = FALSE /\ told' = FALSE /\ ready
      /\ k \in Entries(list) /\ chosen' = list[k].of
      /\ \E p \in planSwitch(list[k]) : intent' = [key |-> k, passkey |-> p]
      /\ UNCHANGED <<joined, linked, held, made, live, list, disk, reading, ready, waiting, work, starts, saved>>
  BY DEF switchToAccount, Leave, external
<1>2. Stored'
  BY <1>0, <1>1, StoredStays DEF Stored, WaitInv
<1>3. list[k] \in Entry
  BY <1>0, <1>1, ListTyped, EntryOf
<1>4. planSwitch(list[k]) \subseteq Passkeys \cup {Nothing}
  BY <1>3 DEF planSwitch, Entry
<1>5. intent' \in Intents /\ intent'.key = k /\ chosen' \in Accounts /\ chosen' # Nothing
  BY <1>1, <1>3, <1>4, NoneIsApart DEF Intents, Entry
<1>6. OthersTyped'
  BY <1>0, <1>1, <1>5 DEF OthersTyped
<1>7. PeopleInv' /\ (~Lost => WaysInv')
  BY <1>0, <1>1 DEF PeopleInv, WaysInv, AWayInRemains
<1>8. LandInv'
  BY <1>1, <1>5, NoneIsApart DEF LandInv, Fits
<1> QED
  BY <1>2, <1>6, <1>7, <1>8 DEF KeptInv, Whole

LEMMA RemoveAccountKeeps ==
    ASSUME KeptInv, NEW k \in Keys, removeAccountFromDevice(k)
    PROVE  KeptInv'
<1>0. Stored /\ LandInv /\ OthersTyped /\ PeopleInv /\ (~Lost => WaysInv)
  BY DEF KeptInv, Whole
<1>1. /\ ready /\ k \in Entries(list)
      /\ list' = [list EXCEPT ![k] = Nothing] /\ disk' = list'
      /\ saved' = (saved \ {list[k].of}) \cup People(list')
      /\ UNCHANGED <<joined, linked, held, made, live, reading, ready, waiting, intent, work, starts>>
  BY DEF removeAccountFromDevice, external
<1>2. \/ /\ profile' = Nothing /\ privy' = Nothing /\ due' = FALSE /\ told' = FALSE
         /\ chosen' = IF intent = Nothing THEN Nothing ELSE chosen
      \/ UNCHANGED <<profile, privy, due, told, chosen>>
  BY DEF removeAccountFromDevice, Leave
<1>3. ListOK(list, held) /\ reading = Nothing /\ waiting = <<>>
  BY <1>0, <1>1 DEF Stored, ListsInv, WaitInv
<1>4. /\ ListOK(list', held)
      /\ Entries(list') = Entries(list) \ {k}
      /\ \A j \in Entries(list') : list'[j] = list[j]
  <2>1. PICK n : n = [list EXCEPT ![k] = Nothing]
    OBVIOUS
  <2>2. ListOK(n, held)
    BY <1>1, <1>3, <2>1, DropKeeps
  <2>3. Entries(n) = Entries(list) \ {k}
    BY <1>1, <1>3, <2>1, DropKeeps
  <2>4. \A j \in Entries(n) : n[j] = list[j]
    <3>1. list \in [Keys -> Entry \cup {Nothing}]
      BY <1>3 DEF ListOK
    <3>2. \A j \in Keys : j # k => n[j] = list[j]
      BY <2>1, <3>1
    <3> QED
      BY <2>3, <3>2 DEF Entries
  <2>5. list' = n
    BY <1>1, <2>1
  <2> QED
    BY <2>2, <2>3, <2>4, <2>5
<1>5. list' # Nothing /\ People(list') \subseteq Accounts /\ list # Nothing
  BY <1>3, <1>4, PeopleAreUsers
<1>6. StoredTyped'
  BY <1>0, <1>1, <1>5 DEF Stored, StoredTyped
<1>7. ListsInv'
  BY <1>1, <1>3, <1>4 DEF ListsInv
<1>8. WaitInv'
  BY <1>0, <1>1, <1>3 DEF Stored, WaitInv
<1>9. StoreInv'
  <2> SUFFICES ASSUME ~Slow PROVE saved' \subseteq People(list')
    BY <1>1, <1>3, <1>5 DEF StoreInv, Or
  <2>1. saved \subseteq People(list)
    BY <1>3, EmptyIsOK, <1>0 DEF Stored, StoreInv, Or, People
  <2>2. ASSUME NEW u \in People(list), u # list[k].of PROVE u \in People(list')
    <3>1. PICK j \in Entries(list) : list[j].of = u
      BY <1>5, <2>2 DEF People
    <3>2. j \in Entries(list') /\ list'[j].of = u
      BY <1>4, <2>2, <3>1
    <3> QED
      BY <1>5, <3>2 DEF People
  <2> QED
    BY <1>1, <2>1, <2>2
<1>10. Stored'
  BY <1>6, <1>7, <1>8, <1>9 DEF Stored
<1>11. OthersTyped'
  BY <1>0, <1>1, <1>2 DEF OthersTyped
<1>12. PeopleInv' /\ (~Lost => WaysInv')
  BY <1>0, <1>1, <1>2 DEF PeopleInv, WaysInv, AWayInRemains
<1>13. \A j, u : Fits(j, u, list) => Fits(j, u, list')
  BY <1>4 DEF Fits
<1>14. LandInv'
  BY <1>0, <1>1, <1>2, <1>13 DEF LandInv
<1> QED
  BY <1>10, <1>11, <1>12, <1>14 DEF KeptInv, Whole

LEMMA DeleteProfileKeeps ==
    ASSUME KeptInv, NEW heard \in BOOLEAN, deleteAccount(heard)
    PROVE  KeptInv'
<1>0. Stored /\ LandInv /\ OthersTyped /\ PeopleInv /\ (~Lost => WaysInv)
  BY DEF KeptInv, Whole
<1>1. /\ live' = live \ {profile[1]}
      /\ UNCHANGED <<joined, linked, held, made, reading, ready, waiting, intent, work, starts>>
  BY DEF deleteAccount
<1>2. \/ /\ profile' = Nothing /\ privy' = Nothing /\ due' = FALSE /\ told' = FALSE
         /\ chosen' = IF intent = Nothing THEN Nothing ELSE chosen
      \/ UNCHANGED <<profile, privy, due, told, chosen>>
  BY DEF deleteAccount, Leave
<1>3. \/ UNCHANGED <<list, disk, saved>>
      \/ ByUser(list, profile) # {} /\ Put(markProfileDeleted(list, ByUser(list, profile)))
  BY DEF deleteAccount
<1>4. Stored' /\ (intent # Nothing => Fits(intent.key, chosen, list'))
  <2>1. CASE UNCHANGED <<list, disk, saved>>
    <3>1. Stored'
      BY <1>0, <1>1, <2>1, StoredStays DEF Stored, WaitInv
    <3> QED
      BY <1>0, <2>1, <3>1 DEF LandInv
  <2>2. CASE ByUser(list, profile) # {} /\ Put(markProfileDeleted(list, ByUser(list, profile)))
    <3> DEFINE n == markProfileDeleted(list, ByUser(list, profile))
    <3>1. ListOK(list, held)
      BY <1>0 DEF Stored, ListsInv
    <3>2. ListOK(n, held) /\ SameOf(n, list)
      BY <2>2, <3>1, DeletedKeeps
    <3>3. Entries(list) # {} /\ Put(n)
      BY <2>2 DEF ByUser
    <3> HIDE DEF n
    <3>4. Stored' /\ list' = n
      BY <1>0, <1>1, <3>2, <3>3, PutSame DEF Put
    <3>5. intent # Nothing => Fits(intent.key, chosen, n)
      BY <1>0, <3>2, SameFits DEF LandInv
    <3> QED
      BY <3>4, <3>5
  <2> QED
    BY <1>3, <2>1, <2>2
<1>5. OthersTyped'
  BY <1>0, <1>1, <1>2 DEF OthersTyped
<1>6. PeopleInv' /\ (~Lost => WaysInv')
  BY <1>0, <1>1, <1>2 DEF PeopleInv, WaysInv, AWayInRemains
<1>7. LandInv'
  BY <1>0, <1>1, <1>2, <1>4 DEF LandInv
<1> QED
  BY <1>4, <1>5, <1>6, <1>7 DEF KeptInv, Whole

\* While the screen of passkeys is open the entry of whoever is signed in is there.
LEMMA ActiveIsOwn ==
    ASSUME KeptInv, Managing
    PROVE  /\ ready /\ work = Nothing /\ privy # Nothing /\ profile # Nothing
           /\ privy \in ProviderSessions /\ privy.user \in Accounts
           /\ TheKey(Active) \in Entries(list) /\ list[TheKey(Active)].of = privy.user
           /\ list[TheKey(Active)] \in Entry /\ Entered(list[TheKey(Active)], held)
<1>0. Stored /\ OthersTyped /\ PeopleInv
  BY DEF KeptInv, Whole
<1>1. ready /\ work = Nothing /\ privy # Nothing /\ profile # Nothing /\ Active # {}
  BY DEF Managing
<1>2. privy \in ProviderSessions /\ privy.user \in Accounts /\ profile \in Profiles /\ profile[1] = privy.user
  BY <1>0, <1>1 DEF OthersTyped, PeopleInv, ProviderSessions
<1>3. TheKey(Active) \in findAccount(list, privy.user, profile)
  BY <1>1, KeyIsOne DEF Active
<1>4. ListOK(list, held)
  BY <1>0 DEF Stored, ListsInv
<1>5. TheKey(Active) \in Entries(list) /\ list[TheKey(Active)].of = privy.user
  BY <1>2, <1>3, <1>4, FoundIsOwn
<1>6. list[TheKey(Active)] \in Entry /\ Entered(list[TheKey(Active)], held)
  BY <1>4, <1>5, EntryOf DEF ListOK
<1> QED
  BY <1>1, <1>2, <1>5, <1>6

LEMMA AddPasskeyKeeps ==
    ASSUME KeptInv, NEW p \in Passkeys, NEW refreshed \in BOOLEAN, AddPasskey(p, refreshed)
    PROVE  KeptInv'
<1> DEFINE u == privy.user
           k == TheKey(Active)
           n == addPasskeyRecord(list, k, p)
<1>0. Stored /\ LandInv /\ OthersTyped /\ PeopleInv /\ (~Lost => WaysInv)
  BY DEF KeptInv, Whole
<1>1. /\ Managing /\ Owner[p] = u
      /\ linked' = [linked EXCEPT ![u] = @ \cup {p}]
      /\ held' = held \cup {p}
      /\ Put(n)
      /\ privy' = IF refreshed THEN [privy EXCEPT !.ways = linked'[u]] ELSE privy
      /\ due' = (due \/ refreshed)
      /\ UNCHANGED <<joined, made, live, profile, reading, ready, waiting, intent, work, starts, chosen, told>>
  BY DEF AddPasskey
<1>2. /\ ready /\ work = Nothing /\ privy # Nothing /\ profile # Nothing /\ privy \in ProviderSessions /\ u \in Accounts
      /\ k \in Entries(list) /\ list[k].of = u
  BY <1>1, ActiveIsOwn
<1> HIDE DEF u, k
<1>3. ListOK(list, held)
  BY <1>0 DEF Stored, ListsInv
<1>4. ListOK(n, held') /\ SameOf(n, list)
  BY <1>1, <1>2, <1>3, AddKeeps
<1> HIDE DEF n
<1>5. People(n) = People(list)
  BY <1>3, <1>4, PeopleAreUsers, SamePeople
<1>6. Stored'
  BY <1>0, <1>1, <1>2, <1>4, <1>5, PutKeeps
<1>7. /\ linked' \in [Accounts -> SUBSET Ways] /\ linked'[u] = linked[u] \cup {p}
      /\ \A v \in Accounts : v # u => linked'[v] = linked[v]
      /\ \A v \in Accounts : linked[v] \subseteq linked'[v]
  BY <1>0, <1>1, <1>2 DEF OthersTyped, Ways
<1>8. /\ privy' \in ProviderSessions /\ privy'.user = u
      /\ privy'.ways \in {privy.ways, linked'[u]}
  <2>1. CASE refreshed
    BY <1>1, <1>2, <1>7, <2>1 DEF ProviderSessions, u
  <2>2. CASE ~refreshed
    BY <1>1, <1>2, <2>2 DEF u
  <2> QED
    BY <2>1, <2>2
<1>9. OthersTyped'
  <2>1. due' \in BOOLEAN /\ held' \subseteq Passkeys
    BY <1>0, <1>1 DEF OthersTyped
  <2> QED
    BY <1>0, <1>1, <1>7, <1>8, <2>1 DEF OthersTyped
<1>10. PeopleInv'
  <2>1. u \in joined /\ profile[1] = u /\ \A q \in privy.ways \cap Passkeys : Owner[q] = u
    BY <1>0, <1>2 DEF PeopleInv, u
  <2>2. \A v \in Accounts : \A q \in linked'[v] \cap Passkeys : Owner[q] = v
    BY <1>0, <1>1, <1>7 DEF PeopleInv
  <2>3. \A v \in Accounts : linked'[v] # {} => v \in joined
    BY <1>0, <1>7, <2>1 DEF PeopleInv
  <2>4. \A q \in privy'.ways \cap Passkeys : Owner[q] = u
    BY <1>2, <1>8, <2>1, <2>2
  <2> QED
    BY <1>0, <1>1, <1>2, <1>8, <2>1, <2>2, <2>3, <2>4 DEF PeopleInv
<1>11. ~Lost => WaysInv'
  <2> SUFFICES ASSUME ~Lost PROVE WaysInv'
    OBVIOUS
  <2>1. AWayInRemains'
    BY <1>0, <1>1, <1>7 DEF WaysInv, AWayInRemains, OthersTyped
  <2>2. privy.ways \subseteq linked[u]
    BY <1>0, <1>2 DEF WaysInv, u
  <2>3. privy'.ways \subseteq linked'[u]
    BY <1>2, <1>7, <1>8, <2>2
  <2> QED
    BY <1>1, <1>2, <1>8, <2>1, <2>3 DEF WaysInv
<1>12. LandInv'
  <2>1. list' = n
    BY <1>1 DEF Put
  <2>2. intent # Nothing => Fits(intent.key, chosen, n) /\ due'
    BY <1>0, <1>1, <1>2, <1>4, SameFits DEF LandInv
  <2> QED
    BY <1>0, <1>1, <1>2, <2>1, <2>2 DEF LandInv
<1> QED
  BY <1>6, <1>9, <1>10, <1>11, <1>12 DEF KeptInv, Whole

LEMMA TestPasskeyKeeps ==
    ASSUME KeptInv, NEW p \in Passkeys, TestPasskey(p)
    PROVE  KeptInv'
<1> DEFINE k == TheKey(Active)
           n == markPasskeyVerified(list, k, p)
<1>0. Stored /\ LandInv /\ OthersTyped /\ PeopleInv /\ (~Lost => WaysInv)
  BY DEF KeptInv, Whole
<1>1. /\ Managing /\ p \in held /\ Put(n)
      /\ UNCHANGED <<joined, linked, held, made, live, privy, profile, reading, ready, waiting, due, intent, work, starts, chosen, told>>
  BY DEF TestPasskey, external
<1>2. ready /\ k \in Entries(list)
  BY <1>1, ActiveIsOwn
<1> HIDE DEF k
<1>3. ListOK(list, held)
  BY <1>0 DEF Stored, ListsInv
<1>4. ListOK(n, held) /\ SameOf(n, list)
  BY <1>1, <1>2, <1>3, ProofKeeps
<1> HIDE DEF n
<1>5. People(n) = People(list)
  BY <1>3, <1>4, PeopleAreUsers, SamePeople
<1>6. Stored'
  BY <1>0, <1>1, <1>2, <1>4, <1>5, PutKeeps
<1>7. list' = n /\ (intent # Nothing => Fits(intent.key, chosen, n))
  BY <1>0, <1>1, <1>4, SameFits DEF Put, LandInv
<1>8. OthersTyped' /\ PeopleInv' /\ (~Lost => WaysInv')
  BY <1>0, <1>1 DEF OthersTyped, PeopleInv, WaysInv, AWayInRemains
<1>9. LandInv'
  BY <1>0, <1>1, <1>7 DEF LandInv
<1> QED
  BY <1>6, <1>8, <1>9 DEF KeptInv, Whole

LEMMA RemovePasskeyKeeps ==
    ASSUME KeptInv, NEW p \in Passkeys, RemovePasskey(p)
    PROVE  KeptInv'
<1> DEFINE k == TheKey(Active)
<1>0. Stored /\ LandInv /\ OthersTyped /\ PeopleInv /\ (~Lost => WaysInv)
  BY DEF KeptInv, Whole
<1>1. /\ Managing
      /\ assessPasskeyRemoval(privy.ways, p, list[k].verified)
      /\ work' = [user |-> privy.user, passkey |-> p, key |-> k, served |-> FALSE]
      /\ UNCHANGED <<joined, linked, held, made, live, privy, profile, list, disk, reading, ready, waiting, due, intent, starts,
                     chosen, told, saved>>
  BY DEF RemovePasskey, external, history
<1>2. /\ ready /\ work = Nothing /\ privy # Nothing /\ privy \in ProviderSessions /\ privy.user \in Accounts /\ k \in Entries(list)
      /\ list[k].verified \subseteq held
  BY <1>1, ActiveIsOwn DEF Entered
<1>3. k \in Keys
  BY <1>2 DEF Entries
<1> HIDE DEF k
<1>4. Stored'
  BY <1>0, <1>1, <1>2, StoredStays
<1>5. work' \in Removals /\ work'.user = privy.user /\ work'.passkey = p /\ ~work'.served
  BY <1>1, <1>2, <1>3 DEF Removals
<1>6. OthersTyped'
  BY <1>0, <1>1, <1>5 DEF OthersTyped
<1>7. PeopleInv'
  BY <1>0, <1>1, <1>2, <1>5 DEF PeopleInv
<1>8. ~Lost => WaysInv'
  <2> SUFFICES ASSUME ~Lost PROVE WaysInv'
    OBVIOUS
  <2>1. privy.ways \subseteq linked[privy.user]
    BY <1>0, <1>2 DEF WaysInv
  <2>2. (linked[privy.user] \ {p}) \cap (held \cup {Google}) # {}
    BY <1>1, <1>2, <2>1 DEF assessPasskeyRemoval
  <2> QED
    BY <1>0, <1>1, <1>5, <2>1, <2>2 DEF WaysInv, AWayInRemains
<1>9. LandInv'
  BY <1>0, <1>1 DEF LandInv
<1> QED
  BY <1>4, <1>6, <1>7, <1>8, <1>9 DEF KeptInv, Whole

LEMMA UnlinkKeeps ==
    ASSUME KeptInv, Unlink
    PROVE  KeptInv'
<1>0. Stored /\ LandInv /\ OthersTyped /\ PeopleInv /\ (~Lost => WaysInv)
  BY DEF KeptInv, Whole
<1>1. /\ work # Nothing /\ ~work.served
      /\ linked' = [linked EXCEPT ![work.user] = @ \ {work.passkey}]
      /\ work' = [work EXCEPT !.served = TRUE]
      /\ UNCHANGED <<joined, held, made, live, privy, profile, list, disk, reading, ready, waiting, due, intent, starts,
                     chosen, told, saved>>
  BY DEF Unlink, history
<1>2. work \in Removals /\ work.user \in Accounts /\ ready
  BY <1>0, <1>1 DEF OthersTyped, Removals, Stored, WaitInv
<1>3. work' \in Removals /\ work'.user = work.user /\ work'.passkey = work.passkey /\ work'.served
  BY <1>1, <1>2 DEF Removals
<1>4. Stored'
  BY <1>0, <1>1, <1>2, StoredStays
<1>5. /\ linked' \in [Accounts -> SUBSET Ways] /\ linked'[work.user] = linked[work.user] \ {work.passkey}
      /\ \A v \in Accounts : v # work.user => linked'[v] = linked[v]
      /\ \A v \in Accounts : linked'[v] \subseteq linked[v]
  BY <1>0, <1>1, <1>2 DEF OthersTyped
<1>6. OthersTyped'
  BY <1>0, <1>1, <1>3, <1>5 DEF OthersTyped
<1>7. PeopleInv'
  BY <1>0, <1>1, <1>3, <1>5 DEF PeopleInv
<1>8. ~Lost => WaysInv'
  <2> SUFFICES ASSUME ~Lost PROVE WaysInv'
    OBVIOUS
  <2>1. linked'[work.user] \cap (held \cup {Google}) # {}
    BY <1>0, <1>1, <1>5 DEF WaysInv
  <2>2. AWayInRemains'
    <3> SUFFICES ASSUME NEW v \in joined PROVE linked'[v] \cap (held \cup {Google}) # {}
      BY <1>1 DEF AWayInRemains
    <3>1. CASE v = work.user
      BY <2>1, <3>1
    <3>2. CASE v # work.user
      BY <1>0, <1>5, <3>2 DEF WaysInv, AWayInRemains, OthersTyped
    <3> QED
      BY <3>1, <3>2
  <2>3. privy # Nothing => privy.user \in Accounts
    BY <1>0 DEF OthersTyped, ProviderSessions
  <2>4. privy # Nothing => \A w \in privy.ways \ linked'[privy.user] : work.user = privy.user /\ work.passkey = w
    BY <1>0, <1>1, <1>5, <2>3 DEF WaysInv
  <2>5. work' # Nothing
    BY <1>3, NoneIsApart
  <2> QED
    BY <1>1, <1>3, <2>2, <2>4, <2>5 DEF WaysInv
<1>9. LandInv'
  BY <1>0, <1>1 DEF LandInv
<1> QED
  BY <1>4, <1>6, <1>7, <1>8, <1>9 DEF KeptInv, Whole

LEMMA UnlinkedKeeps ==
    ASSUME KeptInv, Unlinked
    PROVE  KeptInv'
<1>0. Stored /\ LandInv /\ OthersTyped /\ PeopleInv /\ (~Lost => WaysInv)
  BY DEF KeptInv, Whole
<1>1. /\ work # Nothing /\ work.served /\ work' = Nothing
      /\ UNCHANGED <<joined, linked, held, made, live, profile, reading, ready, waiting, intent, starts, chosen, told>>
  BY DEF Unlinked, external
<1>2. work \in Removals /\ work.user \in Accounts /\ work.key \in Keys /\ ready
  BY <1>0, <1>1 DEF OthersTyped, Removals, Stored, WaitInv
<1>3. CASE ~(privy # Nothing /\ privy.user = work.user)
  <2>1. UNCHANGED <<privy, list, disk, saved, due>>
    BY <1>3 DEF Unlinked
  <2>2. Stored'
    BY <1>0, <1>1, <2>1, StoredStays
  <2>3. OthersTyped' /\ PeopleInv'
    BY <1>0, <1>1, <2>1 DEF OthersTyped, PeopleInv
  <2>4. ~Lost => WaysInv'
    BY <1>0, <1>1, <1>3, <2>1 DEF WaysInv, AWayInRemains
  <2>5. LandInv'
    BY <1>0, <1>1, <2>1 DEF LandInv
  <2> QED
    BY <2>2, <2>3, <2>4, <2>5 DEF KeptInv, Whole
<1>4. CASE privy # Nothing /\ privy.user = work.user
  <2> DEFINE n == removePasskeyRecord(list, work.key, work.passkey)
  <2>1. /\ privy' = [privy EXCEPT !.ways = linked[work.user]]
        /\ Put(n)
        /\ due' = (due \/ profile # Nothing)
    BY <1>4 DEF Unlinked
  <2>2. ListOK(list, held)
    BY <1>0 DEF Stored, ListsInv
  <2>3. ListOK(n, held) /\ SameOf(n, list)
    BY <1>2, <2>2, RemoveKeeps
  <2> HIDE DEF n
  <2>4. People(n) = People(list)
    BY <2>2, <2>3, PeopleAreUsers, SamePeople
  <2>5. Stored'
    BY <1>0, <1>1, <1>2, <2>1, <2>3, <2>4, PutKeeps
  <2>6. privy \in ProviderSessions
    BY <1>0, <1>4 DEF OthersTyped
  <2>7. linked[work.user] \in SUBSET Ways
    BY <1>0, <1>2 DEF OthersTyped
  <2>8. privy' \in ProviderSessions /\ privy'.user = work.user /\ privy'.ways = linked[work.user]
    BY <1>4, <2>1, <2>6, <2>7 DEF ProviderSessions
  <2>9. OthersTyped'
    <3>1. due' \in BOOLEAN
      BY <1>0, <2>1 DEF OthersTyped
    <3> QED
      BY <1>0, <1>1, <2>8, <3>1 DEF OthersTyped
  <2>10. PeopleInv'
    BY <1>0, <1>1, <1>2, <1>4, <2>8 DEF PeopleInv
  <2>11. ~Lost => WaysInv'
    BY <1>0, <1>1, <2>8 DEF WaysInv, AWayInRemains
  <2>12. LandInv'
    <3>1. list' = n /\ (intent # Nothing => Fits(intent.key, chosen, n))
      BY <1>0, <2>1, <2>3, SameFits DEF Put, LandInv
    <3>2. profile # Nothing => due'
      BY <2>1
    <3> QED
      BY <1>0, <1>1, <3>1, <3>2 DEF LandInv
  <2> QED
    BY <2>5, <2>9, <2>10, <2>11, <2>12 DEF KeptInv, Whole
<1> QED
  BY <1>3, <1>4

LEMMA NotConfirmedKeeps ==
    ASSUME KeptInv, NotConfirmed
    PROVE  KeptInv'
<1>0. Stored /\ LandInv /\ OthersTyped /\ PeopleInv /\ (~Lost => WaysInv)
  BY DEF KeptInv, Whole
<1>1. /\ work # Nothing /\ (Lost \/ ~work.served) /\ work' = Nothing
      /\ UNCHANGED <<joined, linked, held, made, live, privy, profile, list, disk, reading, ready, waiting, due, intent, starts,
                     chosen, told, saved>>
  BY DEF NotConfirmed, external, history
<1>2. Stored'
  BY <1>0, <1>1, StoredStays
<1>3. OthersTyped' /\ PeopleInv' /\ LandInv'
  BY <1>0, <1>1 DEF OthersTyped, PeopleInv, LandInv
<1>4. ~Lost => WaysInv'
  BY <1>0, <1>1 DEF WaysInv, AWayInRemains
<1> QED
  BY <1>2, <1>3, <1>4 DEF KeptInv, Whole

LEMMA LinkElsewhereKeeps ==
    ASSUME KeptInv, NEW p \in Passkeys, LinkElsewhere(p)
    PROVE  KeptInv'
<1> DEFINE u == Owner[p]
<1>0. Stored /\ LandInv /\ OthersTyped /\ PeopleInv /\ (~Lost => WaysInv)
  BY DEF KeptInv, Whole
<1>1. /\ u \in joined
      /\ linked' = [linked EXCEPT ![u] = @ \cup {p}]
      /\ held' \in {held, held \cup {p}}
      /\ UNCHANGED <<joined, made, live, privy, profile, list, disk, reading, ready, waiting, due, intent, work, starts,
                     chosen, told, saved>>
  BY DEF LinkElsewhere, onPhone, history
<1>2. u \in Accounts
  BY AccountsAssumption
<1>3. held \subseteq held' /\ held' \subseteq Passkeys
  BY <1>0, <1>1 DEF OthersTyped
<1>4. Stored'
  BY <1>0, <1>1, <1>3, StoredStays DEF Stored, WaitInv
<1>5. /\ linked' \in [Accounts -> SUBSET Ways] /\ linked'[u] = linked[u] \cup {p}
      /\ \A v \in Accounts : v # u => linked'[v] = linked[v]
      /\ \A v \in Accounts : linked[v] \subseteq linked'[v]
  BY <1>0, <1>1, <1>2 DEF OthersTyped, Ways
<1>6. OthersTyped'
  BY <1>0, <1>1, <1>3, <1>5 DEF OthersTyped
<1>7. PeopleInv'
  <2>1. \A v \in Accounts : \A q \in linked'[v] \cap Passkeys : Owner[q] = v
    BY <1>0, <1>5 DEF PeopleInv
  <2>2. \A v \in Accounts : linked'[v] # {} => v \in joined
    BY <1>0, <1>1, <1>5 DEF PeopleInv
  <2> QED
    BY <1>0, <1>1, <2>1, <2>2 DEF PeopleInv
<1>8. ~Lost => WaysInv'
  <2> SUFFICES ASSUME ~Lost PROVE WaysInv'
    OBVIOUS
  <2>1. AWayInRemains'
    BY <1>0, <1>1, <1>3, <1>5 DEF WaysInv, AWayInRemains, OthersTyped
  <2>2. (privy # Nothing => privy.user \in Accounts) /\ (work # Nothing => work.user \in Accounts)
    BY <1>0 DEF OthersTyped, ProviderSessions, Removals
  <2>3. work # Nothing /\ ~work.served => (linked'[work.user] \ {work.passkey}) \cap (held' \cup {Google}) # {}
    BY <1>0, <1>3, <1>5, <2>2 DEF WaysInv
  <2> QED
    BY <1>0, <1>1, <1>5, <2>1, <2>2, <2>3 DEF WaysInv
<1>9. LandInv'
  BY <1>0, <1>1 DEF LandInv
<1> QED
  BY <1>4, <1>6, <1>7, <1>8, <1>9 DEF KeptInv, Whole

LEMMA RestartKeepsAll ==
    ASSUME KeptInv, Restart
    PROVE  KeptInv'
<1>0. Stored /\ LandInv /\ OthersTyped /\ PeopleInv /\ (~Lost => WaysInv)
  BY DEF KeptInv, Whole
<1>1. /\ starts < MaxStarts /\ starts' = starts + 1
      /\ intent' = Nothing /\ chosen' = Nothing /\ told' = FALSE /\ work' = Nothing
      /\ privy' \in {Nothing} \cup (IF privy = Nothing THEN {} ELSE {[privy EXCEPT !.ways = linked[privy.user]]})
      /\ due' = (profile # Nothing)
      /\ UNCHANGED <<joined, linked, held, made, live, profile>>
  BY DEF Restart, external
<1>2. Stored'
  BY <1>0, RestartKeeps
<1>3. \/ privy' = Nothing
      \/ /\ privy # Nothing /\ privy' \in ProviderSessions /\ privy'.user = privy.user /\ privy'.ways = linked[privy.user]
         /\ privy.user \in Accounts
  <2>1. CASE privy = Nothing
    BY <1>1, <2>1
  <2>2. CASE privy # Nothing
    <3>1. privy \in ProviderSessions /\ privy.user \in Accounts /\ linked[privy.user] \in SUBSET Ways
      BY <1>0, <2>2 DEF OthersTyped, ProviderSessions
    <3> QED
      BY <1>1, <2>2, <3>1 DEF ProviderSessions
  <2> QED
    BY <2>1, <2>2
<1>4. OthersTyped'
  <2>1. starts' \in 0 .. MaxStarts /\ due' \in BOOLEAN
    BY <1>0, <1>1, AccountsAssumption DEF OthersTyped
  <2> QED
    BY <1>0, <1>1, <1>3, <2>1 DEF OthersTyped
<1>5. PeopleInv'
  BY <1>0, <1>1, <1>3 DEF PeopleInv
<1>6. ~Lost => WaysInv'
  BY <1>0, <1>1, <1>3 DEF WaysInv, AWayInRemains
<1>7. LandInv'
  BY <1>1 DEF LandInv
<1> QED
  BY <1>2, <1>4, <1>5, <1>6, <1>7 DEF KeptInv, Whole

LEMMA HydrateKeepsAll ==
    ASSUME KeptInv, Hydrate
    PROVE  KeptInv'
<1>0. Stored /\ LandInv /\ OthersTyped /\ PeopleInv /\ (~Lost => WaysInv)
  BY DEF KeptInv, Whole
<1>1. /\ ~ready /\ UNCHANGED <<joined, linked, held, made, live, privy, profile, due, intent, work, starts, chosen, told>>
  BY DEF Hydrate, external
<1>2. Stored'
  BY <1>0, HydrateKeeps
<1>3. OthersTyped' /\ PeopleInv' /\ (~Lost => WaysInv') /\ LandInv'
  BY <1>0, <1>1 DEF OthersTyped, PeopleInv, WaysInv, AWayInRemains, LandInv
<1> QED
  BY <1>2, <1>3 DEF KeptInv, Whole

LEMMA OverdueKeepsAll ==
    ASSUME KeptInv, Overdue
    PROVE  KeptInv'
<1>0. Stored /\ LandInv /\ OthersTyped /\ PeopleInv /\ (~Lost => WaysInv)
  BY DEF KeptInv, Whole
<1>1. /\ ~ready /\ UNCHANGED <<joined, linked, held, made, live, privy, profile, due, intent, work, starts, chosen, told, ready>>
  BY DEF Overdue, external
<1>2. Stored'
  BY <1>0, OverdueKeeps
<1>3. OthersTyped' /\ PeopleInv' /\ (~Lost => WaysInv') /\ LandInv'
  BY <1>0, <1>1 DEF OthersTyped, PeopleInv, WaysInv, AWayInRemains, LandInv
<1> QED
  BY <1>2, <1>3 DEF KeptInv, Whole

LEMMA KeptInit ==
    ASSUME AccountsInit
    PROVE  KeptInv
<1>1. Stored
  BY StoredInit
<1>2. /\ joined \in SUBSET Accounts
      /\ held \in SUBSET Passkeys
      /\ linked \in [Accounts -> SUBSET Ways]
      /\ \A u \in Accounts :
          /\ \A p \in linked[u] \cap Passkeys : Owner[p] = u
          /\ IF u \in joined THEN linked[u] \cap (held \cup {Google}) # {} ELSE linked[u] = {}
      /\ live \in SUBSET joined
      /\ made = [u \in Accounts |-> IF u \in live THEN 1 ELSE 0]
      /\ profile \in {<<u, 1>> : u \in live} \cup {Nothing}
      /\ privy \in {[user |-> u, ways |-> linked[u]] : u \in {v \in Accounts : profile = <<v, 1>>}} \cup {Nothing}
      /\ due = (profile # Nothing)
      /\ intent = Nothing /\ work = Nothing /\ starts = 1
      /\ chosen = Nothing /\ told = FALSE
  BY DEF AccountsInit
<1>3. MaxProfiles \in Nat \ {0} /\ MaxStarts \in Nat \ {0}
  BY AccountsAssumption
<1>4. made \in [Accounts -> 0 .. MaxProfiles] /\ \A u \in live : made[u] > 0
  BY <1>2, <1>3
<1>5. profile \in Profiles \cup {Nothing} /\ (profile # Nothing => profile[1] \in live /\ profile = <<profile[1], 1>>)
  BY <1>2, <1>3 DEF Profiles
<1>6. privy # Nothing => /\ privy \in ProviderSessions /\ privy.user \in Accounts /\ profile = <<privy.user, 1>>
                      /\ privy.ways = linked[privy.user]
  BY <1>2 DEF ProviderSessions
<1>7. OthersTyped
  <2>1. due \in BOOLEAN /\ starts \in 0 .. MaxStarts
    BY <1>2, <1>3
  <2> QED
    BY <1>2, <1>4, <1>5, <1>6, <2>1 DEF OthersTyped
<1>8. PeopleInv
  <2>1. ASSUME privy # Nothing PROVE privy.user \in joined /\ profile[1] = privy.user
    <3>1. <<privy.user, 1>> \in Profiles
      BY <1>3, <1>6, <2>1 DEF Profiles
    <3>2. profile # Nothing /\ profile[1] = privy.user
      BY <1>6, <2>1, <3>1, NoneIsApart
    <3> QED
      BY <1>2, <1>5, <3>2
  <2> QED
    BY <1>2, <1>4, <1>6, <2>1 DEF PeopleInv
<1>9. WaysInv
  BY <1>2, <1>6 DEF WaysInv, AWayInRemains
<1>10. LandInv
  BY <1>2 DEF LandInv
<1> QED
  BY <1>1, <1>7, <1>8, <1>9, <1>10 DEF KeptInv, Whole

LEMMA KeptStep ==
    ASSUME KeptInv, [AccountsNext]_accountVars
    PROVE  KeptInv'
<1>1. CASE UNCHANGED accountVars
  BY <1>1 DEF accountVars, external, onPhone, history, KeptInv, Stored, StoredTyped, ListsInv, WaitInv, StoreInv,
              Whole, OthersTyped, PeopleInv, WaysInv, AWayInRemains, LandInv
<1>2. CASE \E p \in Passkeys, b \in BOOLEAN : SignInWithPasskey(p, b) \/ AddPasskey(p, b)
  BY <1>2, SignInWithPasskeyKeeps, AddPasskeyKeeps
<1>3. CASE \E p \in Passkeys : SignUp(p) \/ TestPasskey(p) \/ RemovePasskey(p) \/ LinkElsewhere(p)
  BY <1>3, SignUpKeeps, TestPasskeyKeeps, RemovePasskeyKeeps, LinkElsewhereKeeps
<1>4. CASE \E u \in Accounts : SignInWithGoogle(u)
  BY <1>4, SignInWithGoogleKeeps
<1>5. CASE \E k \in Keys : switchToAccount(k) \/ removeAccountFromDevice(k)
  BY <1>5, SwitchKeeps, RemoveAccountKeeps
<1>6. CASE \E heard \in BOOLEAN : deleteAccount(heard)
  BY <1>6, DeleteProfileKeeps
<1>7. CASE OpenSession \/ Sync \/ SignOut \/ startAddingAccount \/ DismissIntent
  BY <1>7, OpenSessionKeeps, SyncKeeps, SignOutKeeps, StartAddingKeeps, DismissKeeps
<1>8. CASE Unlink \/ Unlinked \/ NotConfirmed
  BY <1>8, UnlinkKeeps, UnlinkedKeeps, NotConfirmedKeeps
<1>9. CASE Restart \/ Hydrate \/ Overdue
  BY <1>9, RestartKeepsAll, HydrateKeepsAll, OverdueKeepsAll
<1> QED
  BY <1>1, <1>2, <1>3, <1>4, <1>5, <1>6, <1>7, <1>8, <1>9 DEF AccountsNext

LEMMA KeptAlwaysHolds == AccountsSpec => []KeptInv
<1>1. AccountsInit => KeptInv
  BY KeptInit
<1>2. KeptInv /\ [AccountsNext]_accountVars => KeptInv'
  BY KeptStep
<1> QED
  BY <1>1, <1>2, PTL DEF AccountsSpec

\* The shape of what the phone and the provider keep.
THEOREM AccountsTypeCorrect == AccountsSpec => []AccountsTypeOK
<1>1. KeptInv => AccountsTypeOK
  BY InvTyped
<1> QED
  BY <1>1, KeptAlwaysHolds, PTL

\* useAccountRegistryStore.ts and accountRegistry.ts: while a stored list is there within five seconds (`~Slow`,
\* without which it is false), sign-ins, switches, deletions, kills and waiting writes forget no account,
\* and leave no identifier on two entries.
THEOREM AccountsAlwaysKept ==
    ASSUME ~Slow PROVE AccountsSpec => []AccountsAreKept
<1>1. ASSUME KeptInv PROVE AccountsAreKept
  <2>0. Stored
    BY <1>1 DEF KeptInv
  <2>1. ASSUME NEW l \in {list, disk} \ {Nothing} PROVE ListOK(l, held)
    BY <2>0, <2>1 DEF Stored, ListsInv
  <2>2. EntriesAreAccounts
    <3> SUFFICES ASSUME NEW l \in {list, disk} \ {Nothing}
                 PROVE  /\ \A j, k \in Entries(l) :
                              j # k => /\ l[j].privy = Nothing \/ l[j].privy # l[k].privy
                                       /\ l[j].user = Nothing \/ l[j].user # l[k].user
                        /\ \A k \in Entries(l) :
                              /\ l[k].privy \in {Nothing, l[k].of}
                              /\ l[k].user # Nothing => l[k].user[1] = l[k].of
                              /\ \A p \in l[k].passkeys : Owner[p] = l[k].of
      BY DEF EntriesAreAccounts
    <3>1. Distinct(l) /\ \A k \in Entries(l) : Entered(l[k], held)
      BY <2>1 DEF ListOK
    <3> QED
      BY <3>1 DEF Distinct, Entered
  <2>3. NoAccountIsForgotten
    BY <2>0 DEF Stored, StoreInv, NoAccountIsForgotten
  <2> QED
    BY <2>2, <2>3 DEF AccountsAreKept
<1> QED
  BY <1>1, KeptAlwaysHolds, PTL

\* loginMethods.ts: however passkeys are added, tested and removed, here and on other devices, whoever could
\* sign in on this phone still can, if a removal whose answer is lost was not made (`~Lost`, without which it is false).
THEOREM AWayInAlways ==
    ASSUME ~Lost PROVE AccountsSpec => []AWayInRemains
<1>1. KeptInv => AWayInRemains
  BY DEF KeptInv, Whole, WaysInv
<1> QED
  BY <1>1, KeptAlwaysHolds, PTL

\* accountActions.ts: whoever chose one account and landed in another was told, however the switch was interrupted.
THEOREM LandingsAreTold == AccountsSpec => []LandingIsTold
<1>1. ASSUME KeptInv PROVE LandingIsTold
  BY <1>1 DEF KeptInv, Whole, LandInv, LandingIsTold
<1> QED
  BY <1>1, KeptAlwaysHolds, PTL
=============================================================================
