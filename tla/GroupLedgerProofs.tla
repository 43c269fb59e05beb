------------------------- MODULE GroupLedgerProofs --------------------------
(***************************************************************************)
(* What GroupMembers and GroupLedger promise for any number of users,      *)
(* groups, debts, quotes, payments and requests that overlap.              *)
(*                                                                         *)
(* Members.  A creation writes its rows after its checks, and would        *)
(* overwrite whatever the group had become meanwhile: CreatedOnce says     *)
(* that nothing happens to the identifier of a group that is being         *)
(* created.                                                                *)
(*                                                                         *)
(* Debts.  What a request checked before its transaction is still so when  *)
(* it writes (WorkInv), since a quote and a payment never change; and a    *)
(* quote adds up its shares as long as they are there (QuoteInv).          *)
(***************************************************************************)
EXTENDS GroupLedger, SumTheorems

Creating(c) == call[c] # None /\ call[c].kind = "create"

CreatedOnce ==
    /\ \A c \in Calls : Creating(c) => call[c].group \in Groups /\ creator[call[c].group] = None
    /\ \A c, d \in Calls : Creating(c) /\ Creating(d) /\ call[c].group = call[d].group => c = d

\* The requests that name a group name one of Groups.
GroupsNamed ==
    \A c \in Calls : call[c] # None /\ call[c].kind # "sweep" => call[c].group \in Groups

MembersInv == MembersTypeOK /\ CreatedOnce /\ GroupsNamed /\ CreatorBelongs

LEMMA InitHolds == Init => MembersInv
  BY MembersAssumption DEF Init, MembersInv, MembersTypeOK, CreatedOnce, Creating,
     GroupsNamed, CreatorBelongs

\* A request that begins touches nothing but its own slot.
LEMMA BeginKeeps ==
  ASSUME NEW c \in Calls, NEW kind \in {"add", "accept"}, NEW u \in Users, NEW g \in Groups,
         NEW S \in SUBSET Users, MembersInv, Begin(c, kind, u, g, S)
  PROVE  MembersInv'
<1>1. [kind |-> kind, user |-> u, group |-> g, whom |-> S] \in Call
  BY DEF Call
<1>2. MembersTypeOK'
  BY <1>1 DEF MembersInv, MembersTypeOK, Begin, people, rolls
<1>3. \A d \in Calls : d # c => call'[d] = call[d]
  BY DEF Begin, MembersInv, MembersTypeOK
<1>4. call'[c] = [kind |-> kind, user |-> u, group |-> g, whom |-> S]
  BY DEF Begin, MembersInv, MembersTypeOK
<1>5. CreatedOnce' /\ GroupsNamed'
  BY <1>3, <1>4 DEF MembersInv, CreatedOnce, GroupsNamed, Creating, Begin, rolls
<1>6. CreatorBelongs'
  BY DEF MembersInv, CreatorBelongs, Begin, rolls
<1> QED  BY <1>2, <1>5, <1>6 DEF MembersInv

\* A request that ends frees its slot; the rolls must be seen to separately.
LEMMA EndKeeps ==
  ASSUME NEW c \in Calls, MembersInv, End(c), UNCHANGED creator
  PROVE  /\ call' \in [Calls -> Call \union {None}]
         /\ CreatedOnce' /\ GroupsNamed'
<1>1. \A d \in Calls : call'[d] = IF d = c THEN None ELSE call[d]
  BY DEF End, MembersInv, MembersTypeOK
<1> QED  BY <1>1 DEF End, MembersInv, MembersTypeOK, CreatedOnce, GroupsNamed, Creating

\* The members, guests and inviters of every group after any step that ends nothing
\* more than guests' rows.
LEMMA GuestsGo ==
  ASSUME MembersInv, UNCHANGED <<gone, blocks, creator, closed, invitedBy>>,
         status' \in [Groups -> [Users -> {"none", "invited", "active"}]],
         \A g \in Groups, u \in Users :
            status'[g][u] # status[g][u] => status'[g][u] = "none" /\ creator[g] # u,
         call' \in [Calls -> Call \union {None}]
  PROVE  MembersTypeOK' /\ CreatorBelongs'
<1>1. MembersTypeOK'
  BY DEF MembersInv, MembersTypeOK
<1>2. CreatorBelongs'
  <2> SUFFICES ASSUME NEW g \in Groups, creator[g] # None
               PROVE  status'[g][creator[g]] = "active"
    BY DEF CreatorBelongs
  <2>1. creator[g] \in Users /\ status[g][creator[g]] = "active"
    BY DEF MembersInv, MembersTypeOK, CreatorBelongs
  <2> QED  BY <2>1
<1> QED  BY <1>1, <1>2

LEMMA CreateReadKeeps ==
  ASSUME NEW c \in Calls, NEW u \in Users, NEW g \in Groups, NEW S \in SUBSET Users,
         MembersInv, CreateRead(c, u, g, S)
  PROVE  MembersInv'
<1>1. [kind |-> "create", user |-> u, group |-> g, whom |-> S] \in Call
  BY DEF Call
<1>2. /\ call' = [call EXCEPT ![c] = [kind |-> "create", user |-> u, group |-> g, whom |-> S]]
      /\ UNCHANGED <<gone, blocks, creator, closed, status, invitedBy>>
  BY DEF CreateRead, Begin, people, rolls
<1>3. MembersTypeOK' /\ CreatorBelongs'
  BY <1>1, <1>2 DEF MembersInv, MembersTypeOK, CreatorBelongs
<1>4. \A d \in Calls : call'[d] = IF d = c
          THEN [kind |-> "create", user |-> u, group |-> g, whom |-> S] ELSE call[d]
  BY <1>2 DEF MembersInv, MembersTypeOK
<1>5. CreatedOnce'
  BY <1>2, <1>4 DEF MembersInv, CreatedOnce, Creating, CreateRead
<1>6. GroupsNamed'
  BY <1>4 DEF MembersInv, GroupsNamed
<1> QED  BY <1>3, <1>5, <1>6 DEF MembersInv

LEMMA CreateWriteKeeps ==
  ASSUME NEW c \in Calls, MembersInv, CreateWrite(c)
  PROVE  MembersInv'
<1> DEFINE u == call[c].user
           g == call[c].group
           S == call[c].whom
<1>1. call[c] \in Call /\ u \in Users /\ S \in SUBSET Users /\ g \in Groups /\ creator[g] = None
  BY DEF CreateWrite, MembersInv, MembersTypeOK, CreatedOnce, Creating, Call
<1>2. /\ creator' = [creator EXCEPT ![g] = u]
      /\ status' = [status EXCEPT ![g] =
                      [v \in Users |-> IF v = u THEN "active"
                                       ELSE IF v \in S THEN "invited" ELSE "none"]]
      /\ invitedBy' = [invitedBy EXCEPT ![g] = [v \in Users |-> IF v \in S THEN u ELSE None]]
      /\ call' = [call EXCEPT ![c] = None]
      /\ UNCHANGED <<gone, blocks, closed>>
  BY DEF CreateWrite, End, people
<1> HIDE DEF u, g, S
<1>3. MembersTypeOK'
  BY <1>1, <1>2, MembersAssumption DEF MembersInv, MembersTypeOK
<1>4. \A d \in Calls : call'[d] = IF d = c THEN None ELSE call[d]
  BY <1>2 DEF MembersInv, MembersTypeOK
<1>5. \A d \in Calls : Creating(d) /\ d # c => call[d].group # g
  BY <1>1 DEF MembersInv, CreatedOnce, Creating, CreateWrite, g
<1>6. CreatedOnce' /\ GroupsNamed'
  BY <1>1, <1>2, <1>4, <1>5 DEF MembersInv, MembersTypeOK, CreatedOnce, GroupsNamed, Creating
<1>7. CreatorBelongs'
  BY <1>1, <1>2 DEF MembersInv, MembersTypeOK, CreatorBelongs
<1> QED  BY <1>3, <1>6, <1>7 DEF MembersInv

LEMMA AddWriteKeeps ==
  ASSUME NEW c \in Calls, MembersInv, AddWrite(c)
  PROVE  MembersInv'
<1> DEFINE u == call[c].user
           g == call[c].group
           S == call[c].whom
<1>1. u \in Users /\ S \in SUBSET Users /\ g \in Groups
  BY DEF AddWrite, MembersInv, MembersTypeOK, GroupsNamed, Call
<1>2. End(c) /\ UNCHANGED <<gone, blocks, creator, closed>>
  BY DEF AddWrite, people
<1>3. CreatedOnce' /\ GroupsNamed' /\ call' \in [Calls -> Call \union {None}]
  BY <1>2, EndKeeps
<1>4. CASE ~\A v \in S : status[g][v] = "none"
  <2>1. UNCHANGED <<status, invitedBy>>
    BY <1>4 DEF AddWrite
  <2> QED  BY <1>2, <1>3, <2>1 DEF MembersInv, MembersTypeOK, CreatorBelongs
<1>5. CASE \A v \in S : status[g][v] = "none"
  <2>1. /\ status' = [status EXCEPT ![g] =
                        [v \in Users |-> IF v \in S THEN "invited" ELSE status[g][v]]]
        /\ invitedBy' = [invitedBy EXCEPT ![g] =
                           [v \in Users |-> IF v \in S THEN u ELSE invitedBy[g][v]]]
    BY <1>5 DEF AddWrite, Invited
  <2> HIDE DEF u, g, S
  <2>2. MembersTypeOK'
    BY <1>1, <1>2, <1>3, <2>1, MembersAssumption DEF MembersInv, MembersTypeOK
  <2>3. CreatorBelongs'
    BY <1>1, <1>2, <1>5, <2>1 DEF MembersInv, MembersTypeOK, CreatorBelongs
  <2> QED  BY <1>3, <2>2, <2>3 DEF MembersInv
<1> QED  BY <1>4, <1>5

LEMMA AcceptWriteKeeps ==
  ASSUME NEW c \in Calls, MembersInv, AcceptWrite(c)
  PROVE  MembersInv'
<1> DEFINE u == call[c].user
           g == call[c].group
<1>1. u \in Users /\ g \in Groups
  BY DEF AcceptWrite, MembersInv, MembersTypeOK, GroupsNamed, Call
<1>2. End(c) /\ UNCHANGED <<gone, blocks, creator, closed, invitedBy>>
  BY DEF AcceptWrite, people
<1>3. CreatedOnce' /\ GroupsNamed' /\ call' \in [Calls -> Call \union {None}]
  BY <1>2, EndKeeps
<1>4. status' = [status EXCEPT ![g][u] = IF @ = "none" THEN @ ELSE "active"]
  BY DEF AcceptWrite
<1> HIDE DEF u, g
<1>5. \A h \in Groups, v \in Users :
         status'[h][v] = IF h = g /\ v = u /\ status[h][v] # "none" THEN "active" ELSE status[h][v]
  BY <1>1, <1>4 DEF MembersInv, MembersTypeOK
<1>6. status' \in [Groups -> [Users -> {"none", "invited", "active"}]]
  BY <1>1, <1>4 DEF MembersInv, MembersTypeOK
<1>7. MembersTypeOK'
  BY <1>2, <1>3, <1>5, <1>6 DEF MembersInv, MembersTypeOK
<1>8. CreatorBelongs'
  BY <1>2, <1>5 DEF MembersInv, MembersTypeOK, CreatorBelongs
<1> QED  BY <1>3, <1>7, <1>8 DEF MembersInv

LEMMA DeclineKeeps ==
  ASSUME NEW u \in Users, NEW g \in Groups, MembersInv, Decline(u, g)
  PROVE  MembersInv'
<1>1. UNCHANGED <<gone, blocks, creator, closed, invitedBy, call>>
  BY DEF Decline, people
<1>2. status' \in [Groups -> [Users -> {"none", "invited", "active"}]]
  BY DEF Decline, MembersInv, MembersTypeOK
<1>3. \A h \in Groups, v \in Users :
         status'[h][v] # status[h][v] => status'[h][v] = "none" /\ creator[h] # v
  BY MembersAssumption DEF Decline, MembersInv, MembersTypeOK, CreatorBelongs
<1>4. MembersTypeOK' /\ CreatorBelongs'
  BY <1>1, <1>2, <1>3, GuestsGo DEF MembersInv, MembersTypeOK
<1> QED  BY <1>1, <1>4 DEF MembersInv, CreatedOnce, GroupsNamed, Creating

LEMMA BlockKeeps ==
  ASSUME NEW c \in Calls, NEW u \in Users, NEW v \in Users, MembersInv, Block(c, u, v)
  PROVE  MembersInv'
<1>1. [kind |-> "sweep", user |-> u, group |-> None, whom |-> {v}] \in Call
  BY DEF Call
<1>2. /\ call' = [call EXCEPT ![c] = [kind |-> "sweep", user |-> u, group |-> None, whom |-> {v}]]
      /\ blocks' = blocks \union {<<u, v>>}
      /\ UNCHANGED <<gone, creator, closed, status, invitedBy>>
  BY DEF Block, rolls
<1>3. MembersTypeOK' /\ CreatorBelongs'
  BY <1>1, <1>2 DEF MembersInv, MembersTypeOK, CreatorBelongs
<1>4. \A d \in Calls : call'[d] = IF d = c
          THEN [kind |-> "sweep", user |-> u, group |-> None, whom |-> {v}] ELSE call[d]
  BY <1>2 DEF MembersInv, MembersTypeOK
<1>5. CreatedOnce' /\ GroupsNamed'
  BY <1>2, <1>4 DEF MembersInv, CreatedOnce, GroupsNamed, Creating
<1> QED  BY <1>3, <1>5 DEF MembersInv

LEMMA BlockSweepKeeps ==
  ASSUME NEW c \in Calls, MembersInv, BlockSweep(c)
  PROVE  MembersInv'
<1> DEFINE u == call[c].user
           v == CHOOSE w \in call[c].whom : TRUE
<1>1. End(c) /\ UNCHANGED <<gone, blocks, creator, closed, invitedBy>>
  BY DEF BlockSweep, people
<1>2. CreatedOnce' /\ GroupsNamed' /\ call' \in [Calls -> Call \union {None}]
  BY <1>1, EndKeeps
<1>3. status' = [g \in Groups |-> [x \in Users |->
                    IF x \in Swept(u, v, g) /\ status[g][x] = "invited"
                    THEN "none" ELSE status[g][x]]]
  BY DEF BlockSweep
<1> HIDE DEF u, v
<1>4. status' \in [Groups -> [Users -> {"none", "invited", "active"}]]
  BY <1>3 DEF MembersInv, MembersTypeOK
<1>5. \A h \in Groups, w \in Users :
         status'[h][w] # status[h][w] => status'[h][w] = "none" /\ status[h][w] = "invited"
  BY <1>3
<1>6. \A h \in Groups, w \in Users : status[h][w] = "invited" => creator[h] # w
  BY MembersAssumption DEF MembersInv, MembersTypeOK, CreatorBelongs
<1>7. MembersTypeOK' /\ CreatorBelongs'
  BY <1>1, <1>2, <1>4, <1>5, <1>6, GuestsGo
<1> QED  BY <1>2, <1>7 DEF MembersInv

LEMMA RemoveMemberKeeps ==
  ASSUME NEW u \in Users, NEW v \in Users, NEW g \in Groups, MembersInv, RemoveMember(u, v, g)
  PROVE  MembersInv'
<1>1. UNCHANGED <<gone, blocks, creator, closed, invitedBy, call>>
  BY DEF RemoveMember, people
<1>2. status' \in [Groups -> [Users -> {"none", "invited", "active"}]]
  BY DEF RemoveMember, MembersInv, MembersTypeOK
<1>3. \A h \in Groups, w \in Users :
         status'[h][w] # status[h][w] => status'[h][w] = "none" /\ creator[h] # w
  BY DEF RemoveMember, MayRemove, MembersInv, MembersTypeOK
<1>4. MembersTypeOK' /\ CreatorBelongs'
  BY <1>1, <1>2, <1>3, GuestsGo DEF MembersInv, MembersTypeOK
<1> QED  BY <1>1, <1>4 DEF MembersInv, CreatedOnce, GroupsNamed, Creating

LEMMA DeleteAccountKeeps ==
  ASSUME NEW u \in Users, MembersInv, DeleteAccount(u)
  PROVE  MembersInv'
<1>1. /\ gone' = gone \union {u}
      /\ blocks' = {b \in blocks : u \notin {b[1], b[2]}}
      /\ UNCHANGED <<closed, status, invitedBy, call>>
  BY DEF DeleteAccount
<1>2. PICK heir \in [Groups -> Users] :
         /\ \A g \in Groups : heir[g] \in Heirs(g, u) \/ Heirs(g, u) = {}
         /\ creator' = [g \in Groups |-> IF creator[g] = u /\ Heirs(g, u) # {}
                                         THEN heir[g] ELSE creator[g]]
  BY DEF DeleteAccount
<1>3. creator' \in [Groups -> Users \union {None}]
  BY <1>2 DEF MembersInv, MembersTypeOK
<1>4. MembersTypeOK'
  BY <1>1, <1>3 DEF MembersInv, MembersTypeOK
<1>5. CreatorBelongs'
  <2> SUFFICES ASSUME NEW g \in Groups, creator'[g] # None
               PROVE  status[g][creator'[g]] = "active"
    BY <1>1 DEF CreatorBelongs
  <2>1. CASE creator[g] = u /\ Heirs(g, u) # {}
    <3>1. creator'[g] = heir[g] /\ heir[g] \in Heirs(g, u)
      BY <1>2, <2>1
    <3> QED  BY <3>1 DEF Heirs
  <2>2. CASE ~(creator[g] = u /\ Heirs(g, u) # {})
    <3>1. creator'[g] = creator[g]
      BY <1>2, <2>2
    <3> QED  BY <3>1 DEF MembersInv, CreatorBelongs
  <2> QED  BY <2>1, <2>2
<1>6. \A g \in Groups : creator[g] = None => creator'[g] = None
  BY <1>2, MembersAssumption
<1>7. CreatedOnce' /\ GroupsNamed'
  BY <1>1, <1>6 DEF MembersInv, CreatedOnce, GroupsNamed, Creating
<1> QED  BY <1>4, <1>5, <1>7 DEF MembersInv

LEMMA NextKeeps == MembersInv /\ [Next]_mvars => MembersInv'
<1> SUFFICES ASSUME MembersInv, [Next]_mvars PROVE MembersInv'
  OBVIOUS
<1>1. CASE UNCHANGED mvars
  BY <1>1 DEF mvars, people, rolls, MembersInv, MembersTypeOK, CreatedOnce, GroupsNamed,
     Creating, CreatorBelongs
<1>2. CASE Social
  <2>1. ASSUME NEW c \in Calls, NEW u \in Users, NEW g \in Groups, NEW S \in SUBSET Users,
               CreateRead(c, u, g, S)
        PROVE  MembersInv'
    BY <2>1, CreateReadKeeps
  <2>2. ASSUME NEW c \in Calls, NEW u \in Users, NEW g \in Groups, NEW S \in SUBSET Users,
               AddRead(c, u, g, S)
        PROVE  MembersInv'
    <3>1. Begin(c, "add", u, g, {v \in S : status[g][v] = "none"})
      BY <2>2 DEF AddRead
    <3>2. {v \in S : status[g][v] = "none"} \in SUBSET Users
      OBVIOUS
    <3> QED  BY <3>1, <3>2, BeginKeeps
  <2>3. ASSUME NEW c \in Calls, NEW u \in Users, NEW g \in Groups, AcceptRead(c, u, g)
        PROVE  MembersInv'
    BY <2>3, BeginKeeps DEF AcceptRead
  <2>4. ASSUME NEW c \in Calls, Abort(c)
        PROVE  MembersInv'
    <3>1. End(c) /\ UNCHANGED <<gone, blocks, creator, closed, status, invitedBy>>
      BY <2>4 DEF Abort, people, rolls
    <3>2. CreatedOnce' /\ GroupsNamed' /\ call' \in [Calls -> Call \union {None}]
      BY <3>1, EndKeeps
    <3> QED  BY <3>1, <3>2 DEF MembersInv, MembersTypeOK, CreatorBelongs
  <2>5. ASSUME NEW u \in Users, NEW v \in Users, Unblock(u, v)
        PROVE  MembersInv'
    BY <2>5 DEF Unblock, rolls, MembersInv, MembersTypeOK, CreatedOnce, GroupsNamed,
       Creating, CreatorBelongs
  <2> QED
    BY <1>2, <2>1, <2>2, <2>3, <2>4, <2>5, CreateWriteKeeps, AddWriteKeeps, AcceptWriteKeeps,
       DeclineKeeps, BlockKeeps, BlockSweepKeeps, MembersAssumption DEF Social
<1>3. CASE \E u, v \in Users, g \in Groups : RemoveMember(u, v, g)
  BY <1>3, RemoveMemberKeeps
<1>4. CASE \E u \in Users, g \in Groups : DeleteGroup(u, g)
  BY <1>4 DEF DeleteGroup, people, MembersInv, MembersTypeOK, CreatedOnce, GroupsNamed,
     Creating, CreatorBelongs
<1>5. CASE \E u \in Users : DeleteAccount(u)
  BY <1>5, DeleteAccountKeeps
<1> QED  BY <1>1, <1>2, <1>3, <1>4, <1>5 DEF Next

THEOREM MembersInvariant == Spec => []MembersInv
  BY InitHolds, NextKeeps, PTL DEF Spec

\* The rows of groups, invitations and blocks keep their shape, and every invitation
\* names its sender, however many requests overlap.
THEOREM MembersTypeCorrect == Spec => []MembersTypeOK
<1>1. MembersInv => MembersTypeOK
  BY DEF MembersInv
<1> QED  BY <1>1, MembersInvariant, PTL

\* Whoever administers a group belongs to it, through removals, refusals, blocks,
\* successions and creations that overlap (removeMember, deleteAccount).
THEOREM CreatorIsMember == Spec => []CreatorBelongs
<1>1. MembersInv => CreatorBelongs
  BY DEF MembersInv
<1> QED  BY <1>1, MembersInvariant, PTL

\* Nobody becomes a member of a group without having been invited to it, unless by
\* creating it (acceptInvitation, createGroup).
THEOREM NobodyPutInGroups == Spec => NobodyJoinsUninvited
<1> DEFINE Joins ==
      \A g \in Groups, u \in Users :
          status[g][u] # "active" /\ status'[g][u] = "active"
             => status[g][u] = "invited" \/ creator[g] = None
<1>1. MembersInv /\ [Next]_mvars => [Joins]_mvars
  <2> SUFFICES ASSUME MembersInv, Next, NEW g \in Groups, NEW u \in Users,
                      status[g][u] # "active", status'[g][u] = "active"
               PROVE  status[g][u] = "invited" \/ creator[g] = None
    OBVIOUS
  <2>1. \A c \in Calls : CreateWrite(c) => call[c].group \in Groups /\ creator[call[c].group] = None
    BY DEF CreateWrite, MembersInv, CreatedOnce, Creating
  <2>2. ASSUME NEW c \in Calls, CreateWrite(c)
        PROVE  creator[g] = None
    <3>1. call[c].group # g => status'[g] = status[g]
      BY <2>2 DEF CreateWrite, MembersInv, MembersTypeOK
    <3> QED  BY <2>1, <2>2, <3>1
  <2>3. ASSUME NEW c \in Calls, AddWrite(c)
        PROVE  FALSE
    <3>1. call[c].group \in Groups
      BY <2>3 DEF AddWrite, MembersInv, GroupsNamed
    <3> QED  BY <2>3, <3>1 DEF AddWrite, Invited, MembersInv, MembersTypeOK
  <2>4. ASSUME NEW c \in Calls, AcceptWrite(c)
        PROVE  status[g][u] = "invited"
    <3>1. call[c].group \in Groups /\ call[c].user \in Users
      BY <2>4 DEF AcceptWrite, MembersInv, MembersTypeOK, GroupsNamed, Call
    <3>2. status'[g][u] = status[g][u] \/ status[g][u] # "none"
      BY <2>4, <3>1 DEF AcceptWrite, MembersInv, MembersTypeOK
    <3> QED  BY <3>2 DEF MembersInv, MembersTypeOK
  <2>5. ASSUME NEW c \in Calls, BlockSweep(c)
        PROVE  FALSE
    BY <2>5 DEF BlockSweep
  <2>6. ASSUME NEW v \in Users, NEW h \in Groups, Decline(v, h)
        PROVE  FALSE
    BY <2>6 DEF Decline, MembersInv, MembersTypeOK
  <2>7. ASSUME NEW v \in Users, NEW w \in Users, NEW h \in Groups, RemoveMember(v, w, h)
        PROVE  FALSE
    BY <2>7 DEF RemoveMember, MembersInv, MembersTypeOK
  <2>8. UNCHANGED status => FALSE
    OBVIOUS
  <2> QED
    BY <2>2, <2>3, <2>4, <2>5, <2>6, <2>7, <2>8, MembersAssumption
    DEF Next, Social, CreateRead, AddRead, AcceptRead, Begin, Block, Unblock, Abort,
        DeleteGroup, DeleteAccount, rolls
<1> QED  BY <1>1, MembersInvariant, PTL DEF Spec, NobodyJoinsUninvited

-----------------------------------------------------------------------------
(* The ledger: what else is true in every state.                           *)

\* Nothing that GroupLedger does founds a group.
GroupsStand == \A g \in Groups : creator[g] # None

\* What is open asks for something, of somebody else than the payer.
ShareInv ==
    \A s \in Shares : share[s] # None =>
        /\ ~share[s].settled => share[s].amount > 0 /\ s[2] # expense[s[1]].payer
        /\ share[s].by # None => share[s].settled /\ s[2] # expense[s[1]].payer

\* The share s is, or was, a debt that the quote q is about.
IsDebt(s, q) ==
    /\ expense[s[1]] # None
    /\ expense[s[1]].group = quote[q].group
    /\ s[2] = quote[q].from /\ expense[s[1]].payer = quote[q].to

QuoteInv ==
    \A q \in Quotes : quote[q] # None =>
        /\ quote[q].from # quote[q].to
        /\ \A s \in quote[q].shares : IsDebt(s, q)
        /\ (\A s \in quote[q].shares : share[s] # None) => Total(quote[q].shares) = quote[q].amount

\* Only a payment that was made is used, only an expense that was added is deleted.
MadeInv ==
    /\ \A t \in Payments : use[t] # None => payment[t] # None
    /\ \A e \in Expenses : e \in dropped => expense[e] # None

Does(h, kind) == work[h] # None /\ work[h].kind = kind

\* What was read is still so; and the identifier of a quote is given out once.
WorkInv ==
    /\ \A h \in Handlers : Does(h, "quote") =>
          /\ quote[work[h].quote] = None /\ work[h].from # work[h].to
          /\ \A o \in Handlers : Does(o, "quote") /\ work[o].quote = work[h].quote => o = h
    /\ \A h \in Handlers : Does(h, "settle") =>
          quote[work[h].quote] # None /\ Pays(work[h].payment, work[h].quote)
    /\ \A h \in Handlers : Does(h, "confirm") =>
          /\ request[work[h].request] # None
          /\ PaidInTime(work[h].payment, request[work[h].request].creator, request[work[h].request])

BooksInv ==
    /\ GroupsStand /\ ShareInv /\ QuoteInv /\ MadeInv
    /\ MembersOwe /\ ClosedIsSquare /\ QuotesStand /\ SettledMeansPaid /\ OneReceiptOneDebt

LedgerInv == MembersInv /\ LedgerTypeOK /\ WorkInv /\ BooksInv

-----------------------------------------------------------------------------
(* Adding up.                                                              *)

AmountOf(rows, S) == [s \in S |-> rows[s].amount]

LEMMA AmountsAddUp ==
    ASSUME NEW rows, NEW S, IsFiniteSet(S)
    PROVE  (CHOOSE g : g = [s \in SUBSET S |-> IF s = {} THEN 0
                                ELSE rows[CHOOSE x \in s : TRUE].amount + g[s \ {CHOOSE x \in s : TRUE}]])[S]
           = SumOver(AmountOf(rows, S), S)
<1> DEFINE P(g) == g = [s \in SUBSET S |-> IF s = {} THEN 0
                                ELSE rows[CHOOSE x \in s : TRUE].amount + g[s \ {CHOOSE x \in s : TRUE}]]
<1>1. ASSUME NEW g PROVE P(g) <=> IsTable(g, AmountOf(rows, S), S)
  <2>1. \A s \in SUBSET S : s # {} => AmountOf(rows, S)[FirstOf(s)] = rows[CHOOSE x \in s : TRUE].amount
    BY DEF AmountOf, FirstOf
  <2>2. [s \in SUBSET S |-> IF s = {} THEN 0
             ELSE rows[CHOOSE x \in s : TRUE].amount + g[s \ {CHOOSE x \in s : TRUE}]]
      = [s \in SUBSET S |-> IF s = {} THEN 0 ELSE AmountOf(rows, S)[FirstOf(s)] + g[s \ {FirstOf(s)}]]
    BY <2>1 DEF FirstOf
  <2> QED
    BY <2>2 DEF IsTable
<1> HIDE DEF P
<1>2. \E g : P(g)
  BY <1>1, TableExists
<1>3. P(CHOOSE g : P(g))
  BY <1>2
<1>4. SumOver(AmountOf(rows, S), S) = (CHOOSE g : P(g))[S]
  BY <1>1, <1>3, SumIsInTable
<1> QED
  BY <1>4 DEF P

LEMMA TotalIsSum ==
    ASSUME NEW S, IsFiniteSet(S)
    PROVE  /\ Total(S) = SumOver(AmountOf(share, S), S)
           /\ Total(S)' = SumOver(AmountOf(share', S), S)
<1>1. Total(S) = SumOver(AmountOf(share, S), S)
  BY AmountsAddUp DEF Total, MapThenSumSet, MapThenFoldSet
<1>2. Total(S)' = SumOver(AmountOf(share', S), S)
  BY AmountsAddUp DEF Total, MapThenSumSet, MapThenFoldSet
<1> QED
  BY <1>1, <1>2

LEMMA SharesAreFinite ==
    ASSUME NEW S \in SUBSET Shares
    PROVE  IsFiniteSet(S)
<1>1. IsFiniteSet(Shares)
  BY FiniteAssumption, FS_Product DEF Shares
<1> QED
  BY <1>1, FS_Subset

\* Deciding or settling changes no amount.
LEMMA TotalStays ==
    ASSUME NEW S \in SUBSET Shares, \A s \in S : share'[s].amount = share[s].amount
    PROVE  Total(S)' = Total(S)
<1>1. IsFiniteSet(S)
  BY SharesAreFinite
<1>2. \A s \in S : AmountOf(share', S)[s] = AmountOf(share, S)[s]
  BY DEF AmountOf
<1> QED
  BY <1>1, <1>2, TotalIsSum, SumSame

LEMMA TotalIsNat ==
    ASSUME NEW S \in SUBSET Shares, LedgerTypeOK, \A s \in S : share[s] # None
    PROVE  Total(S) \in Nat
<1>1. IsFiniteSet(S)
  BY SharesAreFinite
<1>2. \A s \in S : AmountOf(share, S)[s] \in Nat
  BY DEF AmountOf, LedgerTypeOK, Share
<1> QED
  BY <1>1, <1>2, TotalIsSum, SumNat

-----------------------------------------------------------------------------
(* The rows.                                                               *)

LEMMA RowsAreTyped ==
    ASSUME LedgerTypeOK
    PROVE  /\ \A e \in Expenses : expense[e] # None => expense[e] \in Expense
           /\ \A s \in Shares : share[s] # None => share[s] \in Share
           /\ \A q \in Quotes : quote[q] # None => quote[q] \in Quote
           /\ \A t \in Payments : payment[t] # None => payment[t] \in Payment
           /\ \A r \in Requests : request[r] # None => request[r] \in Request
           /\ \A h \in Handlers : work[h] # None => work[h] \in Work
           /\ \A s \in Shares : s[1] \in Expenses /\ s[2] \in Users /\ s = <<s[1], s[2]>>
BY DEF LedgerTypeOK, Shares

LEMMA WorkIsTyped ==
    ASSUME LedgerTypeOK, NEW h \in Handlers
    PROVE  /\ Does(h, "quote") => /\ work[h].quote \in Quotes /\ work[h].group \in Groups
                                  /\ work[h].from \in Users /\ work[h].to \in Users
           /\ Does(h, "settle") => work[h].quote \in Quotes /\ work[h].payment \in Payments
           /\ Does(h, "confirm") => work[h].request \in Requests /\ work[h].payment \in Payments
<1>1. work[h] # None => work[h] \in Work
  BY RowsAreTyped
<1> QED
  BY <1>1 DEF Does, Work

LEMMA LedgerBegins == LedgerInit => LedgerInv
<1> SUFFICES ASSUME LedgerInit PROVE LedgerInv
  OBVIOUS
<1> USE MembersAssumption, LedgerAssumption
<1>1. MembersInv
  BY DEF LedgerInit, Founded, MembersInv, MembersTypeOK, CreatedOnce, Creating, GroupsNamed, CreatorBelongs
<1>2. LedgerTypeOK /\ WorkInv
  BY DEF LedgerInit, LedgerTypeOK, WorkInv, Does
<1>3. GroupsStand /\ ShareInv /\ QuoteInv /\ MadeInv
  BY DEF LedgerInit, Founded, GroupsStand, ShareInv, QuoteInv, MadeInv
<1>4. MembersOwe /\ ClosedIsSquare /\ QuotesStand
  BY DEF LedgerInit, Founded, MembersOwe, ClosedIsSquare, QuotesStand, Unpaid, Active
<1>5. SettledMeansPaid /\ OneReceiptOneDebt
  BY DEF LedgerInit, SettledMeansPaid, OneReceiptOneDebt
<1> QED
  BY <1>1, <1>2, <1>3, <1>4, <1>5 DEF LedgerInv, BooksInv

\* The rolls change as GroupMembers lets them.
LEMMA MembersPart ==
    ASSUME MembersInv, [LedgerNext]_vars
    PROVE  MembersInv'
<1>1. [Next]_mvars
  <2>1. CASE LedgerSteps
    BY <2>1 DEF LedgerSteps, AddExpense, DecideShare, DeleteExpense, QuoteRead, SettleRead, ConfirmRead, QuoteWrite,
                SettleWrite, ConfirmWrite, GiveUp, Pay, CreateRequest, CancelRequest, Tick
  <2>2. CASE MemberSteps
    BY <2>2, LedgerAssumption DEF MemberSteps, RemoveSquare, DeleteSquare, DeleteAccountAndDrop, Next
  <2>3. CASE UNCHANGED vars
    BY <2>3 DEF vars
  <2> QED
    BY <2>1, <2>2, <2>3 DEF LedgerNext
<1> QED
  BY <1>1, NextKeeps

\* A quote that did not run does not run later.
LEMMA ActiveEnds ==
    ASSUME LedgerTypeOK, now' \in Nat, now <= now', dropped \subseteq dropped', NEW q \in Quotes,
           quote'[q] = quote[q], Active(q)'
    PROVE  Active(q)
<1>1. now \in Nat
  BY LedgerAssumption DEF LedgerTypeOK
<1>2. quote[q] # None /\ q \notin dropped /\ ~quote[q].settled /\ now' < quote[q].expires
  BY DEF Active
<1>3. quote[q].expires \in Nat
  BY <1>2, RowsAreTyped DEF Quote
<1> QED
  BY <1>1, <1>2, <1>3 DEF Active

\* Where the rows stay, so does what is true of them.
LEMMA BooksStay ==
    ASSUME LedgerTypeOK, BooksInv, UNCHANGED <<debts, money, dropped, creator, closed, status>>,
           now' \in Nat, now <= now'
    PROVE  BooksInv'
<1> USE DEF debts, money
<1>1. GroupsStand' /\ ShareInv' /\ MadeInv' /\ MembersOwe'
  BY DEF BooksInv, GroupsStand, ShareInv, MadeInv, MembersOwe, Unpaid
<1>2. QuoteInv'
  <2> SUFFICES ASSUME NEW q \in Quotes, quote[q] # None
               PROVE  /\ quote[q].from # quote[q].to
                      /\ \A s \in quote[q].shares : IsDebt(s, q)'
                      /\ (\A s \in quote[q].shares : share[s] # None)
                            => Total(quote[q].shares)' = quote[q].amount
    BY DEF QuoteInv
  <2>1. quote[q].shares \in SUBSET Shares
    BY RowsAreTyped DEF Quote
  <2>2. Total(quote[q].shares)' = Total(quote[q].shares)
    BY <2>1, TotalStays
  <2> QED
    BY <2>2 DEF BooksInv, QuoteInv, IsDebt
<1>3. ClosedIsSquare' /\ QuotesStand'
  <2>1. \A q \in Quotes : Active(q)' => Active(q)
    BY ActiveEnds
  <2> QED
    BY <2>1 DEF BooksInv, ClosedIsSquare, QuotesStand, Accepted
<1>4. SettledMeansPaid'
  <2>1. \A t \in Payments : PaidBy(t)' = PaidBy(t)
    BY DEF PaidBy
  <2>2. \A t \in Payments : Total(PaidBy(t))' = Total(PaidBy(t))
    <3> TAKE t \in Payments
    <3>1. PaidBy(t) \in SUBSET Shares
      BY DEF PaidBy
    <3>2. ASSUME NEW S \in SUBSET Shares
          PROVE  Total(S)' = Total(S)
      BY TotalStays
    <3> QED
      BY <2>1, <3>1, <3>2
  <2> QED
    BY <2>1, <2>2 DEF BooksInv, SettledMeansPaid
<1>5. OneReceiptOneDebt'
  BY DEF BooksInv, OneReceiptOneDebt, PaidInTime
<1> QED
  BY <1>1, <1>2, <1>3, <1>4, <1>5 DEF BooksInv

\* Terms of quotes and requests, and payments, never change.
TermsStand ==
    /\ \A q \in Quotes : quote[q] # None =>
          /\ quote'[q] # None
          /\ quote'[q].from = quote[q].from /\ quote'[q].to = quote[q].to
          /\ quote'[q].amount = quote[q].amount
          /\ quote'[q].made = quote[q].made /\ quote'[q].expires = quote[q].expires
    /\ \A t \in Payments : payment[t] # None => payment'[t] = payment[t]
    /\ \A r \in Requests : request[r] # None =>
          /\ request'[r] # None
          /\ request'[r].creator = request[r].creator /\ request'[r].amount = request[r].amount
          /\ request'[r].made = request[r].made /\ request'[r].expires = request[r].expires

\* What is half way goes on from what was read, or ends.
LEMMA WorkStays ==
    ASSUME LedgerTypeOK, WorkInv, TermsStand,
           \A h \in Handlers : work'[h] \in {work[h], None},
           \A h \in Handlers : Does(h, "quote") /\ work'[h] # None => quote'[work[h].quote] = None
    PROVE  WorkInv'
<1>1. ASSUME NEW h \in Handlers, NEW kind, Does(h, kind)'
      PROVE  Does(h, kind) /\ work'[h] = work[h]
  BY <1>1 DEF Does
<1>2. ASSUME NEW h \in Handlers, Does(h, "settle")'
      PROVE  quote'[work'[h].quote] # None /\ Pays(work[h].payment, work[h].quote)' /\ work'[h] = work[h]
  <2>1. Does(h, "settle") /\ work'[h] = work[h]
    BY <1>1, <1>2
  <2>2. work[h].quote \in Quotes /\ work[h].payment \in Payments
    BY <2>1, WorkIsTyped
  <2>3. quote[work[h].quote] # None /\ Pays(work[h].payment, work[h].quote)
    BY <2>1 DEF WorkInv
  <2> QED
    BY <2>1, <2>2, <2>3 DEF TermsStand, Pays, PaidInTime
<1>3. ASSUME NEW h \in Handlers, Does(h, "confirm")'
      PROVE  /\ request'[work'[h].request] # None /\ work'[h] = work[h]
             /\ PaidInTime(work[h].payment, request[work[h].request].creator, request[work[h].request])'
  <2>1. Does(h, "confirm") /\ work'[h] = work[h]
    BY <1>1, <1>3
  <2>2. work[h].request \in Requests /\ work[h].payment \in Payments
    BY <2>1, WorkIsTyped
  <2>3. /\ request[work[h].request] # None
        /\ PaidInTime(work[h].payment, request[work[h].request].creator, request[work[h].request])
    BY <2>1 DEF WorkInv
  <2> QED
    BY <2>1, <2>2, <2>3 DEF TermsStand, PaidInTime
<1>4. ASSUME NEW h \in Handlers, Does(h, "quote")'
      PROVE  /\ quote'[work'[h].quote] = None /\ work'[h].from # work'[h].to
             /\ \A o \in Handlers : Does(o, "quote")' /\ work'[o].quote = work'[h].quote => o = h
  <2>1. \A o \in Handlers : Does(o, "quote")' => Does(o, "quote") /\ work'[o] = work[o]
    BY <1>1
  <2> QED
    BY <1>4, <2>1 DEF WorkInv, Does
<1> QED
  BY <1>2, <1>3, <1>4 DEF WorkInv

-----------------------------------------------------------------------------
(* The steps keep it.                                                      *)

LEMMA StartKeeps ==
    ASSUME LedgerInv, NEW h \in Handlers, NEW w \in Work, Start(h, w),
           UNCHANGED <<mvars, now, debts, money, dropped>>,
           w.kind = "quote" =>
               /\ quote[w.quote] = None /\ w.from # w.to
               /\ ~\E o \in Handlers : Does(o, "quote") /\ work[o].quote = w.quote,
           w.kind = "settle" => quote[w.quote] # None /\ Pays(w.payment, w.quote),
           w.kind = "confirm" => /\ request[w.request] # None
                                 /\ PaidInTime(w.payment, request[w.request].creator, request[w.request])
    PROVE  LedgerTypeOK' /\ WorkInv' /\ BooksInv'
<1> USE DEF LedgerInv, debts, money
<1>1. LedgerTypeOK'
  BY DEF LedgerTypeOK, Start
<1>2. BooksInv'
  <2>1. now' \in Nat /\ now <= now'
    BY LedgerAssumption DEF LedgerTypeOK
  <2> QED
    BY <2>1, BooksStay DEF mvars, rolls
<1>3. work[h] = None /\ \A o \in Handlers : work'[o] = IF o = h THEN w ELSE work[o]
  BY DEF Start, LedgerTypeOK
<1>4. w # None
  BY RecordAssumption
<1>5. \A o \in Handlers : \A kind : Does(o, kind)' <=> IF o = h THEN w.kind = kind ELSE Does(o, kind)
  BY <1>3, <1>4 DEF Does
<1>6. WorkInv'
  <2>1. ASSUME NEW o \in Handlers, Does(o, "quote")'
        PROVE  /\ quote'[work'[o].quote] = None /\ work'[o].from # work'[o].to
               /\ \A p \in Handlers : Does(p, "quote")' /\ work'[p].quote = work'[o].quote => p = o
    BY <1>3, <1>5, <2>1 DEF WorkInv
  <2>2. ASSUME NEW o \in Handlers, Does(o, "settle")'
        PROVE  quote'[work'[o].quote] # None /\ Pays(work[o].payment, work[o].quote)'
    BY <1>3, <1>5, <2>2 DEF WorkInv, Pays, PaidInTime
  <2>3. ASSUME NEW o \in Handlers, Does(o, "confirm")'
        PROVE  /\ request'[work'[o].request] # None
               /\ PaidInTime(work[o].payment, request[work[o].request].creator, request[work[o].request])'
    BY <1>3, <1>5, <2>3 DEF WorkInv, PaidInTime
  <2> QED
    BY <2>1, <2>2, <2>3 DEF WorkInv
<1> QED
  BY <1>1, <1>2, <1>6

LEMMA QuoteReadKeeps ==
    ASSUME LedgerInv, NEW h \in Handlers, NEW q \in Quotes, NEW g \in Groups, NEW u \in Users, NEW v \in Users,
           QuoteRead(h, q, g, u, v)
    PROVE  LedgerTypeOK' /\ WorkInv' /\ BooksInv'
<1> DEFINE w == [kind |-> "quote", quote |-> q, group |-> g, from |-> u, to |-> v]
<1>1. w \in Work /\ w.kind = "quote" /\ w.quote = q /\ w.from = u /\ w.to = v
  BY DEF Work
<1>2. /\ Start(h, w) /\ UNCHANGED <<mvars, now, debts, money, dropped>>
      /\ quote[q] = None /\ u # v /\ ~\E o \in Handlers : Does(o, "quote") /\ work[o].quote = q
  BY DEF QuoteRead, Does
<1> HIDE DEF w
<1> QED
  BY <1>1, <1>2, StartKeeps

LEMMA SettleReadKeeps ==
    ASSUME LedgerInv, NEW h \in Handlers, NEW q \in Quotes, NEW t \in Payments, SettleRead(h, q, t)
    PROVE  LedgerTypeOK' /\ WorkInv' /\ BooksInv'
<1> DEFINE w == [kind |-> "settle", quote |-> q, payment |-> t]
<1>1. w \in Work /\ w.kind = "settle" /\ w.quote = q /\ w.payment = t
  BY DEF Work
<1>2. /\ Start(h, w) /\ UNCHANGED <<mvars, now, debts, money, dropped>>
      /\ quote[q] # None /\ Pays(t, q)
  BY DEF SettleRead, OnFile
<1> HIDE DEF w
<1> QED
  BY <1>1, <1>2, StartKeeps

LEMMA ConfirmReadKeeps ==
    ASSUME LedgerInv, NEW h \in Handlers, NEW r \in Requests, NEW t \in Payments, ConfirmRead(h, r, t)
    PROVE  LedgerTypeOK' /\ WorkInv' /\ BooksInv'
<1> DEFINE w == [kind |-> "confirm", request |-> r, payment |-> t]
<1>1. w \in Work /\ w.kind = "confirm" /\ w.request = r /\ w.payment = t
  BY DEF Work
<1>2. /\ Start(h, w) /\ UNCHANGED <<mvars, now, debts, money, dropped>>
      /\ request[r] # None /\ PaidInTime(t, request[r].creator, request[r])
  BY DEF ConfirmRead
<1> HIDE DEF w
<1> QED
  BY <1>1, <1>2, StartKeeps

LEMMA GiveUpKeeps ==
    ASSUME LedgerInv, NEW h \in Handlers, GiveUp(h)
    PROVE  LedgerTypeOK' /\ WorkInv' /\ BooksInv'
<1> USE DEF LedgerInv, debts, money
<1>1. /\ work' = [work EXCEPT ![h] = None]
      /\ UNCHANGED <<mvars, now, expense, share, quote, payment, use, request, dropped>>
  BY DEF GiveUp, Finish
<1>2. LedgerTypeOK'
  BY <1>1 DEF LedgerTypeOK
<1>3. BooksInv'
  <2>1. now' \in Nat /\ now <= now'
    BY <1>1, LedgerAssumption DEF LedgerTypeOK
  <2> QED
    BY <1>1, <2>1, BooksStay DEF mvars, rolls
<1>4. WorkInv'
  <2>1. \A o \in Handlers : work'[o] \in {work[o], None}
    BY <1>1 DEF LedgerTypeOK
  <2>2. TermsStand
    BY <1>1 DEF TermsStand
  <2> QED
    BY <1>1, <2>1, <2>2, WorkStays DEF WorkInv
<1> QED
  BY <1>2, <1>3, <1>4

LEMMA TickKeeps ==
    ASSUME LedgerInv, Tick
    PROVE  LedgerTypeOK' /\ WorkInv' /\ BooksInv'
<1> USE DEF LedgerInv, debts, money
<1>1. now' = now + 1 /\ now < MaxTime /\ UNCHANGED <<mvars, expense, share, quote, payment, use, request, dropped, work>>
  BY DEF Tick
<1>2. LedgerTypeOK'
  BY <1>1, LedgerAssumption DEF LedgerTypeOK
<1>3. BooksInv'
  <2>1. now' \in Nat /\ now <= now'
    BY <1>1, LedgerAssumption DEF LedgerTypeOK
  <2> QED
    BY <1>1, <2>1, BooksStay DEF mvars, rolls
<1>4. WorkInv'
  <2>1. TermsStand
    BY <1>1 DEF TermsStand
  <2> QED
    BY <1>1, <2>1, WorkStays DEF WorkInv
<1> QED
  BY <1>2, <1>3, <1>4

\* Quotes keep what they are about, and the shares that are left their amounts.
LEMMA QuotesStay ==
    ASSUME LedgerTypeOK, QuoteInv,
           \A e \in Expenses : expense[e] # None => expense'[e] = expense[e],
           \A q \in Quotes : quote'[q] # None =>
              /\ quote[q] # None
              /\ quote'[q].group = quote[q].group /\ quote'[q].from = quote[q].from /\ quote'[q].to = quote[q].to
              /\ quote'[q].shares = quote[q].shares /\ quote'[q].amount = quote[q].amount,
           \A s \in Shares : expense[s[1]] # None /\ share'[s] # None =>
              share[s] # None /\ share'[s].amount = share[s].amount
    PROVE  QuoteInv'
<1> SUFFICES ASSUME NEW q \in Quotes, quote'[q] # None
             PROVE  /\ quote'[q].from # quote'[q].to
                    /\ \A s \in quote'[q].shares : IsDebt(s, q)'
                    /\ (\A s \in quote'[q].shares : share'[s] # None)
                          => Total(quote[q].shares)' = quote'[q].amount
  BY DEF QuoteInv
<1> DEFINE S == quote[q].shares
<1>1. S \in SUBSET Shares /\ quote'[q].shares = S
  BY RowsAreTyped DEF Quote
<1>2. \A s \in S : IsDebt(s, q)
  BY DEF QuoteInv
<1>3. \A s \in S : IsDebt(s, q)'
  BY <1>1, <1>2, RowsAreTyped DEF IsDebt
<1>4. ASSUME \A s \in S : share'[s] # None
      PROVE  Total(quote[q].shares)' = quote'[q].amount
  <2>1. \A s \in S : share[s] # None /\ share'[s].amount = share[s].amount
    BY <1>1, <1>2, <1>4 DEF IsDebt
  <2>2. Total(S) = quote[q].amount
    BY <2>1 DEF QuoteInv
  <2>3. ASSUME NEW T \in SUBSET Shares, \A s \in T : share'[s].amount = share[s].amount
        PROVE  Total(T)' = Total(T)
    BY <2>3, TotalStays
  <2> QED
    BY <1>1, <2>1, <2>2, <2>3
<1> QED
  BY <1>1, <1>3, <1>4 DEF QuoteInv

\* The shares that were paid stay paid, by the same payments.
LEMMA PaidStays ==
    ASSUME LedgerTypeOK, MadeInv, SettledMeansPaid, NEW t \in Payments,
           \A e \in Expenses : expense[e] # None => expense'[e] = expense[e],
           \A s \in Shares : s \in PaidBy(t)' <=> s \in PaidBy(t),
           \A s \in PaidBy(t) : share'[s].amount = share[s].amount,
           use[t] # None => payment'[t] = payment[t],
           use'[t] \in Quotes => use[t] \in Quotes
    PROVE  use'[t] \in Quotes =>
              /\ Total(PaidBy(t))' = payment'[t].amount
              /\ \A s \in PaidBy(t)' : /\ s[2] = payment'[t].from
                                       /\ expense'[s[1]].payer = payment'[t].to
<1> SUFFICES ASSUME use'[t] \in Quotes
             PROVE  /\ Total(PaidBy(t))' = payment'[t].amount
                    /\ \A s \in PaidBy(t)' : /\ s[2] = payment'[t].from
                                             /\ expense'[s[1]].payer = payment'[t].to
  OBVIOUS
<1>1. use[t] \in Quotes /\ payment'[t] = payment[t]
  BY LedgerAssumption
<1>2. PaidBy(t) \in SUBSET Shares /\ PaidBy(t)' = PaidBy(t)
  BY DEF PaidBy
<1>3. /\ Total(PaidBy(t)) = payment[t].amount
      /\ \A s \in PaidBy(t) : s[2] = payment[t].from /\ expense[s[1]].payer = payment[t].to
  BY <1>1 DEF SettledMeansPaid
<1>4. ASSUME NEW T \in SUBSET Shares, \A s \in T : share'[s].amount = share[s].amount
      PROVE  Total(T)' = Total(T)
  BY <1>4, TotalStays
<1>5. \A s \in PaidBy(t) : expense[s[1]] # None /\ s[1] \in Expenses
  BY RowsAreTyped DEF PaidBy, LedgerTypeOK
<1> QED
  BY <1>1, <1>2, <1>3, <1>4, <1>5

LEMMA DecideShareKeeps ==
    ASSUME LedgerInv, NEW s \in Shares, NEW d \in {"accepted", "disputed"}, DecideShare(s, d)
    PROVE  LedgerTypeOK' /\ WorkInv' /\ BooksInv'
<1> USE DEF LedgerInv, debts, money
<1>1. /\ share' = [share EXCEPT ![s].decision = d]
      /\ share[s] # None /\ ~share[s].settled /\ ~Held(s)
      /\ UNCHANGED <<mvars, now, expense, quote, payment, use, request, dropped, work>>
  BY DEF DecideShare, Decidable, Unpaid
<1>2. share[s] \in Share /\ share \in [Shares -> Share \union {None}]
  BY <1>1, RowsAreTyped DEF LedgerTypeOK
<1>3. /\ share'[s] = [share[s] EXCEPT !.decision = d]
      /\ share'[s] \in Share /\ share'[s].settled = share[s].settled /\ share'[s].amount = share[s].amount
      /\ share'[s].by = share[s].by
      /\ \A o \in Shares : o # s => share'[o] = share[o]
  BY <1>1, <1>2 DEF Share
<1>4. share'[s] # None
  BY <1>3, RecordAssumption
<1>5. \A o \in Shares : /\ share'[o] # None <=> share[o] # None
                        /\ share[o] # None => /\ share'[o].settled = share[o].settled
                                              /\ share'[o].amount = share[o].amount
                                              /\ share'[o].by = share[o].by
  BY <1>1, <1>3, <1>4
<1>6. LedgerTypeOK'
  <2>1. share' \in [Shares -> Share \union {None}]
    BY <1>1, <1>2, <1>3
  <2> QED
    BY <1>1, <1>5, <2>1 DEF LedgerTypeOK
<1>7. WorkInv'
  <2>1. TermsStand
    BY <1>1 DEF TermsStand
  <2> QED
    BY <1>1, <2>1, WorkStays DEF WorkInv
<1>8. GroupsStand' /\ ShareInv' /\ MadeInv' /\ MembersOwe' /\ ClosedIsSquare'
  BY <1>1, <1>5 DEF BooksInv, GroupsStand, ShareInv, MadeInv, MembersOwe, ClosedIsSquare, Unpaid, Active, mvars, rolls
<1>9. QuoteInv'
  BY <1>1, <1>5, QuotesStay DEF BooksInv
<1>10. QuotesStand'
  <2>1. ASSUME NEW q \in Quotes, Active(q), NEW o \in quote[q].shares
        PROVE  Accepted(o)'
    <3>1. Accepted(o) /\ o \in Shares
      BY <2>1, RowsAreTyped DEF BooksInv, QuotesStand, Quote, Active
    <3>2. o # s
      BY <1>1, <2>1 DEF Held, BooksInv, QuoteInv, IsDebt, Active
    <3> QED
      BY <1>3, <3>1, <3>2 DEF Accepted
  <2> QED
    BY <1>1, <2>1 DEF BooksInv, QuotesStand, Active
<1>11. SettledMeansPaid'
  <2>1. \A t \in Payments, o \in Shares : o \in PaidBy(t)' <=> o \in PaidBy(t)
    BY <1>5 DEF PaidBy
  <2>2. \A t \in Payments : \A o \in PaidBy(t) : share'[o].amount = share[o].amount
    BY <1>5 DEF PaidBy
  <2>3. \A t \in Payments : use'[t] \in Quotes =>
              /\ Total(PaidBy(t))' = payment'[t].amount
              /\ \A o \in PaidBy(t)' : /\ o[2] = payment'[t].from
                                       /\ expense'[o[1]].payer = payment'[t].to
    BY <1>1, <2>1, <2>2, PaidStays DEF BooksInv
  <2> QED
    BY <1>1, <1>5, <2>3 DEF BooksInv, SettledMeansPaid
<1>12. OneReceiptOneDebt'
  BY <1>1, <1>5 DEF BooksInv, OneReceiptOneDebt, PaidInTime
<1> QED
  BY <1>6, <1>7, <1>8, <1>9, <1>10, <1>11, <1>12 DEF BooksInv

\* What only payments and requests change leaves the rest of the books as it is.
LEMMA DebtsStay ==
    ASSUME LedgerTypeOK, BooksInv, UNCHANGED <<now, debts, dropped, creator, closed, status>>,
           \A t \in Payments : payment[t] # None => payment'[t] = payment[t],
           \A t \in Payments : use'[t] \in Quotes => use[t] \in Quotes
    PROVE  /\ GroupsStand' /\ ShareInv' /\ QuoteInv' /\ MembersOwe' /\ ClosedIsSquare' /\ QuotesStand'
           /\ SettledMeansPaid'
<1> USE DEF debts
<1>1. GroupsStand' /\ ShareInv' /\ MembersOwe' /\ ClosedIsSquare' /\ QuotesStand'
  BY DEF BooksInv, GroupsStand, ShareInv, MembersOwe, Unpaid, ClosedIsSquare, QuotesStand, Active, Accepted
<1>2. QuoteInv'
  BY QuotesStay DEF BooksInv
<1>3. SettledMeansPaid'
  <2>1. \A t \in Payments, o \in Shares : o \in PaidBy(t)' <=> o \in PaidBy(t)
    BY DEF PaidBy
  <2>2. \A t \in Payments : use[t] # None => payment'[t] = payment[t]
    BY DEF BooksInv, MadeInv
  <2>3. \A t \in Payments : use'[t] \in Quotes =>
              /\ Total(PaidBy(t))' = payment'[t].amount
              /\ \A o \in PaidBy(t)' : /\ o[2] = payment'[t].from
                                       /\ expense'[o[1]].payer = payment'[t].to
    BY <2>1, <2>2, PaidStays DEF BooksInv
  <2> QED
    BY <2>3 DEF BooksInv, SettledMeansPaid
<1> QED
  BY <1>1, <1>2, <1>3

LEMMA PayKeeps ==
    ASSUME LedgerInv, NEW t \in Payments, NEW u \in Users, NEW v \in Users, NEW a \in Prices, Pay(t, u, v, a)
    PROVE  LedgerTypeOK' /\ WorkInv' /\ BooksInv'
<1> USE DEF LedgerInv, debts, money
<1>1. /\ payment[t] = None
      /\ payment' = [payment EXCEPT ![t] = [from |-> u, to |-> v, amount |-> a, at |-> now]]
      /\ UNCHANGED <<mvars, now, expense, share, quote, use, request, dropped, work>>
  BY DEF Pay
<1>2. a \in Nat
  BY LedgerAssumption, RowsAreTyped DEF Prices, Quote
<1>3. [from |-> u, to |-> v, amount |-> a, at |-> now] \in Payment
  BY <1>2, LedgerAssumption DEF Payment, LedgerTypeOK
<1>4. /\ payment' \in [Payments -> Payment \union {None}] /\ payment'[t] # None
      /\ \A o \in Payments : payment[o] # None => payment'[o] = payment[o]
  BY <1>1, <1>3, RecordAssumption DEF LedgerTypeOK
<1>5. LedgerTypeOK'
  BY <1>1, <1>4 DEF LedgerTypeOK
<1>6. WorkInv'
  <2>1. TermsStand
    BY <1>1, <1>4 DEF TermsStand
  <2> QED
    BY <1>1, <2>1, WorkStays DEF WorkInv
<1>7. GroupsStand' /\ ShareInv' /\ QuoteInv' /\ MembersOwe' /\ ClosedIsSquare' /\ QuotesStand' /\ SettledMeansPaid'
  BY <1>1, <1>4, DebtsStay DEF mvars, rolls
<1>8. MadeInv'
  BY <1>1, <1>4 DEF BooksInv, MadeInv
<1>9. OneReceiptOneDebt'
  <2>1. ASSUME NEW r \in Requests, request[r] # None, request[r].paidBy # None
        PROVE  /\ use[request[r].paidBy] = r
               /\ PaidInTime(request[r].paidBy, request[r].creator, request[r])'
               /\ request[r].cancelledAt # None => payment'[request[r].paidBy].at <= request[r].cancelledAt
    <3>1. request[r].paidBy \in Payments
      BY <2>1, RowsAreTyped DEF Request
    <3>2. /\ use[request[r].paidBy] = r /\ PaidInTime(request[r].paidBy, request[r].creator, request[r])
          /\ request[r].cancelledAt # None => payment[request[r].paidBy].at <= request[r].cancelledAt
      BY <2>1 DEF BooksInv, OneReceiptOneDebt
    <3> QED
      BY <1>1, <1>4, <3>1, <3>2 DEF PaidInTime
  <2> QED
    BY <1>1, <2>1 DEF BooksInv, OneReceiptOneDebt
<1> QED
  BY <1>5, <1>6, <1>7, <1>8, <1>9 DEF BooksInv

LEMMA CreateRequestKeeps ==
    ASSUME LedgerInv, NEW r \in Requests, NEW u \in Users, NEW a \in Amounts, CreateRequest(r, u, a)
    PROVE  LedgerTypeOK' /\ WorkInv' /\ BooksInv'
<1> USE DEF LedgerInv, debts, money
<1> DEFINE new == [creator |-> u, amount |-> a, made |-> now, expires |-> now + RequestLife,
                   paidBy |-> None, cancelledAt |-> None]
<1>1. /\ request[r] = None /\ request' = [request EXCEPT ![r] = new]
      /\ UNCHANGED <<mvars, now, expense, share, quote, payment, use, dropped, work>>
  BY DEF CreateRequest
<1>2. new \in Request /\ new.paidBy = None
  BY LedgerAssumption DEF Request, LedgerTypeOK
<1> HIDE DEF new
<1>3. /\ request' \in [Requests -> Request \union {None}] /\ request'[r] = new
      /\ \A o \in Requests : o # r => request'[o] = request[o]
  BY <1>1, <1>2 DEF LedgerTypeOK
<1>4. LedgerTypeOK'
  BY <1>1, <1>3 DEF LedgerTypeOK
<1>5. WorkInv'
  <2>1. TermsStand
    BY <1>1, <1>3 DEF TermsStand
  <2> QED
    BY <1>1, <2>1, WorkStays DEF WorkInv
<1>6. GroupsStand' /\ ShareInv' /\ QuoteInv' /\ MembersOwe' /\ ClosedIsSquare' /\ QuotesStand' /\ SettledMeansPaid'
  BY <1>1, DebtsStay DEF mvars, rolls
<1>7. MadeInv' /\ OneReceiptOneDebt'
  BY <1>1, <1>2, <1>3 DEF BooksInv, MadeInv, OneReceiptOneDebt, PaidInTime
<1> QED
  BY <1>4, <1>5, <1>6, <1>7 DEF BooksInv

LEMMA CancelRequestKeeps ==
    ASSUME LedgerInv, NEW r \in Requests, CancelRequest(r)
    PROVE  LedgerTypeOK' /\ WorkInv' /\ BooksInv'
<1> USE DEF LedgerInv, debts, money
<1>1. /\ request[r] # None /\ request[r].paidBy = None
      /\ request' = [request EXCEPT ![r].cancelledAt = now]
      /\ UNCHANGED <<mvars, now, expense, share, quote, payment, use, dropped, work>>
  BY DEF CancelRequest
<1>2. request[r] \in Request /\ now \in Nat
  BY <1>1, RowsAreTyped, LedgerAssumption DEF LedgerTypeOK
<1>3. /\ request'[r] = [request[r] EXCEPT !.cancelledAt = now] /\ request'[r] \in Request
      /\ request'[r].paidBy = None
      /\ request'[r].creator = request[r].creator /\ request'[r].amount = request[r].amount
      /\ request'[r].made = request[r].made /\ request'[r].expires = request[r].expires
      /\ \A o \in Requests : o # r => request'[o] = request[o]
      /\ request' \in [Requests -> Request \union {None}]
  BY <1>1, <1>2 DEF LedgerTypeOK, Request
<1>4. request'[r] # None
  BY <1>3, RecordAssumption
<1>5. LedgerTypeOK'
  BY <1>1, <1>3 DEF LedgerTypeOK
<1>6. WorkInv'
  <2>1. TermsStand
    BY <1>1, <1>3, <1>4 DEF TermsStand
  <2> QED
    BY <1>1, <2>1, WorkStays DEF WorkInv
<1>7. GroupsStand' /\ ShareInv' /\ QuoteInv' /\ MembersOwe' /\ ClosedIsSquare' /\ QuotesStand' /\ SettledMeansPaid'
  BY <1>1, DebtsStay DEF mvars, rolls
<1>8. MadeInv' /\ OneReceiptOneDebt'
  BY <1>1, <1>3 DEF BooksInv, MadeInv, OneReceiptOneDebt, PaidInTime
<1> QED
  BY <1>5, <1>6, <1>7, <1>8 DEF BooksInv

LEMMA ConfirmWriteKeeps ==
    ASSUME LedgerInv, NEW h \in Handlers, ConfirmWrite(h)
    PROVE  LedgerTypeOK' /\ WorkInv' /\ BooksInv'
<1> USE DEF LedgerInv, debts, money
<1> DEFINE r == work[h].request
           t == work[h].payment
<1>1. Does(h, "confirm")
  BY DEF ConfirmWrite, Does
<1>2. /\ r \in Requests /\ t \in Payments /\ request[r] # None
      /\ PaidInTime(t, request[r].creator, request[r])
  BY <1>1, WorkIsTyped DEF WorkInv
<1>3. /\ IF r \notin dropped /\ StillDue(r, t) /\ Unused(t)
            THEN /\ use' = [use EXCEPT ![t] = r]
                 /\ request' = [request EXCEPT ![r].paidBy = t]
            ELSE UNCHANGED <<use, request>>
      /\ work' = [work EXCEPT ![h] = None]
      /\ UNCHANGED <<mvars, now, expense, share, quote, payment, dropped>>
  BY DEF ConfirmWrite, Finish
<1> HIDE DEF r, t
<1>4. \A o \in Handlers : work'[o] \in {work[o], None}
  BY <1>3 DEF LedgerTypeOK
<1>5. work' \in [Handlers -> Work \union {None}]
  BY <1>3 DEF LedgerTypeOK
<1>6. CASE UNCHANGED <<use, request>>
  <2>1. LedgerTypeOK'
    BY <1>3, <1>5, <1>6 DEF LedgerTypeOK
  <2>2. WorkInv'
    <3>1. TermsStand
      BY <1>3, <1>6 DEF TermsStand
    <3> QED
      BY <1>3, <1>4, <3>1, WorkStays DEF WorkInv
  <2>3. BooksInv'
    <3>1. now' \in Nat /\ now <= now'
      BY <1>3, LedgerAssumption DEF LedgerTypeOK
    <3> QED
      BY <1>3, <1>6, <3>1, BooksStay DEF mvars, rolls
  <2> QED
    BY <2>1, <2>2, <2>3
<1>7. CASE /\ StillDue(r, t) /\ Unused(t)
           /\ use' = [use EXCEPT ![t] = r]
           /\ request' = [request EXCEPT ![r].paidBy = t]
  <2>1. request[r] \in Request
    BY <1>2, RowsAreTyped
  <2>2. /\ request'[r] = [request[r] EXCEPT !.paidBy = t] /\ request'[r] \in Request
        /\ request'[r].paidBy = t /\ request'[r].cancelledAt = request[r].cancelledAt
        /\ request'[r].creator = request[r].creator /\ request'[r].amount = request[r].amount
        /\ request'[r].made = request[r].made /\ request'[r].expires = request[r].expires
        /\ \A o \in Requests : o # r => request'[o] = request[o]
        /\ request' \in [Requests -> Request \union {None}]
    BY <1>2, <1>7, <2>1 DEF LedgerTypeOK, Request
  <2>3. request'[r] # None
    BY <2>2, RecordAssumption
  <2>4. /\ use[t] = None /\ use'[t] = r /\ \A o \in Payments : o # t => use'[o] = use[o]
        /\ use' \in [Payments -> Quotes \union Requests \union {None}]
    BY <1>2, <1>7 DEF Unused, LedgerTypeOK
  <2>5. LedgerTypeOK'
    BY <1>3, <1>5, <2>2, <2>4 DEF LedgerTypeOK
  <2>6. WorkInv'
    <3>1. TermsStand
      BY <1>3, <2>2, <2>3 DEF TermsStand
    <3> QED
      BY <1>3, <1>4, <3>1, WorkStays DEF WorkInv
  <2>7. GroupsStand' /\ ShareInv' /\ QuoteInv' /\ MembersOwe' /\ ClosedIsSquare' /\ QuotesStand' /\ SettledMeansPaid'
    <3>1. \A o \in Payments : use'[o] \in Quotes => use[o] \in Quotes
      BY <1>2, <2>4, LedgerAssumption
    <3> QED
      BY <1>3, <3>1, DebtsStay DEF mvars, rolls
  <2>8. MadeInv'
    BY <1>2, <1>3, <2>4 DEF BooksInv, MadeInv, PaidInTime
  <2>9. OneReceiptOneDebt'
    <3>1. ASSUME NEW s \in Shares, NEW o \in Payments, share[s] # None, share[s].by = o
          PROVE  use'[o] \in Quotes
      <4>1. use[o] \in Quotes
        BY <3>1 DEF BooksInv, OneReceiptOneDebt
      <4>2. o # t
        BY <1>7, <3>1 DEF Unused
      <4> QED
        BY <2>4, <4>1, <4>2
    <3>2. /\ use'[request'[r].paidBy] = r
          /\ PaidInTime(t, request'[r].creator, request'[r])
          /\ request'[r].cancelledAt # None => payment[t].at <= request'[r].cancelledAt
      BY <1>2, <1>7, <2>2, <2>4 DEF PaidInTime, StillDue
    <3>3. ASSUME NEW o \in Requests, o # r, request'[o] # None, request'[o].paidBy # None
          PROVE  /\ use'[request'[o].paidBy] = o
                 /\ PaidInTime(request'[o].paidBy, request'[o].creator, request'[o])
                 /\ request'[o].cancelledAt # None => payment[request'[o].paidBy].at <= request'[o].cancelledAt
      <4>1. request'[o] = request[o]
        BY <2>2, <3>3
      <4>2. /\ use[request[o].paidBy] = o /\ request[o].paidBy \in Payments
            /\ PaidInTime(request[o].paidBy, request[o].creator, request[o])
            /\ request[o].cancelledAt # None => payment[request[o].paidBy].at <= request[o].cancelledAt
        BY <3>3, <4>1, RowsAreTyped DEF BooksInv, OneReceiptOneDebt, Request
      <4>3. request[o].paidBy # t
        BY <2>4, <4>2, LedgerAssumption
      <4> QED
        BY <2>4, <4>1, <4>2, <4>3
    <3> QED
      BY <1>3, <2>2, <3>1, <3>2, <3>3 DEF OneReceiptOneDebt, PaidInTime
  <2> QED
    BY <2>5, <2>6, <2>7, <2>8, <2>9 DEF BooksInv
<1> QED
  BY <1>3, <1>6, <1>7

LEMMA QuoteWriteKeeps ==
    ASSUME LedgerInv, NEW h \in Handlers, QuoteWrite(h)
    PROVE  LedgerTypeOK' /\ WorkInv' /\ BooksInv'
<1> USE DEF LedgerInv, debts, money
<1>1. Does(h, "quote")
  BY DEF QuoteWrite, Does
<1>2. PICK q \in Quotes, g \in Groups, u \in Users, v \in Users :
          q = work[h].quote /\ g = work[h].group /\ u = work[h].from /\ v = work[h].to
  BY <1>1, WorkIsTyped
<1> DEFINE new == [group |-> g, from |-> u, to |-> v, shares |-> Owed(g, u, v),
                   amount |-> Total(Owed(g, u, v)), made |-> now,
                   expires |-> now + QuoteLife, settled |-> FALSE]
<1>3. /\ IF v \notin gone /\ ~Running(g, u, v) /\ Owed(g, u, v) # {}
            THEN quote' = [quote EXCEPT ![q] = new]
            ELSE UNCHANGED quote
      /\ work' = [work EXCEPT ![h] = None]
      /\ UNCHANGED <<mvars, now, expense, share, payment, use, request, dropped>>
  BY <1>2 DEF QuoteWrite, Finish
<1>7. /\ quote[q] = None /\ u # v
      /\ \A o \in Handlers : Does(o, "quote") /\ work[o].quote = q => o = h
  BY <1>1, <1>2 DEF WorkInv
<1>4. /\ \A o \in Handlers : work'[o] = IF o = h THEN None ELSE work[o]
      /\ work' \in [Handlers -> Work \union {None}]
  BY <1>3 DEF LedgerTypeOK
<1>5. CASE UNCHANGED quote
  <2>1. LedgerTypeOK'
    BY <1>3, <1>4, <1>5 DEF LedgerTypeOK
  <2>2. WorkInv'
    <3>1. TermsStand
      BY <1>3, <1>5 DEF TermsStand
    <3>2. \A o \in Handlers : Does(o, "quote") => quote[work[o].quote] = None
      BY DEF WorkInv
    <3> QED
      BY <1>4, <1>5, <3>1, <3>2, WorkStays
  <2>3. BooksInv'
    <3>1. now' \in Nat /\ now <= now'
      BY <1>3, LedgerAssumption DEF LedgerTypeOK
    <3> QED
      BY <1>3, <1>5, <3>1, BooksStay DEF mvars, rolls
  <2> QED
    BY <2>1, <2>2, <2>3
<1>6. CASE ~Running(g, u, v) /\ Owed(g, u, v) # {} /\ quote' = [quote EXCEPT ![q] = new]
  <2>1. \A s \in Owed(g, u, v) :
            /\ s \in Shares /\ share[s] # None /\ ~share[s].settled /\ Accepted(s)
            /\ expense[s[1]].group = g /\ s[2] = u /\ expense[s[1]].payer = v
    BY DEF Owed, UnpaidIn, Unpaid
  <2>2. Owed(g, u, v) \in SUBSET Shares
    BY <2>1
  <2>3. Total(Owed(g, u, v)) \in Nat
    BY <2>1, <2>2, TotalIsNat
  <2>4. new \in Quote
    BY <1>2, <2>2, <2>3, LedgerAssumption DEF Quote, LedgerTypeOK
  <2>5. /\ new.group = g /\ new.from = u /\ new.to = v /\ new.shares = Owed(g, u, v)
        /\ new.amount = Total(Owed(g, u, v)) /\ new.settled = FALSE
    OBVIOUS
  <2> HIDE DEF new
  <2>6. /\ quote' \in [Quotes -> Quote \union {None}] /\ quote'[q] = new /\ new # None
        /\ \A o \in Quotes : o # q => quote'[o] = quote[o]
    BY <1>2, <1>6, <2>4, RecordAssumption DEF LedgerTypeOK
  <2>7. LedgerTypeOK'
    BY <1>3, <1>4, <2>6 DEF LedgerTypeOK
  <2>8. WorkInv'
    <3>1. TermsStand
      BY <1>3, <1>7, <2>6 DEF TermsStand
    <3>2. ASSUME NEW o \in Handlers, Does(o, "quote"), work'[o] # None
          PROVE  quote'[work[o].quote] = None
      <4>1. o # h
        BY <1>4, <3>2
      <4>2. work[o].quote \in Quotes /\ work[o].quote # q /\ quote[work[o].quote] = None
        BY <1>7, <3>2, <4>1, WorkIsTyped DEF WorkInv
      <4> QED
        BY <2>6, <4>2
    <3> QED
      BY <1>4, <3>1, <3>2, WorkStays
  <2>9. GroupsStand' /\ ShareInv' /\ MadeInv' /\ MembersOwe' /\ OneReceiptOneDebt'
    BY <1>3 DEF BooksInv, GroupsStand, ShareInv, MadeInv, MembersOwe, OneReceiptOneDebt, PaidInTime, Unpaid, mvars, rolls
  <2>10. QuoteInv'
    <3>1. ASSUME NEW T \in SUBSET Shares
          PROVE  Total(T)' = Total(T)
      BY <1>3, TotalStays
    <3>2. ASSUME NEW o \in Quotes, o # q, quote'[o] # None
          PROVE  /\ quote'[o].from # quote'[o].to
                 /\ \A s \in quote'[o].shares : IsDebt(s, o)'
                 /\ (\A s \in quote'[o].shares : share'[s] # None) => Total(quote[o].shares)' = quote'[o].amount
      <4>1. quote'[o] = quote[o] /\ quote[o].shares \in SUBSET Shares
        BY <2>6, <3>2, RowsAreTyped DEF Quote
      <4>2. Total(quote[o].shares)' = Total(quote[o].shares)
        BY <3>1, <4>1
      <4> QED
        BY <1>3, <3>2, <4>1, <4>2 DEF BooksInv, QuoteInv, IsDebt
    <3>3. /\ quote'[q].from # quote'[q].to
          /\ \A s \in quote'[q].shares : IsDebt(s, q)'
          /\ Total(quote[q].shares)' = quote'[q].amount
      <4>1. \A s \in quote'[q].shares : IsDebt(s, q)'
        BY <1>3, <2>1, <2>5, <2>6, RowsAreTyped DEF IsDebt, LedgerTypeOK
      <4>2. Total(quote[q].shares)' = quote'[q].amount
        BY <2>2, <2>5, <2>6, <3>1
      <4> QED
        BY <1>7, <2>5, <2>6, <4>1, <4>2
    <3> QED
      BY <3>2, <3>3 DEF QuoteInv
  <2>11. ASSUME NEW o \in Quotes, o # q
         PROVE  Active(o)' <=> Active(o)
    BY <1>3, <2>6, <2>11 DEF Active
  <2>12. ClosedIsSquare'
    <3>1. g \notin closed
      <4>1. PICK s \in Owed(g, u, v) : TRUE
        BY <1>6
      <4>2. share[s].amount > 0
        BY <2>1, <4>1 DEF BooksInv, ShareInv
      <4> QED
        BY <2>1, <4>1, <4>2 DEF BooksInv, ClosedIsSquare
    <3>2. ASSUME NEW k \in closed, NEW o \in Quotes, Active(o)'
          PROVE  quote'[o].group # k
      BY <2>5, <2>6, <2>11, <3>1, <3>2 DEF BooksInv, ClosedIsSquare
    <3> QED
      BY <1>3, <3>2 DEF BooksInv, ClosedIsSquare, mvars, rolls
  <2>13. QuotesStand'
    <3>1. ASSUME NEW s \in Owed(g, u, v), NEW o \in Quotes, o # q, Active(o)
          PROVE  s \notin quote[o].shares
      <4>1. s \in quote[o].shares => IsDebt(s, o)
        BY <3>1 DEF BooksInv, QuoteInv, Active
      <4> QED
        BY <1>6, <2>1, <3>1, <4>1 DEF IsDebt, Running
    <3>2. ASSUME NEW o \in Quotes, Active(o)'
          PROVE  \A s \in quote'[o].shares : Accepted(s)
      BY <2>1, <2>5, <2>6, <2>11, <3>2 DEF BooksInv, QuotesStand
    <3>3. ASSUME NEW o \in Quotes, Active(o)', NEW p \in Quotes \ {o}, Active(p)'
          PROVE  quote'[p].shares \intersect quote'[o].shares = {}
      <4>1. CASE o # q /\ p # q
        BY <2>6, <2>11, <3>3, <4>1 DEF BooksInv, QuotesStand
      <4>2. CASE o = q
        BY <2>5, <2>6, <2>11, <3>1, <3>3, <4>2
      <4>3. CASE p = q
        BY <2>5, <2>6, <2>11, <3>1, <3>3, <4>3
      <4> QED
        BY <4>1, <4>2, <4>3
    <3> QED
      BY <1>3, <3>2, <3>3 DEF QuotesStand, Accepted
  <2>14. SettledMeansPaid'
    <3>1. \A t \in Payments, o \in Shares : o \in PaidBy(t)' <=> o \in PaidBy(t)
      BY <1>3 DEF PaidBy
    <3>2. \A t \in Payments : use'[t] \in Quotes =>
              /\ Total(PaidBy(t))' = payment'[t].amount
              /\ \A o \in PaidBy(t)' : /\ o[2] = payment'[t].from
                                       /\ expense'[o[1]].payer = payment'[t].to
      BY <1>3, <3>1, PaidStays DEF BooksInv
    <3> QED
      BY <1>3, <3>2 DEF BooksInv, SettledMeansPaid
  <2> QED
    BY <2>7, <2>8, <2>9, <2>10, <2>12, <2>13, <2>14 DEF BooksInv
<1> QED
  BY <1>3, <1>5, <1>6

LEMMA SettleWriteKeeps ==
    ASSUME LedgerInv, NEW h \in Handlers, SettleWrite(h)
    PROVE  LedgerTypeOK' /\ WorkInv' /\ BooksInv'
<1> USE DEF LedgerInv, debts, money
<1>1. Does(h, "settle")
  BY DEF SettleWrite, Does
<1>2. PICK q \in Quotes, t \in Payments : q = work[h].quote /\ t = work[h].payment
  BY <1>1, WorkIsTyped
<1>3. PICK S \in SUBSET Shares : S = quote[q].shares
  <2>1. quote[q] \in Quote
    BY <1>1, <1>2, RowsAreTyped DEF WorkInv
  <2> QED
    BY <2>1 DEF Quote
<1>4. /\ work' = [work EXCEPT ![h] = None]
      /\ UNCHANGED <<mvars, now, expense, payment, request, dropped>>
  BY DEF SettleWrite, Finish
<1>9. \/ UNCHANGED <<use, share, quote>>
      \/ /\ Unused(t) /\ AllPayable(S)
         /\ use' = [use EXCEPT ![t] = q]
         /\ share' = [s \in Shares |->
               IF s \in S THEN [share[s] EXCEPT !.settled = TRUE, !.by = t] ELSE share[s]]
         /\ quote' = [quote EXCEPT ![q].settled = TRUE]
  BY <1>2, <1>3 DEF SettleWrite
<1>5. /\ quote[q] # None /\ payment[t] # None /\ payment[t].amount = quote[q].amount
      /\ payment[t].from = quote[q].from /\ payment[t].to = quote[q].to
  BY <1>1, <1>2 DEF WorkInv, Pays, PaidInTime
<1>6. /\ \A o \in Handlers : work'[o] \in {work[o], None}
      /\ work' \in [Handlers -> Work \union {None}]
  BY <1>4 DEF LedgerTypeOK
<1>7. CASE UNCHANGED <<use, share, quote>>
  <2>1. LedgerTypeOK'
    BY <1>4, <1>6, <1>7 DEF LedgerTypeOK
  <2>2. WorkInv'
    <3>1. TermsStand
      BY <1>4, <1>7 DEF TermsStand
    <3>2. \A o \in Handlers : Does(o, "quote") => quote[work[o].quote] = None
      BY DEF WorkInv
    <3> QED
      BY <1>6, <1>7, <3>1, <3>2, WorkStays
  <2>3. BooksInv'
    <3>1. now' \in Nat /\ now <= now'
      BY <1>4, LedgerAssumption DEF LedgerTypeOK
    <3> QED
      BY <1>4, <1>7, <3>1, BooksStay DEF mvars, rolls
  <2> QED
    BY <2>1, <2>2, <2>3
<1>8. CASE /\ Unused(t) /\ AllPayable(S)
           /\ use' = [use EXCEPT ![t] = q]
           /\ share' = [s \in Shares |->
                 IF s \in S THEN [share[s] EXCEPT !.settled = TRUE, !.by = t] ELSE share[s]]
           /\ quote' = [quote EXCEPT ![q].settled = TRUE]
  <2>1. \A s \in S : share[s] # None /\ ~share[s].settled /\ share[s] \in Share
    BY <1>8, RowsAreTyped DEF AllPayable, Unpaid
  <2>2. /\ \A s \in S : /\ share'[s] \in Share /\ share'[s].settled = TRUE /\ share'[s].by = t
                        /\ share'[s].amount = share[s].amount /\ share'[s].decision = share[s].decision
        /\ \A s \in Shares : s \notin S => share'[s] = share[s]
    BY <1>8, <2>1 DEF Share
  <2>3. \A s \in S : share'[s] # None
    BY <2>2, RecordAssumption
  <2>4. \A s \in Shares : /\ share'[s] # None <=> share[s] # None
                          /\ share[s] # None => /\ share'[s].amount = share[s].amount
                                                /\ share'[s].decision = share[s].decision
                                                /\ share[s].settled => share'[s].settled
    BY <2>1, <2>2, <2>3
  <2>5. quote[q] \in Quote
    BY <1>5, RowsAreTyped
  <2>6. /\ quote'[q] \in Quote /\ quote'[q].settled = TRUE /\ quote'[q].shares = quote[q].shares
        /\ quote'[q].group = quote[q].group /\ quote'[q].from = quote[q].from /\ quote'[q].to = quote[q].to
        /\ quote'[q].amount = quote[q].amount /\ quote'[q].made = quote[q].made
        /\ quote'[q].expires = quote[q].expires
        /\ \A o \in Quotes : o # q => quote'[o] = quote[o]
        /\ quote' \in [Quotes -> Quote \union {None}]
    BY <1>8, <2>5 DEF LedgerTypeOK, Quote
  <2>7. quote'[q] # None
    BY <2>6, RecordAssumption
  <2>8. /\ use[t] = None /\ use'[t] = q /\ \A o \in Payments : o # t => use'[o] = use[o]
        /\ use' \in [Payments -> Quotes \union Requests \union {None}]
    BY <1>8 DEF Unused, LedgerTypeOK
  <2>9. LedgerTypeOK'
    <3>1. share' \in [Shares -> Share \union {None}]
      BY <1>8, <2>2 DEF LedgerTypeOK
    <3> QED
      BY <1>4, <1>6, <2>4, <2>6, <2>8, <3>1 DEF LedgerTypeOK
  <2>10. WorkInv'
    <3>1. TermsStand
      BY <1>4, <2>6, <2>7 DEF TermsStand
    <3>2. \A o \in Handlers : Does(o, "quote") => quote'[work[o].quote] = None
      BY <1>5, <2>6, WorkIsTyped DEF WorkInv
    <3> QED
      BY <1>6, <3>1, <3>2, WorkStays
  <2>11. \A s \in S : share[s].by = None /\ s[2] # expense[s[1]].payer
    BY <2>1 DEF BooksInv, ShareInv
  <2>12. GroupsStand' /\ ShareInv' /\ MadeInv' /\ MembersOwe'
    <3>1. GroupsStand' /\ MadeInv'
      BY <1>4, <1>5, <2>8 DEF BooksInv, GroupsStand, MadeInv, mvars, rolls
    <3>2. ShareInv' /\ MembersOwe'
      BY <1>4, <2>2, <2>4, <2>11 DEF BooksInv, ShareInv, MembersOwe, Unpaid, mvars, rolls
    <3> QED
      BY <3>1, <3>2
  <2>13. QuoteInv'
    <3>1. \A o \in Quotes : quote'[o] # None =>
              /\ quote[o] # None
              /\ quote'[o].group = quote[o].group /\ quote'[o].from = quote[o].from /\ quote'[o].to = quote[o].to
              /\ quote'[o].shares = quote[o].shares /\ quote'[o].amount = quote[o].amount
      BY <1>5, <2>6
    <3> QED
      BY <1>4, <2>4, <3>1, QuotesStay DEF BooksInv
  <2>14. \A o \in Quotes : Active(o)' => /\ Active(o) /\ quote'[o].shares = quote[o].shares
                                         /\ quote'[o].group = quote[o].group
    BY <1>4, <2>6 DEF Active
  <2>15. ClosedIsSquare' /\ QuotesStand'
    <3>1. ClosedIsSquare'
      BY <1>4, <2>4, <2>14 DEF BooksInv, ClosedIsSquare, mvars, rolls
    <3>2. \A o \in Quotes : quote[o] # None => quote[o].shares \in SUBSET Shares
      BY RowsAreTyped DEF Quote
    <3>3. \A o \in Quotes : Active(o) => quote[o] # None
      BY DEF Active
    <3>4. QuotesStand'
      BY <2>4, <2>14, <3>2, <3>3 DEF BooksInv, QuotesStand, Accepted
    <3> QED
      BY <3>1, <3>4
  <2>16. SettledMeansPaid'
    <3>1. ASSUME NEW o \in Payments, o # t
          PROVE  use'[o] \in Quotes =>
                    /\ Total(PaidBy(o))' = payment'[o].amount
                    /\ \A s \in PaidBy(o)' : /\ s[2] = payment'[o].from
                                             /\ expense'[s[1]].payer = payment'[o].to
      <4>1. \A s \in Shares : s \in PaidBy(o)' <=> s \in PaidBy(o)
        BY <2>2, <2>3, <2>11, <3>1, LedgerAssumption DEF PaidBy
      <4>2. \A s \in PaidBy(o) : share'[s].amount = share[s].amount
        BY <2>4 DEF PaidBy
      <4> QED
        BY <1>4, <2>8, <3>1, <4>1, <4>2, PaidStays DEF BooksInv
    <3>2. PaidBy(t)' = S
      BY <1>8, <2>2, <2>3 DEF PaidBy, Unused
    <3>3. Total(S)' = Total(S)
      BY <2>4, <2>1, TotalStays
    <3>4. Total(S) = payment[t].amount
      BY <1>3, <1>5, <2>1 DEF BooksInv, QuoteInv
    <3>5. \A s \in S : s[2] = payment[t].from /\ expense[s[1]].payer = payment[t].to
      BY <1>3, <1>5 DEF BooksInv, QuoteInv, IsDebt
    <3>6. Total(PaidBy(t))' = payment'[t].amount
      BY <1>4, <3>2, <3>3, <3>4
    <3>7. \A s \in Shares :
             share'[s] # None /\ share'[s].settled /\ share'[s].amount > 0
             /\ s[2] # expense'[s[1]].payer => share'[s].by # None
      BY <1>4, <2>2, LedgerAssumption DEF BooksInv, SettledMeansPaid
    <3> QED
      BY <1>4, <3>1, <3>2, <3>5, <3>6, <3>7 DEF SettledMeansPaid
  <2>17. OneReceiptOneDebt'
    <3>1. ASSUME NEW s \in Shares, NEW o \in Payments, share'[s] # None, share'[s].by = o
          PROVE  use'[o] \in Quotes
      <4>1. CASE s \in S
        BY <2>2, <2>8, <3>1, <4>1
      <4>2. CASE s \notin S
        <5>1. share[s] # None /\ share[s].by = o
          BY <2>2, <3>1, <4>2
        <5> QED
          BY <1>8, <2>8, <5>1 DEF BooksInv, OneReceiptOneDebt, Unused
      <4> QED
        BY <4>1, <4>2
    <3>2. ASSUME NEW r \in Requests, request[r] # None, request[r].paidBy # None
          PROVE  use'[request[r].paidBy] = r
      <4>1. use[request[r].paidBy] = r /\ request[r].paidBy \in Payments
        BY <3>2, RowsAreTyped DEF BooksInv, OneReceiptOneDebt, Request
      <4> QED
        BY <2>8, <4>1, LedgerAssumption
    <3> QED
      BY <1>4, <3>1, <3>2 DEF BooksInv, OneReceiptOneDebt, PaidInTime
  <2> QED
    BY <2>9, <2>10, <2>12, <2>13, <2>15, <2>16, <2>17 DEF BooksInv
<1> QED
  BY <1>7, <1>8, <1>9

\* A quote is about debts that were there when it was made.
LEMMA QuotedIsAdded ==
    ASSUME LedgerTypeOK, QuoteInv, NEW q \in Quotes, quote[q] # None
    PROVE  /\ quote[q].shares \in SUBSET Shares
           /\ \A s \in quote[q].shares : expense[s[1]] # None
<1>1. quote[q] \in Quote
  BY RowsAreTyped
<1> QED
  BY <1>1 DEF Quote, QuoteInv, IsDebt

LEMMA AddExpenseKeeps ==
    ASSUME LedgerInv, NEW e \in Expenses, NEW g \in Groups, NEW p \in Users, NEW D \in SUBSET Users,
           NEW amount \in [D -> Amounts], AddExpense(e, g, p, amount)
    PROVE  LedgerTypeOK' /\ WorkInv' /\ BooksInv'
<1> USE DEF LedgerInv, debts, money
<1>1. /\ expense[e] = None /\ status[g][p] = "active" /\ g \notin closed
      /\ \A u \in D : status[g][u] = "active"
      /\ expense' = [expense EXCEPT ![e] = [group |-> g, payer |-> p]]
      /\ share' = [s \in Shares |-> IF s[1] = e /\ s[2] \in D
                                    THEN NewShare(p, s[2], amount[s[2]]) ELSE share[s]]
      /\ UNCHANGED <<mvars, now, quote, payment, use, request, dropped, work>>
  BY DEF AddExpense, IsMember
<1> DEFINE New == {s \in Shares : s[1] = e /\ s[2] \in D}
<1>2. \A s \in New : amount[s[2]] \in Nat
  BY LedgerAssumption
<1>3. \A s \in New : /\ share'[s] \in Share /\ share'[s].by = None
                     /\ share'[s].settled <=> (s[2] = p \/ share'[s].amount = 0)
  BY <1>1, <1>2 DEF NewShare, Share
<1>4. \A s \in New : s[1] = e /\ share[s] = None /\ share'[s] # None
  BY <1>1, <1>3, RecordAssumption DEF LedgerTypeOK
<1>5. \A s \in Shares : s \notin New => share'[s] = share[s]
  BY <1>1
<1>6. \A s \in Shares : share[s] # None => s[1] # e /\ share'[s] = share[s]
  BY <1>1, <1>4, <1>5 DEF LedgerTypeOK
<1>7. [group |-> g, payer |-> p] \in Expense /\ [group |-> g, payer |-> p] # None
  BY RecordAssumption DEF Expense
<1>8. /\ expense' \in [Expenses -> Expense \union {None}]
      /\ expense'[e] # None /\ expense'[e].group = g /\ expense'[e].payer = p
      /\ \A x \in Expenses : x # e => expense'[x] = expense[x]
      /\ \A x \in Expenses : expense[x] # None => x # e /\ expense'[x] = expense[x]
  BY <1>1, <1>7 DEF LedgerTypeOK
<1> HIDE DEF New
<1>9. \A s \in Shares : s \in New => s[1] = e /\ s[2] \in D
  BY DEF New
<1>10. \A s \in Shares : s[1] \in Expenses /\ s[2] \in Users
  BY DEF Shares
<1>11. e \notin dropped
  BY <1>1 DEF BooksInv, MadeInv
<1>12. LedgerTypeOK'
  <2>1. share' \in [Shares -> Share \union {None}]
    BY <1>1, <1>3, <1>5 DEF LedgerTypeOK, New
  <2>2. \A s \in Shares : share'[s] # None => expense'[s[1]] # None /\ s[1] \notin dropped
    BY <1>5, <1>8, <1>9, <1>10, <1>11 DEF LedgerTypeOK
  <2> QED
    BY <1>1, <1>8, <2>1, <2>2 DEF LedgerTypeOK
<1>13. WorkInv'
  <2>1. TermsStand
    BY <1>1 DEF TermsStand
  <2> QED
    BY <1>1, <2>1, WorkStays DEF WorkInv
<1>14. GroupsStand' /\ MadeInv'
  BY <1>1, <1>8 DEF BooksInv, GroupsStand, MadeInv, mvars, rolls
<1>15. ShareInv'
  <2>1. ASSUME NEW s \in Shares, s \in New
        PROVE  /\ ~share'[s].settled => share'[s].amount > 0 /\ s[2] # expense'[s[1]].payer
               /\ share'[s].by = None
    <3>1. share'[s].amount \in Nat
      BY <1>3, <2>1 DEF Share
    <3> QED
      BY <1>3, <1>8, <1>9, <2>1, <3>1
  <2>2. ASSUME NEW s \in Shares, s \notin New, share'[s] # None
        PROVE  share'[s] = share[s] /\ share[s] # None /\ expense'[s[1]] = expense[s[1]]
    BY <1>5, <1>6, <1>8, <1>10, <2>2
  <2> QED
    BY <2>1, <2>2 DEF BooksInv, ShareInv
<1>16. MembersOwe'
  <2>1. ASSUME NEW s \in Shares, s \in New
        PROVE  \A u \in {s[2], expense'[s[1]].payer} : status[expense'[s[1]].group][u] = "active"
    BY <1>1, <1>8, <1>9, <2>1
  <2>2. ASSUME NEW s \in Shares, s \notin New, Unpaid(s)'
        PROVE  Unpaid(s) /\ expense'[s[1]] = expense[s[1]]
    BY <1>5, <1>6, <1>8, <1>10, <2>2 DEF Unpaid
  <2> QED
    BY <1>1, <2>1, <2>2 DEF BooksInv, MembersOwe, mvars, rolls
<1>17. \A q \in Quotes : Active(q)' <=> Active(q)
  BY <1>1 DEF Active
<1>18. ClosedIsSquare'
  <2>1. ASSUME NEW k \in closed, NEW s \in Shares, share'[s] # None, expense'[s[1]].group = k, share'[s].amount > 0
        PROVE  share'[s].settled
    <3>1. s \notin New
      BY <1>1, <1>8, <1>9, <2>1
    <3>2. share[s] # None /\ share'[s] = share[s] /\ expense'[s[1]] = expense[s[1]]
      BY <1>5, <1>6, <1>8, <1>10, <2>1, <3>1
    <3> QED
      BY <2>1, <3>2 DEF BooksInv, ClosedIsSquare
  <2> QED
    BY <1>1, <1>17, <2>1 DEF BooksInv, ClosedIsSquare, mvars, rolls
<1>19. \A q \in Quotes : quote[q] # None => \A s \in quote[q].shares : s \in Shares /\ s[1] # e /\ share'[s] = share[s]
  <2> SUFFICES ASSUME NEW q \in Quotes, quote[q] # None, NEW s \in quote[q].shares
               PROVE  s \in Shares /\ s[1] # e /\ share'[s] = share[s]
    OBVIOUS
  <2>1. s \in Shares /\ expense[s[1]] # None
    BY QuotedIsAdded DEF BooksInv
  <2> QED
    BY <1>1, <1>5, <1>9, <2>1
<1>20. QuoteInv'
  <2>1. \A s \in Shares : expense[s[1]] # None => share'[s] = share[s]
    BY <1>1, <1>5, <1>9
  <2>2. \A s \in Shares : expense[s[1]] # None /\ share'[s] # None =>
              share[s] # None /\ share'[s].amount = share[s].amount
    BY <2>1
  <2> QED
    BY <1>1, <1>8, <2>2, QuotesStay DEF BooksInv
<1>21. QuotesStand'
  BY <1>1, <1>17, <1>19 DEF BooksInv, QuotesStand, Accepted, Active
<1>22. SettledMeansPaid'
  <2>1. \A t \in Payments, s \in Shares : s \in PaidBy(t)' <=> s \in PaidBy(t)
    BY <1>3, <1>5, <1>6, LedgerAssumption DEF PaidBy
  <2>2. \A t \in Payments : \A s \in PaidBy(t) : share'[s].amount = share[s].amount
    BY <1>6 DEF PaidBy
  <2>3. \A t \in Payments : use'[t] \in Quotes =>
              /\ Total(PaidBy(t))' = payment'[t].amount
              /\ \A s \in PaidBy(t)' : /\ s[2] = payment'[t].from
                                       /\ expense'[s[1]].payer = payment'[t].to
    BY <1>1, <1>8, <2>1, <2>2, PaidStays DEF BooksInv
  <2>4. ASSUME NEW s \in Shares, share'[s] # None, share'[s].settled, share'[s].amount > 0,
               s[2] # expense'[s[1]].payer
        PROVE  share'[s].by # None
    <3>1. s \notin New
      <4>1. s \in New => share'[s].amount \in Nat
        BY <1>3 DEF Share
      <4> QED
        BY <1>3, <1>8, <1>9, <2>4, <4>1
    <3>2. share[s] # None /\ share'[s] = share[s] /\ expense'[s[1]] = expense[s[1]]
      BY <1>5, <1>6, <1>8, <1>10, <2>4, <3>1
    <3> QED
      BY <2>4, <3>2 DEF BooksInv, SettledMeansPaid
  <2> QED
    BY <2>3, <2>4 DEF SettledMeansPaid
<1>23. OneReceiptOneDebt'
  <2>1. \A s \in Shares, t \in Payments : share'[s] # None /\ share'[s].by = t => share[s] # None /\ share[s].by = t
    BY <1>3, <1>5, LedgerAssumption
  <2> QED
    BY <1>1, <2>1 DEF BooksInv, OneReceiptOneDebt, PaidInTime
<1> QED
  BY <1>12, <1>13, <1>14, <1>15, <1>16, <1>18, <1>20, <1>21, <1>22, <1>23 DEF BooksInv

LEMMA DeleteExpenseKeeps ==
    ASSUME LedgerInv, NEW e \in Expenses, NEW u \in Users, DeleteExpense(e, u)
    PROVE  LedgerTypeOK' /\ WorkInv' /\ BooksInv'
<1> USE DEF LedgerInv, debts, money
<1>1. /\ expense[e] # None
      /\ dropped' = dropped \union {e}
      /\ share' = [s \in Shares |-> IF s[1] = e THEN None ELSE share[s]]
      /\ UNCHANGED <<mvars, now, expense, quote, payment, use, request, work>>
  BY DEF DeleteExpense, SharesWithout
<1>2. \A s \in Shares : s[1] \in Expenses /\ s[2] \in Users /\ s = <<s[1], s[2]>>
  BY DEF Shares
<1>3. \A s \in Shares : s[1] = e /\ s[2] # expense[e].payer => ~Accepted(s) /\ (share[s] # None => share[s].by = None)
  BY <1>2 DEF DeleteExpense, Acknowledged
<1>4. \A s \in Shares : share'[s] # None => s[1] # e /\ share'[s] = share[s]
  BY <1>1
<1>5. \A s \in Shares : s[1] # e => share'[s] = share[s]
  BY <1>1
<1>6. e \notin Quotes
  BY LedgerAssumption
<1>7. \A q \in Quotes : Active(q)' <=> Active(q)
  BY <1>1, <1>6 DEF Active
<1>8. LedgerTypeOK'
  <2>1. share' \in [Shares -> Share \union {None}]
    BY <1>1 DEF LedgerTypeOK
  <2> QED
    BY <1>1, <1>4, <2>1 DEF LedgerTypeOK
<1>9. WorkInv'
  <2>1. TermsStand
    BY <1>1 DEF TermsStand
  <2> QED
    BY <1>1, <2>1, WorkStays DEF WorkInv
<1>10. GroupsStand' /\ ShareInv' /\ MadeInv' /\ MembersOwe' /\ ClosedIsSquare'
  <2>1. GroupsStand' /\ MadeInv'
    BY <1>1 DEF BooksInv, GroupsStand, MadeInv, mvars, rolls
  <2>2. ShareInv' /\ MembersOwe' /\ ClosedIsSquare'
    BY <1>1, <1>4, <1>7 DEF BooksInv, ShareInv, MembersOwe, ClosedIsSquare, Unpaid, mvars, rolls
  <2> QED
    BY <2>1, <2>2
<1>11. QuoteInv'
  BY <1>1, <1>4, QuotesStay DEF BooksInv
<1>12. QuotesStand'
  <2>1. ASSUME NEW q \in Quotes, Active(q), NEW s \in quote[q].shares
        PROVE  s \in Shares /\ share'[s] = share[s]
    <3>1. quote[q] # None /\ Accepted(s)
      BY <2>1 DEF Active, BooksInv, QuotesStand
    <3>2. s \in Shares /\ s[2] # expense[s[1]].payer
      BY <2>1, <3>1, QuotedIsAdded DEF BooksInv, QuoteInv, IsDebt
    <3>3. s[1] # e
      BY <1>3, <3>1, <3>2
    <3> QED
      BY <1>5, <3>2, <3>3
  <2> QED
    BY <1>1, <1>7, <2>1 DEF BooksInv, QuotesStand, Accepted
<1>13. SettledMeansPaid'
  <2>1. \A t \in Payments, s \in Shares : s \in PaidBy(t)' <=> s \in PaidBy(t)
    <3>1. \A s \in Shares : share[s] # None /\ share[s].by # None => s[1] # e
      BY <1>3 DEF BooksInv, ShareInv
    <3> QED
      BY <1>4, <1>5, <3>1, LedgerAssumption DEF PaidBy
  <2>2. \A t \in Payments : \A s \in PaidBy(t) : share'[s].amount = share[s].amount
    BY <1>4, <2>1 DEF PaidBy
  <2>3. \A t \in Payments : use'[t] \in Quotes =>
              /\ Total(PaidBy(t))' = payment'[t].amount
              /\ \A s \in PaidBy(t)' : /\ s[2] = payment'[t].from
                                       /\ expense'[s[1]].payer = payment'[t].to
    BY <1>1, <2>1, <2>2, PaidStays DEF BooksInv
  <2> QED
    BY <1>1, <1>4, <2>3 DEF BooksInv, SettledMeansPaid
<1>14. OneReceiptOneDebt'
  BY <1>1, <1>4 DEF BooksInv, OneReceiptOneDebt, PaidInTime
<1> QED
  BY <1>8, <1>9, <1>10, <1>11, <1>12, <1>13, <1>14 DEF BooksInv

\* People come and go, and what they leave is the same books.
LEMMA PeopleChange ==
    ASSUME LedgerInv, UNCHANGED <<now, debts, money, work>>,
           dropped \subseteq dropped', dropped' \subseteq dropped \union Quotes \union Requests,
           GroupsStand', MembersOwe', ClosedIsSquare'
    PROVE  LedgerTypeOK' /\ WorkInv' /\ BooksInv'
<1> USE DEF LedgerInv, debts, money
<1>1. \A e \in Expenses : e \in dropped' <=> e \in dropped
  BY LedgerAssumption
<1>2. LedgerTypeOK'
  <2>1. dropped' \subseteq Expenses \union Quotes \union Requests
    BY DEF LedgerTypeOK
  <2> QED
    BY <1>1, <2>1, RowsAreTyped DEF LedgerTypeOK
<1>3. WorkInv'
  <2>1. TermsStand
    BY DEF TermsStand
  <2> QED
    BY <2>1, WorkStays DEF WorkInv
<1>4. ShareInv' /\ MadeInv' /\ OneReceiptOneDebt'
  BY <1>1 DEF BooksInv, ShareInv, MadeInv, OneReceiptOneDebt, PaidInTime
<1>5. QuoteInv'
  BY QuotesStay DEF BooksInv
<1>6. QuotesStand'
  <2>1. \A q \in Quotes : Active(q)' => Active(q)
    BY DEF Active
  <2> QED
    BY <2>1 DEF BooksInv, QuotesStand, Accepted
<1>7. SettledMeansPaid'
  <2>1. \A t \in Payments, s \in Shares : s \in PaidBy(t)' <=> s \in PaidBy(t)
    BY DEF PaidBy
  <2>2. \A t \in Payments : use'[t] \in Quotes =>
              /\ Total(PaidBy(t))' = payment'[t].amount
              /\ \A s \in PaidBy(t)' : /\ s[2] = payment'[t].from
                                       /\ expense'[s[1]].payer = payment'[t].to
    BY <2>1, PaidStays DEF BooksInv
  <2> QED
    BY <2>2 DEF BooksInv, SettledMeansPaid
<1> QED
  BY <1>2, <1>3, <1>4, <1>5, <1>6, <1>7 DEF BooksInv

\* Once a group is founded, nobody stops being a member but by being removed.
LEMMA MembersStayIn ==
    ASSUME MembersInv, GroupsStand, Social
    PROVE  /\ UNCHANGED <<creator, closed>>
           /\ \A g \in Groups, u \in Users : status[g][u] = "active" => status'[g][u] = "active"
<1> USE DEF MembersInv
<1>1. ASSUME NEW c \in Calls, CreateWrite(c)
      PROVE  FALSE
  BY <1>1 DEF CreateWrite, CreatedOnce, Creating, GroupsStand
<1>2. ASSUME NEW c \in Calls, AddWrite(c)
      PROVE  /\ UNCHANGED <<creator, closed>>
             /\ \A g \in Groups, u \in Users : status[g][u] = "active" => status'[g][u] = "active"
  <2>1. UNCHANGED <<creator, closed>>
    BY <1>2 DEF AddWrite
  <2>2. call[c].group \in Groups
    BY <1>2 DEF AddWrite, GroupsNamed
  <2>3. CASE UNCHANGED status
    BY <2>1, <2>3
  <2>4. CASE /\ \A v \in call[c].whom : status[call[c].group][v] = "none"
             /\ status' = [status EXCEPT ![call[c].group] =
                    [v \in Users |-> IF v \in call[c].whom THEN "invited" ELSE status[call[c].group][v]]]
    BY <2>1, <2>2, <2>4 DEF MembersTypeOK
  <2> QED
    BY <1>2, <2>3, <2>4 DEF AddWrite, Invited
<1>3. ASSUME NEW c \in Calls, AcceptWrite(c)
      PROVE  /\ UNCHANGED <<creator, closed>>
             /\ \A g \in Groups, u \in Users : status[g][u] = "active" => status'[g][u] = "active"
  BY <1>3 DEF AcceptWrite, MembersTypeOK
<1>4. ASSUME NEW c \in Calls, BlockSweep(c)
      PROVE  /\ UNCHANGED <<creator, closed>>
             /\ \A g \in Groups, u \in Users : status[g][u] = "active" => status'[g][u] = "active"
  BY <1>4 DEF BlockSweep, MembersTypeOK
<1>5. ASSUME NEW u \in Users, NEW g \in Groups, Decline(u, g)
      PROVE  /\ UNCHANGED <<creator, closed>>
             /\ \A k \in Groups, v \in Users : status[k][v] = "active" => status'[k][v] = "active"
  BY <1>5 DEF Decline, MembersTypeOK
<1> QED
  BY <1>1, <1>2, <1>3, <1>4, <1>5
  DEF Social, CreateRead, AddRead, AcceptRead, Abort, Block, Unblock, Begin, rolls

LEMMA MemberStepsKeep ==
    ASSUME LedgerInv, MemberSteps, MembersInv'
    PROVE  LedgerTypeOK' /\ WorkInv' /\ BooksInv'
<1> USE DEF LedgerInv, debts, money, ledger
<1>0. \A s \in Shares : share[s] # None => /\ expense[s[1]].group \in Groups /\ expense[s[1]].payer \in Users
                                           /\ s[2] \in Users
  BY RowsAreTyped DEF LedgerTypeOK, Expense
<1>1. CASE Social /\ UNCHANGED ledger
  <2>1. /\ UNCHANGED <<creator, closed>>
        /\ \A g \in Groups, u \in Users : status[g][u] = "active" => status'[g][u] = "active"
    BY <1>1, MembersStayIn DEF BooksInv
  <2>2. GroupsStand' /\ ClosedIsSquare' /\ MembersOwe'
    BY <1>0, <1>1, <2>1 DEF BooksInv, GroupsStand, ClosedIsSquare, MembersOwe, Active, Unpaid
  <2> QED
    BY <1>1, <2>2, PeopleChange
<1>2. ASSUME NEW u \in Users, NEW v \in Users, NEW g \in Groups, RemoveSquare(u, v, g)
      PROVE  LedgerTypeOK' /\ WorkInv' /\ BooksInv'
  <2>1. /\ status' = [status EXCEPT ![g][v] = "none"] /\ Square(g, v)
        /\ UNCHANGED <<creator, closed, ledger>>
    BY <1>2 DEF RemoveSquare, RemoveMember
  <2>2. GroupsStand' /\ ClosedIsSquare'
    BY <2>1 DEF BooksInv, GroupsStand, ClosedIsSquare, Active
  <2>3. MembersOwe'
    <3> SUFFICES ASSUME NEW s \in Shares, Unpaid(s), NEW w \in {s[2], expense[s[1]].payer}
                 PROVE  status'[expense[s[1]].group][w] = "active"
      BY <2>1 DEF MembersOwe, Unpaid
    <3>1. status[expense[s[1]].group][w] = "active" /\ expense[s[1]].group \in Groups /\ w \in Users
      BY <1>0 DEF BooksInv, MembersOwe, Unpaid
    <3>2. expense[s[1]].group = g => w # v
      BY <2>1 DEF Square, UnpaidIn
    <3> QED
      BY <2>1, <3>1, <3>2 DEF MembersInv, MembersTypeOK
  <2> QED
    BY <2>1, <2>2, <2>3, PeopleChange
<1>3. ASSUME NEW u \in Users, NEW g \in Groups, DeleteSquare(u, g)
      PROVE  LedgerTypeOK' /\ WorkInv' /\ BooksInv'
  <2>1. /\ closed' = closed \union {g} /\ NothingOwed(g) /\ NothingRunning(g)
        /\ UNCHANGED <<creator, status, ledger>>
    BY <1>3 DEF DeleteSquare, DeleteGroup
  <2>2. GroupsStand' /\ MembersOwe'
    BY <2>1 DEF BooksInv, GroupsStand, MembersOwe, Unpaid
  <2>3. \A s \in Shares : share[s] # None /\ expense[s[1]].group = g /\ share[s].amount > 0 => share[s].settled
    BY <2>1 DEF NothingOwed, UnpaidIn, Unpaid
  <2>4. ClosedIsSquare'
    BY <2>1, <2>3 DEF BooksInv, ClosedIsSquare, NothingRunning, Active
  <2> QED
    BY <2>1, <2>2, <2>4, PeopleChange
<1>4. ASSUME NEW u \in Leavers, DeleteAccountAndDrop(u)
      PROVE  LedgerTypeOK' /\ WorkInv' /\ BooksInv'
  <2>1. /\ UNCHANGED <<closed, status, now, debts, money, work>>
        /\ dropped \subseteq dropped' /\ dropped' \subseteq dropped \union Quotes \union Requests
    BY <1>4 DEF DeleteAccountAndDrop, DeleteAccount
  <2>2. GroupsStand'
    <3>1. PICK heir \in [Groups -> Users] :
              creator' = [g \in Groups |-> IF creator[g] = u /\ Heirs(g, u) # {} THEN heir[g] ELSE creator[g]]
      BY <1>4 DEF DeleteAccountAndDrop, DeleteAccount
    <3> QED
      BY <3>1, MembersAssumption DEF BooksInv, GroupsStand
  <2>3. ClosedIsSquare' /\ MembersOwe'
    BY <2>1 DEF BooksInv, ClosedIsSquare, MembersOwe, Active, Unpaid
  <2> QED
    BY <2>1, <2>2, <2>3, PeopleChange
<1> QED
  BY <1>1, <1>2, <1>3, <1>4 DEF MemberSteps

LEMMA LedgerNextKeeps ==
    ASSUME LedgerInv, [LedgerNext]_vars
    PROVE  LedgerInv'
<1>1. MembersInv'
  BY MembersPart DEF LedgerInv
<1>2. CASE LedgerSteps
  <2>1. CASE \E h \in Handlers : QuoteWrite(h) \/ SettleWrite(h) \/ ConfirmWrite(h) \/ GiveUp(h)
    BY <1>1, <2>1, QuoteWriteKeeps, SettleWriteKeeps, ConfirmWriteKeeps, GiveUpKeeps DEF LedgerInv
  <2>2. CASE \/ \E h \in Handlers, q \in Quotes, g \in Groups, u, v \in Users : QuoteRead(h, q, g, u, v)
             \/ \E h \in Handlers, q \in Quotes, t \in Payments : SettleRead(h, q, t)
             \/ \E h \in Handlers, r \in Requests, t \in Payments : ConfirmRead(h, r, t)
    BY <1>1, <2>2, QuoteReadKeeps, SettleReadKeeps, ConfirmReadKeeps DEF LedgerInv
  <2>3. CASE \/ \E e \in Expenses, g \in Groups, p \in Users, S \in SUBSET Users :
                  \E amount \in [S -> Amounts] : AddExpense(e, g, p, amount)
             \/ \E s \in Shares, d \in {"accepted", "disputed"} : DecideShare(s, d)
             \/ \E e \in Expenses, u \in Users : DeleteExpense(e, u)
    BY <1>1, <2>3, AddExpenseKeeps, DecideShareKeeps, DeleteExpenseKeeps DEF LedgerInv
  <2>4. CASE \/ \E t \in Payments, u, v \in Users, a \in Prices : Pay(t, u, v, a)
             \/ \E r \in Requests, u \in Users, a \in Amounts : CreateRequest(r, u, a)
             \/ \E r \in Requests : CancelRequest(r)
             \/ Tick
    BY <1>1, <2>4, PayKeeps, CreateRequestKeeps, CancelRequestKeeps, TickKeeps DEF LedgerInv
  <2> QED
    BY <1>2, <2>1, <2>2, <2>3, <2>4 DEF LedgerSteps
<1>3. CASE MemberSteps
  BY <1>1, <1>3, MemberStepsKeep DEF LedgerInv
<1>4. CASE UNCHANGED vars
  <2>1. UNCHANGED <<now, debts, money, work, dropped, creator, closed, status>>
    BY <1>4 DEF vars, ledger, mvars, rolls
  <2>2. GroupsStand' /\ MembersOwe' /\ ClosedIsSquare'
    BY <2>1 DEF LedgerInv, BooksInv, GroupsStand, MembersOwe, ClosedIsSquare, Active, Unpaid, debts
  <2> QED
    BY <1>1, <2>1, <2>2, PeopleChange DEF LedgerInv
<1> QED
  BY <1>2, <1>3, <1>4 DEF LedgerNext

-----------------------------------------------------------------------------
(* What follows.                                                           *)

\* What the steps keep is true in every state of the ledger.
THEOREM LedgerInvariant == LedgerSpec => []LedgerInv
<1> QED
  BY LedgerBegins, LedgerNextKeeps, PTL DEF LedgerSpec

\* The rows of expenses, shares, quotes, payments and requests have their types and point
\* at rows that exist (backend/services/group.service.ts, paymentRequest.service.ts).
THEOREM LedgerTypeCorrect == LedgerSpec => []LedgerTypeOK
<1>1. LedgerInv => LedgerTypeOK
  BY DEF LedgerInv
<1> QED
  BY <1>1, LedgerInvariant, PTL

\* Nobody leaves a group, is removed from it or is charged in it who is not a member as long
\* as a debt is open (removeMember and addExpense of group.service.ts).
THEOREM DebtorsAreMembers == LedgerSpec => []MembersOwe
<1>1. LedgerInv => MembersOwe
  BY DEF LedgerInv, BooksInv
<1> QED
  BY <1>1, LedgerInvariant, PTL

\* A group is closed only when all is square, and stays so with requests half way
\* (deleteGroup, addExpense and createSettlementIntent of group.service.ts).
THEOREM ClosedGroupsAreSquare == LedgerSpec => []ClosedIsSquare
<1>1. LedgerInv => ClosedIsSquare
  BY DEF LedgerInv, BooksInv
<1> QED
  BY <1>1, LedgerInvariant, PTL

\* No running quote loses a share or its acknowledgement, and no two run for one debt
\* (decideSplit, deleteExpense and createSettlementIntent of group.service.ts).
THEOREM QuotesAreKept == LedgerSpec => []QuotesStand
<1>1. LedgerInv => QuotesStand
  BY DEF LedgerInv, BooksInv
<1> QED
  BY <1>1, LedgerInvariant, PTL

\* The shares a payment settled add up to what was paid, whatever was decided, deleted or
\* paid since (settleAllWithMemberByInternalTx of group.service.ts).
THEOREM PaymentsSettleTheirAmount == LedgerSpec => []SettledMeansPaid
<1>1. LedgerInv => SettledMeansPaid
  BY DEF LedgerInv, BooksInv
<1> QED
  BY <1>1, LedgerInvariant, PTL

\* However settlements and confirmations overlap, a payment discharges one quote or one
\* request (group.service.ts, paymentRequest.service.ts).
THEOREM ReceiptsCountOnce == LedgerSpec => []OneReceiptOneDebt
<1>1. LedgerInv => OneReceiptOneDebt
  BY DEF LedgerInv, BooksInv
<1> QED
  BY <1>1, LedgerInvariant, PTL
=============================================================================
