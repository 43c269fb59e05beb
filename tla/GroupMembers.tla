---------------------------- MODULE GroupMembers ----------------------------
(***************************************************************************)
(* Who belongs to a group: backend/services/group.service.ts (creating,    *)
(* inviting, answering, removing, deleting), safety.service.ts (blocks)    *)
(* and user.service.ts (deleting an account).                              *)
(*                                                                         *)
(* A handler that runs in one serializable transaction is one action.  The *)
(* others read first and write later, and anything can happen in between:  *)
(* what was read waits in "call".  A handler that dies between the two     *)
(* leaves what it has done.  A person is put in a group as a guest and     *)
(* becomes a member by accepting.  Names, archiving and the order in which *)
(* members joined are left out.                                            *)
(***************************************************************************)
EXTENDS Naturals

CONSTANTS
    Users,      \* accounts
    Groups,     \* identifiers of groups
    Blockers,   \* the users who use blocks
    Calls,      \* requests that can be half way at once
    MayFail,    \* whether a request may die half way
    None

ASSUME MembersAssumption ==
    /\ Blockers \subseteq Users /\ MayFail \in BOOLEAN
    /\ None \notin Users \union Groups

VARIABLES
    gone,       \* users who deleted their account
    blocks,     \* <<a, b>>: a blocked b
    creator,    \* who administers a group, or None before it is created
    closed,     \* groups the creator has deleted
    status,     \* by group, what each user is in it
    invitedBy,  \* by group, who invited each user
    call        \* requests half way

people == <<gone, blocks>>
rolls  == <<creator, closed, status, invitedBy>>
mvars == <<people, rolls, call>>

Call == [kind : {"create", "add", "accept", "sweep"}, user : Users,
         group : Groups \union {None}, whom : SUBSET Users]

ASSUME CallAssumption == None \notin Call

Init ==
    /\ gone = {} /\ blocks = {}
    /\ creator = [g \in Groups |-> None]
    /\ closed = {}
    /\ status = [g \in Groups |-> [u \in Users |-> "none"]]
    /\ invitedBy = [g \in Groups |-> [u \in Users |-> None]]
    /\ call = [c \in Calls |-> None]

Blocked(u, v) == <<u, v>> \in blocks \/ <<v, u>> \in blocks

\* assertMember
IsMember(g, u) == status[g][u] = "active" /\ g \notin closed

\* resolveHandles: nobody who is gone, nobody across a block.
CanBeInvited(u, S) == \A v \in S : v \notin gone /\ ~Blocked(u, v)

Begin(c, kind, u, g, S) ==
    /\ call[c] = None
    /\ call' = [call EXCEPT ![c] = [kind |-> kind, user |-> u, group |-> g, whom |-> S]]
    /\ UNCHANGED <<people, rolls>>

End(c) == call' = [call EXCEPT ![c] = None]

Invited(g, u, S) ==
    /\ status' = [status EXCEPT ![g] =
                    [v \in Users |-> IF v \in S THEN "invited" ELSE status[g][v]]]
    /\ invitedBy' = [invitedBy EXCEPT ![g] =
                       [v \in Users |-> IF v \in S THEN u ELSE invitedBy[g][v]]]

-----------------------------------------------------------------------------

CreateRead(c, u, g, S) ==
    /\ creator[g] = None
    /\ ~\E d \in Calls : call[d] # None /\ call[d].kind = "create" /\ call[d].group = g
    /\ u \notin gone /\ S # {} /\ u \notin S
    /\ CanBeInvited(u, S)
    /\ Begin(c, "create", u, g, S)

CreateWrite(c) ==
    /\ call[c] # None /\ call[c].kind = "create"
    /\ LET u == call[c].user
           g == call[c].group
           S == call[c].whom
       IN /\ creator' = [creator EXCEPT ![g] = u]
          /\ status' = [status EXCEPT ![g] =
                          [v \in Users |-> IF v = u THEN "active"
                                           ELSE IF v \in S THEN "invited" ELSE "none"]]
          /\ invitedBy' = [invitedBy EXCEPT ![g] =
                             [v \in Users |-> IF v \in S THEN u ELSE None]]
    /\ End(c)
    /\ UNCHANGED <<people, closed>>

\* Those who have a row already, invited or not, are left as they are.
AddRead(c, u, g, S) ==
    /\ u \notin gone /\ IsMember(g, u)
    /\ CanBeInvited(u, S)
    /\ \E v \in S : status[g][v] = "none"
    /\ Begin(c, "add", u, g, {v \in S : status[g][v] = "none"})

\* createMany is refused as a whole when one of the rows exists by now.
AddWrite(c) ==
    /\ call[c] # None /\ call[c].kind = "add"
    /\ IF \A v \in call[c].whom : status[call[c].group][v] = "none"
       THEN Invited(call[c].group, call[c].user, call[c].whom)
       ELSE UNCHANGED <<status, invitedBy>>
    /\ End(c)
    /\ UNCHANGED <<people, creator, closed>>

AcceptRead(c, u, g) ==
    /\ u \notin gone
    /\ status[g][u] = "invited" /\ g \notin closed
    /\ ~Blocked(u, invitedBy[g][u])
    /\ Begin(c, "accept", u, g, {})

\* Defect: accepting puts the person in whether or not there still is a row.
AcceptWriteAnyway(c) ==
    /\ call[c] # None /\ call[c].kind = "accept"
    /\ status' = [status EXCEPT ![call[c].group][call[c].user] = "active"]
    /\ End(c)
    /\ UNCHANGED <<people, creator, closed, invitedBy>>

\* The update finds its row by group and user alone.
AcceptWrite(c) ==
    /\ call[c] # None /\ call[c].kind = "accept"
    /\ status' = [status EXCEPT ![call[c].group][call[c].user] =
                    IF @ = "none" THEN @ ELSE "active"]
    /\ End(c)
    /\ UNCHANGED <<people, creator, closed, invitedBy>>

Decline(u, g) ==
    /\ u \notin gone /\ status[g][u] = "invited"
    /\ status' = [status EXCEPT ![g][u] = "none"]
    /\ UNCHANGED <<people, creator, closed, invitedBy, call>>

Block(c, u, v) ==
    /\ u \notin gone /\ v \notin gone /\ u # v
    /\ call[c] = None
    /\ blocks' = blocks \union {<<u, v>>}
    /\ call' = [call EXCEPT ![c] = [kind |-> "sweep", user |-> u, group |-> None, whom |-> {v}]]
    /\ UNCHANGED <<gone, rolls>>

\* The guests of g whose invitation lies between u and v.
Swept(u, v, g) == {x \in {u, v} : invitedBy[g][x] \in {u, v} \ {x}}

BlockSweep(c) ==
    /\ call[c] # None /\ call[c].kind = "sweep"
    /\ LET u == call[c].user
           v == CHOOSE w \in call[c].whom : TRUE
       IN status' = [g \in Groups |-> [x \in Users |->
                       IF x \in Swept(u, v, g) /\ status[g][x] = "invited"
                       THEN "none" ELSE status[g][x]]]
    /\ End(c)
    /\ UNCHANGED <<people, creator, closed, invitedBy>>

Unblock(u, v) ==
    /\ u \notin gone
    /\ blocks' = blocks \ {<<u, v>>}
    /\ UNCHANGED <<gone, rolls, call>>

\* Defect: the creator may leave like anyone else.
MayRemoveCreator(u, v, g) == creator[g] = u \/ u = v

MayRemove(u, v, g) == (creator[g] = u \/ u = v) /\ creator[g] # v

RemoveMember(u, v, g) ==
    /\ u \notin gone /\ creator[g] # None
    /\ MayRemove(u, v, g)
    /\ status[g][v] # "none"
    /\ status' = [status EXCEPT ![g][v] = "none"]
    /\ UNCHANGED <<people, creator, closed, invitedBy, call>>

DeleteGroup(u, g) ==
    /\ u \notin gone /\ creator[g] = u /\ g \notin closed
    /\ closed' = closed \union {g}
    /\ UNCHANGED <<people, creator, status, invitedBy, call>>

\* The members one of whom takes over; the code takes the one there longest.
Heirs(g, u) == {v \in Users \ (gone \union {u}) : status[g][v] = "active"}

DeleteAccount(u) ==
    /\ u \notin gone
    /\ gone' = gone \union {u}
    /\ blocks' = {b \in blocks : u \notin {b[1], b[2]}}
    /\ \E heir \in [Groups -> Users] :
         /\ \A g \in Groups : heir[g] \in Heirs(g, u) \/ Heirs(g, u) = {}
         /\ creator' = [g \in Groups |-> IF creator[g] = u /\ Heirs(g, u) # {}
                                         THEN heir[g] ELSE creator[g]]
    /\ UNCHANGED <<closed, status, invitedBy, call>>

\* A request dies half way.
Abort(c) ==
    /\ MayFail /\ call[c] # None
    /\ End(c)
    /\ UNCHANGED <<people, rolls>>

-----------------------------------------------------------------------------

\* Steps that touch nothing but who belongs to what.
Social ==
    \/ \E c \in Calls, u \in Users, g \in Groups :
         \/ \E S \in SUBSET Users : CreateRead(c, u, g, S) \/ AddRead(c, u, g, S)
         \/ AcceptRead(c, u, g)
    \/ \E c \in Calls : CreateWrite(c) \/ AddWrite(c) \/ AcceptWrite(c) \/ BlockSweep(c) \/ Abort(c)
    \/ \E u \in Users, g \in Groups : Decline(u, g)
    \/ \E c \in Calls, u \in Blockers, v \in Users : Block(c, u, v)
    \/ \E u \in Blockers, v \in Users : Unblock(u, v)

Next ==
    \/ Social
    \/ \E u, v \in Users, g \in Groups : RemoveMember(u, v, g)
    \/ \E u \in Users, g \in Groups : DeleteGroup(u, g)
    \/ \E u \in Users : DeleteAccount(u)

Spec == Init /\ [][Next]_mvars

-----------------------------------------------------------------------------
(* Properties.                                                             *)

\* Every variable has its type, and an invitation names who sent it: that is what
\* the block checks of acceptInvitation and block go by.
MembersTypeOK ==
    /\ gone \subseteq Users /\ blocks \subseteq Users \X Users
    /\ creator \in [Groups -> Users \union {None}] /\ closed \subseteq Groups
    /\ status \in [Groups -> [Users -> {"none", "invited", "active"}]]
    /\ invitedBy \in [Groups -> [Users -> Users \union {None}]]
    /\ call \in [Calls -> Call \union {None}]
    /\ \A g \in Groups, u \in Users : status[g][u] = "invited" => invitedBy[g][u] # None

\* Whoever administers a group is a member of it, through removals, successions
\* and everything that overlaps them (removeMember, deleteAccount).
CreatorBelongs ==
    \A g \in Groups : creator[g] # None => status[g][creator[g]] = "active"

\* An acceptance that overlaps a refusal, a removal or a block puts nobody in a
\* group: whoever becomes a member holds an invitation, or creates the group.
NobodyJoinsUninvited ==
    [][\A g \in Groups, u \in Users :
          status[g][u] # "active" /\ status'[g][u] = "active"
             => status[g][u] = "invited" \/ creator[g] = None]_mvars

\* "Pending invitations between the two end" with a block, and "nobody can be put
\* into a group against one"; the sweep that follows a block may still be to come.
NoInvitationAcrossBlock ==
    \A g \in Groups, u \in Users :
        status[g][u] = "invited" /\ Blocked(u, invitedBy[g][u])
            => \E c \in Calls : call[c] # None /\ call[c].kind = "sweep"
                                /\ {u, invitedBy[g][u]} = {call[c].user} \union call[c].whom

\* "Let a remaining member administer the group after its creator leaves."
SomebodyAdministers ==
    \A g \in Groups \ closed :
        (\E u \in Users \ gone : status[g][u] = "active") => creator[g] \notin gone
=============================================================================
