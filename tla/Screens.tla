------------------------------- MODULE Screens -------------------------------
(***************************************************************************)
(* The screens of the phone together: Send, the lists, Add money, the      *)
(* external wallet, Receive, Activity, the page of a group, and the choice *)
(* of a handle.  They share no state of the phone but what each module     *)
(* says of the sign-in, so one area of the app is in use in a behaviour    *)
(* and the others stay as they begin.                                      *)
(***************************************************************************)
EXTENDS SendScreen, ScreenLists, BuyScreen, WalletLink, ReceiveScreen, ActivityScreen, GroupScreen,
        IdentityScreen

CONSTANT Areas      \* bound: the areas of the app that a behaviour may use

ListAreas == {"wallet", "history", "groups", "people", "contact"}

ASSUME ScreensAssumption ==
    Areas \subseteq {"send", "buy", "link", "receive", "activity", "group", "identity"} \cup ListAreas

VARIABLE area       \* the area in use

screenVars == <<area, sendVars, listVars, buyVars, linkVars, receiveVars, activityVars, groupVars, identityVars>>

\* An area that is not used begins in one way only.
Unused ==
    /\ area \notin ListAreas => stored = CHOOSE kept \in Kept : TRUE
    /\ area # "buy" => site = (CHOOSE s \in Sites : TRUE) /\ net = CHOOSE n \in Connections : TRUE
    /\ area # "activity" => phone.record = None
    /\ area # "group" => owed = Begun(CHOOSE s \in Starts : TRUE)

ScreensInit ==
    /\ area \in Areas
    /\ SendInit /\ ListInit /\ BuyInit /\ LinkInit /\ ReceiveInit /\ ActivityInit /\ GroupScreenInit
    /\ IdentityInit
    /\ Unused

\* One area moves, the others stay.
OnlySend == UNCHANGED <<area, listVars, buyVars, linkVars, receiveVars, activityVars, groupVars, identityVars>>
OnlyList == UNCHANGED <<area, sendVars, buyVars, linkVars, receiveVars, activityVars, groupVars, identityVars>>
OnlyBuy == UNCHANGED <<area, sendVars, listVars, linkVars, receiveVars, activityVars, groupVars, identityVars>>
OnlyLink == UNCHANGED <<area, sendVars, listVars, buyVars, receiveVars, activityVars, groupVars, identityVars>>
OnlyReceive == UNCHANGED <<area, sendVars, listVars, buyVars, linkVars, activityVars, groupVars, identityVars>>
OnlyActivity == UNCHANGED <<area, sendVars, listVars, buyVars, linkVars, receiveVars, groupVars, identityVars>>
OnlyGroup == UNCHANGED <<area, sendVars, listVars, buyVars, linkVars, receiveVars, activityVars, identityVars>>
OnlyIdentity == UNCHANGED <<area, sendVars, listVars, buyVars, linkVars, receiveVars, activityVars, groupVars>>

Lists ==
    \/ Accounts
    \/ area = "wallet" /\ BalancesNext
    \/ area = "history" /\ HistoryNext
    \/ area = "groups" /\ GroupsNext
    \/ area = "people" /\ PeopleNext
    \/ area = "contact" /\ ContactNext

ScreensNext ==
    \/ area = "send" /\ SendNext /\ OnlySend
    \/ area \in ListAreas /\ Lists /\ OnlyList
    \/ area = "buy" /\ BuyNext /\ OnlyBuy
    \/ area = "link" /\ LinkNext /\ OnlyLink
    \/ area = "receive" /\ ReceiveNext /\ OnlyReceive
    \/ area = "activity" /\ ActivityNext /\ OnlyActivity
    \/ area = "group" /\ GroupScreenNext /\ OnlyGroup
    \/ area = "identity" /\ IdentityNext /\ OnlyIdentity

\* Every request of the phone ends, with an answer or after its time, and so does what waits for a
\* provider behind withTimeout or runAsyncOperation; a pass over the queue goes on, and it is not
\* the case that each loses one of the two requests of a key. One area is in use, so that fairness
\* of the disjunction is fairness of each.
Concludes(p) ==
    \/ area = "send" /\ Outcome(p) /\ OnlySend
    \/ area = "buy" /\ BuyTimer /\ OnlyBuy
    \/ area = "link" /\ LinkTimer /\ OnlyLink
    \/ area = "identity" /\ SignupStep /\ OnlyIdentity
    \/ area = "group" /\ (PassStep \/ retryPendingSettlements) /\ OnlyGroup

ScreensFairness ==
    /\ \A p \in Payments : WF_screenVars(Concludes(p))
    /\ WF_groupVars(area = "group" /\ GroupCall)
    /\ \A c \in Calls : WF_listVars(area \in ListAreas /\ Reply(c))
    /\ \A t \in Tries : WF_linkVars(area = "link" /\ TryFails(t))
    /\ \A t \in Settlements :
          SF_groupVars(PassTakes(t)) /\ SF_groupVars(Synced(t)) /\ SF_groupVars(Settled(t))

ScreensSpec == ScreensInit /\ [][ScreensNext]_screenVars /\ ScreensFairness

-----------------------------------------------------------------------------
(* Properties. *)

\* What a screen says is so: "Send" and the card of a merchant of the payment they have asked for,
\* "Activity" of those it lists, the page of a group of the share, the lists of what they hold.
ScreensTellTruth == ScreenTellsTruth /\ ActivityTellsTruth /\ PageTellsTruth /\ ListsTellTruth

\* An answer on screen is the answer to what stands in the form: the fee to this recipient, token
\* and amount, the availability to this handle.
AnswersAreOfForm == QuoteIsOfForm /\ AvailableIsOfTyped

\* Nothing on screen or kept under a person's key is another person's: lists, balance, nicknames,
\* shares, and what a newcomer has typed.
OnlyOwnData == ShownIsOfPerson /\ FormIsOwn

\* What stands on the phone gives way only to what should replace it: a balance to a newer
\* reading, nicknames to what their owner wants, a queued settlement to its settlement, however
\* requests, sign-ins and restarts overlap.
KeptStands == NewestReadingStands /\ NicknamesStay /\ EntryLeavesWhenSettled

\* No screen waits for ever: the payment is answered, a list is read, MoonPay's page has loaded,
\* the wallet is connected, the handle is registered, or the person is told.
Waiting ==
    \/ area = "send" /\ Busy
    \/ area \in ListAreas /\ Loading
    \/ area = "buy" /\ Spins
    \/ area = "link" /\ Connecting
    \/ area = "group" /\ page.busy # None
    \/ area = "identity" /\ identity # None /\ identity.busy
WaitingBeside ==
    \/ area \in ListAreas /\ LoadingBeside
    \/ area = "link" /\ link.checking
NothingWaitsForEver == (Waiting ~> ~Waiting) /\ (WaitingBeside ~> ~WaitingBeside)
=============================================================================
