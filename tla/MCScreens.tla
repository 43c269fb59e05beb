------------------------------ MODULE MCScreens ------------------------------
(***************************************************************************)
(* Values for one phone with every screen: see the README for the bounds.  *)
(***************************************************************************)
EXTENDS Screens, TLC

CONSTANTS ana, ben, usdc, eth, shop, x, y, nick, trip, words

\* Send: enough of both tokens, for an amount and either fee.
ReadWallets == {usdc :> 9 @@ eth :> 9}
ReadWallet == {usdc :> 9}

\* Lists: a search finds x; a payment to x from outside the app, one to y in it; the history may
\* come back with notes and without an entry hidden since; nicknames from before or of one book.
FoundHere == words :> {x}
OutOfApp == [with |-> x, sent |-> TRUE, inApp |-> FALSE]
InApp == [with |-> y, sent |-> TRUE, inApp |-> TRUE]
SomeEntries == {OutOfApp, InApp}
SomeHistories == {OutOfApp :> "none" @@ InApp :> "none", OutOfApp :> "written" @@ InApp :> "hidden"}
NoBooks == {[books |-> Nobody, legacy |-> None]}
SomeBooks == {[books |-> Nobody, legacy |-> x :> nick], [books |-> ana :> (x :> nick), legacy |-> None]}

\* Add money: a set-up that works, and one for each thing that may be wrong with it.
Works == [mode |-> "sandbox", api |-> "pk_test", secret |-> "sk_test", host |-> "buy-sandbox",
          redirect |-> TRUE, source |-> "forwarded", header |-> FALSE]
LiveSite == [Works EXCEPT !.mode = "live", !.api = "pk_live", !.secret = "sk_live", !.host = "buy", !.redirect = FALSE]
SomeSites == {Works, [Works EXCEPT !.secret = "sk_live"], [Works EXCEPT !.api = "empty"], [Works EXCEPT !.host = "buy"],
              [Works EXCEPT !.redirect = FALSE, !.source = "true-client-ip", !.header = TRUE],
              LiveSite, [LiveSite EXCEPT !.source = "true-client-ip"]}

TwoSites == {Works, [Works EXCEPT !.api = "empty"]}

\* Receive: two account types of one signer.
TwoTypes == ana :> <<"a1", "a2">>

\* The page of a group: a debtor with something owed to them too, or a group of one.
SomeStarts == {[decision |-> "PENDING", owedToMe |-> TRUE, members |-> 2, creator |-> FALSE],
               [decision |-> "NONE", owedToMe |-> FALSE, members |-> 1, creator |-> TRUE]}
OneStart == {s \in SomeStarts : s.members = 2}
=============================================================================
