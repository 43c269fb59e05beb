---------------------------- MODULE VaultPromise ----------------------------
(***************************************************************************)
(* What the group vault promises its members (docs/VAULT_PLAN.md), without *)
(* saying how: money put in leaves in two ways only.  Everybody stands by  *)
(* one and the same payout, and exactly that is paid; or everybody wants   *)
(* to leave before anything was paid, and everybody gets back exactly the  *)
(* share put in.                                                           *)
(***************************************************************************)
EXTENDS Integers

CONSTANTS
    Members,    \* the members of the vault
    Holders,    \* every address that can hold the token
    Vault,      \* the address of the vault, one of them
    Purses,     \* what each address holds at first
    Sum(_),     \* adds up the values of a function
    None

VARIABLES
    purse,      \* what each address holds
    share,      \* what each member has put in
    word,       \* by member, the payout the member stands by, or None
    leaving,    \* the members who want to dissolve the vault
    phase       \* nothing paid out yet, something paid out, dissolved

vars == <<purse, share, word, leaving, phase>>

Silent == [m \in Members |-> None]

Init ==
    /\ purse = Purses
    /\ share = [m \in Members |-> 0]
    /\ word = Silent
    /\ leaving = {}
    /\ phase = "whole"

PutIn(m, n) ==
    /\ phase = "whole"
    /\ purse' = [purse EXCEPT ![m] = @ - n, ![Vault] = @ + n]
    /\ share' = [share EXCEPT ![m] = @ + n]
    /\ UNCHANGED <<word, leaving, phase>>

\* Anyone can send the vault tokens; they are nobody's share.
Give(x, n) ==
    /\ purse' = [purse EXCEPT ![x] = @ - n, ![Vault] = @ + n]
    /\ UNCHANGED <<share, word, leaving, phase>>

\* A member stands by a payout the others who speak stand by as well.
StandBy(m, payout) ==
    /\ phase # "dissolved"
    /\ \A other \in Members : word[other] \in {None, payout}
    /\ word' = [word EXCEPT ![m] = payout]
    /\ UNCHANGED <<purse, share, leaving, phase>>

\* Words are taken back: by one member, or by everybody when the payout lapses.
TakeBack(S) ==
    /\ word' = [m \in Members |-> IF m \in S THEN None ELSE word[m]]
    /\ UNCHANGED <<purse, share, leaving, phase>>

Pay(payout) ==
    /\ phase # "dissolved"
    /\ \A m \in Members : word[m] = payout
    /\ purse' = [purse EXCEPT ![Vault] = @ - payout.amount,
                              ![payout.recipient] = @ + payout.amount]
    /\ word' = Silent
    /\ phase' = "spent"
    /\ UNCHANGED <<share, leaving>>

WantToLeave(m) ==
    /\ phase # "dissolved"
    /\ leaving' = IF m \in leaving THEN leaving \ {m} ELSE leaving \union {m}
    /\ UNCHANGED <<purse, share, word, phase>>

Dissolve ==
    /\ phase = "whole"
    /\ leaving = Members
    /\ \E all \in 0..purse[Vault] :
         /\ all = Sum(share)
         /\ purse' = [x \in Holders |->
                        IF x = Vault THEN purse[x] - all
                        ELSE IF x \in Members THEN purse[x] + share[x]
                        ELSE purse[x]]
    /\ share' = [m \in Members |-> 0]
    /\ word' = Silent
    /\ phase' = "dissolved"
    /\ UNCHANGED leaving

\* What the pot can pay, to anybody else.
Payouts == [recipient : Holders \ {Vault}, amount : 1..purse[Vault]]

Next ==
    \/ \E m \in Members : \E n \in 1..purse[m] : PutIn(m, n)
    \/ \E x \in Holders \ {Vault} : \E n \in 0..purse[x] : Give(x, n)
    \/ \E m \in Members, payout \in Payouts : StandBy(m, payout)
    \/ \E S \in SUBSET Members : TakeBack(S)
    \/ \E payout \in Payouts : Pay(payout)
    \/ \E m \in Members : WantToLeave(m)
    \/ Dissolve

Spec == Init /\ [][Next]_vars
=============================================================================
