----------------------------- MODULE GroupVault -----------------------------
(***************************************************************************)
(* contracts/src/AtaraGroupVault.sol: a pot of fixed members with a lock   *)
(* date, unanimous withdrawals and a unanimous dissolution.                *)
(*                                                                         *)
(* An action is one call that does not revert; a call that reverts changes *)
(* nothing.  Calls come from anyone, in any order and as often as they     *)
(* like, so a client that repeats a call after a lost reply is one of the  *)
(* behaviours.  The token is external: it moves what it is told to, but    *)
(* may keep a fee, and anyone may send the vault tokens.                   *)
(***************************************************************************)
EXTENDS Integers, FiniteSetsExt

CONSTANTS
    Members,            \* the members fixed by the constructor
    Strangers,          \* other addresses
    Vault, Token, Zero, \* this contract, the token's, and no address
    Purses,             \* what each address holds at first
    Fees,               \* what the token may keep of a transfer
    DepositIds,         \* identifiers a client gives a deposit
    Amount,             \* the amount a client deposits under an identifier
    Amounts,            \* amounts that withdrawals are proposed for, or given away
    UnlockAt,           \* when deposits end and withdrawals begin
    Cap,                \* maxTotalDeposits
    Lifetime,           \* PROPOSAL_LIFETIME
    MaxTime,            \* bound: when the clock stops
    MaxProposals,       \* bound: how many proposals are opened
    None

Holders == Members \union Strangers \union {Vault, Token, Zero}

ASSUME MembersAssumption ==
    /\ IsFiniteSet(Members) /\ Cardinality(Members) \in 2..10
    /\ {Vault, Token, Zero} \intersect (Members \union Strangers) = {}
    /\ Strangers \intersect Members = {}
    /\ Vault \notin {Token, Zero}
ASSUME TermsAssumption ==
    /\ UnlockAt \in Nat \ {0} /\ Cap \in Nat \ {0} /\ Lifetime \in Nat \ {0}
    /\ MaxTime \in Nat /\ MaxProposals \in Nat
ASSUME TokenAssumption ==
    /\ Purses \in [Holders -> Nat] /\ Purses[Vault] = 0
    /\ Fees \subseteq Nat /\ 0 \in Fees
    /\ Amount \in [DepositIds -> Nat] /\ Amounts \subseteq Nat

VARIABLES
    now,                        \* block.timestamp
    purse,                      \* the token: what each address holds
    accepted, acceptedCount,
    totalDeposited, totalWithdrawn,
    contributions, usedDepositIds,
    proposalId, proposal,
    approved,                   \* by proposal, the members who approved it
    cancellationApproved, cancellationApprovalCount,
    cancelled

terms     == <<accepted, acceptedCount>>
accounts  == <<totalDeposited, totalWithdrawn, contributions, usedDepositIds>>
voting    == <<proposalId, proposal, approved>>
leaving   == <<cancellationApproved, cancellationApprovalCount, cancelled>>
vars == <<now, purse, terms, accounts, voting, leaving>>

N == Cardinality(Members)

Proposal == [recipient : Holders, amount : Nat, expiresAt : Nat,
             approvalCount : 0..N,
             executed : BOOLEAN, cancelled : BOOLEAN]

Sum(f) == MapThenSumSet(LAMBDA m : f[m], Members)

Init ==
    /\ now = 0
    /\ purse = Purses
    /\ accepted = {} /\ acceptedCount = 0
    /\ totalDeposited = 0 /\ totalWithdrawn = 0
    /\ contributions = [m \in Members |-> 0]
    /\ usedDepositIds = [m \in Members |-> {}]
    /\ proposalId = 0
    /\ proposal = [recipient |-> Zero, amount |-> 0, expiresAt |-> 0,
                   approvalCount |-> 0, executed |-> FALSE, cancelled |-> FALSE]
    /\ approved = [id \in 1..MaxProposals |-> {}]
    /\ cancellationApproved = {} /\ cancellationApprovalCount = 0
    /\ cancelled = FALSE

\* A proposal that can still be voted on, called off and executed.
Open == /\ proposalId # 0 /\ ~proposal.executed /\ ~proposal.cancelled
        /\ now < proposal.expiresAt

\* Defect: the expiry is not looked at again.
CheckForgetsExpiry(id) ==
    id = proposalId /\ id # 0 /\ ~proposal.executed /\ ~proposal.cancelled

\* _checkProposal
CheckProposal(id) == Open /\ id = proposalId

\* Defect: the caller counts as approving.
AllButOne == proposal.approvalCount + 1 >= N

Unanimous == proposal.approvalCount = N

\* token.transfer: reverts when the payer has too little.
Move(from, to, n, fee) ==
    /\ n <= purse[from] /\ fee <= n
    /\ purse' = [purse EXCEPT ![from] = @ - n, ![to] = @ + n - fee]

-----------------------------------------------------------------------------

AcceptTerms(m) ==
    /\ m \in Members /\ ~cancelled
    /\ now < UnlockAt
    /\ m \notin accepted
    /\ accepted' = accepted \union {m}
    /\ acceptedCount' = acceptedCount + 1
    /\ UNCHANGED <<now, purse, accounts, voting, leaving>>

\* Defect: a repeated deposit is not recognised.
MayDepositAgain(m, d) ==
    /\ now < UnlockAt /\ acceptedCount = N
    /\ Amount[d] # 0 /\ Amount[d] <= Cap - totalDeposited

MayDeposit(m, d) ==
    /\ d \notin usedDepositIds[m]
    /\ now < UnlockAt /\ acceptedCount = N
    /\ Amount[d] # 0 /\ Amount[d] <= Cap - totalDeposited

Arrived(n) == purse'[Vault] = purse[Vault] + n

Deposit(m, d) ==
    /\ m \in Members /\ ~cancelled
    /\ MayDeposit(m, d)
    /\ usedDepositIds' = [usedDepositIds EXCEPT ![m] = @ \union {d}]
    /\ totalDeposited' = totalDeposited + Amount[d]
    /\ contributions' = [contributions EXCEPT ![m] = @ + Amount[d]]
    /\ \E fee \in Fees : Move(m, Vault, Amount[d], fee)
    /\ Arrived(Amount[d])
    /\ UNCHANGED <<now, terms, totalWithdrawn, voting, leaving>>

\* Defect: the amount is compared with the books, not with the balance.
PayableOnPaper(amount) == amount # 0 /\ amount <= totalDeposited

Payable(amount) == amount # 0 /\ amount <= purse[Vault]

VotesAtFirst == 0

ProposeWithdrawal(m, recipient, amount, nextId) ==
    /\ m \in Members /\ ~cancelled
    /\ nextId = proposalId + 1 /\ nextId <= MaxProposals
    /\ now >= UnlockAt
    /\ acceptedCount = N
    /\ recipient \notin {Zero, Vault, Token}
    /\ Payable(amount)
    /\ ~Open
    /\ proposalId' = proposalId + 1
    /\ proposal' = [recipient |-> recipient, amount |-> amount,
                    expiresAt |-> now + Lifetime, approvalCount |-> VotesAtFirst,
                    executed |-> FALSE, cancelled |-> FALSE]
    /\ UNCHANGED <<now, purse, terms, accounts, approved, leaving>>

SetApproval(m, id, approve) ==
    /\ m \in Members /\ ~cancelled
    /\ CheckProposal(id)
    /\ (m \in approved[id]) # approve
    /\ approved' = [approved EXCEPT ![id] = IF approve THEN @ \union {m} ELSE @ \ {m}]
    /\ proposal' = [proposal EXCEPT !.approvalCount = IF approve THEN @ + 1 ELSE @ - 1]
    /\ UNCHANGED <<now, purse, terms, accounts, proposalId, leaving>>

CancelProposal(m, id) ==
    /\ m \in Members /\ ~cancelled
    /\ CheckProposal(id)
    /\ proposal' = [proposal EXCEPT !.cancelled = TRUE]
    /\ UNCHANGED <<now, purse, terms, accounts, proposalId, approved, leaving>>

ExecuteWithdrawal(m, id) ==
    /\ m \in Members /\ ~cancelled
    /\ now >= UnlockAt
    /\ CheckProposal(id)
    /\ Unanimous
    /\ proposal' = [proposal EXCEPT !.executed = TRUE]
    /\ totalWithdrawn' = totalWithdrawn + proposal.amount
    /\ \E fee \in Fees : Move(Vault, proposal.recipient, proposal.amount, fee)
    /\ UNCHANGED <<now, terms, totalDeposited, contributions, usedDepositIds,
                   proposalId, approved, leaving>>

SetCancellationApproval(m, approve) ==
    /\ m \in Members /\ ~cancelled
    /\ (m \in cancellationApproved) # approve
    /\ cancellationApproved' =
         IF approve THEN cancellationApproved \union {m} ELSE cancellationApproved \ {m}
    /\ cancellationApprovalCount' =
         IF approve THEN cancellationApprovalCount + 1 ELSE cancellationApprovalCount - 1
    /\ UNCHANGED <<now, purse, terms, accounts, voting, cancelled>>

Refundable == totalWithdrawn = 0 /\ ~Open /\ cancellationApprovalCount = N

\* One transfer per member with a contribution; if one reverts, they all do.
CancelVault(m) ==
    /\ m \in Members /\ ~cancelled
    /\ Refundable
    /\ cancelled' = TRUE
    /\ \E refunded \in 0..purse[Vault], fee \in [Members -> Fees] :
         /\ refunded = Sum(contributions)
         /\ \A x \in Members : fee[x] <= contributions[x]
         /\ purse' = [x \in Holders |->
                        IF x = Vault THEN purse[x] - refunded
                        ELSE IF x \in Members THEN purse[x] + contributions[x] - fee[x]
                        ELSE purse[x]]
    /\ contributions' = [x \in Members |-> 0]
    /\ totalDeposited' = 0
    /\ UNCHANGED <<now, terms, totalWithdrawn, usedDepositIds, voting,
                   cancellationApproved, cancellationApprovalCount>>

\* The token and the clock.
Donate(x, n) ==
    /\ x # Vault
    /\ \E fee \in Fees : Move(x, Vault, n, fee)
    /\ UNCHANGED <<now, terms, accounts, voting, leaving>>

Tick ==
    /\ now < MaxTime
    /\ now' = now + 1
    /\ UNCHANGED <<purse, terms, accounts, voting, leaving>>

Next ==
    \/ \E m \in Holders :
         \/ AcceptTerms(m)
         \/ \E d \in DepositIds : Deposit(m, d)
         \/ \E recipient \in Holders, amount \in Amounts, nextId \in 1..MaxProposals :
              ProposeWithdrawal(m, recipient, amount, nextId)
         \/ \E id \in 1..MaxProposals, approve \in BOOLEAN : SetApproval(m, id, approve)
         \/ \E id \in 1..MaxProposals : CancelProposal(m, id)
         \/ \E id \in 1..MaxProposals : ExecuteWithdrawal(m, id)
         \/ \E approve \in BOOLEAN : SetCancellationApproval(m, approve)
         \/ CancelVault(m)
    \/ \E x \in Strangers, n \in Amounts : Donate(x, n)
    \/ Tick

Spec == Init /\ [][Next]_vars

-----------------------------------------------------------------------------
(* Properties.                                                             *)

\* Every variable has its type, and the deposits stay within the cap.
TypeOK ==
    /\ now \in Nat
    /\ purse \in [Holders -> Nat]
    /\ accepted \subseteq Members /\ acceptedCount \in 0..N
    /\ totalDeposited \in 0..Cap /\ totalWithdrawn \in Nat
    /\ contributions \in [Members -> Nat]
    /\ usedDepositIds \in [Members -> SUBSET DepositIds]
    /\ proposalId \in 0..MaxProposals /\ proposal \in Proposal
    /\ approved \in [1..MaxProposals -> SUBSET Members]
    /\ cancellationApproved \subseteq Members /\ cancellationApprovalCount \in 0..N
    /\ cancelled \in BOOLEAN

\* The contract never counts votes again, it keeps counters.  Each of them is
\* the number of members who hold that vote now, across every change of mind
\* and every new proposal (which starts from nobody).
CountsAreTrue ==
    /\ acceptedCount = Cardinality(accepted)
    /\ cancellationApprovalCount = Cardinality(cancellationApproved)
    /\ proposalId # 0 => proposal.approvalCount = Cardinality(approved[proposalId])

\* The vault pays out only what every single member agrees to at that moment:
\* the standing proposal, unexpired and past the lock date, or the dissolution
\* of a vault that has paid nothing yet (executeWithdrawal, cancelVault).
PaidOnlyWhenAllAgree ==
    [][purse'[Vault] < purse[Vault] =>
         /\ ~cancelled
         /\ \/ /\ Open /\ now >= UnlockAt
               /\ approved[proposalId] = Members
               /\ purse'[Vault] = purse[Vault] - proposal.amount
               /\ \A x \in Holders \ {Vault, proposal.recipient} : purse'[x] = purse[x]
            \/ /\ cancellationApproved = Members /\ totalWithdrawn = 0
               /\ \A x \in Holders \ (Members \union {Vault}) : purse'[x] = purse[x]]_vars

\* The amount is compared with the balance when the withdrawal is proposed and
\* never again: until the proposal is closed the vault can still pay it.
OpenIsPayable ==
    Open /\ ~cancelled => proposal.amount <= purse[Vault]

\* The books of a vault: each deposit counts once, however often it is repeated after a
\* lost reply, and as long as nothing was withdrawn every contribution can be paid back,
\* which cancelVault relies on when it ignores the balance.
BooksAreTrue ==
    ~cancelled =>
        /\ \A m \in Members :
             contributions[m] = MapThenSumSet(LAMBDA d : Amount[d], usedDepositIds[m])
        /\ totalWithdrawn = 0 =>
             /\ totalDeposited = Sum(contributions)
             /\ totalDeposited <= purse[Vault]

\* A dissolved vault has given everybody back exactly what they had (for a
\* token that keeps no fee), whatever was voted, proposed or donated before.
RefundIsExact ==
    cancelled => \A m \in Members : purse[m] = Purses[m]

\* What the members were promised (for a token that keeps no fee).
Promise == INSTANCE VaultPromise WITH
    share   <- contributions,
    word    <- [m \in Members |->
                  IF Open /\ m \in approved[proposalId]
                  THEN [recipient |-> proposal.recipient, amount |-> proposal.amount]
                  ELSE None],
    leaving <- cancellationApproved,
    phase   <- IF cancelled THEN "dissolved"
               ELSE IF totalWithdrawn = 0 THEN "whole" ELSE "spent"

\* The contract does what VaultPromise says, one call a step or nothing at all.
KeepsPromise == Promise!Spec
=============================================================================
