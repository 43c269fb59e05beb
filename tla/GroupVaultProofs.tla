-------------------------- MODULE GroupVaultProofs --------------------------
(***************************************************************************)
(* Proofs about GroupVault, for every set of members, every token and all  *)
(* terms.  Votes and payouts need only the balance of one address at a     *)
(* time; the books are sums (SumTheorems).  Last, the factory that makes   *)
(* vaults (VaultFactory), which shares nothing with a vault it made.       *)
(***************************************************************************)
EXTENDS GroupVault, VaultFactory, SumTheorems

\* A proposal not opened yet has no votes.
FreshAreBlank == \A id \in 1..MaxProposals : id > proposalId => approved[id] = {}

\* There is a proposal only after the lock date, and it is worth paying.
ProposedIsSound ==
    /\ proposalId # 0 =>
         /\ now >= UnlockAt
         /\ proposal.recipient \notin {Zero, Vault, Token}
         /\ proposal.amount >= 1
    /\ totalWithdrawn # 0 => proposalId # 0

\* The inductive invariant.
VaultInv == TypeOK /\ CountsAreTrue /\ FreshAreBlank /\ ProposedIsSound /\ OpenIsPayable

LEMMA VVotes ==
    ASSUME NEW S \in SUBSET Members, NEW m \in Members
    PROVE  /\ Cardinality(S) \in 0..N
           /\ Cardinality(S \union {m}) \in 0..N /\ Cardinality(S \ {m}) \in 0..N
           /\ m \notin S => Cardinality(S \union {m}) = Cardinality(S) + 1
           /\ m \in S => Cardinality(S \ {m}) = Cardinality(S) - 1
           /\ Cardinality(S) = N => S = Members
<1>1. IsFiniteSet(Members)
  BY MembersAssumption
<1>2. IsFiniteSet(S) /\ IsFiniteSet(S \union {m}) /\ IsFiniteSet(S \ {m})
  BY <1>1, FS_Subset
<1>3. /\ Cardinality(S) <= N /\ Cardinality(S \union {m}) <= N /\ Cardinality(S \ {m}) <= N
      /\ Cardinality(S) = N => S = Members
  BY <1>1, FS_Subset DEF N
<1>4. Cardinality(S) \in Nat /\ Cardinality(S \union {m}) \in Nat /\ Cardinality(S \ {m}) \in Nat
  BY <1>2, FS_CardinalityType
<1>5. N \in Nat
  BY <1>1, FS_CardinalityType DEF N
<1>6. m \notin S => Cardinality(S \union {m}) = Cardinality(S) + 1
  BY <1>2, FS_AddElement
<1>7. m \in S => Cardinality(S \ {m}) = Cardinality(S) - 1
  BY <1>2, FS_RemoveElement
<1> QED
  BY <1>3, <1>4, <1>5, <1>6, <1>7

LEMMA VBounds == N \in Nat \ {0, 1} /\ Cardinality({}) = 0 /\ Vault \notin Members
BY MembersAssumption, FS_CardinalityType, FS_EmptySet DEF N

LEMMA VInit == Init => VaultInv
<1> SUFFICES ASSUME Init PROVE VaultInv
  OBVIOUS
<1> USE MembersAssumption, TermsAssumption, TokenAssumption, VBounds DEF Init
<1>1. TypeOK
  <2>1. purse \in [Holders -> Nat] /\ proposal \in Proposal
    BY DEF Holders, Proposal
  <2>2. contributions \in [Members -> Nat] /\ usedDepositIds \in [Members -> SUBSET DepositIds]
    OBVIOUS
  <2>3. approved \in [1..MaxProposals -> SUBSET Members] /\ proposalId \in 0..MaxProposals
    OBVIOUS
  <2>4. now \in Nat /\ acceptedCount \in 0..N /\ cancellationApprovalCount \in 0..N
        /\ totalDeposited \in 0..Cap /\ totalWithdrawn \in Nat
    OBVIOUS
  <2> QED
    BY <2>1, <2>2, <2>3, <2>4 DEF TypeOK
<1>2. CountsAreTrue /\ FreshAreBlank /\ ProposedIsSound /\ OpenIsPayable
  BY DEF CountsAreTrue, FreshAreBlank, ProposedIsSound, OpenIsPayable, Open
<1> QED
  BY <1>1, <1>2 DEF VaultInv

\* A transfer of the token leaves every balance a balance.
LEMMA VMove ==
    ASSUME TypeOK, NEW a \in Holders, NEW b \in Holders, a # b,
           NEW n \in Nat, NEW fee \in Fees, Move(a, b, n, fee)
    PROVE  /\ purse' \in [Holders -> Nat]
           /\ purse'[a] = purse[a] - n /\ purse'[b] >= purse[b]
           /\ \A x \in Holders \ {a, b} : purse'[x] = purse[x]
<1>1. fee \in Nat /\ purse[a] \in Nat /\ purse[b] \in Nat /\ purse \in [Holders -> Nat]
  BY TokenAssumption DEF TypeOK
<1>2. purse[a] - n \in Nat /\ purse[b] + n - fee \in Nat /\ purse[b] + n - fee >= purse[b]
  BY <1>1 DEF Move
<1>3. purse' = [purse EXCEPT ![a] = purse[a] - n, ![b] = purse[b] + n - fee]
  BY DEF Move
<1> QED
  BY <1>1, <1>2, <1>3

LEMMA VAcceptTerms ==
    ASSUME VaultInv, NEW m \in Holders, AcceptTerms(m)
    PROVE  VaultInv'
<1> USE DEF VaultInv, AcceptTerms, accounts, voting, leaving
<1>1. acceptedCount' = Cardinality(accepted') /\ acceptedCount' \in 0..N
  <2>1. accepted \in SUBSET Members /\ m \in Members /\ acceptedCount = Cardinality(accepted)
    BY DEF CountsAreTrue, TypeOK
  <2> QED
    BY <2>1, VVotes
<1>2. TypeOK'
  BY <1>1 DEF TypeOK
<1>3. CountsAreTrue' /\ FreshAreBlank' /\ ProposedIsSound' /\ OpenIsPayable'
  BY <1>1 DEF CountsAreTrue, FreshAreBlank, ProposedIsSound, OpenIsPayable, Open
<1> QED
  BY <1>2, <1>3

LEMMA VDeposit ==
    ASSUME VaultInv, NEW m \in Holders, NEW d \in DepositIds, Deposit(m, d)
    PROVE  VaultInv'
<1> USE DEF VaultInv, Deposit, terms, voting, leaving
<1>1. m \in Members /\ m # Vault /\ Vault \in Holders /\ Amount[d] \in Nat
  BY VBounds, TokenAssumption DEF Holders
<1>2. PICK fee \in Fees : Move(m, Vault, Amount[d], fee)
  OBVIOUS
<1>3. purse' \in [Holders -> Nat] /\ purse'[Vault] >= purse[Vault]
  BY <1>1, <1>2, VMove
<1>4. totalDeposited' \in 0..Cap
  BY <1>1, TermsAssumption DEF MayDeposit, TypeOK
<1>5. contributions' \in [Members -> Nat] /\ usedDepositIds' \in [Members -> SUBSET DepositIds]
  BY <1>1 DEF TypeOK
<1>6. TypeOK'
  BY <1>3, <1>4, <1>5 DEF TypeOK
<1>7. CountsAreTrue' /\ FreshAreBlank' /\ ProposedIsSound'
  BY DEF CountsAreTrue, FreshAreBlank, ProposedIsSound
<1>8. OpenIsPayable'
  <2>1. proposal.amount \in Nat /\ purse[Vault] \in Nat /\ purse'[Vault] \in Nat
    BY <1>1, <1>3 DEF TypeOK, Proposal
  <2> QED
    BY <1>3, <2>1 DEF OpenIsPayable, Open
<1> QED
  BY <1>6, <1>7, <1>8

LEMMA VProposeWithdrawal ==
    ASSUME VaultInv, NEW m \in Holders, NEW recipient \in Holders, NEW amount \in Amounts,
           NEW nextId \in 1..MaxProposals, ProposeWithdrawal(m, recipient, amount, nextId)
    PROVE  VaultInv'
<1> USE DEF VaultInv, ProposeWithdrawal, terms, accounts, leaving
<1>1. amount \in Nat /\ amount >= 1 /\ amount <= purse[Vault]
  BY TokenAssumption DEF Payable
<1>2. proposalId' \in 1..MaxProposals /\ proposalId' > proposalId
  BY TermsAssumption DEF TypeOK
<1>3. proposal' \in Proposal
  BY <1>1, VBounds, TermsAssumption DEF TypeOK, Proposal, VotesAtFirst
<1>4. TypeOK'
  BY <1>2, <1>3, TermsAssumption DEF TypeOK
<1>5. approved'[proposalId'] = {}
  BY <1>2 DEF FreshAreBlank
<1>6. CountsAreTrue'
  BY <1>5, VBounds DEF CountsAreTrue, VotesAtFirst
<1>7. FreshAreBlank'
  BY <1>2, TermsAssumption DEF FreshAreBlank, TypeOK
<1>8. ProposedIsSound' /\ OpenIsPayable'
  BY <1>1, <1>2 DEF ProposedIsSound, OpenIsPayable
<1> QED
  BY <1>4, <1>6, <1>7, <1>8

LEMMA VSetApproval ==
    ASSUME VaultInv, NEW m \in Holders, NEW id \in 1..MaxProposals, NEW approve \in BOOLEAN,
           SetApproval(m, id, approve)
    PROVE  VaultInv'
<1> USE DEF VaultInv, SetApproval, terms, accounts, leaving
<1>1. m \in Members /\ id = proposalId /\ id # 0 /\ approved[id] \in SUBSET Members
  BY DEF CheckProposal, Open, TypeOK
<1>2. approved'[id] = IF approve THEN approved[id] \union {m} ELSE approved[id] \ {m}
  BY DEF TypeOK
<1>3. /\ proposal'.approvalCount = Cardinality(approved'[id])
      /\ proposal'.approvalCount \in 0..N
  <2>1. proposal'.approvalCount =
          IF approve THEN proposal.approvalCount + 1 ELSE proposal.approvalCount - 1
    BY DEF TypeOK, Proposal
  <2>2. proposal.approvalCount = Cardinality(approved[id])
    BY <1>1 DEF CountsAreTrue
  <2> QED
    BY <1>1, <1>2, <2>1, <2>2, VVotes
<1>4. /\ proposal' \in Proposal
      /\ proposal'.recipient = proposal.recipient /\ proposal'.amount = proposal.amount
      /\ proposal'.expiresAt = proposal.expiresAt
      /\ proposal'.executed = proposal.executed /\ proposal'.cancelled = proposal.cancelled
  BY <1>3 DEF TypeOK, Proposal
<1>5. approved' \in [1..MaxProposals -> SUBSET Members]
  BY <1>1 DEF TypeOK
<1>6. TypeOK'
  BY <1>4, <1>5 DEF TypeOK
<1>7. CountsAreTrue'
  BY <1>1, <1>3 DEF CountsAreTrue
<1>8. FreshAreBlank'
  BY <1>1 DEF FreshAreBlank, TypeOK
<1>9. ProposedIsSound' /\ OpenIsPayable'
  BY <1>4 DEF ProposedIsSound, OpenIsPayable, Open
<1> QED
  BY <1>6, <1>7, <1>8, <1>9

LEMMA VCancelProposal ==
    ASSUME VaultInv, NEW m \in Holders, NEW id \in 1..MaxProposals, CancelProposal(m, id)
    PROVE  VaultInv'
<1> USE DEF VaultInv, CancelProposal, terms, accounts, leaving
<1>1. /\ proposal' \in Proposal
      /\ proposal'.recipient = proposal.recipient /\ proposal'.amount = proposal.amount
      /\ proposal'.approvalCount = proposal.approvalCount /\ proposal'.cancelled
  BY DEF TypeOK, Proposal
<1>2. TypeOK'
  BY <1>1 DEF TypeOK
<1>3. CountsAreTrue' /\ FreshAreBlank' /\ ProposedIsSound' /\ OpenIsPayable'
  BY <1>1 DEF CountsAreTrue, FreshAreBlank, ProposedIsSound, OpenIsPayable, Open
<1> QED
  BY <1>2, <1>3

\* A payout leaves the types alone but those of what it touches.
LEMMA TypeKept ==
    ASSUME TypeOK, proposal' \in Proposal, totalWithdrawn' \in Nat, purse' \in [Holders -> Nat],
           UNCHANGED <<now, terms, totalDeposited, contributions, usedDepositIds, proposalId, approved, leaving>>
    PROVE  TypeOK'
BY DEF TypeOK, terms, leaving

LEMMA VExecuteWithdrawal ==
    ASSUME VaultInv, NEW m \in Holders, NEW id \in 1..MaxProposals, ExecuteWithdrawal(m, id)
    PROVE  VaultInv'
<1> USE DEF VaultInv, ExecuteWithdrawal, terms, leaving
<1>1. /\ proposal' \in Proposal
      /\ proposal'.recipient = proposal.recipient /\ proposal'.amount = proposal.amount
      /\ proposal'.approvalCount = proposal.approvalCount /\ proposal'.executed
      /\ proposal.amount \in Nat /\ proposal.recipient \in Holders
  BY DEF TypeOK, Proposal
<1>2. proposalId # 0 /\ Vault \in Holders /\ proposal.recipient # Vault
  BY DEF CheckProposal, Open, ProposedIsSound, Holders
<1>3. purse' \in [Holders -> Nat]
  <2>1. PICK fee \in Fees : Move(Vault, proposal.recipient, proposal.amount, fee)
    OBVIOUS
  <2> QED
    BY <1>1, <1>2, <2>1, VMove
<1>4. TypeOK'
  <2>1. totalWithdrawn' \in Nat
    BY <1>1 DEF TypeOK
  <2>2. UNCHANGED <<now, terms, totalDeposited, contributions, usedDepositIds, proposalId, approved, leaving>>
    OBVIOUS
  <2> QED
    BY <1>1, <1>3, <2>1, <2>2, TypeKept
<1>5. CountsAreTrue' /\ FreshAreBlank' /\ ProposedIsSound' /\ OpenIsPayable'
  BY <1>1, <1>2 DEF CountsAreTrue, FreshAreBlank, ProposedIsSound, OpenIsPayable, Open
<1> QED
  BY <1>4, <1>5

LEMMA VSetCancellationApproval ==
    ASSUME VaultInv, NEW m \in Holders, NEW approve \in BOOLEAN,
           SetCancellationApproval(m, approve)
    PROVE  VaultInv'
<1> USE DEF VaultInv, SetCancellationApproval, terms, accounts, voting
<1>1. /\ cancellationApprovalCount' = Cardinality(cancellationApproved')
      /\ cancellationApprovalCount' \in 0..N /\ cancellationApproved' \subseteq Members
  <2>1. /\ cancellationApproved \in SUBSET Members /\ m \in Members
        /\ cancellationApprovalCount = Cardinality(cancellationApproved)
    BY DEF CountsAreTrue, TypeOK
  <2> QED
    BY <2>1, VVotes
<1>2. TypeOK'
  BY <1>1 DEF TypeOK
<1>3. CountsAreTrue' /\ FreshAreBlank' /\ ProposedIsSound' /\ OpenIsPayable'
  BY <1>1 DEF CountsAreTrue, FreshAreBlank, ProposedIsSound, OpenIsPayable, Open
<1> QED
  BY <1>2, <1>3

LEMMA VCancelVault ==
    ASSUME VaultInv, NEW m \in Holders, CancelVault(m)
    PROVE  VaultInv'
<1> USE DEF VaultInv, CancelVault, terms, voting
<1>1. purse' \in [Holders -> Nat]
  <2>1. PICK refunded \in 0..purse[Vault], fee \in [Members -> Fees] :
          /\ \A x \in Members : fee[x] <= contributions[x]
          /\ purse' = [x \in Holders |->
                         IF x = Vault THEN purse[x] - refunded
                         ELSE IF x \in Members THEN purse[x] + contributions[x] - fee[x]
                         ELSE purse[x]]
    OBVIOUS
  <2>2. ASSUME NEW x \in Members
        PROVE  purse[x] + contributions[x] - fee[x] \in Nat
    <3>1. contributions[x] \in Nat /\ fee[x] \in Nat /\ fee[x] <= contributions[x]
      BY <2>1, TokenAssumption DEF TypeOK
    <3>2. purse[x] \in Nat
      BY DEF TypeOK, Holders
    <3> QED
      BY <3>1, <3>2
  <2>3. purse[Vault] - refunded \in Nat
    BY <2>1 DEF TypeOK, Holders
  <2> QED
    BY <2>1, <2>2, <2>3 DEF TypeOK
<1>2. TypeOK'
  BY <1>1, TermsAssumption DEF TypeOK
<1>3. CountsAreTrue' /\ FreshAreBlank' /\ ProposedIsSound' /\ OpenIsPayable'
  BY DEF CountsAreTrue, FreshAreBlank, ProposedIsSound, OpenIsPayable
<1> QED
  BY <1>2, <1>3

LEMMA VDonate ==
    ASSUME VaultInv, NEW x \in Strangers, NEW n \in Amounts, Donate(x, n)
    PROVE  VaultInv'
<1> USE DEF VaultInv, Donate, terms, accounts, voting, leaving
<1>1. x \in Holders /\ Vault \in Holders /\ n \in Nat
  BY TokenAssumption DEF Holders
<1>2. PICK fee \in Fees : Move(x, Vault, n, fee)
  OBVIOUS
<1>3. purse' \in [Holders -> Nat] /\ purse'[Vault] >= purse[Vault]
  BY <1>1, <1>2, VMove
<1>4. TypeOK'
  BY <1>3 DEF TypeOK
<1>5. CountsAreTrue' /\ FreshAreBlank' /\ ProposedIsSound'
  BY DEF CountsAreTrue, FreshAreBlank, ProposedIsSound
<1>6. OpenIsPayable'
  <2>1. proposal.amount \in Nat /\ purse[Vault] \in Nat /\ purse'[Vault] \in Nat
    BY <1>1, <1>3 DEF TypeOK, Proposal
  <2> QED
    BY <1>3, <2>1 DEF OpenIsPayable, Open
<1> QED
  BY <1>4, <1>5, <1>6

LEMMA VTick ==
    ASSUME VaultInv, Tick
    PROVE  VaultInv'
<1> USE DEF VaultInv, Tick, terms, accounts, voting, leaving
<1>1. TypeOK'
  BY DEF TypeOK
<1>2. CountsAreTrue' /\ FreshAreBlank'
  BY DEF CountsAreTrue, FreshAreBlank
<1>3. ProposedIsSound' /\ OpenIsPayable'
  BY TermsAssumption DEF ProposedIsSound, OpenIsPayable, Open, TypeOK, Proposal
<1> QED
  BY <1>1, <1>2, <1>3

LEMMA VNext == VaultInv /\ [Next]_vars => VaultInv'
<1> SUFFICES ASSUME VaultInv, [Next]_vars PROVE VaultInv'
  OBVIOUS
<1>1. CASE Next
  BY <1>1, VAcceptTerms, VDeposit, VProposeWithdrawal, VSetApproval, VCancelProposal,
     VExecuteWithdrawal, VSetCancellationApproval, VCancelVault, VDonate, VTick DEF Next
<1>2. CASE UNCHANGED vars
  BY <1>2 DEF VaultInv, TypeOK, CountsAreTrue, FreshAreBlank, ProposedIsSound, OpenIsPayable,
     Open, vars, terms, accounts, voting, leaving
<1> QED
  BY <1>1, <1>2

LEMMA VaultInvHolds == Spec => []VaultInv
BY VInit, VNext, PTL DEF Spec

-----------------------------------------------------------------------------

(* Every variable keeps its type and the deposits never exceed the cap:    *)
(* no counter of AtaraGroupVault under- or overflows.                      *)
THEOREM VaultTypeCorrect == Spec => []TypeOK
<1>1. VaultInv => TypeOK
  BY DEF VaultInv
<1> QED
  BY <1>1, VaultInvHolds, PTL

(* The counters that stand for the votes are the number of votes, whatever *)
(* the members change their mind about.                                    *)
THEOREM VotesCounted == Spec => []CountsAreTrue
<1>1. VaultInv => CountsAreTrue
  BY DEF VaultInv
<1> QED
  BY <1>1, VaultInvHolds, PTL

(* A proposal that can be executed can be paid (proposeWithdrawal is the   *)
(* only place that looks at the balance).                                  *)
THEOREM AlwaysPayable == Spec => []OpenIsPayable
<1>1. VaultInv => OpenIsPayable
  BY DEF VaultInv
<1> QED
  BY <1>1, VaultInvHolds, PTL

-----------------------------------------------------------------------------
(* Who is paid, and when.                                                  *)

AgreedPayout ==
    /\ Open /\ now >= UnlockAt
    /\ approved[proposalId] = Members
    /\ purse'[Vault] = purse[Vault] - proposal.amount
    /\ \A x \in Holders \ {Vault, proposal.recipient} : purse'[x] = purse[x]

AgreedRefund ==
    /\ cancellationApproved = Members /\ totalWithdrawn = 0
    /\ \A x \in Holders \ (Members \union {Vault}) : purse'[x] = purse[x]

LEMMA VUnanimous ==
    ASSUME VaultInv
    PROVE  /\ proposalId # 0 /\ Unanimous => approved[proposalId] = Members
           /\ cancellationApprovalCount = N => cancellationApproved = Members
<1>1. PICK m \in Members : TRUE
  BY VBounds, FS_EmptySet DEF N
<1>2. cancellationApproved \in SUBSET Members
  BY DEF VaultInv, TypeOK
<1>3. proposalId # 0 => approved[proposalId] \in SUBSET Members
  BY DEF VaultInv, TypeOK
<1>4. proposalId # 0 => proposal.approvalCount = Cardinality(approved[proposalId])
  BY DEF VaultInv, CountsAreTrue
<1>5. cancellationApprovalCount = Cardinality(cancellationApproved)
  BY DEF VaultInv, CountsAreTrue
<1>6. proposalId # 0 /\ Unanimous => approved[proposalId] = Members
  BY <1>1, <1>3, <1>4, VVotes DEF Unanimous
<1>7. cancellationApprovalCount = N => cancellationApproved = Members
  BY <1>1, <1>2, <1>5, VVotes
<1> QED
  BY <1>6, <1>7

LEMMA VExecutePays ==
    ASSUME VaultInv, NEW m \in Holders, NEW id \in 1..MaxProposals, ExecuteWithdrawal(m, id)
    PROVE  ~cancelled /\ AgreedPayout
<1> USE DEF ExecuteWithdrawal
<1>1. Open /\ now >= UnlockAt /\ proposalId # 0 /\ Unanimous /\ ~cancelled
  BY DEF CheckProposal, Open
<1>2. /\ TypeOK /\ Vault \in Holders /\ proposal.recipient \in Holders
      /\ proposal.recipient # Vault /\ proposal.amount \in Nat
  BY <1>1 DEF VaultInv, TypeOK, Proposal, ProposedIsSound, Holders
<1>3. PICK fee \in Fees : Move(Vault, proposal.recipient, proposal.amount, fee)
  OBVIOUS
<1>4. /\ purse'[Vault] = purse[Vault] - proposal.amount
      /\ \A x \in Holders \ {Vault, proposal.recipient} : purse'[x] = purse[x]
  BY <1>2, <1>3, VMove
<1> QED
  BY <1>1, <1>4, VUnanimous DEF AgreedPayout

LEMMA VCancelPays ==
    ASSUME VaultInv, NEW m \in Holders, CancelVault(m)
    PROVE  ~cancelled /\ AgreedRefund
<1>1. \A x \in Holders \ (Members \union {Vault}) : purse'[x] = purse[x]
  BY DEF CancelVault
<1> QED
  BY <1>1, VUnanimous DEF CancelVault, Refundable, AgreedRefund

LEMMA VOthersPayNothing ==
    ASSUME VaultInv, Next, purse'[Vault] < purse[Vault]
    PROVE  \/ \E m \in Holders, id \in 1..MaxProposals : ExecuteWithdrawal(m, id)
           \/ \E m \in Holders : CancelVault(m)
<1>1. purse[Vault] \in Nat
  BY DEF VaultInv, TypeOK, Holders
<1>2. ASSUME NEW m \in Holders, NEW d \in DepositIds, Deposit(m, d) PROVE FALSE
  BY <1>1, <1>2, TokenAssumption DEF Deposit, Arrived
<1>3. ASSUME NEW x \in Strangers, NEW n \in Amounts, Donate(x, n) PROVE FALSE
  <2>1. PICK fee \in Fees : Move(x, Vault, n, fee)
    BY <1>3 DEF Donate
  <2>2. x \in Holders /\ Vault \in Holders /\ x # Vault /\ n \in Nat
    BY <1>3, TokenAssumption DEF Holders, Donate
  <2>3. purse'[Vault] >= purse[Vault] /\ purse' \in [Holders -> Nat]
    BY <2>1, <2>2, VMove DEF VaultInv
  <2> QED
    BY <1>1, <2>2, <2>3
<1>4. purse' = purse => FALSE
  BY <1>1
<1> QED
  BY <1>2, <1>3, <1>4 DEF Next, AcceptTerms, ProposeWithdrawal, SetApproval, CancelProposal,
     SetCancellationApproval, Tick

(* Money leaves the vault only as every member agreed at that moment: by   *)
(* executeWithdrawal for the standing proposal, or by cancelVault.         *)
THEOREM PayoutsAreUnanimous == Spec => PaidOnlyWhenAllAgree
<1>1. VaultInv /\ [Next]_vars =>
        [purse'[Vault] < purse[Vault] => ~cancelled /\ (AgreedPayout \/ AgreedRefund)]_vars
  <2> SUFFICES ASSUME VaultInv, Next, purse'[Vault] < purse[Vault]
               PROVE  ~cancelled /\ (AgreedPayout \/ AgreedRefund)
    OBVIOUS
  <2> QED
    BY VOthersPayNothing, VExecutePays, VCancelPays
<1>2. [purse'[Vault] < purse[Vault] => ~cancelled /\ (AgreedPayout \/ AgreedRefund)]_vars
      <=> [purse'[Vault] < purse[Vault] =>
            /\ ~cancelled
            /\ \/ /\ Open /\ now >= UnlockAt
                  /\ approved[proposalId] = Members
                  /\ purse'[Vault] = purse[Vault] - proposal.amount
                  /\ \A x \in Holders \ {Vault, proposal.recipient} : purse'[x] = purse[x]
               \/ /\ cancellationApproved = Members /\ totalWithdrawn = 0
                  /\ \A x \in Holders \ (Members \union {Vault}) : purse'[x] = purse[x]]_vars
  BY DEF AgreedPayout, AgreedRefund
<1> QED
  BY <1>1, <1>2, VaultInvHolds, PTL DEF Spec, PaidOnlyWhenAllAgree

-----------------------------------------------------------------------------
(* The books: sums over the members and over the deposits of each.         *)

\* BooksAreTrue, with the sums of SumTheorems.
SumsAreTrue ==
    ~cancelled =>
        /\ \A m \in Members : contributions[m] = SumOver(Amount, usedDepositIds[m])
        /\ totalWithdrawn = 0 =>
             /\ totalDeposited = SumOver(contributions, Members)
             /\ totalDeposited <= purse[Vault]

BooksInv ==
    /\ \A m \in Members : IsFiniteSet(usedDepositIds[m])
    /\ SumsAreTrue

\* A deposit adds its amount to the sums it belongs to, once.
LEMMA VBooksDeposit ==
    ASSUME VaultInv, BooksInv, NEW m \in Holders, NEW d \in DepositIds, Deposit(m, d)
    PROVE  BooksInv'
<1>1. /\ m \in Members /\ ~cancelled /\ d \notin usedDepositIds[m]
      /\ usedDepositIds' = [usedDepositIds EXCEPT ![m] = @ \union {d}]
      /\ totalDeposited' = totalDeposited + Amount[d]
      /\ contributions' = [contributions EXCEPT ![m] = @ + Amount[d]]
      /\ purse'[Vault] = purse[Vault] + Amount[d]
      /\ UNCHANGED <<totalWithdrawn, cancelled>>
  BY DEF Deposit, MayDeposit, Arrived, leaving
<1>2. /\ contributions \in [Members -> Nat] /\ usedDepositIds \in [Members -> SUBSET DepositIds]
      /\ totalDeposited \in Nat /\ purse[Vault] \in Nat
  BY TermsAssumption DEF VaultInv, TypeOK, Holders
<1>3. \A c \in DepositIds : Amount[c] \in Nat
  BY TokenAssumption
<1>4. \A x \in Members : IsFiniteSet(usedDepositIds[x])
  BY DEF BooksInv
<1>5. /\ usedDepositIds'[m] = usedDepositIds[m] \union {d}
      /\ \A x \in Members \ {m} : usedDepositIds'[x] = usedDepositIds[x]
      /\ contributions'[m] = contributions[m] + Amount[d]
      /\ \A x \in Members \ {m} : contributions'[x] = contributions[x]
  BY <1>1, <1>2
<1>6. \A x \in Members : IsFiniteSet(usedDepositIds'[x])
  BY <1>1, <1>4, <1>5, FS_AddElement
<1>7. SumOver(Amount, usedDepositIds[m] \union {d}) = Amount[d] + SumOver(Amount, usedDepositIds[m])
  BY <1>1, <1>2, <1>3, <1>4, SumWith
<1>8. \A x \in Members : contributions[x] = SumOver(Amount, usedDepositIds[x])
  BY <1>1 DEF BooksInv, SumsAreTrue
<1>9. \A x \in Members : contributions'[x] = SumOver(Amount, usedDepositIds'[x])
  <2>1. SumOver(Amount, usedDepositIds[m]) \in Nat
    BY <1>1, <1>2, <1>8
  <2> QED
    BY <1>1, <1>2, <1>3, <1>5, <1>7, <1>8, <2>1
<1>10. SumOver(contributions', Members) = SumOver(contributions, Members) + Amount[d]
  <2>1. SumOver(contributions, Members) \in Int
    BY <1>2, MembersAssumption, SumType
  <2>2. \A x \in Members : contributions[x] \in Int /\ contributions'[x] \in Int
    BY <1>2, <1>3, <1>5
  <2>3. IsFiniteSet(Members) /\ m \in Members /\ \A x \in Members \ {m} : contributions[x] = contributions'[x]
    BY <1>1, <1>5, MembersAssumption
  <2>4. SumOver(contributions', Members) = SumOver(contributions, Members) - contributions[m] + contributions'[m]
    BY <2>2, <2>3, SumChanged
  <2> QED
    BY <1>1, <1>2, <1>3, <1>5, <2>1, <2>4
<1>11. totalWithdrawn = 0 => /\ totalDeposited = SumOver(contributions, Members)
                             /\ totalDeposited <= purse[Vault]
  BY <1>1 DEF BooksInv, SumsAreTrue
<1>12. totalWithdrawn' = 0 => /\ totalDeposited' = SumOver(contributions', Members)
                              /\ totalDeposited' <= purse'[Vault]
  BY <1>1, <1>2, <1>3, <1>10, <1>11
<1> QED
  BY <1>6, <1>9, <1>12 DEF BooksInv, SumsAreTrue

\* The other calls leave the books, or close them.
LEMMA VBooksStay ==
    ASSUME BooksInv, UNCHANGED <<contributions, usedDepositIds, totalDeposited, totalWithdrawn, cancelled>>,
           totalDeposited <= purse[Vault] => totalDeposited <= purse'[Vault]
    PROVE  BooksInv'
BY DEF BooksInv, SumsAreTrue

LEMMA VBooksNext == VaultInv /\ BooksInv /\ [Next]_vars => BooksInv'
<1> SUFFICES ASSUME VaultInv, BooksInv, [Next]_vars PROVE BooksInv'
  OBVIOUS
<1>1. ASSUME NEW m \in Holders, NEW id \in 1..MaxProposals, ExecuteWithdrawal(m, id)
      PROVE  BooksInv'
  <2>1. proposal.amount \in Nat /\ proposal.amount >= 1 /\ totalWithdrawn \in Nat
    BY <1>1 DEF ExecuteWithdrawal, CheckProposal, Open, VaultInv, TypeOK, Proposal, ProposedIsSound
  <2>2. totalWithdrawn' # 0
    BY <1>1, <2>1 DEF ExecuteWithdrawal
  <2> QED
    BY <1>1, <2>2 DEF ExecuteWithdrawal, leaving, BooksInv, SumsAreTrue
<1>2. ASSUME NEW m \in Holders, CancelVault(m)
      PROVE  BooksInv'
  BY <1>2 DEF CancelVault, BooksInv, SumsAreTrue
<1>3. ASSUME NEW x \in Strangers, NEW n \in Amounts, Donate(x, n)
      PROVE  BooksInv'
  <2>1. PICK fee \in Fees : Move(x, Vault, n, fee)
    BY <1>3 DEF Donate
  <2>2. x \in Holders /\ Vault \in Holders /\ x # Vault /\ n \in Nat
    BY <1>3, TokenAssumption DEF Holders, Donate
  <2>3. purse'[Vault] >= purse[Vault] /\ purse' \in [Holders -> Nat]
    BY <2>1, <2>2, VMove DEF VaultInv
  <2>4. purse[Vault] \in Nat /\ purse'[Vault] \in Nat /\ totalDeposited \in Nat
    BY <2>2, <2>3, TermsAssumption DEF VaultInv, TypeOK
  <2> QED
    BY <1>3, <2>3, <2>4, VBooksStay DEF Donate, accounts, leaving
<1>4. CASE UNCHANGED <<contributions, usedDepositIds, totalDeposited, totalWithdrawn, cancelled, purse>>
  BY <1>4, VBooksStay
<1> QED
  BY <1>1, <1>2, <1>3, <1>4, VBooksDeposit
  DEF Next, AcceptTerms, ProposeWithdrawal, SetApproval, CancelProposal, SetCancellationApproval, Tick,
      vars, terms, accounts, voting, leaving

(* Each deposit counts once, and as long as nothing was withdrawn all that *)
(* was put in can be paid back (deposit, cancelVault): for any token, any  *)
(* number of members and of deposits.                                      *)
THEOREM BooksStayTrue == Spec => []BooksAreTrue
<1>1. Init => BooksInv
  <2> SUFFICES ASSUME Init PROVE BooksInv
    OBVIOUS
  <2>1. /\ \A m \in Members : usedDepositIds[m] = {} /\ contributions[m] = 0
        /\ totalDeposited = 0 /\ purse[Vault] = 0
    BY TokenAssumption DEF Init
  <2>2. \A m \in Members : IsFiniteSet(usedDepositIds[m])
    BY <2>1, FS_EmptySet
  <2>3. SumOver(Amount, {}) = 0
    BY SumEmpty
  <2>4. SumOver(contributions, Members) = 0
    BY <2>1, MembersAssumption, SumZero
  <2> QED
    BY <2>1, <2>2, <2>3, <2>4 DEF BooksInv, SumsAreTrue
<1>2. BooksInv => BooksAreTrue
  BY DEF BooksInv, SumsAreTrue, BooksAreTrue, Sum, SumOver
<1> QED
  BY <1>1, <1>2, VBooksNext, VaultInvHolds, PTL DEF Spec

-----------------------------------------------------------------------------
(* A token that keeps no fee: nobody loses anything by a dissolution, and  *)
(* the contract does what VaultPromise says.                               *)

\* Until something is paid out, what a member lacks is what the member put in.
NothingMissing ==
    ~cancelled /\ totalWithdrawn = 0 =>
        \A m \in Members : purse[m] + contributions[m] = Purses[m]

LEMMA VMoveExact ==
    ASSUME Fees = {0}, TypeOK, NEW a \in Holders, NEW b \in Holders, a # b,
           NEW n \in Nat, NEW fee \in Fees, Move(a, b, n, fee)
    PROVE  /\ n \in 0..purse[a]
           /\ purse' = [purse EXCEPT ![a] = @ - n, ![b] = @ + n]
<1>1. fee = 0 /\ purse[a] \in Nat /\ purse[b] \in Nat
  BY DEF TypeOK
<1>2. purse[b] + n - fee = purse[b] + n /\ n \in 0..purse[a]
  BY <1>1 DEF Move
<1> QED
  BY <1>2 DEF Move

LEMMA VCancelExact ==
    ASSUME Fees = {0}, TypeOK, NEW m \in Holders, CancelVault(m)
    PROVE  \E all \in 0..purse[Vault] :
             /\ all = Sum(contributions)
             /\ purse' = [x \in Holders |->
                            IF x = Vault THEN purse[x] - all
                            ELSE IF x \in Members THEN purse[x] + contributions[x]
                            ELSE purse[x]]
<1>1. PICK refunded \in 0..purse[Vault], fee \in [Members -> Fees] :
        /\ refunded = Sum(contributions)
        /\ purse' = [x \in Holders |->
                       IF x = Vault THEN purse[x] - refunded
                       ELSE IF x \in Members THEN purse[x] + contributions[x] - fee[x]
                       ELSE purse[x]]
  BY DEF CancelVault
<1>2. \A x \in Members : purse[x] + contributions[x] - fee[x] = purse[x] + contributions[x]
  <2> SUFFICES ASSUME NEW x \in Members
               PROVE  purse[x] + contributions[x] - fee[x] = purse[x] + contributions[x]
    OBVIOUS
  <2>1. fee[x] = 0 /\ purse[x] \in Nat /\ contributions[x] \in Nat
    BY <1>1 DEF TypeOK, Holders
  <2> QED
    BY <2>1
<1>3. purse' = [x \in Holders |->
                 IF x = Vault THEN purse[x] - refunded
                 ELSE IF x \in Members THEN purse[x] + contributions[x]
                 ELSE purse[x]]
  BY <1>1, <1>2
<1> QED
  BY <1>1, <1>3

LEMMA VNothingMissingNext ==
    ASSUME Fees = {0}
    PROVE  VaultInv /\ NothingMissing /\ RefundIsExact /\ [Next]_vars
             => NothingMissing' /\ RefundIsExact'
<1> SUFFICES ASSUME VaultInv, NothingMissing, RefundIsExact, [Next]_vars
             PROVE  NothingMissing' /\ RefundIsExact'
  OBVIOUS
<1>0. TypeOK /\ Members \subseteq Holders /\ Vault \in Holders /\ Vault \notin Members
  BY VBounds DEF VaultInv, Holders
<1> USE DEF NothingMissing, RefundIsExact
<1>1. ASSUME NEW m \in Holders, NEW d \in DepositIds, Deposit(m, d)
      PROVE  NothingMissing' /\ RefundIsExact'
  <2>1. PICK fee \in Fees : Move(m, Vault, Amount[d], fee)
    BY <1>1 DEF Deposit
  <2>2. m \in Members /\ Amount[d] \in Nat /\ ~cancelled /\ ~cancelled'
    BY <1>1, TokenAssumption DEF Deposit, leaving
  <2>3. purse' = [purse EXCEPT ![m] = @ - Amount[d], ![Vault] = @ + Amount[d]]
    BY <1>0, <2>1, <2>2, VMoveExact
  <2>4. contributions' = [contributions EXCEPT ![m] = @ + Amount[d]]
        /\ totalWithdrawn' = totalWithdrawn
    BY <1>1 DEF Deposit
  <2>5. ASSUME NEW x \in Members
        PROVE  purse'[x] + contributions'[x] = purse[x] + contributions[x]
    <3>1. purse[x] \in Nat /\ contributions[x] \in Nat
      BY <1>0 DEF TypeOK
    <3>2. purse'[x] = IF x = m THEN purse[x] - Amount[d] ELSE purse[x]
      BY <1>0, <2>2, <2>3 DEF TypeOK
    <3>3. contributions'[x] = IF x = m THEN contributions[x] + Amount[d] ELSE contributions[x]
      BY <1>0, <2>2, <2>4 DEF TypeOK
    <3> QED
      BY <2>2, <3>1, <3>2, <3>3
  <2> QED
    BY <2>2, <2>4, <2>5
<1>2. ASSUME NEW m \in Holders, NEW id \in 1..MaxProposals, ExecuteWithdrawal(m, id)
      PROVE  NothingMissing' /\ RefundIsExact'
  <2>1. totalWithdrawn \in Nat /\ proposal.amount >= 1 /\ proposal.amount \in Nat
    BY <1>2 DEF VaultInv, TypeOK, Proposal, ProposedIsSound, ExecuteWithdrawal, CheckProposal, Open
  <2>2. totalWithdrawn' # 0 /\ ~cancelled'
    BY <1>2, <2>1 DEF ExecuteWithdrawal, leaving
  <2> QED
    BY <2>2
<1>3. ASSUME NEW m \in Holders, CancelVault(m)
      PROVE  NothingMissing' /\ RefundIsExact'
  <2>1. cancelled' /\ ~cancelled /\ totalWithdrawn = 0
    BY <1>3 DEF CancelVault, Refundable
  <2>2. \A x \in Members : purse'[x] = purse[x] + contributions[x]
    BY <1>0, <1>3, VCancelExact
  <2> QED
    BY <2>1, <2>2
<1>4. ASSUME NEW x \in Strangers, NEW n \in Amounts, Donate(x, n)
      PROVE  NothingMissing' /\ RefundIsExact'
  <2>1. PICK fee \in Fees : Move(x, Vault, n, fee)
    BY <1>4 DEF Donate
  <2>2. x \in Holders /\ x # Vault /\ n \in Nat /\ x \notin Members
    BY <1>4, MembersAssumption, TokenAssumption DEF Holders, Donate
  <2>3. \A m \in Members : purse'[m] = purse[m]
    BY <1>0, <2>1, <2>2, VMove
  <2> QED
    BY <1>4, <2>3 DEF Donate, accounts, leaving
<1>5. UNCHANGED <<purse, contributions, totalWithdrawn, cancelled>>
        => NothingMissing' /\ RefundIsExact'
  OBVIOUS
<1> QED
  BY <1>1, <1>2, <1>3, <1>4, <1>5 DEF Next, AcceptTerms, ProposeWithdrawal, SetApproval,
     CancelProposal, SetCancellationApproval, Tick, vars, terms, accounts, voting, leaving

(* A dissolved vault leaves every member with what the member had at       *)
(* first: cancelVault pays each exactly the recorded contribution.         *)
THEOREM RefundsAreExact ==
    ASSUME Fees = {0}
    PROVE  Spec => []RefundIsExact
<1>1. Init => NothingMissing /\ RefundIsExact
  <2> SUFFICES ASSUME Init PROVE NothingMissing
    BY DEF Init, RefundIsExact
  <2>1. \A m \in Members : purse[m] \in Nat /\ contributions[m] = 0 /\ purse[m] = Purses[m]
    BY TokenAssumption DEF Init, Holders
  <2> QED
    BY <2>1 DEF NothingMissing
<1> QED
  BY <1>1, VaultInvHolds, VNothingMissingNext, PTL DEF Spec

-----------------------------------------------------------------------------

Payout == [recipient |-> proposal.recipient, amount |-> proposal.amount]

LEMMA VPromiseStep ==
    ASSUME Fees = {0}
    PROVE  VaultInv /\ [Next]_vars => [Promise!Next]_(Promise!vars)
<1> SUFFICES ASSUME VaultInv, [Next]_vars PROVE [Promise!Next]_(Promise!vars)
  OBVIOUS
<1>0. TypeOK /\ Members \subseteq Holders /\ Vault \in Holders /\ Vault \notin Members
  BY VBounds DEF VaultInv, Holders
<1>1. ASSUME NEW m \in Holders, AcceptTerms(m)
      PROVE  UNCHANGED Promise!vars
  BY <1>1 DEF AcceptTerms, Promise!vars, Open, accounts, voting, leaving
<1>2. ASSUME NEW m \in Holders, NEW d \in DepositIds, Deposit(m, d)
      PROVE  Promise!Next
  <2>1. PICK fee \in Fees : Move(m, Vault, Amount[d], fee)
    BY <1>2 DEF Deposit
  <2>2. m \in Members /\ Amount[d] \in Nat /\ Amount[d] # 0
    BY <1>2, TokenAssumption DEF Deposit, MayDeposit
  <2>3. Amount[d] \in 1..purse[m]
        /\ purse' = [purse EXCEPT ![m] = @ - Amount[d], ![Vault] = @ + Amount[d]]
    BY <1>0, <2>1, <2>2, VMoveExact
  <2>4. totalWithdrawn = 0
    BY <1>2, TermsAssumption DEF Deposit, MayDeposit, VaultInv, ProposedIsSound, TypeOK
  <2>5. Promise!PutIn(m, Amount[d])
    BY <1>2, <2>3, <2>4 DEF Promise!PutIn, Deposit, Open, voting, leaving
  <2> QED
    BY <2>2, <2>3, <2>5 DEF Promise!Next
<1>3. ASSUME NEW m \in Holders, NEW recipient \in Holders, NEW amount \in Amounts,
             NEW nextId \in 1..MaxProposals, ProposeWithdrawal(m, recipient, amount, nextId)
      PROVE  UNCHANGED Promise!vars
  <2>1. ~Open /\ proposalId' = proposalId + 1 /\ proposalId' \in 1..MaxProposals
    BY <1>3 DEF ProposeWithdrawal
  <2>2. approved'[proposalId'] = {}
    BY <1>3, <2>1 DEF VaultInv, TypeOK, FreshAreBlank, ProposeWithdrawal
  <2> QED
    BY <1>3, <2>1, <2>2 DEF ProposeWithdrawal, Promise!vars, accounts, leaving
<1>4. ASSUME NEW m \in Holders, NEW id \in 1..MaxProposals, NEW approve \in BOOLEAN,
             SetApproval(m, id, approve)
      PROVE  Promise!Next
  <2>1. /\ m \in Members /\ ~cancelled /\ Open /\ id = proposalId
        /\ UNCHANGED <<now, purse, contributions, totalWithdrawn, proposalId,
                       cancellationApproved, cancelled>>
    BY <1>4 DEF SetApproval, CheckProposal, accounts, leaving
  <2>2. /\ proposal'.recipient = proposal.recipient /\ proposal'.amount = proposal.amount
        /\ proposal'.expiresAt = proposal.expiresAt
        /\ proposal'.executed = proposal.executed /\ proposal'.cancelled = proposal.cancelled
    BY <1>4 DEF SetApproval, VaultInv, TypeOK, Proposal
  <2>3. Open' /\ Payout' = Payout
    BY <2>1, <2>2 DEF Open, Payout
  <2>4. approved'[proposalId] = IF approve THEN approved[proposalId] \union {m}
                                ELSE approved[proposalId] \ {m}
    BY <1>4, <2>1 DEF SetApproval, VaultInv, TypeOK
  <2>5. CASE approve
    <3>1. Payout \in Promise!Payouts
      BY <1>0, <2>1 DEF Promise!Payouts, Payout, VaultInv, TypeOK, Proposal, OpenIsPayable,
         ProposedIsSound, Open
    <3>2. PICK payout : payout = Payout
      OBVIOUS
    <3>3. Promise!StandBy(m, payout)
      BY <2>1, <2>2, <2>3, <2>4, <2>5, <3>2 DEF Promise!StandBy, Payout
    <3> QED
      BY <2>1, <3>1, <3>2, <3>3 DEF Promise!Next
  <2>6. CASE ~approve
    <3>1. Promise!TakeBack({m})
      BY <2>1, <2>2, <2>3, <2>4, <2>6 DEF Promise!TakeBack, Payout
    <3> QED
      BY <2>1, <3>1 DEF Promise!Next
  <2> QED
    BY <2>5, <2>6
<1>5. ASSUME NEW m \in Holders, NEW id \in 1..MaxProposals, CancelProposal(m, id)
      PROVE  Promise!Next
  <2>1. ~Open'
    BY <1>5 DEF CancelProposal, VaultInv, TypeOK, Proposal, Open
  <2>2. Promise!TakeBack(Members)
    BY <1>5, <2>1 DEF Promise!TakeBack, CancelProposal, accounts, leaving
  <2> QED
    BY <2>2 DEF Promise!Next
<1>6. ASSUME NEW m \in Holders, NEW id \in 1..MaxProposals, ExecuteWithdrawal(m, id)
      PROVE  Promise!Next
  <2>1. /\ Open /\ ~cancelled /\ proposalId # 0 /\ approved[proposalId] = Members
        /\ UNCHANGED <<contributions, cancellationApproved, cancelled>>
    BY <1>6, VUnanimous DEF ExecuteWithdrawal, CheckProposal, Open, leaving
  <2>2. /\ proposal.recipient \in Holders \ {Vault} /\ proposal.amount \in Nat
        /\ proposal.amount >= 1 /\ totalWithdrawn \in Nat
    BY <2>1 DEF VaultInv, TypeOK, Proposal, ProposedIsSound
  <2>3. PICK fee \in Fees : Move(Vault, proposal.recipient, proposal.amount, fee)
    BY <1>6 DEF ExecuteWithdrawal
  <2>4. /\ proposal.amount \in 1..purse[Vault]
        /\ purse' = [purse EXCEPT ![Vault] = @ - proposal.amount,
                                  ![proposal.recipient] = @ + proposal.amount]
    BY <1>0, <2>2, <2>3, VMoveExact
  <2>5. ~Open' /\ totalWithdrawn' # 0
    BY <1>6, <2>2 DEF ExecuteWithdrawal, VaultInv, TypeOK, Proposal, Open
  <2>6. PICK payout : payout = Payout
    OBVIOUS
  <2>7. Promise!Pay(payout)
    BY <2>1, <2>4, <2>5, <2>6 DEF Promise!Pay, Promise!Silent, Payout
  <2>8. payout \in Promise!Payouts
    BY <2>2, <2>4, <2>6 DEF Promise!Payouts, Payout
  <2> QED
    BY <2>7, <2>8 DEF Promise!Next
<1>7. ASSUME NEW m \in Holders, NEW approve \in BOOLEAN, SetCancellationApproval(m, approve)
      PROVE  Promise!Next
  <2>1. m \in Members /\ Promise!WantToLeave(m)
    BY <1>7 DEF Promise!WantToLeave, SetCancellationApproval, Open, accounts, voting
  <2> QED
    BY <2>1 DEF Promise!Next
<1>8. ASSUME NEW m \in Holders, CancelVault(m)
      PROVE  Promise!Next
  <2>1. ~Open /\ ~Open' /\ totalWithdrawn = 0 /\ ~cancelled /\ cancelled'
    BY <1>8 DEF CancelVault, Refundable, Open, voting
  <2>2. cancellationApproved = Members
    BY <1>8, VUnanimous DEF CancelVault, Refundable
  <2>3. Promise!Dissolve
    BY <1>0, <1>8, <2>1, <2>2, VCancelExact DEF Promise!Dissolve, Promise!Silent, CancelVault
  <2> QED
    BY <2>3 DEF Promise!Next
<1>9. ASSUME NEW x \in Strangers, NEW n \in Amounts, Donate(x, n)
      PROVE  Promise!Next
  <2>1. PICK fee \in Fees : Move(x, Vault, n, fee)
    BY <1>9 DEF Donate
  <2>2. x \in Holders \ {Vault} /\ n \in Nat
    BY <1>9, TokenAssumption DEF Donate, Holders
  <2>3. n \in 0..purse[x] /\ purse' = [purse EXCEPT ![x] = @ - n, ![Vault] = @ + n]
    BY <1>0, <2>1, <2>2, VMoveExact
  <2>4. Promise!Give(x, n)
    BY <1>9, <2>3 DEF Promise!Give, Donate, Open, accounts, voting, leaving
  <2> QED
    BY <2>2, <2>3, <2>4 DEF Promise!Next
<1>10. ASSUME Tick
       PROVE  [Promise!Next]_(Promise!vars)
  <2>1. CASE Open <=> Open'
    BY <1>10, <2>1 DEF Tick, Promise!vars, accounts, voting, leaving
  <2>2. CASE ~Open'
    <3>1. Promise!TakeBack(Members)
      BY <1>10, <2>2 DEF Promise!TakeBack, Tick, accounts, leaving
    <3> QED
      BY <3>1 DEF Promise!Next
  <2>3. Open' => Open
    BY <1>10 DEF Tick, Open, voting, VaultInv, TypeOK, Proposal
  <2> QED
    BY <2>1, <2>2, <2>3
<1>11. UNCHANGED vars => UNCHANGED Promise!vars
  BY DEF vars, Promise!vars, Open, accounts, voting, leaving
<1> QED
  BY <1>1, <1>2, <1>3, <1>4, <1>5, <1>6, <1>7, <1>8, <1>9, <1>10, <1>11 DEF Next

(* The contract implements the promise made to its members: every call is  *)
(* one step of VaultPromise or changes nothing a member was promised.      *)
THEOREM PromiseIsKept ==
    ASSUME Fees = {0}
    PROVE  Spec => KeepsPromise
<1>1. Init => Promise!Init
  BY DEF Init, Promise!Init, Promise!Silent, Open
<1> QED
  BY <1>1, VaultInvHolds, VPromiseStep, PTL DEF Spec, KeepsPromise, Promise!Spec

-----------------------------------------------------------------------------
(* The factory: a key makes one vault, the lists of members are complete,  *)
(* and a reader that goes through a list page by page misses nothing, for  *)
(* any accounts, salts, terms, bounds and sizes of a page.                 *)

\* No vault has the number that says there is none.
UnsetIsNoVault == Unset \notin Nat

\* Pages are counted from the newest vault, and vaults only join at that end: what lies
\* beyond the reader's offset has been seen, if it was there when the reader began.
ReaderIsOnItsWay ==
    reader # Unset =>
        LET list == memberVaults[reader.member] IN
        \A j \in 1 .. Len(list) :
            j > Len(list) - reader.offset /\ list[j] <= reader.first => list[j] \in reader.seen

FactoryInv ==
    /\ FactoryTypeOK
    /\ VaultsHaveKeys
    /\ ListsAreComplete
    /\ ReaderIsOnItsWay
    /\ NoVaultIsMissed

-----------------------------------------------------------------------------

\* Nothing is there at first.
LEMMA InitFactory == FactoryInit => FactoryInv
  BY DEF FactoryInit, FactoryInv, FactoryTypeOK, VaultsHaveKeys, ListsAreComplete, ReaderIsOnItsWay, NoVaultIsMissed

\* A page holds the vaults of the list between two places, and no more than are left.
LEMMA PageOfList ==
  ASSUME NEW S, NEW list \in Seq(S), NEW offset \in Nat, NEW limit \in Nat \ {0}
  PROVE  LET page == Page(list, offset, limit) IN
         /\ Len(page) \in Nat /\ DOMAIN page = 1 .. Len(page)
         /\ offset >= Len(list) => Len(page) = 0
         /\ \A i \in 1 .. Len(page) : page[i] \in S
         /\ \A j \in 1 .. Len(list) :
               j > Len(list) - offset - Len(page) /\ j <= Len(list) - offset
               => \E i \in 1 .. Len(page) : page[i] = list[j]
<1> DEFINE left == Len(list) - offset
           count == IF left > limit THEN limit ELSE left
<1>1. CASE offset >= Len(list)
  BY <1>1 DEF Page
<1>2. CASE ~(offset >= Len(list))
  <2>1. count \in Nat /\ count <= left
    BY <1>2
  <2>2. Page(list, offset, limit) = [i \in 1 .. count |-> list[Len(list) - offset - (i - 1)]]
    BY <1>2 DEF Page
  <2> HIDE DEF count
  <2>3. /\ DOMAIN Page(list, offset, limit) = 1 .. count
        /\ Len(Page(list, offset, limit)) = count
    BY <2>1, <2>2
  <2>4. \A i \in 1 .. count : Page(list, offset, limit)[i] \in S
    BY <2>1, <2>2
  <2>5. ASSUME NEW j \in 1 .. Len(list), j > Len(list) - offset - count, j <= Len(list) - offset
        PROVE  \E i \in 1 .. count : Page(list, offset, limit)[i] = list[j]
    <3>1. Len(list) - offset - j + 1 \in 1 .. count
      BY <2>1, <2>5
    <3>2. Page(list, offset, limit)[Len(list) - offset - j + 1] = list[j]
      BY <2>2, <3>1
    <3> QED
      BY <3>1, <3>2
  <2> QED
    BY <1>2, <2>1, <2>3, <2>4, <2>5
<1> QED
  BY <1>1, <1>2

-----------------------------------------------------------------------------

\* A new vault is the only one with its number, at the end of the lists of its members.
LEMMA CreateKeeps ==
  ASSUME UnsetIsNoVault, FactoryInv,
         NEW c \in Accounts, NEW t \in Terms, NEW salt \in Salts, createVault(c, t, salt)
  PROVE  FactoryInv'
<1> DEFINE key == <<c, salt>>
           n == Len(vault)
<1> USE DEF UnsetIsNoVault
<1>1. /\ key \in Keys
      /\ n \in Nat
      /\ vaultByKey[key] = Unset
  BY DEF createVault, KeyUsed, Keys, FactoryInv, FactoryTypeOK
<1>2. /\ vault' = Append(vault, [creator |-> c, terms |-> t])
      /\ Len(vault') = n + 1
      /\ vault'[n + 1] = [creator |-> c, terms |-> t]
      /\ \A i \in 1 .. n : vault'[i] = vault[i]
      /\ vault' \in Seq([creator : Accounts, terms : Terms])
  BY DEF createVault, FactoryInv, FactoryTypeOK
<1>3. /\ vaultByKey' = [vaultByKey EXCEPT ![key] = n + 1]
      /\ termsByKey' = [termsByKey EXCEPT ![key] = t]
      /\ reader' = reader
  BY DEF createVault, NextVault
<1>4. \A m \in Accounts :
        IF m \in t.members
        THEN /\ Len(memberVaults'[m]) = Len(memberVaults[m]) + 1
             /\ memberVaults'[m][Len(memberVaults[m]) + 1] = n + 1
             /\ \A j \in 1 .. Len(memberVaults[m]) : memberVaults'[m][j] = memberVaults[m][j]
        ELSE memberVaults'[m] = memberVaults[m]
  BY DEF createVault, Listed, NextVault, FactoryInv, FactoryTypeOK
<1>5. \A m \in Accounts : /\ Len(memberVaults[m]) \in Nat
                           /\ \A j \in 1 .. Len(memberVaults[m]) : memberVaults[m][j] \in 1 .. n
  BY DEF FactoryInv, FactoryTypeOK
<1>6. FactoryTypeOK'
  <2>1. vaultByKey' \in [Keys -> 1 .. Len(vault') \union {Unset}]
    BY <1>1, <1>2, <1>3 DEF FactoryInv, FactoryTypeOK
  <2>2. termsByKey' \in [Keys -> Terms \union {Unset}]
    BY <1>3 DEF FactoryInv, FactoryTypeOK
  <2>3. memberVaults' \in [Accounts -> Seq(1 .. Len(vault'))]
    <3>1. memberVaults' = [m \in Accounts |-> IF m \in t.members THEN Append(memberVaults[m], n + 1)
                                              ELSE memberVaults[m]]
      BY DEF createVault, Listed, NextVault
    <3>2. \A m \in Accounts : memberVaults[m] \in Seq(1 .. n + 1)
      BY <1>1, <1>5 DEF FactoryInv, FactoryTypeOK
    <3>3. \A m \in Accounts : Append(memberVaults[m], n + 1) \in Seq(1 .. n + 1)
      <4> SUFFICES ASSUME NEW m \in Accounts PROVE Append(memberVaults[m], n + 1) \in Seq(1 .. n + 1)
        OBVIOUS
      <4>1. n + 1 \in 1 .. n + 1
        BY <1>1
      <4> HIDE DEF n
      <4> QED
        BY <3>2, <4>1
    <3>4. Len(vault') = n + 1
      BY <1>2
    <3> HIDE DEF n
    <3> QED
      BY <3>1, <3>2, <3>3, <3>4
  <2>4. reader' = Unset \/ reader' \in [member : Accounts, limit : Nat \ {0}, offset : Nat, seen : SUBSET Nat,
                                       done : BOOLEAN, first : 0 .. Len(vault')]
    BY <1>1, <1>2, <1>3 DEF FactoryInv, FactoryTypeOK
  <2> QED
    BY <1>2, <2>1, <2>2, <2>3, <2>4 DEF FactoryTypeOK
<1>7. VaultsHaveKeys'
  <2> SUFFICES ASSUME NEW i \in 1 .. Len(vault')
               PROVE  \E k \in Keys : /\ vaultByKey'[k] = i
                                      /\ vault'[i] = [creator |-> k[1], terms |-> termsByKey'[k]]
                                      /\ \A j \in Keys : vaultByKey'[j] = i => j = k
    BY DEF VaultsHaveKeys
  <2>1. CASE i = n + 1
    <3>1. ASSUME NEW j \in Keys PROVE vaultByKey[j] # n + 1
      <4>1. vaultByKey[j] \in 1 .. n \union {Unset}
        BY DEF FactoryInv, FactoryTypeOK
      <4> QED
        BY <1>1, <4>1
    <3> QED
      BY <1>1, <1>2, <1>3, <2>1, <3>1 DEF FactoryInv, FactoryTypeOK
  <2>2. CASE i \in 1 .. n
    <3>1. PICK k \in Keys : /\ vaultByKey[k] = i
                            /\ vault[i] = [creator |-> k[1], terms |-> termsByKey[k]]
                            /\ \A j \in Keys : vaultByKey[j] = i => j = k
      BY <2>2 DEF FactoryInv, VaultsHaveKeys
    <3>2. k # key
      BY <1>1, <2>2, <3>1
    <3> QED
      BY <1>1, <1>2, <1>3, <2>2, <3>1, <3>2 DEF FactoryInv, FactoryTypeOK
  <2>3. i = n + 1 \/ i \in 1 .. n
    <3>1. Len(vault') = n + 1
      BY <1>2
    <3> QED
      BY <1>1, <3>1
  <2> QED
    BY <2>1, <2>2, <2>3
<1>8. ListsAreComplete'
  <2> SUFFICES ASSUME NEW m \in Accounts
               PROVE  /\ \A i \in 1 .. Len(vault') :
                            m \in vault'[i].terms.members
                            => \E j \in 1 .. Len(memberVaults'[m]) : memberVaults'[m][j] = i
                      /\ \A j \in 1 .. Len(memberVaults'[m]) : m \in vault'[memberVaults'[m][j]].terms.members
                      /\ \A j, k \in 1 .. Len(memberVaults'[m]) :
                            j < k => memberVaults'[m][j] < memberVaults'[m][k]
    BY DEF ListsAreComplete
  <2>1. /\ \A i \in 1 .. n :
              m \in vault[i].terms.members => \E j \in 1 .. Len(memberVaults[m]) : memberVaults[m][j] = i
        /\ \A j \in 1 .. Len(memberVaults[m]) : m \in vault[memberVaults[m][j]].terms.members
        /\ \A j, k \in 1 .. Len(memberVaults[m]) : j < k => memberVaults[m][j] < memberVaults[m][k]
    BY DEF FactoryInv, ListsAreComplete
  <2> DEFINE list == memberVaults[m]
             new == memberVaults'[m]
  <2>2. /\ Len(list) \in Nat
        /\ \A j \in 1 .. Len(list) : list[j] \in 1 .. n
        /\ IF m \in t.members
           THEN /\ Len(new) = Len(list) + 1
                /\ new[Len(list) + 1] = n + 1
                /\ \A j \in 1 .. Len(list) : new[j] = list[j]
           ELSE new = list
    BY <1>4, <1>5
  <2>3. \A i \in 1 .. n : vault'[i].terms.members = vault[i].terms.members
    BY <1>2
  <2>4. vault'[n + 1].terms.members = t.members /\ Len(vault') = n + 1 /\ n \in Nat
    BY <1>1, <1>2
  <2> HIDE DEF list, new, n
  <2>5. ASSUME NEW i \in 1 .. Len(vault'), m \in vault'[i].terms.members
        PROVE  \E j \in 1 .. Len(new) : new[j] = i
    <3>1. CASE i = n + 1
      BY <2>2, <2>4, <2>5, <3>1
    <3>2. CASE i \in 1 .. n
      <4>1. PICK j \in 1 .. Len(list) : list[j] = i
        BY <2>1, <2>3, <2>5, <3>2 DEF list, n
      <4> QED
        BY <2>2, <4>1
    <3> QED
      BY <2>4, <3>1, <3>2
  <2>6. ASSUME NEW j \in 1 .. Len(new)
        PROVE  m \in vault'[new[j]].terms.members
    <3>1. CASE j \in 1 .. Len(list)
      <4>1. new[j] = list[j] /\ list[j] \in 1 .. n
        BY <2>2, <3>1
      <4>2. m \in vault[list[j]].terms.members
        BY <2>1, <3>1 DEF list
      <4> QED
        BY <2>3, <4>1, <4>2
    <3>2. CASE j \notin 1 .. Len(list)
      <4>1. m \in t.members /\ new[j] = n + 1
        BY <2>2, <2>6, <3>2
      <4> QED
        BY <2>4, <4>1
    <3> QED
      BY <3>1, <3>2
  <2>7. ASSUME NEW j \in 1 .. Len(new), NEW k \in 1 .. Len(new), j < k
        PROVE  new[j] < new[k]
    <3>1. j \in 1 .. Len(list)
      BY <2>2, <2>7
    <3>2. CASE k \in 1 .. Len(list)
      <4>1. list[j] < list[k]
        BY <2>1, <2>7, <3>1, <3>2 DEF list
      <4> QED
        BY <2>2, <3>1, <3>2, <4>1
    <3>3. CASE k \notin 1 .. Len(list)
      <4>1. new[k] = n + 1
        BY <2>2, <2>7, <3>3
      <4>2. new[j] \in 1 .. n
        BY <2>2, <3>1
      <4> QED
        BY <2>4, <4>1, <4>2
    <3> QED
      BY <3>2, <3>3
  <2> QED
    BY <2>5, <2>6, <2>7 DEF new
<1>9. ReaderIsOnItsWay'
  <2> SUFFICES ASSUME reader # Unset
               PROVE  LET new == memberVaults'[reader.member] IN
                      \A j \in 1 .. Len(new) :
                          j > Len(new) - reader.offset /\ new[j] <= reader.first => new[j] \in reader.seen
    BY <1>3 DEF ReaderIsOnItsWay
  <2> DEFINE m == reader.member
             list == memberVaults[m]
             new == memberVaults'[m]
  <2>1. m \in Accounts /\ reader.offset \in Nat /\ reader.first \in 0 .. n
    BY DEF FactoryInv, FactoryTypeOK
  <2>2. \A j \in 1 .. Len(list) :
          j > Len(list) - reader.offset /\ list[j] <= reader.first => list[j] \in reader.seen
    BY DEF FactoryInv, ReaderIsOnItsWay
  <2>3. CASE m \in t.members
    <3>1. /\ Len(list) \in Nat /\ Len(new) = Len(list) + 1
          /\ new[Len(list) + 1] = n + 1
          /\ \A j \in 1 .. Len(list) : new[j] = list[j]
      BY <1>4, <1>5, <2>1, <2>3
    <3> HIDE DEF list, new, n
    <3>2. ASSUME NEW j \in 1 .. Len(new), j > Len(new) - reader.offset, new[j] <= reader.first
          PROVE  new[j] \in reader.seen
      <4>1. n \in Nat
        BY <1>1 DEF n
      <4>2. j \in 1 .. Len(list)
        BY <2>1, <3>1, <3>2, <4>1
      <4>3. j > Len(list) - reader.offset
        BY <2>1, <3>1, <3>2
      <4> QED
        BY <2>2, <3>1, <3>2, <4>2, <4>3
    <3> QED
      BY <3>2 DEF new
  <2>4. CASE m \notin t.members
    BY <1>4, <2>1, <2>2, <2>4
  <2> QED
    BY <2>3, <2>4
<1>10. NoVaultIsMissed'
  BY <1>1, <1>2, <1>3 DEF FactoryInv, NoVaultIsMissed, FactoryTypeOK
<1> QED
  BY <1>6, <1>7, <1>8, <1>9, <1>10 DEF FactoryInv

\* Keys and lists speak of vaults only.
LEMMA VaultsStay ==
  ASSUME VaultsHaveKeys, ListsAreComplete, UNCHANGED <<vaultByKey, termsByKey, memberVaults, vault>>
  PROVE  VaultsHaveKeys' /\ ListsAreComplete'
<1>1. VaultsHaveKeys'
  BY DEF VaultsHaveKeys
<1>2. ListsAreComplete'
  BY DEF ListsAreComplete
<1> QED
  BY <1>1, <1>2

\* A reader that begins has seen nothing, and has everything to see.
LEMMA AskKeeps ==
  ASSUME FactoryInv, NEW m \in Accounts, NEW limit \in 1 .. MaxPage, Ask(m, limit)
  PROVE  FactoryInv'
<1>1. /\ UNCHANGED <<vaultByKey, termsByKey, memberVaults, vault>>
      /\ reader' = [member |-> m, limit |-> limit, offset |-> 0, seen |-> {}, done |-> FALSE,
                    first |-> Len(vault)]
  BY DEF Ask
<1>2. Len(vault) \in Nat /\ memberVaults[m] \in Seq(1 .. Len(vault)) /\ limit \in Nat \ {0}
  BY DEF FactoryInv, FactoryTypeOK
<1>3. FactoryTypeOK'
  BY <1>1, <1>2 DEF FactoryInv, FactoryTypeOK
<1>4. VaultsHaveKeys' /\ ListsAreComplete'
  BY <1>1, VaultsStay DEF FactoryInv
<1>5. ReaderIsOnItsWay' /\ NoVaultIsMissed'
  BY <1>1, <1>2 DEF ReaderIsOnItsWay, NoVaultIsMissed
<1> QED
  BY <1>3, <1>4, <1>5 DEF FactoryInv

\* A page moves the reader on by what it shows.
LEMMA PageKeeps ==
  ASSUME FactoryInv, getVaults
  PROVE  FactoryInv'
<1> DEFINE m == reader.member
           list == memberVaults[m]
           page == Page(list, reader.offset, reader.limit)
<1>1. /\ reader \in [member : Accounts, limit : Nat \ {0}, offset : Nat, seen : SUBSET Nat,
                     done : BOOLEAN, first : 0 .. Len(vault)]
      /\ list \in Seq(1 .. Len(vault))
  BY DEF FactoryInv, FactoryTypeOK, getVaults
<1>2. /\ Len(page) \in Nat /\ DOMAIN page = 1 .. Len(page)
      /\ reader.offset >= Len(list) => Len(page) = 0
      /\ \A i \in 1 .. Len(page) : page[i] \in 1 .. Len(vault)
      /\ \A j \in 1 .. Len(list) :
            j > Len(list) - reader.offset - Len(page) /\ j <= Len(list) - reader.offset
            => \E i \in 1 .. Len(page) : page[i] = list[j]
  <2>1. reader.offset \in Nat /\ reader.limit \in Nat \ {0}
    BY <1>1
  <2> DEFINE S == 1 .. Len(vault)
             offset == reader.offset
             limit == reader.limit
  <2>2. list \in Seq(S) /\ offset \in Nat /\ limit \in Nat \ {0}
    BY <1>1, <2>1
  <2> HIDE DEF list, S, offset, limit
  <2>3. /\ Len(Page(list, offset, limit)) \in Nat
        /\ DOMAIN Page(list, offset, limit) = 1 .. Len(Page(list, offset, limit))
        /\ offset >= Len(list) => Len(Page(list, offset, limit)) = 0
        /\ \A i \in 1 .. Len(Page(list, offset, limit)) : Page(list, offset, limit)[i] \in S
        /\ \A j \in 1 .. Len(list) :
              /\ j > Len(list) - offset - Len(Page(list, offset, limit))
              /\ j <= Len(list) - offset
              => \E i \in 1 .. Len(Page(list, offset, limit)) : Page(list, offset, limit)[i] = list[j]
    BY <2>2, PageOfList
  <2> QED
    BY <2>3 DEF list, S, offset, limit
<1>3. /\ reader' = [reader EXCEPT !.offset = @ + Len(page), !.seen = @ \union Shown(page),
                                 !.done = reader.offset + Len(page) >= Len(list)]
      /\ UNCHANGED <<clock, vaultByKey, termsByKey, memberVaults, vault>>
  BY DEF getVaults
<1>4. Shown(page) = {page[i] : i \in 1 .. Len(page)}
  BY <1>2 DEF Shown
<1> HIDE DEF page
<1>5. /\ reader' \in [member : Accounts, limit : Nat \ {0}, offset : Nat, seen : SUBSET Nat,
                      done : BOOLEAN, first : 0 .. Len(vault)]
      /\ reader'.member = m
      /\ reader'.first = reader.first
      /\ reader'.offset = reader.offset + Len(page)
      /\ reader'.seen = reader.seen \union Shown(page)
      /\ reader'.done = (reader.offset + Len(page) >= Len(list))
  <2>1. /\ reader.offset + Len(page) \in Nat
        /\ reader.seen \union Shown(page) \in SUBSET Nat
        /\ (reader.offset + Len(page) >= Len(list)) \in BOOLEAN
    BY <1>1, <1>2, <1>4
  <2> HIDE DEF list
  <2> QED
    BY <1>1, <1>3, <2>1
<1>6. \A j \in 1 .. Len(list) :
        j > Len(list) - reader'.offset /\ list[j] <= reader.first => list[j] \in reader'.seen
  <2> SUFFICES ASSUME NEW j \in 1 .. Len(list), j > Len(list) - reader'.offset, list[j] <= reader.first
               PROVE  list[j] \in reader'.seen
    OBVIOUS
  <2>1. CASE j > Len(list) - reader.offset
    BY <1>5, <2>1 DEF FactoryInv, ReaderIsOnItsWay, getVaults
  <2>2. CASE j <= Len(list) - reader.offset
    <3>1. j > Len(list) - reader.offset - Len(page)
      BY <1>1, <1>2, <1>5
    <3>2. PICK i \in 1 .. Len(page) : page[i] = list[j]
      BY <1>2, <2>2, <3>1
    <3>3. page[i] \in Shown(page)
      BY <1>4
    <3> QED
      BY <1>5, <3>2, <3>3
  <2> QED
    BY <1>1, <2>1, <2>2
<1>7. ASSUME reader'.done, NEW i \in 1 .. reader.first, m \in vault[i].terms.members
      PROVE  i \in reader'.seen
  <2>1. PICK j \in 1 .. Len(list) : list[j] = i
    BY <1>1, <1>7 DEF FactoryInv, ListsAreComplete
  <2>2. j > Len(list) - reader'.offset
    BY <1>1, <1>2, <1>5, <1>7
  <2> QED
    BY <1>6, <2>1, <2>2
<1>8. FactoryTypeOK'
  BY <1>3, <1>5 DEF FactoryInv, FactoryTypeOK
<1>9. VaultsHaveKeys' /\ ListsAreComplete'
  BY <1>3, VaultsStay DEF FactoryInv
<1>10. ReaderIsOnItsWay'
  BY <1>3, <1>5, <1>6 DEF ReaderIsOnItsWay
<1>11. NoVaultIsMissed'
  BY <1>3, <1>5, <1>7 DEF NoVaultIsMissed
<1> QED
  BY <1>8, <1>9, <1>10, <1>11 DEF FactoryInv

\* The invariant is kept by every step.
LEMMA FactoryStep == UnsetIsNoVault /\ FactoryInv /\ [FactoryNext]_factoryVars => FactoryInv'
<1> SUFFICES ASSUME UnsetIsNoVault, FactoryInv, [FactoryNext]_factoryVars
             PROVE  FactoryInv'
  OBVIOUS
<1>1. ASSUME NEW c \in Accounts, NEW t \in Terms, NEW salt \in Salts, createVault(c, t, salt)
      PROVE  FactoryInv'
  BY <1>1, CreateKeeps
<1>2. ASSUME NEW m \in Accounts, NEW limit \in 1 .. MaxPage, Ask(m, limit)
      PROVE  FactoryInv'
  BY <1>2, AskKeeps
<1>3. CASE getVaults
  BY <1>3, PageKeeps
<1>4. CASE Leave
  <2>1. UNCHANGED <<vaultByKey, termsByKey, memberVaults, vault>> /\ reader' = Unset
    BY <1>4 DEF Leave
  <2>2. FactoryTypeOK'
    BY <2>1 DEF FactoryInv, FactoryTypeOK
  <2>3. VaultsHaveKeys' /\ ListsAreComplete'
    BY <2>1, VaultsStay DEF FactoryInv
  <2>4. ReaderIsOnItsWay' /\ NoVaultIsMissed'
    BY <2>1 DEF ReaderIsOnItsWay, NoVaultIsMissed
  <2> QED
    BY <2>2, <2>3, <2>4 DEF FactoryInv
<1>5. CASE Later \/ UNCHANGED factoryVars
  <2>1. UNCHANGED <<vaultByKey, termsByKey, memberVaults, vault, reader>>
    BY <1>5 DEF Later, factoryVars
  <2>2. FactoryTypeOK'
    BY <2>1 DEF FactoryInv, FactoryTypeOK
  <2>3. VaultsHaveKeys' /\ ListsAreComplete'
    BY <2>1, VaultsStay DEF FactoryInv
  <2>4. ReaderIsOnItsWay'
    BY <2>1 DEF FactoryInv, ReaderIsOnItsWay
  <2>5. NoVaultIsMissed'
    BY <2>1 DEF FactoryInv, NoVaultIsMissed
  <2> QED
    BY <2>2, <2>3, <2>4, <2>5 DEF FactoryInv
<1> QED
  BY <1>1, <1>2, <1>3, <1>4, <1>5 DEF FactoryNext

LEMMA FactoryInvariant == UnsetIsNoVault => (FactorySpec => []FactoryInv)
<1> SUFFICES ASSUME UnsetIsNoVault PROVE FactorySpec => []FactoryInv
  OBVIOUS
<1>1. FactoryInit => FactoryInv
  BY InitFactory
<1>2. FactoryInv /\ [FactoryNext]_factoryVars => FactoryInv'
  BY FactoryStep
<1> QED
  BY <1>1, <1>2, PTL DEF FactorySpec

-----------------------------------------------------------------------------

\* A creator and a salt make one vault, and a vault is made by one of them, however often
\* and with whatever terms createVault is called again.
THEOREM KeysMakeOneVault == UnsetIsNoVault => (FactorySpec => []VaultsHaveKeys)
<1>1. FactoryInv => VaultsHaveKeys
  BY DEF FactoryInv
<1> QED
  BY <1>1, FactoryInvariant, PTL

\* The lists of the members hold their vaults, once, in order (createVault, memberVaults).
THEOREM ListsComplete == UnsetIsNoVault => (FactorySpec => []ListsAreComplete)
<1>1. FactoryInv => ListsAreComplete
  BY DEF FactoryInv
<1> QED
  BY <1>1, FactoryInvariant, PTL

\* A reader of pages sees every vault that was there when it began (getVaults), for any
\* size of a page and any number of vaults that are created meanwhile.
THEOREM ReadersMissNothing == UnsetIsNoVault => (FactorySpec => []NoVaultIsMissed)
<1>1. FactoryInv => NoVaultIsMissed
  BY DEF FactoryInv
<1> QED
  BY <1>1, FactoryInvariant, PTL
=============================================================================
