---------------------------- MODULE VaultFactory ----------------------------
(***************************************************************************)
(* The factory of group vaults, contracts/src/AtaraVaultFactory.sol, with  *)
(* the terms a vault's constructor demands (AtaraGroupVault.sol), and a    *)
(* reader that asks for a member's vaults page by page while others create *)
(* more (the routes over getVaults in backend/services/vault.service.ts).  *)
(*                                                                         *)
(* A call that reverts is no step.  Vaults are numbered in the order of    *)
(* their creation; a hash stands for what is hashed.  Time counts steps of *)
(* MinLock, five minutes in the code.                                      *)
(***************************************************************************)
EXTENDS Integers, FiniteSets, Sequences

CONSTANTS
    Accounts,       \* smart accounts
    Salts, Names,
    Unlocks,        \* the unlock times that are asked for
    MinLock, MaxLock, MinMembers, MaxMembers, MaxPage,
    MaxVaults, MaxClock, Unset

Keys == Accounts \X Salts
Terms == [name : Names, members : SUBSET Accounts, unlockAt : Unlocks]

VARIABLES
    clock,
    vaultByKey,     \* the vault of a creator and a salt
    termsByKey,
    memberVaults,   \* the vaults of a member, oldest first
    vault,          \* the terms each vault was built with
    reader          \* a reader half way through its pages

factoryVars == <<clock, vaultByKey, termsByKey, memberVaults, vault, reader>>

FactoryInit ==
    /\ clock = 0
    /\ vaultByKey = [k \in Keys |-> Unset]
    /\ termsByKey = [k \in Keys |-> Unset]
    /\ memberVaults = [m \in Accounts |-> <<>>]
    /\ vault = <<>>
    /\ reader = Unset

\* What the constructor of a vault demands of its terms.
Buildable(t) ==
    /\ Cardinality(t.members) \in MinMembers .. MaxMembers
    /\ t.unlockAt \in clock + MinLock .. clock + MaxLock

NextVault == Len(vault) + 1

Listed(c, t) ==
    [m \in Accounts |-> IF m \in t.members THEN Append(memberVaults[m], NextVault)
                        ELSE memberVaults[m]]

\* The key answers with the vault it has: a retry creates nothing, other terms revert.
KeyUsed(k, t) == vaultByKey[k] # Unset

createVault(c, t, salt) ==
    /\ ~KeyUsed(<<c, salt>>, t)
    /\ c \in t.members /\ Buildable(t)
    /\ Len(vault) < MaxVaults
    /\ vault' = Append(vault, [creator |-> c, terms |-> t])
    /\ vaultByKey' = [vaultByKey EXCEPT ![<<c, salt>>] = NextVault]
    /\ termsByKey' = [termsByKey EXCEPT ![<<c, salt>>] = t]
    /\ memberVaults' = Listed(c, t)
    /\ UNCHANGED <<clock, reader>>

Later ==
    /\ clock < MaxClock
    /\ clock' = clock + 1
    /\ UNCHANGED <<vaultByKey, termsByKey, memberVaults, vault, reader>>

\* A page of the list, newest first.
Page(list, offset, limit) ==
    LET left == Len(list) - offset
        count == IF left > limit THEN limit ELSE left
    IN IF offset >= Len(list) THEN <<>>
       ELSE [i \in 1 .. count |-> list[Len(list) - offset - (i - 1)]]

Shown(page) == {page[i] : i \in DOMAIN page}

\* A reader asks page after page, each from where the last one ended.
Ask(m, limit) ==
    /\ reader = Unset
    /\ reader' = [member |-> m, limit |-> limit, offset |-> 0, seen |-> {}, done |-> FALSE,
                  first |-> Len(vault)]
    /\ UNCHANGED <<clock, vaultByKey, termsByKey, memberVaults, vault>>

getVaults ==
    /\ reader # Unset /\ ~reader.done
    /\ LET list == memberVaults[reader.member]
           result == Page(list, reader.offset, reader.limit)
       IN reader' = [reader EXCEPT !.offset = @ + Len(result), !.seen = @ \union Shown(result),
                                   !.done = reader.offset + Len(result) >= Len(list)]
    /\ UNCHANGED <<clock, vaultByKey, termsByKey, memberVaults, vault>>

Leave ==
    /\ reader # Unset /\ reader.done
    /\ reader' = Unset
    /\ UNCHANGED <<clock, vaultByKey, termsByKey, memberVaults, vault>>

FactoryNext ==
    \/ \E c \in Accounts, t \in Terms, salt \in Salts : createVault(c, t, salt)
    \/ \E m \in Accounts, limit \in 1 .. MaxPage : Ask(m, limit)
    \/ getVaults
    \/ Leave
    \/ Later

FactorySpec == FactoryInit /\ [][FactoryNext]_factoryVars

-----------------------------------------------------------------------------
(* Properties.                                                             *)

\* Every variable has its type; a list holds numbers of vaults that are there.
FactoryTypeOK ==
    /\ vault \in Seq([creator : Accounts, terms : Terms])
    /\ vaultByKey \in [Keys -> 1 .. Len(vault) \union {Unset}]
    /\ termsByKey \in [Keys -> Terms \union {Unset}]
    /\ memberVaults \in [Accounts -> Seq(1 .. Len(vault))]
    /\ reader = Unset \/ reader \in [member : Accounts, limit : Nat \ {0}, offset : Nat, seen : SUBSET Nat,
                                   done : BOOLEAN, first : 0 .. Len(vault)]

\* "A retry of a submitted create operation must not create another Vault": a vault is
\* that of one creator and salt, on the terms the key was first used with, and no key
\* has a second, whatever terms the later call brings (createVault).
VaultsHaveKeys ==
    \A i \in 1 .. Len(vault) :
        \E k \in Keys : /\ vaultByKey[k] = i
                       /\ vault[i] = [creator |-> k[1], terms |-> termsByKey[k]]
                       /\ \A j \in Keys : vaultByKey[j] = i => j = k

\* The list of a member holds every vault that names the account and no other, once, in
\* the order of creation; it is what the screens find vaults by (memberVaults).
ListsAreComplete ==
    \A m \in Accounts :
        LET list == memberVaults[m] IN
        /\ \A i \in 1 .. Len(vault) :
              m \in vault[i].terms.members => \E j \in 1 .. Len(list) : list[j] = i
        /\ \A j \in 1 .. Len(list) : m \in vault[list[j]].terms.members
        /\ \A j, k \in 1 .. Len(list) : j < k => list[j] < list[k]

\* A reader that is through its pages has seen every vault that was there when it
\* began, although newer ones have pushed the pages on meanwhile (getVaults).
NoVaultIsMissed ==
    reader # Unset /\ reader.done =>
        \A i \in 1 .. reader.first : reader.member \in vault[i].terms.members => i \in reader.seen
=============================================================================
