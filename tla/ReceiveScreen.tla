----------------------------- MODULE ReceiveScreen -----------------------------
(***************************************************************************)
(* The address one is paid at: at sign-up the service asks the provider    *)
(* whether it is derived from the signer; afterwards the phone asks again, *)
(* in the background, and what it found decides whether "Add money",       *)
(* "Receive" and "Your control" offer the address. "Receive" also makes    *)
(* requests for an amount. The provider (Alchemy) is external.             *)
(***************************************************************************)
EXTENDS Integers, FiniteSets, Sequences, ScreenCommon

CONSTANTS
    Holders,        \* the people who use this phone
    Addresses,      \* smart accounts
    Own,            \* Own[p]: what each account type derives from the signer of p, in the order tried
    Services        \* bound: services being built at one time

\* Of a request for an amount.
Statuses == {"OPEN", "PAID", "EXPIRED", "CANCELLED"}

ASSUME ReceiveAssumption ==
    /\ Own \in [Holders -> Seq(Addresses)] /\ \A p \in Holders : Own[p] # <<>>
    /\ None \notin Addresses \cup Statuses

VARIABLES
    account,        \* account[p]: the address p has signed up with
    holder,         \* who is signed in, and the address the service says is theirs
    service,        \* service[f]: the service being built, or checking, as f
    known,          \* useAddressVerificationStore
    failed,         \* the addresses whose check failed since the sign-in (for the properties)
    share           \* "Receive": the request in view and what is said of it

receiveVars == <<account, holder, service, known, failed, share>>

-----------------------------------------------------------------------------
\* smartAccountOwnership.service.ts

\* One candidate: derived, or the provider could not be asked (503).
resolveExpectedSmartAccountAddress(p, type, up) == IF up THEN Own[p][type] ELSE None

\* Defect: a provider that cannot be asked is taken for a yes.
OwnedUnlessDenied(p, claim, up) ==
    \E type \in DOMAIN Own[p] : resolveExpectedSmartAccountAddress(p, type, up[type]) \in {None, claim}

\* The first candidate that says anything decides; a failure is never a yes.
assertSmartAccountOwnedBySigner(p, claim, up) ==
    LET said(type) == resolveExpectedSmartAccountAddress(p, type, up[type])
    IN  \E type \in DOMAIN Own[p] :
            /\ said(type) = claim
            /\ \A earlier \in 1 .. (type - 1) : said(earlier) \notin {None, claim}

Register(p) ==
    /\ account[p] = None
    /\ \E claim \in Addresses, up \in [DOMAIN Own[p] -> BOOLEAN] :
          /\ assertSmartAccountOwnedBySigner(p, claim, up)
          /\ account' = [account EXCEPT ![p] = claim]
    /\ UNCHANGED <<holder, service, known, failed, share>>

-----------------------------------------------------------------------------
\* The phone.

compareDerivedAddress(stored, derived) ==
    IF derived = None THEN "unverified" ELSE IF stored = derived THEN "verified" ELSE "mismatch"

Unchecked == [address |-> None, status |-> "unverified"]
setResult(a, status) == [address |-> a, status |-> status]
statusFor(a) == IF known.address = a THEN known.status ELSE "unverified"

NoRequest == [busy |-> "none", request |-> None, said |-> None]

ReceiveInit ==
    /\ account = [p \in Holders |-> None]
    /\ holder = None
    /\ service = [f \in Services |-> None]
    /\ known = Unchecked
    /\ failed = {}
    /\ share = NoRequest

\* The service may hand back another address than the one that was signed up with.
EnterAs(p, a) == /\ holder = None /\ account[p] # None
                 /\ holder' = [who |-> p, address |-> a]
                 /\ known' = Unchecked /\ failed' = {} /\ share' = NoRequest
                 /\ UNCHANGED <<account, service>>

Exit == /\ holder # None
        /\ holder' = None
        /\ known' = Unchecked /\ failed' = {} /\ share' = NoRequest
        /\ UNCHANGED <<account, service>>

\* useSmartAccountService: a screen that pays builds a service, and nothing stops one it no longer
\* waits for.
buildService(f) ==
    /\ holder # None /\ service[f] = None
    /\ service' = [service EXCEPT ![f] = [who |-> holder.who, address |-> holder.address, at |-> "asking"]]
    /\ UNCHANGED <<account, holder, known, failed, share>>

\* verifyStoredAddress: once for an address, as soon as the provider has found the account.
ServiceBuilt(f) ==
    /\ service[f] # None /\ service[f].at = "asking"
    /\ IF known.address = service[f].address
       THEN service' = [service EXCEPT ![f] = None] /\ UNCHANGED known
       ELSE /\ service' = [service EXCEPT ![f].at = "checking"]
            /\ known' = setResult(service[f].address, "unverified")
    /\ UNCHANGED <<account, holder, failed, share>>

ServiceFails(f) == /\ service[f] # None /\ service[f].at = "asking"
                   /\ service' = [service EXCEPT ![f] = None]
                   /\ UNCHANGED <<account, holder, known, failed, share>>

\* The provider derives the first account type, or nothing comes of it.
Derives(f) ==
    /\ service[f] # None /\ service[f].at = "checking"
    /\ \E derived \in {Own[service[f].who][1], None} :
          LET status == compareDerivedAddress(service[f].address, derived)
          IN  /\ known' = setResult(service[f].address, status)
              /\ failed' = IF status = "mismatch" /\ holder # None /\ holder.address = service[f].address
                           THEN failed \cup {holder.address} ELSE failed
    /\ service' = [service EXCEPT ![f] = None]
    /\ UNCHANGED <<account, holder, share>>

-----------------------------------------------------------------------------
\* What the screens offer, and what they say of the address.

\* "Add money": the QR code, the copy and the faucet.
addressUsable == holder # None /\ statusFor(holder.address) # "mismatch"
\* "Receive": the QR code. The address itself can be copied in any case.
ShareShowsCode == holder # None /\ statusFor(holder.address) # "mismatch"
\* "Your control".
VERIFICATION_TEXT(status) == CASE status = "verified" -> "derived from your own key"
                               [] status = "mismatch" -> "Do not share it"
                               [] OTHER -> "Not checked yet"

-----------------------------------------------------------------------------
\* "Receive": one call at a time, for a request of an amount.

\* What the service has made of the request; it is gone for good once it is not open.
RequestMoves(status) ==
    /\ share.request # None /\ share.request = "OPEN" /\ status # "OPEN"
    /\ share' = [share EXCEPT !.request = status]
    /\ UNCHANGED <<account, holder, service, known, failed>>

run(what) ==
    /\ holder # None /\ share.busy = "none"
    /\ (what = "create") <=> (share.request = None)
    /\ share' = [share EXCEPT !.busy = what, !.said = None]
    /\ UNCHANGED <<account, holder, service, known, failed>>

CreateAnother == /\ share.busy = "none" /\ share.request # None
                 /\ share' = [share EXCEPT !.request = None]
                 /\ UNCHANGED <<account, holder, service, known, failed>>

RunAnswers ==
    /\ share.busy # "none"
    /\ share' = CASE share.busy = "create" ->
                       [NoRequest EXCEPT !.request = "OPEN"]
                  [] share.busy = "refresh" -> [share EXCEPT !.busy = "none", !.said = share.request]
                  [] OTHER -> IF share.request = "OPEN" THEN [NoRequest EXCEPT !.said = "CANCELLED"]
                              ELSE [share EXCEPT !.busy = "none", !.said = "error"]
    /\ UNCHANGED <<account, holder, service, known, failed>>

\* The call is lost, before or after the service has handled it.
RunFails ==
    /\ share.busy # "none"
    /\ share' \in {[share EXCEPT !.busy = "none", !.said = "error"]}
         \cup (IF share.busy = "cancel" /\ share.request = "OPEN"
               THEN {[share EXCEPT !.busy = "none", !.said = "error", !.request = "CANCELLED"]} ELSE {})
    /\ UNCHANGED <<account, holder, service, known, failed>>

-----------------------------------------------------------------------------
Provider == \E f \in Services : buildService(f) \/ ServiceBuilt(f) \/ ServiceFails(f) \/ Derives(f)

ReceiveNext ==
    \/ \E p \in Holders : Register(p) \/ (\E a \in Addresses : EnterAs(p, a))
    \/ Exit \/ Provider
    \/ \E status \in Statuses : RequestMoves(status)
    \/ \E what \in {"create", "refresh", "cancel"} : run(what)
    \/ CreateAnother \/ RunAnswers \/ RunFails

ReceiveSpec == ReceiveInit /\ [][ReceiveNext]_receiveVars

-----------------------------------------------------------------------------
\* Properties.
DerivedBy(p) == {Own[p][type] : type \in DOMAIN Own[p]}

\* Nobody has an account that is not derived from their signer, whatever the provider answers and
\* however often it is down; the phone calls verified only what it has derived from the key of
\* somebody who has signed in on it; and an address whose check could not run stays usable.
AddressesAreDerived ==
    /\ \A p \in Holders : account[p] # None => account[p] \in DerivedBy(p)
    /\ known.status = "verified" => \E p \in Holders : account[p] # None /\ Own[p][1] = known.address
    /\ known.status = "mismatch" => \E p \in Holders : account[p] # None /\ Own[p][1] # known.address
    /\ (holder # None /\ failed = {} /\ \A f \in Services : service[f] = None) =>
          /\ addressUsable <=> VERIFICATION_TEXT(statusFor(holder.address)) # "Do not share it"
          /\ addressUsable <=> ShareShowsCode
    /\ (share.said = "PAID" /\ share.request # None) => share.request = "PAID"

\* "An address that failed its check is never shown as something to copy, scan or paste into a
\* faucet" (app/add-crypto.tsx:23).
FailedAddressIsHidden == holder # None /\ holder.address \in failed => ~addressUsable
=============================================================================
