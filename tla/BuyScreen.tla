------------------------------- MODULE BuyScreen -------------------------------
(***************************************************************************)
(* Buying with a card: the section of "Add money" that asks the service    *)
(* for a checkout, the view of MoonPay inside the app, and the balance     *)
(* that is read again afterwards; and the service, which signs the address *)
(* of the checkout for the account that asks and for the connection it     *)
(* asks from. MoonPay itself is external: it opens a checkout only on the  *)
(* connection it was signed for.                                           *)
(***************************************************************************)
EXTENDS Integers, FiniteSets, ScreenCommon

CONSTANTS
    Sites,          \* how the service may be set up
    Connections,    \* the public addresses the phone may have
    Private,        \* those that are not public, or not an address at all
    Sessions        \* bound: requests for a checkout on their way at one time

\* What the app may open: a checkout that is signed with test keys, for one public address.
Checkouts ==
    [mode : {"sandbox"}, host : {"buy-sandbox"}, signed : {TRUE}, keys : {<<"pk_test", "sk_test">>},
     wallet : {TRUE}, amount : {"open", "locked"}, redirect : {s.redirect : s \in Sites},
     for : {{ip} : ip \in Connections \ Private}]

ASSUME BuyAssumption ==
    None \notin Connections \cup Sessions \cup Checkouts /\ Private \subseteq Connections

VARIABLES
    site,           \* the set-up of the service, fixed
    net,            \* the connection of the phone, None when it has none
    money,          \* "Add money": the form, the flow and the view of MoonPay
    sessions        \* sessions[s]: the request under way as s

buyVars == <<site, net, money, sessions>>

-----------------------------------------------------------------------------
\* moonpayConfig.ts: the first thing that is wrong with the set-up.

Keys == [sandbox |-> [public |-> "pk_test", secret |-> "sk_test"], live |-> [public |-> "pk_live", secret |-> "sk_live"]]

keyProblem(key, mode, kind) ==
    IF key \in {"wrapped", "inner-space"} THEN key ELSE IF key = Keys[mode][kind] THEN "none"
    ELSE IF \E other \in DOMAIN Keys : key = Keys[other][kind] THEN "environment" ELSE "prefix"

allowedHost(mode) == IF mode = "live" THEN "buy" ELSE "buy-sandbox"

\* Defect: the secret key may be of the other environment.
CarelessAboutSecret(s) ==
    IF s.api = "empty" THEN "api-key-missing" ELSE IF s.secret = "empty" THEN "secret-missing"
    ELSE IF keyProblem(s.api, s.mode, "public") # "none" THEN "api-key"
    ELSE IF s.host # allowedHost(s.mode) THEN "widget-host" ELSE "none"

inspectMoonPayConfig(s) ==
    IF s.api = "empty" THEN "api-key-missing" ELSE IF s.secret = "empty" THEN "secret-missing"
    ELSE IF keyProblem(s.api, s.mode, "public") # "none" THEN "api-key"
    ELSE IF keyProblem(s.secret, s.mode, "secret") # "none" THEN "secret"
    ELSE IF s.host = "invalid" THEN "widget-url-invalid"
    ELSE IF s.host # allowedHost(s.mode) THEN "widget-host" ELSE "none"

\* clientIp.ts: the address of the request as the trusted proxy names it, if it is a public one.
canonicalizeIp(raw) == IF raw = "unreadable" THEN None ELSE raw
isPublicIp(ip) == ip \notin Private
resolveClientIp(from) ==
    LET raw == IF site.source = "true-client-ip" /\ ~site.header THEN None ELSE from
        ip == canonicalizeIp(raw)
    IN  IF ip # None /\ isPublicIp(ip) THEN {ip} ELSE {}

\* One hash for each address that was observed, and none that is not public.
buildAllowedIpAddress(ips) == ips

\* A checkout: what the signed address carries. More than 10000 is left out, and asked for there.
buildMoonPayWidgetUrl(ready, amount, ips) ==
    [mode |-> site.mode, host |-> site.host, signed |-> TRUE, keys |-> <<site.api, site.secret>>,
     wallet |-> ready, amount |-> IF amount = "too much" THEN "open" ELSE "locked",
     redirect |-> site.redirect, for |-> buildAllowedIpAddress(ips)]

Refusal(code) == [refused |-> code]

\* onrampController.createSession
createMoonPaySession(ready, amount, from) ==
    IF ~ready THEN Refusal("not ready")
    ELSE IF resolveClientIp(from) = {} THEN Refusal("MP-IP-UNAVAILABLE")
    ELSE IF inspectMoonPayConfig(site) # "none" THEN Refusal(inspectMoonPayConfig(site))
    ELSE buildMoonPayWidgetUrl(ready, amount, resolveClientIp(from))

-----------------------------------------------------------------------------
\* onrampFlow.ts

isBusy == money.phase = "creating"

onrampReducer(phase, event) ==
    CASE event = "start" -> "creating"
      [] event = "opened" -> IF phase = "creating" THEN "open" ELSE phase
      [] event = "returned" -> IF phase \in {"open", "creating"} THEN "returned" ELSE phase
      [] OTHER -> "failed"

\* The app opens the sandbox of MoonPay only, and only what is signed.
validateCheckoutUrl(url) ==
    IF url.host # "buy-sandbox" THEN "host" ELSE IF ~url.signed THEN "unsigned"
    ELSE IF ~url.wallet THEN "unexpected" ELSE "ok"

\* What to say of a refusal by its code; nothing has been opened then.
classifyOnrampError(refusal) ==
    CASE refusal = "not ready" -> "smart account is not ready"
      [] refusal \in {"api-key-missing", "secret-missing"} -> "not configured yet"
      [] refusal = "MP-IP-UNAVAILABLE" -> "connection could not be verified"
      [] refusal \in {"offline", "timeout"} -> "try again"
      [] OTHER -> "not set up correctly"

\* What became of a request: the view opens, or what to say instead.
checkoutOf(answer) ==
    IF "refused" \in DOMAIN answer THEN classifyOnrampError(answer.refused)
    ELSE IF answer.mode # "sandbox" THEN "APP-CHECKOUT-LIVE"
    ELSE IF validateCheckoutUrl(answer) # "ok" THEN "APP-CHECKOUT"
    ELSE "open"

\* Where a page of the checkout may lead.
Pages == {"redirect", "page", "frame", "app", "plain"}
decideNavigation(page, redirect) ==
    CASE page = "redirect" -> IF redirect THEN "return" ELSE "load"
      [] page \in {"page", "frame"} -> "load"
      [] page = "app" -> "external"
      [] OTHER -> "block"

\* The balance is read again at once and after 5, 15 and 30 seconds.
RefreshSchedule == 1..4

NoMoney == [at |-> FALSE, ready |-> FALSE, amount |-> "fair", phase |-> "idle", said |-> None,
            asked |-> None, url |-> None, loading |-> FALSE, problem |-> None, due |-> {}]

BuyInit ==
    /\ site \in Sites
    /\ net \in Connections
    /\ money = NoMoney
    /\ sessions = [s \in Sessions |-> None]

-----------------------------------------------------------------------------
\* The section.

OpenAddMoney == /\ ~money.at
                /\ money' = [NoMoney EXCEPT !.at = TRUE]
                /\ UNCHANGED <<site, net, sessions>>

\* Leaving, also by signing out with the view open: what is due is called off, and a request
\* under way finds nobody.
LeaveAddMoney == /\ money.at
                 /\ money' = NoMoney
                 /\ UNCHANGED <<site, net, sessions>>

WalletReady == /\ money.at /\ ~money.ready
               /\ money' = [money EXCEPT !.ready = TRUE]
               /\ UNCHANGED <<site, net, sessions>>

TypeMoney(amount) == /\ money.at /\ money.url = None /\ amount # money.amount
                     /\ money' = [money EXCEPT !.amount = amount]
                     /\ UNCHANGED <<site, net, sessions>>

\* openMoonPay of the form m, unless one is in flight.
Asks(m) ==
    IF m.amount = "none" THEN money' = [m EXCEPT !.said = "Enter an amount"] /\ UNCHANGED sessions
    ELSE IF ~m.ready THEN money' = [m EXCEPT !.said = "not ready yet"] /\ UNCHANGED sessions
    ELSE \E s \in Sessions :
            /\ sessions[s] = None
            /\ sessions' = [sessions EXCEPT ![s] = [amount |-> m.amount, answer |-> None]]
            /\ money' = [m EXCEPT !.said = None, !.phase = onrampReducer(m.phase, "start"), !.asked = s]

InFlight == money.asked # None \/ money.url # None

openMoonPay == /\ money.at /\ ~isBusy /\ money.url = None /\ ~InFlight
               /\ Asks(money)
               /\ UNCHANGED <<site, net>>

-----------------------------------------------------------------------------
\* The request: handled by the service on the connection of that moment, then answered, lost, or
\* given up after 15 seconds.

ServiceSigns(s) ==
    /\ sessions[s] # None /\ sessions[s].answer = None /\ net # None
    /\ \E from \in {net, "unreadable"} : \E ready \in BOOLEAN :
          sessions' = [sessions EXCEPT ![s].answer = createMoonPaySession(ready, sessions[s].amount, from)]
    /\ UNCHANGED <<site, net, money>>

FlowFails(why) == [money EXCEPT !.phase = onrampReducer(money.phase, "failed"), !.said = why, !.asked = None]

CheckoutAnswers(s) ==
    /\ sessions[s] # None /\ sessions[s].answer # None
    /\ sessions' = [sessions EXCEPT ![s] = None]
    /\ LET answer == sessions[s].answer
       IN  money' = IF money.asked # s THEN money
                    ELSE IF checkoutOf(answer) # "open" THEN FlowFails(checkoutOf(answer))
                    ELSE [money EXCEPT !.phase = onrampReducer(money.phase, "opened"), !.asked = None,
                                       !.url = answer, !.loading = TRUE, !.problem = None]
    /\ UNCHANGED <<site, net>>

CheckoutLost(s) ==
    /\ sessions[s] # None
    /\ sessions' = [sessions EXCEPT ![s] = None]
    /\ money' = IF money.asked # s THEN money ELSE FlowFails(classifyOnrampError("offline"))
    /\ UNCHANGED <<site, net>>

\* withTimeout: what comes later finds nobody.
CreateTimesOut == /\ money.asked # None
                  /\ money' = FlowFails(classifyOnrampError("timeout"))
                  /\ UNCHANGED <<site, net, sessions>>

-----------------------------------------------------------------------------
\* The view of MoonPay.

ViewShows == money.url # None /\ money.problem = None

\* MoonPay lets the page load on the connection it was signed for.
PageLoads == /\ ViewShows /\ money.loading /\ net \in money.url.for
             /\ money' = [money EXCEPT !.loading = FALSE]
             /\ UNCHANGED <<site, net, sessions>>

classifyWebViewError == IF net = None THEN "APP-CHECKOUT-OFFLINE" ELSE "APP-CHECKOUT-HTTP"

PageFails == /\ ViewShows
             /\ money' = [money EXCEPT !.problem = classifyWebViewError]
             /\ UNCHANGED <<site, net, sessions>>

LoadTimesOut == /\ ViewShows /\ money.loading
                /\ money' = [money EXCEPT !.problem = "APP-CHECKOUT-TIMEOUT"]
                /\ UNCHANGED <<site, net, sessions>>

\* The view is gone and the promise settled; the balance will be read four times.
Back == [money EXCEPT !.url = None, !.loading = FALSE, !.problem = None,
                      !.phase = onrampReducer(money.phase, "returned"), !.due = RefreshSchedule]

\* Close, the way back, and the redirect that was signed.
ExitCheckout == /\ money.url # None
                /\ money' = Back
                /\ UNCHANGED <<site, net, sessions>>

Navigates(page) == /\ ViewShows /\ ~money.loading
                   /\ money' = IF decideNavigation(page, money.url.redirect) = "return" THEN Back ELSE money
                   /\ UNCHANGED <<site, net, sessions>>

\* Retry asks for a new checkout at once: the "returned" in between may never be shown, and then
\* the balance is not read.
RetryCheckout == /\ money.url # None /\ money.problem # None
                 /\ \E due \in {money.due, RefreshSchedule} : Asks([Back EXCEPT !.due = due])
                 /\ UNCHANGED <<site, net>>

\* What the section and the view show.
SectionShows ==
    IF money.said # None THEN "error" ELSE IF money.phase = "returned" THEN "Back from MoonPay"
    ELSE IF isBusy THEN "spinner" ELSE "button"
CheckoutShows ==
    IF money.url = None THEN "nothing" ELSE IF money.problem # None THEN "MoonPay did not load"
    ELSE IF money.loading THEN "spinner" ELSE "page"

RefreshAfterReturn == /\ money.due # {}
                      /\ money' = [money EXCEPT !.due = money.due \ {CHOOSE k \in money.due : \A l \in money.due : k <= l}]
                      /\ UNCHANGED <<site, net, sessions>>

NetChanges == /\ net' \in (Connections \cup {None}) \ {net}
              /\ UNCHANGED <<site, money, sessions>>

-----------------------------------------------------------------------------
\* What comes by itself, without the person.
BuyReply(s) == CheckoutAnswers(s) \/ CheckoutLost(s)
BuyTimer == CreateTimesOut \/ LoadTimesOut

BuyNext ==
    \/ OpenAddMoney \/ LeaveAddMoney \/ WalletReady \/ openMoonPay
    \/ \E amount \in {"none", "fair", "too much"} : TypeMoney(amount)
    \/ \E s \in Sessions : ServiceSigns(s) \/ BuyReply(s)
    \/ BuyTimer \/ PageLoads \/ PageFails \/ ExitCheckout \/ RetryCheckout \/ RefreshAfterReturn \/ NetChanges
    \/ \E page \in Pages : Navigates(page)

-----------------------------------------------------------------------------
\* Properties.

\* Whatever the set-up of the service, and however late an answer comes: the view shows what was
\* signed with test keys for the sandbox, for public addresses alone, and only while the flow says
\* "open"; there is one checkout at a time, and the phone is busy only while it waits for one
\* (createMoonPaySession, inspectMoonPayConfig, validateCheckoutUrl, runCheckout).
OnlySandboxOpens ==
    /\ money.url # None =>
          /\ money.url.keys = <<"pk_test", "sk_test">> /\ money.url.host = "buy-sandbox" /\ money.url.signed
          /\ money.url.for # {} /\ money.url.for \cap Private = {}
          /\ money.phase = "open" /\ money.asked = None
    /\ isBusy <=> money.asked # None
    /\ money.phase = "open" => money.url # None
    /\ CheckoutShows = "page" => SectionShows = "button"

\* Nobody looks at a spinner for ever, neither while a checkout is made nor while it loads.
Spins == "spinner" \in {SectionShows, CheckoutShows}
=============================================================================
