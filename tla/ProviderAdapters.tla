--------------------------- MODULE ProviderAdapters ---------------------------
(***************************************************************************)
(* services/aggregation-service/src: the adapters of the providers, each   *)
(* behind a circuit breaker of its own, with a cache in Redis.             *)
(*                                                                         *)
(* A method awaits the cache, then an access token where the provider wants*)
(* one, then the provider through fire(), then the cache again.  Between   *)
(* two awaits it runs alone.  The module models the calls that go through  *)
(* the breaker of one adapter.  A method is known by its shape; the keys   *)
(* and values of the cache are left out: a look may find an answer or not. *)
(*                                                                         *)
(* External: the provider, which may perform a request it never answers;   *)
(* the endpoint of the tokens; Redis; the callers; the process, which may  *)
(* be restarted.                                                           *)
(***************************************************************************)
EXTENDS Integers, FiniteSets, Functions

\* looks: it begins with cache.get() and ends with cache.set()
Cached == [looks |-> TRUE, token |-> FALSE, fires |-> TRUE]
Plain == [Cached EXCEPT !.looks = FALSE]
WithToken(m) == [m EXCEPT !.token = TRUE]

stripeAdapter == [
    createPaymentIntent |-> Cached, retrievePaymentIntent |-> Cached,
    confirmPaymentIntent |-> Plain, createRefund |-> Plain]

plaidAdapter == [
    createLinkToken |-> Cached, getAccounts |-> Cached, getIdentity |-> Cached,
    exchangePublicToken |-> Plain, getTransactions |-> Plain]

\* createVerification() builds a key and does not use it.
jumioAdapter == [
    createVerification |-> Plain, getVerificationStatus |-> Cached, getVerificationResult |-> Plain]

onfidoAdapter == [
    createApplicant |-> Plain, uploadDocument |-> Plain, createCheck |-> Plain,
    getCheckStatus |-> Cached, getCheckResult |-> Plain]

experianAdapter == [
    getCreditReport |-> WithToken(Cached), getCreditScore |-> WithToken(Cached),
    verifyIdentity |-> WithToken(Plain)]

equifaxAdapter == [
    getCreditReport |-> WithToken(Cached), getCreditScore |-> WithToken(Cached),
    verifyIdentity |-> WithToken(Plain)]

\* validateAddress() is geocode() of the address it puts together.
googleMapsAdapter == [
    geocode |-> Cached, reverseGeocode |-> Cached, validateAddress |-> Cached, getPlaceDetails |-> Cached]

twilioAdapter == [
    sendSms |-> Plain, sendWhatsApp |-> Plain, makeCall |-> Plain,
    verifyPhone |-> Plain, checkVerification |-> Plain]

sendgridAdapter == [sendEmail |-> Plain, sendMultipleEmails |-> Plain]

sesAdapter == [sendEmail |-> Plain, sendRawEmail |-> Plain]

s3Adapter == [
    downloadFile |-> Cached, listFiles |-> Cached, getFileMetadata |-> Cached,
    uploadFile |-> Plain, deleteFile |-> Plain, getSignedUrl |-> Plain]

\* getTokenBalance() is three calls of callContractMethod(), one after the other.
web3Adapter == [
    getBalance |-> Cached, getTransactionCount |-> Cached, getBlockNumber |-> Cached,
    getTransactionReceipt |-> Cached, callContractMethod |-> Cached]

\* verifyAppleToken() asks no one; getAppleUserInfo() only throws.
oauthAdapter == [
    verifyGoogleToken |-> Cached, getGoogleUserInfo |-> Cached, verifyFacebookToken |-> Cached,
    verifyAppleToken |-> [Cached EXCEPT !.fires = FALSE]]

Adapters == {
    stripeAdapter, plaidAdapter, jumioAdapter, onfidoAdapter, experianAdapter, equifaxAdapter,
    googleMapsAdapter, twilioAdapter, sendgridAdapter, sesAdapter, s3Adapter, web3Adapter, oauthAdapter}

\* What an adapter's methods look like: adapters that look alike behave alike.
Shapes == {Range(a) : a \in Adapters}
-----------------------------------------------------------------------------
CONSTANTS
    Requests,       \* calls of an adapter's methods that may overlap
    timeout, resetTimeout,      \* of the breaker, in ticks
    errorThresholdPercentage,
    MaxOutcomes     \* outcomes the breaker counts until it is reset: a bound

ASSUME ProviderAssumption ==
    /\ timeout \in Nat \ {0} /\ resetTimeout \in Nat
    /\ errorThresholdPercentage \in 0 .. 100
    /\ MaxOutcomes \in Nat

VARIABLES
    methods,        \* the shapes of the adapter's methods
    circuit,        \* the breaker's state
    failed, succeeded,          \* failureCount and successCount
    sinceFailure,   \* ticks since lastFailureTime, while the breaker is open
    step,           \* of a call: what it awaits, if anything
    method,
    waited,         \* ticks the call has awaited the provider
    tokenValid,
    \* histories
    reached,        \* calls in flight whose request was sent to the provider
    performed,      \* those of them that the provider performed
    late            \* successes counted while the breaker was open

breakerVars == <<circuit, failed, succeeded, sinceFailure, late>>
callVars == <<step, method, waited, reached, performed>>
adapterVars == <<methods, breakerVars, callVars, tokenValid>>

Awaiting == {"looking", "authorizing", "calling", "storing"}
InFlight == {r \in Requests : step[r] \in Awaiting}

AdapterInit ==
    /\ methods \in Shapes
    /\ circuit = "CLOSED" /\ failed = 0 /\ succeeded = 0 /\ sinceFailure = 0 /\ late = 0
    /\ step = [r \in Requests |-> "idle"]
    /\ method = [r \in Requests |-> Plain]
    /\ waited = [r \in Requests |-> 0]
    /\ tokenValid = FALSE
    /\ reached = {} /\ performed = {}

Goto(r, to) == step' = [step EXCEPT ![r] = to]

\* The call is over, with an answer or an error, and what it kept is dropped.
End(r) ==
    /\ Goto(r, "idle")
    /\ method' = [method EXCEPT ![r] = Plain]
    /\ waited' = [waited EXCEPT ![r] = 0]
    /\ reached' = reached \ {r} /\ performed' = performed \ {r}

\* Mutant: the percentage is looked at in a closed breaker only.
onFailureClosed ==
    LET opens == circuit = "CLOSED" /\ 100 * (failed + 1) >= errorThresholdPercentage * (failed + 1 + succeeded)
    IN  /\ failed' = failed + 1 /\ sinceFailure' = 0
        /\ circuit' = IF opens THEN "OPEN" ELSE circuit
        /\ late' = IF opens THEN 0 ELSE late
        /\ UNCHANGED succeeded

\* It opens at the threshold, in whatever state it is.
onFailure ==
    LET opens == 100 * (failed + 1) >= errorThresholdPercentage * (failed + 1 + succeeded)
    IN  /\ failed' = failed + 1 /\ sinceFailure' = 0
        /\ circuit' = IF opens THEN "OPEN" ELSE circuit
        /\ late' = IF opens THEN 0 ELSE late
        /\ UNCHANGED succeeded

reset == circuit' = "CLOSED" /\ failed' = 0 /\ succeeded' = 0 /\ sinceFailure' = 0 /\ late' = 0

\* A success closes a half-open breaker, and is only counted by any other.
onSuccess ==
    IF circuit = "HALF_OPEN"
    THEN reset
    ELSE /\ succeeded' = succeeded + 1
         /\ late' = IF circuit = "OPEN" THEN late + 1 ELSE late
         /\ UNCHANGED <<circuit, failed, sinceFailure>>

\* fire(), up to its await
fire(r, m) ==
    IF circuit = "OPEN" /\ sinceFailure <= resetTimeout
    THEN End(r) /\ UNCHANGED circuit
    ELSE /\ Goto(r, "calling") /\ method' = [method EXCEPT ![r] = m]
         /\ reached' = reached \cup {r}
         /\ circuit' = IF circuit = "OPEN" THEN "HALF_OPEN" ELSE circuit
         /\ UNCHANGED <<waited, performed>>

Suspend(r, m, at) ==
    /\ Goto(r, at) /\ method' = [method EXCEPT ![r] = m]
    /\ UNCHANGED <<circuit, waited, reached, performed>>

\* What a method does once the cache had nothing, up to its next await.
\* An argument that makes no sense, or a bad token of Apple's, throws.
Continue(r, m) ==
    /\ \/ End(r) /\ UNCHANGED circuit
       \/ m.fires /\ (m.token => tokenValid) /\ fire(r, m)
       \/ m.token /\ ~tokenValid /\ Suspend(r, m, "authorizing")
       \/ ~m.fires /\ Suspend(r, m, "storing")
    /\ UNCHANGED <<failed, succeeded, sinceFailure, late>>

\* A caller calls a method.
Begin(r, m) ==
    /\ step[r] = "idle" /\ failed + succeeded + Cardinality(InFlight) < MaxOutcomes
    /\ IF m.looks THEN Suspend(r, m, "looking") /\ UNCHANGED breakerVars ELSE Continue(r, m)
    /\ UNCHANGED <<methods, tokenValid>>

\* cache.get() answers, or throws.
Looked(r) ==
    /\ step[r] = "looking"
    /\ \/ End(r) /\ UNCHANGED breakerVars
       \/ Continue(r, method[r])
    /\ UNCHANGED <<methods, tokenValid>>

\* The endpoint of the tokens answers.  Nothing bounds how long that takes.
Authorized(r) ==
    /\ step[r] = "authorizing"
    /\ \/ tokenValid' = TRUE /\ fire(r, method[r])
       \/ End(r) /\ UNCHANGED <<tokenValid, circuit>>
    /\ UNCHANGED <<methods, failed, succeeded, sinceFailure, late>>

TokenExpires ==
    /\ tokenValid /\ tokenValid' = FALSE
    /\ UNCHANGED <<methods, breakerVars, callVars>>

\* The provider does what a request asks for; its answer is another step.
Perform(r) ==
    /\ r \in reached \ performed /\ performed' = performed \cup {r}
    /\ UNCHANGED <<methods, breakerVars, step, method, waited, reached, tokenValid>>

\* fn() wins the race.
Answered(r) ==
    /\ step[r] = "calling" /\ r \in performed
    /\ onSuccess
    /\ IF method[r].looks
       THEN Goto(r, "storing") /\ waited' = [waited EXCEPT ![r] = 0] /\ UNCHANGED <<method, reached, performed>>
       ELSE End(r)
    /\ UNCHANGED <<methods, tokenValid>>

Rejected(r) == step[r] = "calling" /\ onFailure /\ End(r) /\ UNCHANGED <<methods, tokenValid>>

\* fn() rejects, whatever the provider did.
Errored(r) == Rejected(r)

\* Mutant: the race has no timer.
TimesOutNever(r) == waited[r] > timeout /\ Rejected(r)

\* The timer wins the race.  The request is not taken back.
TimesOut(r) == waited[r] = timeout /\ Rejected(r)

\* cache.set() answers or throws, or the answer could not be put together.
Stored(r) ==
    /\ step[r] = "storing"
    /\ End(r)
    /\ UNCHANGED <<methods, breakerVars, tokenValid>>

Overdue == \E r \in Requests : step[r] = "calling" /\ waited[r] = timeout

\* Timers run as soon as they are due.
AdapterTick ==
    /\ ~Overdue
    /\ waited' = [r \in Requests |-> IF step[r] = "calling" THEN waited[r] + 1 ELSE waited[r]]
    /\ sinceFailure' = IF circuit = "OPEN" /\ sinceFailure <= resetTimeout THEN sinceFailure + 1 ELSE sinceFailure
    /\ <<waited, sinceFailure>> # <<waited', sinceFailure'>>
    /\ UNCHANGED <<methods, circuit, failed, succeeded, late, step, method, tokenValid, reached, performed>>

\* Breakers, tokens and calls live in memory only.
Restart ==
    /\ reset
    /\ step' = [r \in Requests |-> "idle"]
    /\ method' = [r \in Requests |-> Plain]
    /\ waited' = [r \in Requests |-> 0]
    /\ tokenValid' = FALSE
    /\ reached' = {} /\ performed' = {}
    /\ UNCHANGED methods

AdapterNext ==
    \/ \E r \in Requests :
        \/ \E m \in methods : Begin(r, m)
        \/ Looked(r) \/ Authorized(r) \/ Perform(r)
        \/ Answered(r) \/ Errored(r) \/ TimesOut(r) \/ Stored(r)
    \/ TokenExpires \/ AdapterTick \/ Restart

(* Time passes, due timers run and Redis answers.  The provider and the    *)
(* endpoint of the tokens need not.                                        *)
AdapterFairness ==
    /\ WF_adapterVars(AdapterTick)
    /\ \A r \in Requests : WF_adapterVars(TimesOut(r)) /\ WF_adapterVars(Looked(r)) /\ WF_adapterVars(Stored(r))

AdapterSpec == AdapterInit /\ [][AdapterNext]_adapterVars /\ AdapterFairness
-----------------------------------------------------------------------------
AdapterTypeOK ==
    /\ circuit \in {"CLOSED", "OPEN", "HALF_OPEN"}
    /\ failed \in 0 .. MaxOutcomes /\ succeeded \in 0 .. MaxOutcomes /\ late \in 0 .. succeeded
    /\ sinceFailure \in 0 .. resetTimeout + 1
    /\ \A r \in Requests : step[r] \in Awaiting \cup {"idle"} /\ waited[r] \in 0 .. timeout
    /\ performed \subseteq reached /\ reached \subseteq InFlight

(* While the breaker is open no request reaches the provider, except the   *)
(* call that makes it half-open, resetTimeout after the last failure, late *)
(* failures included.  A probe that fails opens it again, for the share of *)
(* failures that opened it is still there: unless successes came in late,  *)
(* while it was open, and lowered it; then failed probes leave the breaker *)
(* half-open, letting all calls pass (circuitBreaker/index.js:64).         *)
OpenShields ==
    /\ []AdapterTypeOK
    /\ [][/\ circuit = "OPEN" /\ circuit' = "OPEN" => reached' \subseteq reached
          /\ circuit = "OPEN" /\ circuit' = "HALF_OPEN" => sinceFailure > resetTimeout
          /\ circuit = "HALF_OPEN" /\ failed' > failed /\ late = 0 => circuit' = "OPEN"]_adapterVars

(* Every call ends, with an answer or an error, though the provider may    *)
(* never answer: unless it waits for a token, which no timer bounds.       *)
CallsSettle == \A r \in Requests : step[r] \in Awaiting ~> step[r] \in {"idle", "authorizing"}
=============================================================================
