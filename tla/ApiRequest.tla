------------------------------ MODULE ApiRequest ------------------------------
(***************************************************************************)
(* The HTTP requests of the client SDKs: request() of KYCVaultClient, in   *)
(* sdk/typescript/src/client.ts, tries retryCount times more after a       *)
(* failure; the one of useAPIClient, in sdk/react-native/src, is the same  *)
(* without the retries.  A timer aborts fetch() until the headers arrive   *)
(* and is cleared then: nothing bounds the reading of the body.            *)
(*                                                                         *)
(* The network and the server are external: a request may be lost, or be   *)
(* executed at any time, its client still waiting or not; what the server  *)
(* does with it is Execute of the module that extends this one.            *)
(***************************************************************************)
EXTENDS Integers, FiniteSets

CONSTANTS
    Calls,          \* calls of request(), each made once
    retryCount      \* of the client that makes the call

ASSUME ApiRequestAssumption == retryCount \in [Calls -> Nat]

VARIABLES
    stage,          \* of each call
    attempt,        \* the number of the attempt under way
    requests,       \* <<call, attempt>> under way to the server
    status,         \* of the response fetch() is about to resolve with, or
                    \* whose body is being read, or "none"
    result          \* what the caller got

requestVars == <<stage, attempt, requests, status, result>>

Statuses == {"ok", "client_error", "server_error"}

RequestInit ==
    /\ stage = [c \in Calls |-> "ready"]
    /\ attempt = [c \in Calls |-> 0]
    /\ requests = {}
    /\ status = [c \in Calls |-> "none"]
    /\ result = [c \in Calls |-> "none"]

Underway(c) == stage[c] \notin {"ready", "done"}

\* fetch() of attempt n
Fetch(c, n) ==
    /\ stage' = [stage EXCEPT ![c] = "waiting"]
    /\ attempt' = [attempt EXCEPT ![c] = n]
    /\ requests' = requests \cup {<<c, n>>}
    /\ UNCHANGED <<status, result>>

Start(c) == stage[c] = "ready" /\ Fetch(c, 0)

\* The delay is over.
Resend(c) == stage[c] = "pausing" /\ Fetch(c, attempt[c] + 1)

Settle(c, outcome) ==
    /\ stage' = [stage EXCEPT ![c] = "done"]
    /\ status' = [status EXCEPT ![c] = "none"]
    /\ result' = [result EXCEPT ![c] = outcome]
    /\ UNCHANGED <<attempt, requests>>

\* The end of the catch clause.
TryAgain(c) ==
    IF attempt[c] < retryCount[c]
    THEN /\ stage' = [stage EXCEPT ![c] = "pausing"]
         /\ status' = [status EXCEPT ![c] = "none"]
         /\ UNCHANGED <<attempt, requests, result>>
    ELSE Settle(c, "failed")

\* Mutant: only the first attempt has a timer.
BreakFirst(c) == stage[c] = "waiting" /\ attempt[c] = 0 /\ TryAgain(c)

\* fetch() rejects: the timer aborts it, or the connection fails.
Break(c) == stage[c] = "waiting" /\ TryAgain(c)

\* fetch() resolves, and the timer is cleared.
Headers(c) ==
    /\ stage[c] = "waiting" /\ status[c] # "none"
    /\ stage' = [stage EXCEPT ![c] = "reading"]
    /\ UNCHANGED <<attempt, requests, status, result>>

\* Mutant: an error of the server is final too.
FinalAny == {"client_error", "server_error"}

\* The errors request() throws at once: the test is statusCode < 500.
Final == {"client_error"}

\* The body is there; a response without content has none to wait for.
Body(c) ==
    /\ stage[c] = "reading"
    /\ IF status[c] = "ok" THEN Settle(c, "ok")
       ELSE IF status[c] \in Final THEN Settle(c, "refused")
       ELSE TryAgain(c)

\* The body of a good response is broken; that of a bad one is replaced by {}.
BrokenBody(c) == stage[c] = "reading" /\ status[c] = "ok" /\ TryAgain(c)

\* External: no response comes back to attempt n.
Lose(c, n) ==
    /\ requests' = requests \ {<<c, n>>}
    /\ UNCHANGED <<stage, attempt, status, result>>

\* External: the response s to attempt n, which only its own fetch() takes.
Respond(c, n, s) ==
    /\ requests' = requests \ {<<c, n>>}
    /\ status' = IF stage[c] = "waiting" /\ attempt[c] = n THEN [status EXCEPT ![c] = s] ELSE status
    /\ UNCHANGED <<stage, attempt, result>>

RequestTypeOK ==
    /\ stage \in [Calls -> {"ready", "waiting", "reading", "pausing", "done"}]
    /\ attempt \in [Calls -> Nat] /\ \A c \in Calls : attempt[c] <= retryCount[c]
    /\ requests \subseteq {r \in Calls \X Nat : r[2] <= attempt[r[1]]}
    /\ status \in [Calls -> Statuses \cup {"none"}]
    /\ result \in [Calls -> {"none", "ok", "refused", "failed"}]
    /\ \A c \in Calls : result[c] # "none" <=> stage[c] = "done"
=============================================================================
