------------------------------ MODULE DidClients ------------------------------
(***************************************************************************)
(* The DID operations of two clients of one registry: a backend with the   *)
(* DIDManager of sdk/typescript/src/did.ts, whose requests are retried,    *)
(* and a screen with the hook useDID of sdk/react-native/src, whose calls  *)
(* share one document and one spinner and may overlap.  Error texts are    *)
(* left out.                                                               *)
(*                                                                         *)
(* The registry behind /v1/did is external: each DID has a version that    *)
(* rotations count, and does not come back once deactivated.               *)
(***************************************************************************)
EXTENDS ApiRequest

CONSTANTS
    HookCalls,      \* the calls the screen makes; the others are the backend's
    Asks,           \* the kinds of operation each call may be
    MaxDids         \* DIDs ever created: a bound

Kinds == {"resolve", "create", "rotate", "deactivate"}

ASSUME DidClientsAssumption ==
    /\ HookCalls \subseteq Calls
    /\ \A c \in HookCalls : retryCount[c] = 0
    /\ Asks \in [Calls -> SUBSET Kinds]
    /\ MaxDids \in Nat \ {0}

Dids == 1 .. MaxDids
None == [did |-> 0, version |-> 0]

VARIABLES
    operation,      \* of each call: what it asks for
    registry,       \* of each DID: its version, 0 once or while it does not exist
    created,        \* how many DIDs there have been
    reply,          \* the document in the response to each call of the hook
    didDocument, isLoading,     \* the state of the hook
    \* histories
    effects,        \* how often the server carried out the change a call asks for
    overlapped      \* two calls of the hook were under way at once

hookVars == <<didDocument, isLoading>>
vars == <<requestVars, operation, registry, created, reply, hookVars, effects, overlapped>>

Init ==
    /\ RequestInit
    /\ operation = [c \in Calls |-> [kind |-> "none", did |-> 0]]
    /\ registry = [d \in Dids |-> IF d = 1 THEN 1 ELSE 0]
    /\ created = 1
    /\ reply = [c \in Calls |-> None]
    /\ didDocument = None /\ isLoading = FALSE
    /\ effects = [c \in Calls |-> 0]
    /\ overlapped = FALSE

\* A call of the hook or of the manager.  Only a DID that was created is named.
Begin(c) ==
    /\ Start(c)
    /\ \E k \in Asks[c], d \in 1 .. created :
        operation' = [operation EXCEPT ![c] = [kind |-> k, did |-> IF k = "create" THEN 0 ELSE d]]
    /\ IF c \in HookCalls
       THEN /\ isLoading' = TRUE
            /\ overlapped' = (overlapped \/ \E h \in HookCalls : Underway(h))
       ELSE UNCHANGED <<isLoading, overlapped>>
    /\ UNCHANGED <<registry, created, reply, didDocument, effects>>

Change(c, d, version) ==
    /\ registry' = [registry EXCEPT ![d] = version]
    /\ effects' = [effects EXCEPT ![c] = @ + 1]

Keep == UNCHANGED <<registry, effects>>

\* External: what the registry does with the operation of call c; s is its answer.
Apply(c, s) ==
    LET op == operation[c]
        d == IF op.kind = "create" THEN created + 1 ELSE op.did
    IN  IF op.kind = "create"
        THEN /\ s = "ok" /\ created < MaxDids
             /\ Change(c, d, 1)
             /\ created' = created + 1
        ELSE /\ UNCHANGED created
             /\ IF registry[d] = 0 THEN s = "client_error" /\ Keep
                ELSE s = "ok" /\ CASE op.kind = "resolve" -> Keep
                                   [] op.kind = "rotate" -> Change(c, d, registry[d] + 1)
                                   [] op.kind = "deactivate" -> Change(c, d, 0)

\* The document a good answer carries.
Document(c) ==
    LET d == IF operation[c].kind = "create" THEN created' ELSE operation[c].did
    IN  [did |-> d, version |-> registry'[d]]

\* External: the server executes a request; its answer may arrive, be replaced by
\* an error of the proxy, or be lost.
Execute(c, n) ==
    /\ <<c, n>> \in requests
    /\ \E s \in {"ok", "client_error"} :
        /\ Apply(c, s)
        /\ \/ /\ Respond(c, n, s)
              /\ reply' = IF status'[c] = "ok" /\ c \in HookCalls THEN [reply EXCEPT ![c] = Document(c)]
                                                                  ELSE reply
           \/ (Respond(c, n, "server_error") \/ Lose(c, n)) /\ UNCHANGED reply
    /\ UNCHANGED <<operation, hookVars, overlapped>>

\* External: the request goes no further than a proxy.  One that is lost is one
\* that is never executed.
Drop(c, n) ==
    /\ <<c, n>> \in requests
    /\ Respond(c, n, "server_error")
    /\ UNCHANGED <<operation, registry, created, reply, hookVars, effects, overlapped>>

\* setDidDocument()
Shown(c) == IF operation[c].kind = "deactivate" THEN None ELSE reply[c]

\* Mutant: the spinner is stopped only after success.
StopUnlessFailed(c) == isLoading' = (isLoading /\ result'[c] # "ok")

\* finally
Stop(c) == isLoading' = FALSE

\* What the hook does when its call settles; there is nothing else a call changes.
React(c) ==
    IF c \in HookCalls /\ stage'[c] = "done"
    THEN /\ didDocument' = IF result'[c] = "ok" THEN Shown(c) ELSE didDocument
         /\ reply' = [reply EXCEPT ![c] = None]
         /\ Stop(c)
    ELSE UNCHANGED <<hookVars, reply>>

\* A step of request()
Progress(c) ==
    /\ Resend(c) \/ Break(c) \/ Headers(c) \/ Body(c) \/ BrokenBody(c)
    /\ React(c)
    /\ UNCHANGED <<operation, registry, created, effects, overlapped>>

Next ==
    \E c \in Calls :
        \/ Begin(c)
        \/ Progress(c)
        \/ \E n \in 0 .. retryCount[c] : Execute(c, n) \/ Drop(c, n)

\* Timers run out, so that fetch() settles and a delay ends; the server and the
\* network owe nothing, and nobody waits for a body with a timer.
Timers(c) == /\ Break(c) \/ Resend(c)
             /\ React(c)
             /\ UNCHANGED <<operation, registry, created, effects, overlapped>>

Spec == Init /\ [][Next]_vars /\ \A c \in Calls : WF_vars(Timers(c))
-----------------------------------------------------------------------------
(* The types of the variables; a request has an attempt of its call. *)
TypeOK ==
    /\ RequestTypeOK
    /\ operation \in [Calls -> [kind : Kinds \cup {"none"}, did : Dids \cup {0}]]
    /\ registry \in [Dids -> Nat] /\ created \in Dids
    /\ reply \in [Calls -> [did : Dids \cup {0}, version : Nat]]
    /\ didDocument \in [did : Dids \cup {0}, version : Nat]
    /\ isLoading \in BOOLEAN /\ overlapped \in BOOLEAN
    /\ effects \in [Calls -> Nat]

Changes(c) == operation[c].kind \in Kinds \ {"resolve"}

(* The server carries out a change at most once for each attempt, and a    *)
(* caller that is told it worked can rely on it.  With retries it may have *)
(* been carried out twice: two DIDs, two rotations (client.ts:256).        *)
EffectsKnown == \A c \in Calls :
    /\ effects[c] <= attempt[c] + 1
    /\ result[c] = "ok" /\ Changes(c) => effects[c] > 0

(* A refusal means that nothing was done, unless the call had been retried:*)
(* the refusal may be the answer to the repetition of what a lost or broken*)
(* response had already reported (client.ts:283).                          *)
RefusalTruthful == \A c \in Calls :
    result[c] = "refused" /\ effects[c] > 0 => attempt[c] > 0

(* What a caller may conclude from the outcome of its call.                *)
OutcomesTruthful == TypeOK /\ EffectsKnown /\ RefusalTruthful

Current(doc) == doc.did # 0 => registry[doc.did] = doc.version

(* The document on the screen is the current one, unless two calls of the  *)
(* hook overlapped, the DID was changed by the backend, or by a call of the*)
(* screen that failed or has not settled: it never goes stale otherwise    *)
(* (useDID.ts:88).                                                         *)
ShownIsCurrent ==
    \/ overlapped
    \/ Current(didDocument)
    \/ \E c \in Calls :
        /\ effects[c] > 0 /\ operation[c].did = didDocument.did
        /\ c \notin HookCalls \/ result[c] # "ok"

(* The spinner turns only while a call is under way, and if calls never    *)
(* overlap, whenever one is: the first to end stops it (useDID.ts:95).     *)
SpinnerTells ==
    /\ isLoading => \E h \in HookCalls : Underway(h)
    /\ (\E h \in HookCalls : Underway(h)) => isLoading \/ overlapped

(* What the screen shows.                                                  *)
ScreenTruthful == ShownIsCurrent /\ SpinnerTells

(* A call ends, unless its response stops in the middle of the body: that  *)
(* no timer watches (client.ts:270).                                       *)
CallSettles == \A c \in Calls :
    stage[c] = "waiting" ~> (stage[c] = "done" \/ stage[c] = "reading")
=============================================================================
