---------------------------- MODULE MetricsExport ----------------------------
(***************************************************************************)
(* The two exporters of packages/core/src/metrics that keep a queue:       *)
(* OTelExporter (otel_exporter.ts), which posts it to a collector, and     *)
(* DogStatsDExporter (dogstatsd_exporter.ts), which sends it by UDP.  Both *)
(* flush it from a setInterval that waits for nothing, so that posts may   *)
(* overlap; flush() may also be called by the host.  A metric is known by  *)
(* the number of its push.                                                 *)
(*                                                                         *)
(* The collector is external: it may accept a batch or refuse it, and its  *)
(* answer may come too late.                                               *)
(***************************************************************************)
EXTENDS Integers, SequencesExt

CONSTANTS
    Flights,        \* overlapping flushes: a bound
    bufferSize,
    MaxMetrics      \* a bound

ASSUME ExportAssumption == bufferSize \in Nat \ {0} /\ MaxMetrics \in Nat

Metrics == 1 .. MaxMetrics

VARIABLES
    exporter,       \* which of the two this is
    pushed,         \* metrics pushed so far
    queue,          \* called buffer by DogStatsDExporter
    inFlight,       \* the batch of each flush that awaits its answer, or <<>>
    interval,
    \* histories
    accepted,       \* how often the collector accepted a metric: 0, 1, or more
    refused,        \* metrics of batches answered with an HTTP error
    unanswered,     \* metrics the collector got and whose answer did not come
    unsent,         \* the last send() of DogStatsDExporter threw
    overlapped      \* whether two batches were ever in flight

exportVars == <<exporter, pushed, queue, inFlight, interval,
                accepted, refused, unanswered, unsent, overlapped>>

ExportInit ==
    /\ exporter \in {"otel", "dogstatsd"}
    /\ pushed = 0 /\ queue = <<>> /\ interval = FALSE
    /\ inFlight = [f \in Flights |-> <<>>]
    /\ accepted = [m \in Metrics |-> 0]
    /\ refused = {} /\ unanswered = {} /\ unsent = FALSE /\ overlapped = FALSE

Taken(batch) == [m \in Metrics |-> IF Contains(batch, m) /\ accepted[m] < 2 THEN accepted[m] + 1 ELSE accepted[m]]

\* DogStatsDExporter.flush() of the lines it has now.  In the modules the
\* package is built as, require() is not defined and getSocket() throws; a
\* bundler may provide it.
Send(lines) ==
    \/ /\ lines # <<>>
       /\ queue' = <<>> /\ accepted' = Taken(lines) /\ unsent' = FALSE
    \/ queue' = lines /\ unsent' = (unsent \/ lines # <<>>) /\ UNCHANGED accepted

Push ==
    /\ pushed < MaxMetrics
    /\ pushed' = pushed + 1
    /\ LET pushing == Append(queue, pushed + 1)
       IN  IF exporter = "dogstatsd" /\ Len(pushing) >= bufferSize
           THEN Send(pushing)
           ELSE queue' = pushing /\ UNCHANGED <<accepted, unsent>>
    /\ UNCHANGED <<exporter, inFlight, interval, refused, unanswered, overlapped>>

\* OTelExporter.flush() up to its await
Post(f) ==
    /\ exporter = "otel" /\ queue # <<>> /\ inFlight[f] = <<>>
    /\ queue' = <<>>
    /\ inFlight' = [inFlight EXCEPT ![f] = queue]
    /\ overlapped' = (overlapped \/ \E g \in Flights : inFlight[g] # <<>>)
    /\ UNCHANGED <<exporter, pushed, interval, accepted, refused, unanswered, unsent>>

\* The answer is not looked at: a batch the collector refuses is gone.
PostAnswered(f) ==
    /\ inFlight[f] # <<>>
    /\ \/ accepted' = Taken(inFlight[f]) /\ UNCHANGED refused
       \/ refused' = refused \cup ToSet(inFlight[f]) /\ UNCHANGED accepted
    /\ inFlight' = [inFlight EXCEPT ![f] = <<>>]
    /\ UNCHANGED <<exporter, pushed, queue, interval, unanswered, unsent, overlapped>>

\* Mutant: push() for unshift().
PutBackLast(batch) == queue \o batch

PutBack(batch) == batch \o queue

\* The fetch is rejected, or aborted after timeoutMs; the batch may have arrived.
PostFails(f) ==
    /\ inFlight[f] # <<>>
    /\ queue' = PutBack(inFlight[f])
    /\ \/ /\ accepted' = Taken(inFlight[f])
          /\ unanswered' = unanswered \cup ToSet(inFlight[f])
       \/ UNCHANGED <<accepted, unanswered>>
    /\ inFlight' = [inFlight EXCEPT ![f] = <<>>]
    /\ UNCHANGED <<exporter, pushed, interval, refused, unsent, overlapped>>

\* DogStatsDExporter.flush(), called by the interval or the host
Flush ==
    /\ exporter = "dogstatsd" /\ Send(queue)
    /\ UNCHANGED <<exporter, pushed, inFlight, interval, refused, unanswered, overlapped>>

StartInterval ==
    /\ interval' = TRUE
    /\ UNCHANGED <<exporter, pushed, queue, inFlight, accepted, refused, unanswered, unsent, overlapped>>

\* Only DogStatsDExporter sends what it has left.
StopInterval ==
    /\ interval' = FALSE
    /\ IF exporter = "dogstatsd" THEN Send(queue) ELSE UNCHANGED <<queue, accepted, unsent>>
    /\ UNCHANGED <<exporter, pushed, inFlight, refused, unanswered, overlapped>>

ExportNext ==
    \/ Push \/ Flush \/ StartInterval \/ StopInterval
    \/ \E f \in Flights : Post(f) \/ PostAnswered(f) \/ PostFails(f)

ExportSpec == ExportInit /\ [][ExportNext]_exportVars
-----------------------------------------------------------------------------
Kept(m) == Contains(queue, m) \/ \E f \in Flights : Contains(inFlight[f], m)

Increases(s) == \A i, j \in DOMAIN s : i < j => s[i] < s[j]

(* Every metric is in the queue or in one batch, once; or else it is gone, *)
(* and then the collector accepted it or refused it.  It is accepted twice *)
(* only if an answer was lost, and the queue keeps the order of the pushes *)
(* unless posts overlapped (otel_exporter.ts:208, dogstatsd_exporter.ts:92)*)
(* DogStatsDExporter's is over its size only while its socket fails.       *)
ExportAccounted ==
    /\ \A s \in {queue} \cup {inFlight[f] : f \in Flights} : ToSet(s) \subseteq 1 .. pushed /\ IsInjective(s)
    /\ \A f \in Flights, m \in Metrics : Contains(inFlight[f], m) =>
        ~Contains(queue, m) /\ \A g \in Flights \ {f} : ~Contains(inFlight[g], m)
    /\ \A m \in 1 .. pushed :
        /\ ~Kept(m) => accepted[m] > 0 \/ m \in refused
        /\ accepted[m] > 1 \/ (accepted[m] = 1 /\ (Kept(m) \/ m \in refused)) => m \in unanswered
    /\ ~overlapped => Increases(queue)
    /\ exporter = "dogstatsd" => unsent \/ Len(queue) < bufferSize
=============================================================================
