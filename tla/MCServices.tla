----------------------------- MODULE MCServices -----------------------------
(* Six parts that share nothing: core's circuit breaker, its encodings and *)
(* its exporters of metrics, the adapters of the aggregation service, the  *)
(* resolution of DIDs and the limit on requests.  A behaviour is one of    *)
(* one of them.                                                            *)
EXTENDS CircuitBreaker, ProviderAdapters, DidResolution, RateLimit, MetricsExport, MCSerialization

VARIABLE which

mcVars == <<which, cbVars, adapterVars, resolutionVars, limitVars, exportVars, serialVars>>

MCInit ==
    /\ which \in {"breaker", "aggregation", "resolution", "limit", "export", "encoding"}
    /\ Init /\ AdapterInit /\ ResolutionInit /\ LimitInit /\ ExportInit /\ SerialInit
    /\ which # "aggregation" => methods = {Plain}
    /\ which # "resolution" => route = "api"
    /\ which # "limit" => limiter = "bucket"
    /\ which # "export" => exporter = "otel"
    /\ which # "encoding" => format = "msgpack" /\ value = Nil

MCNext ==
    \/ /\ which = "breaker" /\ Next
       /\ UNCHANGED <<which, adapterVars, resolutionVars, limitVars, exportVars, serialVars>>
    \/ /\ which = "aggregation" /\ AdapterNext
       /\ UNCHANGED <<which, cbVars, resolutionVars, limitVars, exportVars, serialVars>>
    \/ /\ which = "resolution" /\ ResolutionNext
       /\ UNCHANGED <<which, cbVars, adapterVars, limitVars, exportVars, serialVars>>
    \/ /\ which = "limit" /\ LimitNext
       /\ UNCHANGED <<which, cbVars, adapterVars, resolutionVars, exportVars, serialVars>>
    \/ /\ which = "export" /\ ExportNext
       /\ UNCHANGED <<which, cbVars, adapterVars, resolutionVars, limitVars, serialVars>>
    \/ /\ which = "encoding" /\ SerialNext
       /\ UNCHANGED <<which, cbVars, adapterVars, resolutionVars, limitVars, exportVars>>

MCSpec == MCInit /\ [][MCNext]_mcVars /\ Fairness /\ AdapterFairness
=============================================================================
