---------------------------- MODULE DidResolution ----------------------------
(***************************************************************************)
(* The resolution of one DID: packages/did/src/resolver.ts with its cache, *)
(* as services/did-resolver serves it, and as packages/api serves it behind*)
(* the response cache of middleware/cache.ts.  GET /ready of the API has   *)
(* the response cache only.                                                *)
(*                                                                         *)
(* A document is known by its version at the origin; a time stamp is kept  *)
(* as its age in ticks, up to where the code stops telling ages apart.     *)
(* Entries of other DIDs matter by pushing this one's response out.        *)
(*                                                                         *)
(* External: the origin (the site of a did:web, or what /ready probes),    *)
(* which publishes new versions and may fail or never answer.              *)
(***************************************************************************)
EXTENDS Integers

CONSTANTS
    Lookups,        \* requests that may overlap
    cacheTTL,       \* of the resolver, in ticks
    ttlMs,          \* of the response cache
    fetchTimeout,   \* of the abort signal
    MaxVersion,     \* versions the origin publishes: a bound
    Horizon         \* ticks since a version was superseded are counted up to here: a bound

ASSUME ResolutionAssumption ==
    /\ cacheTTL \in Nat /\ ttlMs \in Nat /\ fetchTimeout \in Nat \ {0}
    /\ MaxVersion \in Nat
    /\ Horizon \in Nat /\ Horizon > fetchTimeout + cacheTTL + ttlMs

Versions == 0 .. MaxVersion
Error == -1
NoEntry == [body |-> Error, age |-> -1]

VARIABLES
    route,          \* which service this is
    version,        \* what the origin has now
    superseded,     \* of a version: ticks since the origin has a newer one
    document,       \* the resolver's entry: what it holds and its age
    response,       \* the entry of the response cache
    lookup,         \* of a request: what it awaits
    fetched,        \* what the origin answered, if it did
    awaited,        \* ticks the request has awaited the origin
    stores,         \* requests whose response is cached
    floor           \* history: what the origin had at the last invalidation, when
                    \* no request was in flight

requestVars == <<lookup, fetched, awaited, stores>>
resolutionVars == <<route, version, superseded, document, response, requestVars, floor>>

Routes == {"did-resolver", "api", "ready"}

ResolutionInit ==
    /\ route \in Routes
    /\ version = 0
    /\ superseded = [v \in Versions |-> 0]
    /\ document = NoEntry /\ response = NoEntry
    /\ lookup = [l \in Lookups |-> "idle"]
    /\ fetched = [l \in Lookups |-> Error]
    /\ awaited = [l \in Lookups |-> 0]
    /\ stores = {}
    /\ floor = 0

New(v) == [body |-> v, age |-> 0]
Older(e, limit) == IF e # NoEntry /\ e.age < limit THEN [e EXCEPT !.age = @ + 1] ELSE e

\* resolve(): Date.now() - cachedAt < cacheTTL
Fresh == document # NoEntry /\ document.age < cacheTTL

\* Mutant: an entry is served whatever its age.
ServableAlways == response # NoEntry

\* createCacheMiddleware(): now - createdAt > ttlMs
Servable == response # NoEntry /\ response.age <= ttlMs
-----------------------------------------------------------------------------
Idle(l) ==
    /\ lookup' = [lookup EXCEPT ![l] = "idle"]
    /\ fetched' = [fetched EXCEPT ![l] = Error]
    /\ awaited' = [awaited EXCEPT ![l] = 0]
    /\ stores' = stores \ {l}

\* res.json(): as createCacheMiddleware() has it, or the original
Respond(body, store) == response' = IF store THEN New(body) ELSE response

(* A request comes in.  Without an authorization header, the middleware    *)
(* looks for an entry, unless the client asks it not to, and stores the    *)
(* response.  A request that finds an entry changes nothing.               *)
Request(l, cacheable, bypass) ==
    /\ lookup[l] = "idle"
    /\ cacheable => route # "did-resolver" /\ (~Servable \/ bypass)
    /\ IF route # "ready" /\ Fresh
       THEN Respond(document.body, cacheable) /\ UNCHANGED requestVars
       ELSE /\ lookup' = [lookup EXCEPT ![l] = "fetching"]
            /\ stores' = IF cacheable THEN stores \cup {l} ELSE stores
            /\ response' = IF cacheable /\ ~bypass THEN NoEntry ELSE response     \* it was expired
            /\ UNCHANGED <<fetched, awaited>>
    /\ UNCHANGED <<route, version, superseded, document, floor>>

\* The origin reads what it has.  The answer may take long to arrive.
OriginReads(l) ==
    /\ lookup[l] = "fetching" /\ fetched[l] = Error
    /\ fetched' = [fetched EXCEPT ![l] = version]
    /\ UNCHANGED <<route, version, superseded, document, response, lookup, awaited, stores, floor>>

Remember(v) == document' = New(v)

\* The answer arrives.
Resolved(l) ==
    /\ lookup[l] = "fetching" /\ fetched[l] # Error
    /\ IF route = "ready" THEN UNCHANGED document ELSE Remember(fetched[l])
    /\ Respond(fetched[l], l \in stores)
    /\ Idle(l)
    /\ UNCHANGED <<route, version, superseded, floor>>

Failed(l) ==
    /\ lookup[l] = "fetching"
    /\ Respond(Error, l \in stores)
    /\ Idle(l)
    /\ UNCHANGED <<route, version, superseded, document, floor>>

\* The signal aborts the fetch.
Aborted(l) == awaited[l] = fetchTimeout /\ Failed(l)

\* Mutant: the entry stays.
ForgetNothing == UNCHANGED document

\* invalidateCache(), clearCache()
Forget == document' = NoEntry

\* POST /cache/invalidate and /cache/clear
Invalidate ==
    /\ route = "did-resolver"
    /\ Forget
    /\ floor' = IF \A l \in Lookups : lookup[l] = "idle" THEN version ELSE floor
    /\ UNCHANGED <<route, version, superseded, response, requestVars>>

\* evictIfNeeded() for the sake of other URLs, and pruneExpired()
Evict ==
    /\ response # NoEntry /\ response' = NoEntry
    /\ UNCHANGED <<route, version, superseded, document, requestVars, floor>>

Publish ==
    /\ version < MaxVersion /\ version' = version + 1
    /\ UNCHANGED <<route, superseded, document, response, requestVars, floor>>

\* Time passes; a signal that is due goes first.
ResolutionTick ==
    /\ \A l \in Lookups : lookup[l] = "fetching" => awaited[l] < fetchTimeout
    /\ superseded' = [v \in Versions |->
            IF v < version /\ superseded[v] < Horizon THEN superseded[v] + 1 ELSE superseded[v]]
    /\ document' = Older(document, cacheTTL) /\ response' = Older(response, ttlMs + 1)
    /\ awaited' = [l \in Lookups |-> IF lookup[l] = "fetching" THEN awaited[l] + 1 ELSE awaited[l]]
    /\ UNCHANGED <<route, version, lookup, fetched, stores, floor>>

ResolutionNext ==
    \/ \E l \in Lookups :
        \/ \E cacheable, bypass \in BOOLEAN : Request(l, cacheable, bypass)
        \/ OriginReads(l) \/ Resolved(l) \/ Failed(l) \/ Aborted(l)
    \/ Invalidate \/ Evict \/ Publish \/ ResolutionTick

ResolutionSpec == ResolutionInit /\ [][ResolutionNext]_resolutionVars
-----------------------------------------------------------------------------
ResolutionTypeOK ==
    /\ route \in Routes /\ version \in Versions /\ floor \in Versions
    /\ superseded \in [Versions -> 0 .. Horizon]
    /\ document = NoEntry \/ document \in [body : Versions, age : 0 .. cacheTTL]
    /\ response = NoEntry \/ response \in [body : Versions \cup {Error}, age : 0 .. ttlMs + 1]
    /\ lookup \in [Lookups -> {"idle", "fetching"}]
    /\ fetched \in [Lookups -> Versions \cup {Error}]
    /\ awaited \in [Lookups -> 0 .. fetchTimeout]
    /\ stores \subseteq Lookups

(* What a cache would serve was the origin's latest version not long ago:  *)
(* the time limits of both caches and of the fetch add up, and no order of *)
(* overlapping resolutions adds more.                                      *)
StalenessBounded ==
    /\ Fresh => superseded[document.body] < fetchTimeout + cacheTTL
    /\ Servable /\ response.body # Error => superseded[response.body] <= fetchTimeout + cacheTTL + ttlMs

(* After an invalidation the service never serves an older version again.  *)
(* (A resolution in flight at that time brings back what it fetched: see   *)
(* floor.)                                                                 *)
InvalidationHolds == route = "did-resolver" /\ Fresh => document.body >= floor

=============================================================================
