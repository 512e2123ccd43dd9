------------------------------ MODULE RateLimit ------------------------------
(***************************************************************************)
(* packages/api/src/middleware/rate-limit.ts: the requests of one key,     *)
(* which is the address of the client, through tokenBucket() as app.ts     *)
(* mounts it, or through slidingWindow().  A request is one step: nothing  *)
(* is awaited.                                                             *)
(*                                                                         *)
(* Time is counted in ticks.  A token is windowMs parts, so that a tick    *)
(* refills maxRequests parts and no number needs a fraction.               *)
(***************************************************************************)
EXTENDS Integers, Sequences, Subsequences

CONSTANTS
    windowMs, maxRequests, burstSize,
    second,         \* ticks in a second, in which Retry-After is counted
    MaxSince        \* ticks the history looks back: a bound

ASSUME RateAssumption ==
    /\ windowMs \in Nat \ {0} /\ maxRequests \in Nat \ {0} /\ burstSize \in Nat \ {0}
    /\ second \in Nat \ {0} /\ MaxSince \in Nat

VARIABLES
    limiter,        \* which of the two this is
    tokens,         \* parts of tokens in the bucket at lastRefill
    sinceRefill,    \* ticks since lastRefill
    entries,        \* ages of the requests in the window, the oldest first
    \* histories
    since,          \* ticks since some moment
    admitted,       \* requests admitted since that moment
    retryIn         \* ticks until Retry-After is over, if nobody was admitted since; or -1

limitVars == <<limiter, tokens, sinceRefill, entries, since, admitted, retryIn>>

LimitInit ==
    /\ limiter \in {"bucket", "window"}
    /\ tokens = burstSize * windowMs
    /\ sinceRefill = 0
    /\ entries = <<>>
    /\ since = 0 /\ admitted = 0
    /\ retryIn = -1

Least(a, b) == IF a <= b THEN a ELSE b
Ceiling(a, b) == (a + b - 1) \div b

\* refillBucket()
Refilled == Least(burstSize * windowMs, tokens + sinceRefill * maxRequests)

Recent == Retain(entries, 0 .. windowMs - 1)

Allows == IF limiter = "bucket" THEN Refilled >= windowMs ELSE Len(Recent) < maxRequests

\* Mutant: Retry-After is rounded down.
RetryAfterFloor ==
    second * (IF limiter = "bucket"
              THEN (windowMs - Refilled) \div (maxRequests * second)
              ELSE (windowMs - Recent[1]) \div second)

\* Retry-After, in ticks
RetryAfter ==
    second * (IF limiter = "bucket"
              THEN Ceiling(windowMs - Refilled, maxRequests * second)
              ELSE Ceiling(windowMs - Recent[1], second))

Pass ==
    /\ Allows
    /\ IF limiter = "bucket"
       THEN tokens' = Refilled - windowMs /\ sinceRefill' = 0 /\ UNCHANGED entries
       ELSE entries' = Append(Recent, 0) /\ UNCHANGED <<tokens, sinceRefill>>
    /\ admitted' = admitted + 1 /\ retryIn' = -1
    /\ UNCHANGED <<limiter, since>>

\* The answer is 429.
Refuse ==
    /\ ~Allows
    /\ IF limiter = "bucket"
       THEN tokens' = Refilled /\ sinceRefill' = 0 /\ UNCHANGED entries
       ELSE entries' = Recent /\ UNCHANGED <<tokens, sinceRefill>>
    /\ retryIn' = RetryAfter
    /\ UNCHANGED <<limiter, since, admitted>>

\* Past a full bucket or the end of the window, time makes no difference.
LimitTick ==
    /\ since < MaxSince /\ since' = since + 1
    /\ sinceRefill' = IF Refilled < burstSize * windowMs THEN sinceRefill + 1 ELSE sinceRefill
    /\ entries' = [i \in DOMAIN entries |-> Least(entries[i] + 1, windowMs)]
    /\ retryIn' = IF retryIn > 0 THEN retryIn - 1 ELSE retryIn
    /\ UNCHANGED <<limiter, tokens, admitted>>

\* The history begins again at this moment.
Mark == since' = 0 /\ admitted' = 0 /\ UNCHANGED <<limiter, tokens, sinceRefill, entries, retryIn>>

\* clearRateLimitStores(): the next request finds no bucket.
ClearStores ==
    /\ tokens' = burstSize * windowMs /\ sinceRefill' = 0 /\ entries' = <<>>
    /\ since' = 0 /\ admitted' = 0 /\ UNCHANGED <<limiter, retryIn>>

LimitNext == Pass \/ Refuse \/ LimitTick \/ Mark \/ ClearStores

LimitSpec == LimitInit /\ [][LimitNext]_limitVars
-----------------------------------------------------------------------------
LimitTypeOK ==
    /\ limiter \in {"bucket", "window"}
    /\ tokens \in 0 .. burstSize * windowMs
    /\ sinceRefill \in Nat
    /\ entries \in Seq(0 .. windowMs)
    /\ since \in 0 .. MaxSince /\ admitted \in Nat
    /\ retryIn \in Nat \cup {-1}

(* From any moment on, a bucket admits its size and what was refilled      *)
(* since, and no more: over windowMs that may be burstSize + maxRequests.  *)
BucketBounded ==
    limiter = "bucket" => admitted * windowMs <= burstSize * windowMs + since * maxRequests

(* A span of time shorter than windowMs, wherever it begins, admits at     *)
(* most maxRequests to a sliding window.                                   *)
WindowBounded == limiter = "window" /\ since < windowMs => admitted <= maxRequests

(* A client that waits as long as Retry-After says is admitted, unless     *)
(* another request with the same key came first.                           *)
RetryTruthful == retryIn = 0 => Allows

(* The three together: neither limiter admits more than it may, and what   *)
(* it tells a client it refuses is true (rate-limit.ts:35-127).            *)
RateLimitSound == LimitTypeOK /\ BucketBounded /\ WindowBounded /\ RetryTruthful
=============================================================================
