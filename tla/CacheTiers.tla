----------------------------- MODULE CacheTiers ------------------------------
(***************************************************************************)
(* One key of the three-tier cache of packages/core/src/cache/             *)
(* cache_manager.ts, under overlapping get, set and delete calls.  Keys    *)
(* never interact, and clear() does to a key what delete() does.           *)
(*                                                                         *)
(* Memory is touched in the step of the call itself.  Redis and disk are   *)
(* external adapters: a request takes effect there, and its answer reaches *)
(* the awaiting call, in two later steps.  Adapters honour the ttl they    *)
(* are given.  A set() writes memory, redis and disk one after the other   *)
(* with the same ttl, so the entries of one value expire in that order;    *)
(* a set() is taken to be shorter than its ttl.                            *)
(***************************************************************************)
EXTENDS Integers, FiniteSets, SequencesExt, Subsequences

CONSTANTS
    Clients,        \* concurrent callers, each with one call at a time
    Values,         \* each set at most once
    TtlValues,      \* those set with a ttl
    None,
    HasRedis, HasDisk,
    TierMayFail,    \* adapters can reject, and serve or answer out of order
    CanRestart      \* the process may die and start again

Entry == [val : Values, ttl : BOOLEAN]

ASSUME CacheAssumption ==
    /\ TtlValues \subseteq Values /\ None \notin Values /\ None \notin Entry
    /\ {HasRedis, HasDisk, TierMayFail, CanRestart} \subseteq BOOLEAN
    /\ HasRedis \/ HasDisk    \* a cache of memory alone has no awaits

Tier == {"redis", "disk"}
Awaits == {"redis", "disk", "promote"}

VARIABLES
    memory,     \* the entry of the MemoryTier, or None
    tier,       \* the entries of redis and disk
    stage,      \* in how many tiers the ttl of a value has passed
    call,       \* what each client awaits
    channel,    \* the clients with a request at each adapter, oldest first
    answer,     \* "none" until the adapter has acted on the request
    latest,     \* history: the value of the latest set(), None after a delete()
    written,    \* history: values set
    deleted,    \* history: values a completed delete() was called on
    misserved,  \* history: <<v, why>>, v returned by a get() called when it was gone
    raced,      \* history: a get() wrote back what it read before a later write
    faulted     \* history: an adapter rejected or reordered, or a writer died

history == <<latest, written, deleted, misserved, raced, faulted>>
tiersVars == <<memory, tier, stage, call, channel, answer, history>>

NoCall == [op |-> "none", at |-> "none", val |-> None, clean |-> TRUE, gone |-> {}]

TiersInit ==
    /\ memory = None
    /\ tier = [t \in Tier |-> None]
    /\ stage = [v \in Values |-> 0]
    /\ call = [c \in Clients |-> NoCall]
    /\ channel = [t \in Tier |-> <<>>]
    /\ answer = [c \in Clients |-> "none"]
    /\ latest = None /\ written = {} /\ deleted = {} /\ misserved = {}
    /\ raced = FALSE /\ faulted = FALSE
-----------------------------------------------------------------------------
Rank(t) == IF t = "memory" THEN 1 ELSE IF t = "redis" THEN 2 ELSE 3

\* What tier t answers for the entry e it holds.
Shown(t, e) ==
    IF e = None \/ (e.ttl /\ stage[e.val] >= Rank(t)) THEN None ELSE e.val

TierAt(at) == IF at = "promote" THEN "redis" ELSE at
Active(op) == {c \in Clients : call[c].op = op}
Writers == Active("set") \cup Active("delete")

(* The call of c, as it is now, awaits a request to the adapter behind at; *)
(* from says which channels already dropped the answered request.          *)
Send(c, rec, at, from) ==
    /\ call' = [call EXCEPT ![c] = [rec EXCEPT !.at = at]]
    /\ channel' = [from EXCEPT ![TierAt(at)] = Append(@, c)]
    /\ answer' = [answer EXCEPT ![c] = "none"]

Finish(c, from) ==
    /\ call' = [call EXCEPT ![c] = NoCall]
    /\ channel' = from
    /\ answer' = [answer EXCEPT ![c] = "none"]

\* A get() returns v to a caller for which some values were gone.
Serve(v, gone) == misserved' = misserved \cup {g \in gone : g[1] = v}

GoneNow == deleted \X {"deleted"} \cup {v \in Values : stage[v] = 3} \X {"expired"}

(* The first tier after `at` that is configured, or "none".                *)
NextTier(at) ==
    IF at = "memory" /\ HasRedis THEN "redis"
    ELSE IF at # "disk" /\ HasDisk THEN "disk" ELSE "none"
-----------------------------------------------------------------------------
GetBegins(c) ==
    /\ call[c] = NoCall
    /\ LET v == Shown("memory", memory)
           rec == [op |-> "get", at |-> "none", val |-> None,
                   clean |-> Writers = {}, gone |-> GoneNow]
       IN  \/ /\ v # None
              /\ Serve(v, GoneNow)
              /\ UNCHANGED <<memory, call, channel, answer>>
           \/ /\ v = None
              /\ memory' = None
              /\ Send(c, rec, NextTier("memory"), channel)
              /\ UNCHANGED misserved
    /\ UNCHANGED <<tier, stage, latest, written, deleted, raced, faulted>>

\* A write makes every get() in progress one that may put back older data.
Overlapped == [d \in Clients |-> [call[d] EXCEPT !.clean = @ /\ call[d].op # "get"]]

StartWrite(c, rec) ==
    /\ call[c] = NoCall
    /\ LET t == NextTier("memory")
       IN  /\ call' = [Overlapped EXCEPT ![c] = [rec EXCEPT !.at = t]]
           /\ channel' = [channel EXCEPT ![t] = Append(@, c)]
           /\ answer' = [answer EXCEPT ![c] = "none"]
    /\ UNCHANGED <<tier, stage, deleted, misserved, raced, faulted>>

Set(c, v) ==
    /\ v \notin written
    /\ written' = written \cup {v}
    /\ latest' = v
    /\ memory' = [val |-> v, ttl |-> v \in TtlValues]
    /\ StartWrite(c, [NoCall EXCEPT !.op = "set", !.val = v])

Delete(c) ==
    /\ latest' = None
    /\ memory' = None
    /\ StartWrite(c, [NoCall EXCEPT !.op = "delete", !.gone =
          {v \in written : \A d \in Active("set") : call[d].val # v} \X {"deleted"}])
    /\ UNCHANGED written
-----------------------------------------------------------------------------
(* The adapter's side.                                                     *)

Waits(t, c) == Contains(channel[t], c) /\ answer[c] = "none"

Precedes(s, c, d) == \E i, j \in DOMAIN s : i < j /\ s[i] = c /\ s[j] = d

\* The adapter has acted on all requests before that of c.
InTurn(t, c) == \A d \in Clients : Precedes(channel[t], d, c) => answer[d] # "none"

MayServe(t, c) == Waits(t, c) /\ (InTurn(t, c) \/ TierMayFail)

\* The entry a request leaves behind.
Effect(t, c) ==
    CASE call[c].op = "set" -> [val |-> call[c].val, ttl |-> call[c].val \in TtlValues]
      [] call[c].op = "delete" -> None
      [] call[c].at = "promote" -> [val |-> call[c].val, ttl |-> FALSE]
      [] OTHER -> tier[t]

TierActs(t, c) ==
    /\ MayServe(t, c)
    /\ tier' = [tier EXCEPT ![t] = Effect(t, c)]
    /\ call' = IF call[c].op = "get" /\ call[c].at # "promote"
               THEN [call EXCEPT ![c].val = Shown(t, tier[t])] ELSE call
    /\ answer' = [answer EXCEPT ![c] = "ok"]
    /\ faulted' = (faulted \/ ~InTurn(t, c))
    /\ UNCHANGED <<memory, stage, channel, latest, written, deleted, misserved, raced>>

\* The adapter rejects, with or without having acted.
TierRejects(t, c) ==
    /\ TierMayFail /\ MayServe(t, c)
    /\ \E e \in {tier[t], Effect(t, c)} : tier' = [tier EXCEPT ![t] = e]
    /\ answer' = [answer EXCEPT ![c] = "error"]
    /\ faulted' = TRUE
    /\ UNCHANGED <<memory, stage, call, channel, latest, written, deleted, misserved, raced>>

(* The awaiting call goes on.  Answers overtake each other only at an      *)
(* adapter that has already misbehaved.                                    *)

Arrives(t, c) ==
    /\ Contains(channel[t], c) /\ answer[c] # "none"
    /\ c = channel[t][1] \/ faulted

Rest(t, c) == [channel EXCEPT ![t] = Retain(@, Clients \ {c})]

\* get(): a rejected read rejects the call.
GetRejects(t, c) ==
    /\ Arrives(t, c) /\ call[c].op = "get" /\ answer[c] = "error"
    /\ Finish(c, Rest(t, c))
    /\ UNCHANGED <<memory, tier, stage, history>>

GetMisses(t, c) ==
    /\ Arrives(t, c) /\ call[c].op = "get" /\ answer[c] = "ok" /\ call[c].val = None
    /\ IF NextTier(t) = "none" THEN Finish(c, Rest(t, c))
       ELSE Send(c, call[c], NextTier(t), Rest(t, c))
    /\ UNCHANGED <<memory, tier, stage, history>>

(* A value found below is put into memory, without a ttl; one found on     *)
(* disk is then written to redis, also without.                            *)
GetHits(t, c) ==
    /\ Arrives(t, c) /\ call[c].op = "get" /\ answer[c] = "ok"
    /\ call[c].val # None /\ call[c].at # "promote"
    /\ memory' = [val |-> call[c].val, ttl |-> FALSE]
    /\ raced' = (raced \/ ~call[c].clean)
    /\ IF t = "disk" /\ HasRedis
       THEN Send(c, call[c], "promote", Rest(t, c)) /\ UNCHANGED misserved
       ELSE Finish(c, Rest(t, c)) /\ Serve(call[c].val, call[c].gone)
    /\ UNCHANGED <<tier, stage, latest, written, deleted, faulted>>

GetPromoted(c) ==
    /\ Arrives("redis", c) /\ call[c].at = "promote" /\ answer[c] = "ok"
    /\ Finish(c, Rest("redis", c))
    /\ Serve(call[c].val, call[c].gone)
    /\ UNCHANGED <<memory, tier, stage, latest, written, deleted, raced, faulted>>

\* Mutant: a write is done when redis has answered.
WriteGoesOnShort(t, c) ==
    /\ Arrives(t, c) /\ c \in Writers
    /\ Finish(c, Rest(t, c))
    /\ deleted' = deleted \cup {g[1] : g \in call[c].gone}
    /\ UNCHANGED <<memory, tier, stage, latest, written, misserved, raced, faulted>>

\* Mutant: a delete() is done when redis has answered.
WriteGoesOnDelete(t, c) ==
    /\ Arrives(t, c) /\ c \in Writers
    /\ LET last == NextTier(t) = "none" \/ call[c].op = "delete"
       IN  IF last
           THEN Finish(c, Rest(t, c)) /\ deleted' = deleted \cup {g[1] : g \in call[c].gone}
           ELSE Send(c, call[c], NextTier(t), Rest(t, c)) /\ UNCHANGED deleted
    /\ UNCHANGED <<memory, tier, stage, latest, written, misserved, raced, faulted>>

\* set() and delete() swallow what an adapter rejects.
WriteGoesOn(t, c) ==
    /\ Arrives(t, c) /\ c \in Writers
    /\ \/ /\ NextTier(t) # "none"
          /\ Send(c, call[c], NextTier(t), Rest(t, c))
          /\ UNCHANGED deleted
       \/ /\ NextTier(t) = "none"
          /\ Finish(c, Rest(t, c))
          /\ deleted' = deleted \cup {g[1] : g \in call[c].gone}
    /\ UNCHANGED <<memory, tier, stage, latest, written, misserved, raced, faulted>>

\* The ttl of v passes in the next tier.
TtlPasses(v) ==
    /\ v \in TtlValues \cap written /\ stage[v] < 3
    /\ \A c \in Active("set") : call[c].val # v
    /\ stage' = [stage EXCEPT ![v] = @ + 1]
    /\ UNCHANGED <<memory, tier, call, channel, answer, history>>

Restart ==
    /\ CanRestart
    /\ memory' = None
    /\ call' = [c \in Clients |-> NoCall]
    /\ channel' = [t \in Tier |-> <<>>]
    /\ answer' = [c \in Clients |-> "none"]
    /\ faulted' = (faulted \/ Writers # {})
    /\ UNCHANGED <<tier, stage, latest, written, deleted, misserved, raced>>

AtTier(t, c) ==
    \/ TierActs(t, c) \/ TierRejects(t, c)
    \/ GetRejects(t, c) \/ GetMisses(t, c) \/ GetHits(t, c) \/ WriteGoesOn(t, c)

TiersNext ==
    \/ \E c \in Clients : \/ GetBegins(c) \/ Delete(c) \/ GetPromoted(c)
                          \/ \E v \in Values : Set(c, v)
                          \/ \E t \in Tier : AtTier(t, c)
    \/ \E v \in Values : TtlPasses(v)
    \/ Restart

TiersSpec == TiersInit /\ [][TiersNext]_tiersVars
-----------------------------------------------------------------------------
TiersTypeOK ==
    /\ memory \in Entry \cup {None}
    /\ tier \in [Tier -> Entry \cup {None}]
    /\ stage \in [Values -> 0..3]
    /\ \A c \in Clients :
          /\ call[c].op \in {"none", "get", "set", "delete"}
          /\ call[c].at \in Awaits \cup {"none"}
          /\ call[c].val \in Values \cup {None}
          /\ call[c].op # "none" =>
                \A t \in Tier : Contains(channel[t], c) <=> t = TierAt(call[c].at)
    /\ answer \in [Clients -> {"none", "ok", "error"}]

Quiet == \A c \in Clients : call[c] = NoCall

(* cache_manager.ts:204-242: when no call is in progress, every tier shows *)
(* the latest value or, once its ttl passed or after a restart, nothing,   *)
(* however calls overlapped: unless a get() that was overtaken by a write  *)
(* put back what it had read, an adapter rejected or served requests out   *)
(* of order, or a writer died.                                             *)
Coherent ==
    Quiet /\ ~raced /\ ~faulted =>
        /\ Shown("memory", memory) \in {latest, None}
        /\ \A t \in Tier : Shown(t, tier[t]) \in {latest, None}

(* Under the same conditions a value is not lost early: a tier below       *)
(* memory shows it until its ttl has passed there.                         *)
Retained ==
    Quiet /\ ~faulted /\ ~raced /\ latest # None =>
        \A t \in Tier :
            (t = "redis" /\ HasRedis) \/ (t = "disk" /\ HasDisk) =>
                Shown(t, tier[t]) = latest \/ stage[latest] >= Rank(t)

(* Quiet tiers agree with the latest write, no more and no less.           *)
TiersAgree == TiersTypeOK /\ Coherent /\ Retained

(* And a get() does not return a value that a delete() was called on and   *)
(* completed for before the get() was called.                              *)
NoResurrection ==
    ~raced /\ ~faulted => \A g \in misserved : g[2] # "deleted"

(* A get() that no write overtook returns the latest value while a tier    *)
(* below memory shows it: it does not answer from an older copy.           *)
CleanReads ==
    ~raced /\ ~faulted =>
        \A c \in Active("get") :
            call[c].clean /\ call[c].val # None => call[c].val = latest

(* What a get() returns, under the same conditions.                        *)
ReadsSound == NoResurrection /\ CleanReads

(* tests/robot/cache.robot:53, "Verify expired cache entry returns 404".   *)
ExpiredNotServed == \A g \in misserved : g[2] # "expired"

=============================================================================
