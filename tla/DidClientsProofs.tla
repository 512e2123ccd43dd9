--------------------------- MODULE DidClientsProofs ---------------------------
(***************************************************************************)
(* What the outcome of a request, and the document on the screen, tell of  *)
(* the registry: for every number of calls, of DIDs and of retries, and    *)
(* whatever is lost, late or answered by a proxy.                          *)
(*                                                                         *)
(* A refusal of a first attempt is truthful because that attempt was       *)
(* executed by the refusal and is not executed again: the proof counts the *)
(* requests under way to the effects.  A document on the screen is excused *)
(* by a call that changed its DID; one in an answer by a call other than   *)
(* its own, which is why it is still when its own call settles.            *)
(***************************************************************************)
EXTENDS DidClients, FiniteSetTheorems, TLAPS

\* The attempts of c whose request is under way
Sent(c) == {n \in 0 .. attempt[c] : <<c, n>> \in requests}

(* Each attempt is executed once or is still under way, and one that was   *)
(* answered is not under way any more.                                     *)
Attempts == \A c \in Calls :
    /\ effects[c] + Cardinality(Sent(c)) <= attempt[c] + 1
    /\ (status[c] # "none" \/ result[c] \in {"ok", "refused"}) => <<c, attempt[c]>> \notin requests
    /\ stage[c] = "ready" => Sent(c) = {} /\ effects[c] = 0

\* What an answer promises of the effects, the call having settled or not
Answers == \A c \in Calls :
    /\ status[c] # "none" => stage[c] \in {"waiting", "reading"}
    /\ stage[c] = "reading" => status[c] # "none"
    /\ stage[c] = "pausing" => attempt[c] < retryCount[c]
    /\ (status[c] = "ok" \/ result[c] = "ok") /\ Changes(c) => effects[c] > 0
    /\ (status[c] = "client_error" \/ result[c] = "refused") /\ effects[c] > 0 => attempt[c] > 0

\* The DIDs that calls and documents name were created.
Named == \A c \in Calls :
    /\ stage[c] # "ready" => operation[c].kind \in Kinds
    /\ stage[c] # "ready" /\ operation[c].kind # "create" => operation[c].did \in 1 .. created
    /\ operation[c].did <= created /\ (operation[c].kind = "create" => operation[c].did = 0)
    /\ reply[c].did <= created /\ didDocument.did <= created

Spares(b, doc) == effects[b] > 0 /\ operation[b].did = doc.did /\ (b \notin HookCalls \/ result[b] # "ok")

(* Where calls of the hook do not overlap one is under way at a time, and  *)
(* the document in its answer is excused by other calls only.              *)
Alone == ~overlapped =>
    /\ \A g, h \in HookCalls : Underway(g) /\ Underway(h) => g = h
    /\ Current(didDocument) \/ \E b \in Calls : Spares(b, didDocument)
    /\ \A c \in HookCalls : status[c] = "ok" =>
           Current(reply[c]) \/ \E b \in Calls \ {c} : Spares(b, reply[c])

DidInv == TypeOK /\ Attempts /\ Answers /\ Named /\ Alone /\ SpinnerTells

-----------------------------------------------------------------------------
(* A request is of an attempt of its call.                                 *)
LEMMA RequestsBounded ==
    ASSUME NEW C, NEW f, NEW R, R \subseteq {r \in C \X Nat : r[2] <= f[r[1]]}, NEW c, NEW n, <<c, n>> \in R
    PROVE  c \in C /\ n \in Nat /\ n <= f[c]
<1>1. <<c, n>> \in C \X Nat /\ <<c, n>>[2] <= f[<<c, n>>[1]]
  OBVIOUS
<1> QED BY <1>1

(* The attempts under way can be counted.                                  *)
LEMMA SentFacts ==
    ASSUME TypeOK, NEW c \in Calls
    PROVE  /\ IsFiniteSet(Sent(c)) /\ Cardinality(Sent(c)) \in Nat
           /\ \A n : n \in Sent(c) <=> <<c, n>> \in requests
<1>1. attempt[c] \in Nat
  BY DEF TypeOK, RequestTypeOK
<1>2. IsFiniteSet(0 .. attempt[c])
  <2>1. 0 \in Int /\ attempt[c] \in Int
    BY <1>1
  <2> QED BY <2>1, FS_Interval
<1>3. IsFiniteSet(Sent(c)) /\ Cardinality(Sent(c)) \in Nat
  BY <1>2, FS_Subset, FS_CardinalityType DEF Sent
<1>4. ASSUME NEW n, <<c, n>> \in requests
      PROVE  n \in 0 .. attempt[c]
  <2>1. requests \subseteq {r \in Calls \X Nat : r[2] <= attempt[r[1]]}
    BY DEF TypeOK, RequestTypeOK
  <2>2. n \in Nat /\ n <= attempt[c]
    BY <2>1, <1>4, RequestsBounded
  <2> QED BY <1>1, <2>2
<1> QED BY <1>3, <1>4 DEF Sent

(* A request more, of a later attempt than those under way.                *)
LEMMA OneMoreSent ==
    ASSUME TypeOK, TypeOK', NEW c \in Calls, NEW n \in Nat, <<c, n>> \notin requests,
           requests' = requests \cup {<<c, n>>}
    PROVE  /\ Cardinality(Sent(c)') = Cardinality(Sent(c)) + 1 /\ Cardinality(Sent(c)) \in Nat
           /\ \A b \in Calls \ {c} : Sent(b)' = Sent(b)
<1>1. \A b \in Calls : \A k : k \in Sent(b) <=> <<b, k>> \in requests
  BY SentFacts
<1>2. \A b \in Calls : \A k : k \in Sent(b)' <=> <<b, k>> \in requests'
  <2>1. ASSUME NEW b \in Calls, NEW k, <<b, k>> \in requests'
        PROVE  k \in 0 .. attempt'[b]
    <3>1. requests' \subseteq {r \in Calls \X Nat : r[2] <= attempt'[r[1]]} /\ attempt' \in [Calls -> Nat]
      BY DEF TypeOK, RequestTypeOK
    <3>2. k \in Nat /\ k <= attempt'[b] /\ attempt'[b] \in Nat
      BY <3>1, <2>1, RequestsBounded
    <3> QED BY <3>2
  <2> QED BY <2>1 DEF Sent
<1>3. Sent(c)' = Sent(c) \cup {n} /\ n \notin Sent(c)
  BY <1>1, <1>2
<1>4. \A b \in Calls \ {c} : Sent(b)' = Sent(b)
  BY <1>1, <1>2
<1> QED BY <1>3, <1>4, SentFacts, FS_AddElement

(* A request less                                                          *)
LEMMA OneLessSent ==
    ASSUME TypeOK, NEW c \in Calls, NEW n, <<c, n>> \in requests,
           requests' = requests \ {<<c, n>>}, attempt' = attempt
    PROVE  /\ Cardinality(Sent(c)') = Cardinality(Sent(c)) - 1 /\ Cardinality(Sent(c)) \in Nat
           /\ Sent(c)' = Sent(c) \ {n}
           /\ \A b \in Calls \ {c} : Sent(b)' = Sent(b)
<1>1. Sent(c)' = Sent(c) \ {n} /\ n \in Sent(c)
  BY SentFacts DEF Sent
<1>2. \A b \in Calls \ {c} : Sent(b)' = Sent(b)
  BY DEF Sent
<1> QED BY <1>1, <1>2, SentFacts, FS_RemoveElement

-----------------------------------------------------------------------------
(* Nothing is under way, nothing was done.                                 *)
LEMMA DidStarts == Init => DidInv
<1> SUFFICES ASSUME Init
             PROVE  DidInv
  OBVIOUS
<1> USE DEF Init, RequestInit
<1>1. 1 \in Dids /\ MaxDids \in Nat \ {0}
  BY DidClientsAssumption DEF DidClientsAssumption, Dids
<1>2. RequestTypeOK
  <2>1. requests \subseteq {r \in Calls \X Nat : r[2] <= attempt[r[1]]}
    OBVIOUS
  <2>2. attempt \in [Calls -> Nat] /\ \A c \in Calls : attempt[c] <= retryCount[c]
    BY ApiRequestAssumption DEF ApiRequestAssumption
  <2>3. status \in [Calls -> Statuses \cup {"none"}] /\ result \in [Calls -> {"none", "ok", "refused", "failed"}]
    OBVIOUS
  <2>4. stage \in [Calls -> {"ready", "waiting", "reading", "pausing", "done"}]
        /\ \A c \in Calls : result[c] # "none" <=> stage[c] = "done"
    OBVIOUS
  <2> QED BY <2>1, <2>2, <2>3, <2>4 DEF RequestTypeOK
<1>3. TypeOK
  BY <1>1, <1>2 DEF TypeOK, None
<1>4. Attempts
  <2>1. ASSUME NEW c \in Calls
        PROVE  /\ effects[c] + Cardinality(Sent(c)) <= attempt[c] + 1
               /\ (status[c] # "none" \/ result[c] \in {"ok", "refused"}) => <<c, attempt[c]>> \notin requests
               /\ stage[c] = "ready" => Sent(c) = {} /\ effects[c] = 0
    <3>1. Sent(c) = {} /\ Cardinality({}) = 0
      BY FS_EmptySet DEF Sent
    <3>2. effects[c] + Cardinality(Sent(c)) <= attempt[c] + 1
      BY <3>1
    <3> QED BY <3>1, <3>2
  <2> QED BY <2>1 DEF Attempts
<1>5. Answers
  BY DEF Answers
<1>6. Named
  BY DEF Named, None
<1>7. \A c \in Calls : ~Underway(c) /\ status[c] # "ok"
  BY DEF Underway
<1>8. Current(didDocument)
  BY DEF Current, None
<1>9. HookCalls \subseteq Calls
  BY DidClientsAssumption DEF DidClientsAssumption
<1>10. Alone /\ SpinnerTells
  BY <1>7, <1>8, <1>9 DEF Alone, SpinnerTells
<1> QED BY <1>3, <1>4, <1>5, <1>6, <1>10 DEF DidInv

(* A fetch() is of a new attempt.                                          *)
LEMMA FetchCounts ==
    ASSUME DidInv, TypeOK', NEW c \in Calls, NEW n \in Nat, Fetch(c, n), stage[c] \in {"ready", "pausing"},
           n = attempt[c] + 1 \/ (Sent(c) = {} /\ effects[c] = 0), effects' = effects
    PROVE  Attempts'
<1>1. TypeOK /\ Attempts /\ Answers
  BY DEF DidInv
<1>2. /\ attempt \in [Calls -> Nat] /\ stage \in [Calls -> {"ready", "waiting", "reading", "pausing", "done"}]
      /\ requests \subseteq {r \in Calls \X Nat : r[2] <= attempt[r[1]]}
      /\ effects \in [Calls -> Nat] /\ \A b \in Calls : result[b] # "none" <=> stage[b] = "done"
  BY <1>1 DEF TypeOK, RequestTypeOK
<1>3. <<c, n>> \notin requests
  <2>1. CASE n = attempt[c] + 1
    <3>1. <<c, n>> \in requests => n <= attempt[c]
      BY <1>2, RequestsBounded
    <3> QED BY <2>1, <3>1, <1>2
  <2>2. CASE Sent(c) = {}
    BY <2>2, <1>1, SentFacts
  <2> QED BY <2>1, <2>2
<1>4. /\ requests' = requests \cup {<<c, n>>} /\ attempt' = [attempt EXCEPT ![c] = n]
      /\ stage' = [stage EXCEPT ![c] = "waiting"] /\ status' = status /\ result' = result
  BY DEF Fetch
<1>5. /\ Cardinality(Sent(c)') = Cardinality(Sent(c)) + 1 /\ Cardinality(Sent(c)) \in Nat
      /\ \A b \in Calls \ {c} : Sent(b)' = Sent(b)
  BY <1>1, <1>3, <1>4, OneMoreSent
<1>6. effects[c] + Cardinality(Sent(c)) + 1 <= n + 1
  <2>1. CASE n = attempt[c] + 1
    <3>1. effects[c] + Cardinality(Sent(c)) <= attempt[c] + 1 /\ effects[c] \in Nat /\ attempt[c] \in Nat
      BY <1>1, <1>2 DEF Attempts
    <3> QED BY <2>1, <3>1, <1>5
  <2>2. CASE Sent(c) = {} /\ effects[c] = 0
    BY <2>2, FS_EmptySet
  <2> QED BY <2>1, <2>2
<1>7. status[c] = "none" /\ result[c] = "none"
  BY <1>1, <1>2 DEF Answers
<1>8. ASSUME NEW b \in Calls
      PROVE  /\ effects'[b] + Cardinality(Sent(b)') <= attempt'[b] + 1
             /\ (status'[b] # "none" \/ result'[b] \in {"ok", "refused"}) => <<b, attempt'[b]>> \notin requests'
             /\ stage'[b] = "ready" => Sent(b)' = {} /\ effects'[b] = 0
  <2>1. CASE b = c
    <3>1. attempt'[c] = n /\ stage'[c] = "waiting" /\ status'[c] = "none" /\ result'[c] = "none"
      BY <1>2, <1>4, <1>7
    <3>2. effects[c] + Cardinality(Sent(c)') <= n + 1
      BY <1>2, <1>5, <1>6
    <3> QED BY <2>1, <3>1, <3>2
  <2>2. CASE b # c
    <3>1. Sent(b)' = Sent(b) /\ attempt'[b] = attempt[b] /\ stage'[b] = stage[b]
      BY <2>2, <1>2, <1>4, <1>5
    <3>2. <<b, attempt[b]>> \in requests' <=> <<b, attempt[b]>> \in requests
      BY <2>2, <1>4
    <3>3. /\ effects[b] + Cardinality(Sent(b)) <= attempt[b] + 1
          /\ (status[b] # "none" \/ result[b] \in {"ok", "refused"}) => <<b, attempt[b]>> \notin requests
          /\ stage[b] = "ready" => Sent(b) = {} /\ effects[b] = 0
      BY <1>1 DEF Attempts
    <3> QED BY <3>1, <3>2, <3>3, <1>4
  <2> QED BY <2>1, <2>2
<1> QED BY <1>8 DEF Attempts

(* A call of the hook or of the manager keeps the invariant.               *)
LEMMA BeginKeeps ==
    ASSUME DidInv, NEW c \in Calls, Begin(c)
    PROVE  DidInv'
<1>1. TypeOK /\ Attempts /\ Answers /\ Named /\ Alone /\ SpinnerTells
  BY DEF DidInv
<1>2. PICK k \in Asks[c], d \in 1 .. created :
             operation' = [operation EXCEPT ![c] = [kind |-> k, did |-> IF k = "create" THEN 0 ELSE d]]
  BY DEF Begin
<1>3. k \in Kinds /\ d \in Dids /\ created \in Nat
  <2>1. Asks[c] \in SUBSET Kinds /\ MaxDids \in Nat
    BY DidClientsAssumption DEF DidClientsAssumption
  <2>2. created \in Dids
    BY <1>1 DEF TypeOK
  <2> QED BY <2>1, <2>2 DEF Dids
<1>4. /\ Fetch(c, 0) /\ stage[c] = "ready"
      /\ UNCHANGED <<registry, created, reply, didDocument, effects>>
      /\ c \in HookCalls => isLoading' = TRUE /\ overlapped' = (overlapped \/ \E h \in HookCalls : Underway(h))
      /\ c \notin HookCalls => UNCHANGED <<isLoading, overlapped>>
  BY DEF Begin, Start
<1>5. /\ requests' = requests \cup {<<c, 0>>} /\ attempt' = [attempt EXCEPT ![c] = 0]
      /\ stage' = [stage EXCEPT ![c] = "waiting"] /\ status' = status /\ result' = result
  BY <1>4 DEF Fetch
<1>6. Sent(c) = {} /\ effects[c] = 0 /\ status[c] = "none" /\ result[c] = "none"
  BY <1>1, <1>4 DEF Attempts, Answers, TypeOK, RequestTypeOK
<1>7. TypeOK'
  <2>1. ASSUME NEW r \in requests'
        PROVE  r \in Calls \X Nat /\ r[2] <= attempt'[r[1]]
    <3>3. requests \subseteq {x \in Calls \X Nat : x[2] <= attempt[x[1]]} /\ attempt \in [Calls -> Nat]
      BY <1>1 DEF TypeOK, RequestTypeOK
    <3>1. CASE r = <<c, 0>>
      BY <3>1, <3>3, <1>5
    <3>2. CASE r # <<c, 0>>
      <4>1. r \in requests /\ r \in Calls \X Nat /\ r[2] <= attempt[r[1]] /\ r = <<r[1], r[2]>>
        BY <3>2, <3>3, <2>1, <1>5
      <4>2. r[1] # c
        BY <4>1, <1>1, <1>6, SentFacts
      <4> QED BY <3>3, <4>1, <4>2, <1>5
    <3> QED BY <3>1, <3>2
  <2>2. /\ stage' \in [Calls -> {"ready", "waiting", "reading", "pausing", "done"}]
        /\ attempt' \in [Calls -> Nat] /\ \A b \in Calls : attempt'[b] <= retryCount[b]
        /\ \A b \in Calls : result'[b] # "none" <=> stage'[b] = "done"
    <3>1. /\ stage \in [Calls -> {"ready", "waiting", "reading", "pausing", "done"}]
          /\ attempt \in [Calls -> Nat] /\ \A b \in Calls : attempt[b] <= retryCount[b]
          /\ \A b \in Calls : result[b] # "none" <=> stage[b] = "done"
      BY <1>1 DEF TypeOK, RequestTypeOK
    <3>2. retryCount[c] \in Nat
      BY ApiRequestAssumption DEF ApiRequestAssumption
    <3> QED BY <3>1, <3>2, <1>5, <1>6
  <2>3. RequestTypeOK'
    BY <1>1, <1>5, <2>1, <2>2 DEF TypeOK, RequestTypeOK
  <2>4. operation' \in [Calls -> [kind : Kinds \cup {"none"}, did : Dids \cup {0}]]
    BY <1>1, <1>2, <1>3 DEF TypeOK
  <2>5. isLoading' \in BOOLEAN /\ overlapped' \in BOOLEAN
    BY <1>1, <1>4 DEF TypeOK
  <2> QED BY <1>1, <1>4, <2>3, <2>4, <2>5 DEF TypeOK
<1>8. Attempts'
  BY <1>4, <1>6, <1>7, FetchCounts
<1>9. Answers'
  <2> SUFFICES ASSUME NEW b \in Calls
               PROVE  /\ status'[b] # "none" => stage'[b] \in {"waiting", "reading"}
                      /\ stage'[b] = "reading" => status'[b] # "none"
                      /\ stage'[b] = "pausing" => attempt'[b] < retryCount[b]
                      /\ (status'[b] = "ok" \/ result'[b] = "ok") /\ Changes(b)' => effects'[b] > 0
                      /\ (status'[b] = "client_error" \/ result'[b] = "refused") /\ effects'[b] > 0 => attempt'[b] > 0
    BY DEF Answers
  <2>1. CASE b = c
    BY <2>1, <1>1, <1>4, <1>5, <1>6 DEF TypeOK, RequestTypeOK
  <2>2. CASE b # c
    <3>1. stage'[b] = stage[b] /\ attempt'[b] = attempt[b] /\ Changes(b)' = Changes(b)
      BY <2>2, <1>1, <1>2, <1>5 DEF TypeOK, RequestTypeOK, Changes
    <3> QED BY <3>1, <1>1, <1>4, <1>5 DEF Answers
  <2> QED BY <2>1, <2>2
<1>10. Named'
  <2> SUFFICES ASSUME NEW b \in Calls
               PROVE  /\ stage'[b] # "ready" => operation'[b].kind \in Kinds
                      /\ stage'[b] # "ready" /\ operation'[b].kind # "create" => operation'[b].did \in 1 .. created
                      /\ operation'[b].did <= created /\ (operation'[b].kind = "create" => operation'[b].did = 0)
    BY <1>1, <1>4 DEF Named
  <2>1. CASE b = c
    <3>1. operation'[b] = [kind |-> k, did |-> IF k = "create" THEN 0 ELSE d]
      BY <2>1, <1>1, <1>2 DEF TypeOK
    <3> QED BY <3>1, <1>3
  <2>2. CASE b # c
    <3>1. operation'[b] = operation[b] /\ stage'[b] = stage[b]
      BY <2>2, <1>1, <1>2, <1>5 DEF TypeOK, RequestTypeOK
    <3> QED BY <3>1, <1>1 DEF Named
  <2> QED BY <2>1, <2>2
<1>11. \A b \in Calls : Underway(b)' <=> b = c \/ Underway(b)
  BY <1>1, <1>4, <1>5 DEF Underway, TypeOK, RequestTypeOK
<1>12. Alone'
  <2> SUFFICES ASSUME ~overlapped'
               PROVE  /\ \A g, h \in HookCalls : Underway(g)' /\ Underway(h)' => g = h
                      /\ Current(didDocument)' \/ \E b \in Calls : Spares(b, didDocument)'
                      /\ \A x \in HookCalls : status'[x] = "ok" =>
                             Current(reply[x])' \/ \E b \in Calls \ {x} : Spares(b, reply[x])'
    BY DEF Alone
  <2>1. ~overlapped /\ (c \in HookCalls => \A h \in HookCalls : ~Underway(h)) /\ HookCalls \subseteq Calls
    <3>1. HookCalls \subseteq Calls
      BY DidClientsAssumption DEF DidClientsAssumption
    <3>2. CASE c \in HookCalls
      BY <3>1, <3>2, <1>4
    <3>3. CASE c \notin HookCalls
      <4>1. overlapped' = overlapped
        BY <3>3, <1>4
      <4> QED BY <3>1, <3>3, <4>1
    <3> QED BY <3>2, <3>3
  <2>2. \A g, h \in HookCalls : Underway(g)' /\ Underway(h)' => g = h
    BY <2>1, <1>1, <1>11 DEF Alone
  <2>3. \A doc : Current(doc) => Current(doc)'
    BY <1>4 DEF Current
  <2>4. ASSUME NEW doc, NEW b \in Calls, Spares(b, doc)
        PROVE  Spares(b, doc)'
    <3>1. b # c
      BY <2>4, <1>6 DEF Spares
    <3>2. operation'[b] = operation[b]
      BY <3>1, <1>1, <1>2 DEF TypeOK
    <3> QED BY <2>4, <3>2, <1>4, <1>5 DEF Spares
  <2>5. Current(didDocument)' \/ \E b \in Calls : Spares(b, didDocument)'
    <3>1. PICK doc : doc = didDocument /\ doc = didDocument'
      BY <1>4
    <3>2. Current(doc)' \/ \E b \in Calls : Spares(b, doc)'
      BY <3>1, <2>1, <2>3, <2>4, <1>1 DEF Alone
    <3> QED BY <3>1, <3>2 DEF Current, Spares
  <2>6. ASSUME NEW x \in HookCalls, status'[x] = "ok"
        PROVE  Current(reply[x])' \/ \E b \in Calls \ {x} : Spares(b, reply[x])'
    <3>1. PICK doc : doc = reply[x] /\ doc = reply'[x]
      BY <1>4
    <3>2. Current(doc)' \/ \E b \in Calls \ {x} : Spares(b, doc)'
      BY <3>1, <2>1, <2>3, <2>4, <2>6, <1>1, <1>5 DEF Alone
    <3> QED BY <3>1, <3>2 DEF Current, Spares
  <2> QED BY <2>2, <2>5, <2>6
<1>13. SpinnerTells'
  BY <1>1, <1>4, <1>11, DidClientsAssumption DEF DidClientsAssumption, SpinnerTells
<1> QED BY <1>7, <1>8, <1>9, <1>10, <1>12, <1>13 DEF DidInv

(* A step of a call that is under way and stays so tells nobody anything.  *)
LEMMA UnderwayKeeps ==
    ASSUME DidInv, UNCHANGED <<operation, registry, created, reply, hookVars, effects, overlapped, result>>,
           \A b \in Calls : /\ Underway(b)' <=> Underway(b)
                            /\ stage'[b] = "ready" <=> stage[b] = "ready"
                            /\ status'[b] \in {status[b], "none"}
    PROVE  Named' /\ Alone' /\ SpinnerTells'
<1>1. Named /\ Alone /\ SpinnerTells /\ HookCalls \subseteq Calls
  BY DidClientsAssumption DEF DidInv, DidClientsAssumption
<1>2. UNCHANGED <<operation, registry, created, reply, didDocument, isLoading, effects, overlapped, result>>
  BY DEF hookVars
<1>3. Named'
  BY <1>1, <1>2 DEF Named
<1>4. SpinnerTells'
  BY <1>1, <1>2 DEF SpinnerTells
<1>5. Current(didDocument)' = Current(didDocument)
      /\ \A b \in Calls : Current(reply[b])' = Current(reply[b])
  BY <1>2 DEF Current
<1>6. \A b, x \in Calls : /\ Spares(b, didDocument)' = Spares(b, didDocument)
                          /\ Spares(b, reply[x])' = Spares(b, reply[x])
  BY <1>2 DEF Spares
<1>7. \A b \in Calls : status'[b] = "ok" => status[b] = "ok"
  OBVIOUS
<1>8. Alone'
  BY <1>1, <1>2, <1>5, <1>6, <1>7 DEF Alone
<1> QED BY <1>3, <1>4, <1>8

(* The end of a delay keeps the invariant.                                 *)
LEMMA ResendKeeps ==
    ASSUME DidInv, NEW c \in Calls, Resend(c), React(c), UNCHANGED <<operation, registry, created, effects, overlapped>>
    PROVE  DidInv'
<1>1. TypeOK /\ Attempts /\ Answers
  BY DEF DidInv
<1>2. /\ stage \in [Calls -> {"ready", "waiting", "reading", "pausing", "done"}] /\ attempt \in [Calls -> Nat]
      /\ \A b \in Calls : attempt[b] <= retryCount[b] /\ (result[b] # "none" <=> stage[b] = "done")
      /\ requests \subseteq {r \in Calls \X Nat : r[2] <= attempt[r[1]]}
  BY <1>1 DEF TypeOK, RequestTypeOK
<1>3. stage[c] = "pausing" /\ Fetch(c, attempt[c] + 1)
  BY DEF Resend
<1>4. /\ requests' = requests \cup {<<c, attempt[c] + 1>>} /\ attempt' = [attempt EXCEPT ![c] = attempt[c] + 1]
      /\ stage' = [stage EXCEPT ![c] = "waiting"] /\ UNCHANGED <<status, result>>
  BY <1>3 DEF Fetch
<1>5. UNCHANGED <<reply, hookVars>>
  BY <1>2, <1>4 DEF React
<1>6. /\ attempt[c] + 1 <= retryCount[c] /\ status[c] = "none" /\ result[c] = "none" /\ effects[c] \in Nat
      /\ retryCount[c] \in Nat
  BY <1>1, <1>2, <1>3, ApiRequestAssumption DEF Answers, ApiRequestAssumption, TypeOK
<1>7. TypeOK'
  <2>1. ASSUME NEW r \in requests'
        PROVE  r \in Calls \X Nat /\ r[2] <= attempt'[r[1]]
    <3>1. CASE r = <<c, attempt[c] + 1>>
      BY <3>1, <1>2, <1>4
    <3>2. CASE r # <<c, attempt[c] + 1>>
      <4>1. r \in Calls \X Nat /\ r[2] <= attempt[r[1]] /\ r[1] \in Calls /\ r[2] \in Nat
        BY <3>2, <2>1, <1>2, <1>4
      <4>2. attempt[r[1]] <= attempt'[r[1]] /\ attempt[r[1]] \in Nat /\ attempt'[r[1]] \in Nat
        BY <4>1, <1>2, <1>4
      <4> QED BY <4>1, <4>2
    <3> QED BY <3>1, <3>2
  <2>2. /\ stage' \in [Calls -> {"ready", "waiting", "reading", "pausing", "done"}]
        /\ attempt' \in [Calls -> Nat] /\ \A b \in Calls : attempt'[b] <= retryCount[b]
        /\ \A b \in Calls : result'[b] # "none" <=> stage'[b] = "done"
    BY <1>2, <1>4, <1>6
  <2>3. requests' \subseteq {r \in Calls \X Nat : r[2] <= attempt'[r[1]]}
    BY <2>1
  <2>4. RequestTypeOK'
    BY <1>1, <1>4, <2>2, <2>3 DEF TypeOK, RequestTypeOK
  <2> QED BY <1>1, <1>5, <2>4 DEF TypeOK, hookVars
<1>8. Attempts'
  <2>1. attempt[c] + 1 \in Nat
    BY <1>2
  <2> QED BY <1>3, <1>7, <2>1, FetchCounts
<1>9. Answers'
  <2> SUFFICES ASSUME NEW b \in Calls
               PROVE  /\ status'[b] # "none" => stage'[b] \in {"waiting", "reading"}
                      /\ stage'[b] = "reading" => status'[b] # "none"
                      /\ stage'[b] = "pausing" => attempt'[b] < retryCount[b]
                      /\ (status'[b] = "ok" \/ result'[b] = "ok") /\ Changes(b)' => effects'[b] > 0
                      /\ (status'[b] = "client_error" \/ result'[b] = "refused") /\ effects'[b] > 0 => attempt'[b] > 0
    BY DEF Answers
  <2>1. CASE b = c
    BY <2>1, <1>2, <1>4, <1>6
  <2>2. CASE b # c
    <3>1. stage'[b] = stage[b] /\ attempt'[b] = attempt[b] /\ Changes(b)' = Changes(b)
      BY <2>2, <1>2, <1>4 DEF Changes
    <3> QED BY <3>1, <1>1, <1>4 DEF Answers
  <2> QED BY <2>1, <2>2
<1>10. ASSUME NEW b \in Calls
       PROVE  /\ Underway(b)' <=> Underway(b)
              /\ stage'[b] = "ready" <=> stage[b] = "ready"
              /\ status'[b] \in {status[b], "none"}
  BY <1>2, <1>3, <1>4 DEF Underway
<1>11. Named' /\ Alone' /\ SpinnerTells'
  BY <1>4, <1>5, <1>10, UnderwayKeeps
<1> QED BY <1>7, <1>8, <1>9, <1>11 DEF DidInv

(* The headers, and a failure that is tried again, keep the invariant.     *)
LEMMA WaitsKeep ==
    ASSUME DidInv, NEW c \in Calls, NEW to \in {"reading", "pausing"}, stage[c] \in {"waiting", "reading"},
           stage' = [stage EXCEPT ![c] = to],
           to = "reading" => status[c] # "none" /\ status' = status,
           to = "pausing" => attempt[c] < retryCount[c] /\ status' = [status EXCEPT ![c] = "none"],
           UNCHANGED <<attempt, requests, result>>,
           React(c), UNCHANGED <<operation, registry, created, effects, overlapped>>
    PROVE  DidInv'
<1>1. TypeOK /\ Attempts /\ Answers
  BY DEF DidInv
<1>2. /\ stage \in [Calls -> {"ready", "waiting", "reading", "pausing", "done"}]
      /\ status \in [Calls -> Statuses \cup {"none"}]
      /\ \A b \in Calls : (result[b] # "none" <=> stage[b] = "done")
  BY <1>1 DEF TypeOK, RequestTypeOK
<1>3. to \in {"reading", "pausing"} /\ stage'[c] = to /\ \A b \in Calls \ {c} : stage'[b] = stage[b] /\ status'[b] = status[b]
  BY <1>2
<1>4. UNCHANGED <<reply, hookVars>>
  BY <1>3 DEF React
<1>5. /\ status'[c] \in {status[c], "none"} /\ (to = "reading" => status'[c] # "none")
      /\ (to = "pausing" => status'[c] = "none" /\ attempt[c] < retryCount[c])
  BY <1>2
<1>6. TypeOK'
  <2>1. status' \in [Calls -> Statuses \cup {"none"}] /\ stage' \in [Calls -> {"ready", "waiting", "reading", "pausing", "done"}]
    BY <1>2, <1>3
  <2>2. \A b \in Calls : result'[b] # "none" <=> stage'[b] = "done"
    BY <1>2, <1>3
  <2>3. RequestTypeOK'
    BY <1>1, <2>1, <2>2 DEF TypeOK, RequestTypeOK
  <2> QED BY <1>1, <1>4, <2>3 DEF TypeOK, hookVars
<1>7. Attempts'
  <2> SUFFICES ASSUME NEW b \in Calls
               PROVE  /\ effects[b] + Cardinality(Sent(b)) <= attempt[b] + 1
                      /\ (status'[b] # "none" \/ result[b] \in {"ok", "refused"}) => <<b, attempt[b]>> \notin requests
                      /\ stage'[b] = "ready" => Sent(b) = {} /\ effects[b] = 0
    BY DEF Attempts, Sent
  <2>1. status'[b] # "none" => status[b] # "none"
    BY <1>3, <1>5
  <2>2. stage'[b] = "ready" => stage[b] = "ready"
    BY <1>3
  <2> QED BY <2>1, <2>2, <1>1 DEF Attempts
<1>8. Answers'
  <2> SUFFICES ASSUME NEW b \in Calls
               PROVE  /\ status'[b] # "none" => stage'[b] \in {"waiting", "reading"}
                      /\ stage'[b] = "reading" => status'[b] # "none"
                      /\ stage'[b] = "pausing" => attempt[b] < retryCount[b]
                      /\ (status'[b] = "ok" \/ result[b] = "ok") /\ Changes(b) => effects[b] > 0
                      /\ (status'[b] = "client_error" \/ result[b] = "refused") /\ effects[b] > 0 => attempt[b] > 0
    BY DEF Answers, Changes
  <2>1. CASE b = c
    BY <2>1, <1>1, <1>3, <1>5 DEF Answers
  <2>2. CASE b # c
    BY <2>2, <1>1, <1>3 DEF Answers
  <2> QED BY <2>1, <2>2
<1>9. ASSUME NEW b \in Calls
      PROVE  /\ Underway(b)' <=> Underway(b)
             /\ stage'[b] = "ready" <=> stage[b] = "ready"
             /\ status'[b] \in {status[b], "none"}
  <2>1. CASE b = c
    BY <2>1, <1>3, <1>5 DEF Underway
  <2>2. CASE b # c
    BY <2>2, <1>3 DEF Underway
  <2> QED BY <2>1, <2>2
<1>10. Named' /\ Alone' /\ SpinnerTells'
  BY <1>4, <1>9, UnderwayKeeps
<1> QED BY <1>6, <1>7, <1>8, <1>10 DEF DidInv

(* The end of a call keeps the invariant: what it did itself is no excuse  *)
(* for the document it brings.                                             *)
LEMMA SettleKeeps ==
    ASSUME DidInv, NEW c \in Calls, NEW outcome \in {"ok", "refused", "failed"}, stage[c] \in {"waiting", "reading"},
           outcome = "ok" => status[c] = "ok", outcome = "refused" => status[c] = "client_error",
           Settle(c, outcome), React(c), UNCHANGED <<operation, registry, created, effects, overlapped>>
    PROVE  DidInv'
<1>1. TypeOK /\ Attempts /\ Answers /\ Named /\ Alone /\ SpinnerTells
  BY DEF DidInv
<1>2. /\ stage \in [Calls -> {"ready", "waiting", "reading", "pausing", "done"}]
      /\ status \in [Calls -> Statuses \cup {"none"}] /\ result \in [Calls -> {"none", "ok", "refused", "failed"}]
      /\ \A b \in Calls : (result[b] # "none" <=> stage[b] = "done")
      /\ reply \in [Calls -> [did : Dids \cup {0}, version : Nat]]
      /\ didDocument \in [did : Dids \cup {0}, version : Nat] /\ isLoading \in BOOLEAN
  BY <1>1 DEF TypeOK, RequestTypeOK
<1>3. /\ stage' = [stage EXCEPT ![c] = "done"] /\ status' = [status EXCEPT ![c] = "none"]
      /\ result' = [result EXCEPT ![c] = outcome] /\ UNCHANGED <<attempt, requests>>
  BY DEF Settle
<1>4. /\ stage'[c] = "done" /\ status'[c] = "none" /\ result'[c] = outcome
      /\ \A b \in Calls \ {c} : stage'[b] = stage[b] /\ status'[b] = status[b] /\ result'[b] = result[b]
  BY <1>2, <1>3
<1>5. /\ c \in HookCalls => /\ didDocument' = IF outcome = "ok" THEN Shown(c) ELSE didDocument
                            /\ reply' = [reply EXCEPT ![c] = None]
                            /\ isLoading' = FALSE
      /\ c \notin HookCalls => UNCHANGED <<didDocument, isLoading, reply>>
  BY <1>4 DEF React, Stop, hookVars
<1>6. HookCalls \subseteq Calls /\ None \in [did : Dids \cup {0}, version : Nat]
  BY DidClientsAssumption DEF DidClientsAssumption, None
<1>7. TypeOK'
  <2>1. /\ status' \in [Calls -> Statuses \cup {"none"}] /\ result' \in [Calls -> {"none", "ok", "refused", "failed"}]
        /\ stage' \in [Calls -> {"ready", "waiting", "reading", "pausing", "done"}]
    BY <1>2, <1>3
  <2>2. \A b \in Calls : result'[b] # "none" <=> stage'[b] = "done"
    BY <1>2, <1>4
  <2>3. RequestTypeOK'
    BY <1>1, <1>3, <2>1, <2>2 DEF TypeOK, RequestTypeOK
  <2>4. Shown(c) \in [did : Dids \cup {0}, version : Nat]
    BY <1>2, <1>6 DEF Shown
  <2>5. /\ didDocument' \in [did : Dids \cup {0}, version : Nat] /\ isLoading' \in BOOLEAN
        /\ reply' \in [Calls -> [did : Dids \cup {0}, version : Nat]]
    <3>1. CASE c \in HookCalls
      <4>1. didDocument' \in {Shown(c), didDocument} /\ isLoading' = FALSE
        BY <3>1, <1>5
      <4>2. reply' = [reply EXCEPT ![c] = None]
        BY <3>1, <1>5
      <4>3. reply' \in [Calls -> [did : Dids \cup {0}, version : Nat]]
        BY <4>2, <1>2, <1>6
      <4> QED BY <4>1, <4>3, <2>4, <1>2
    <3>2. CASE c \notin HookCalls
      BY <3>2, <1>2, <1>5
    <3> QED BY <3>1, <3>2
  <2> QED BY <1>1, <2>3, <2>5 DEF TypeOK
<1>8. Attempts'
  <2> SUFFICES ASSUME NEW b \in Calls
               PROVE  /\ effects[b] + Cardinality(Sent(b)) <= attempt[b] + 1
                      /\ (status'[b] # "none" \/ result'[b] \in {"ok", "refused"}) => <<b, attempt[b]>> \notin requests
                      /\ stage'[b] = "ready" => Sent(b) = {} /\ effects[b] = 0
    BY <1>3 DEF Attempts, Sent
  <2>1. /\ effects[b] + Cardinality(Sent(b)) <= attempt[b] + 1
        /\ (status[b] # "none" \/ result[b] \in {"ok", "refused"}) => <<b, attempt[b]>> \notin requests
        /\ stage[b] = "ready" => Sent(b) = {} /\ effects[b] = 0
    BY <1>1 DEF Attempts
  <2>2. CASE b = c
    BY <2>1, <2>2, <1>4
  <2>3. CASE b # c
    BY <2>1, <2>3, <1>4
  <2> QED BY <2>2, <2>3
<1>9. Answers'
  <2> SUFFICES ASSUME NEW b \in Calls
               PROVE  /\ status'[b] # "none" => stage'[b] \in {"waiting", "reading"}
                      /\ stage'[b] = "reading" => status'[b] # "none"
                      /\ stage'[b] = "pausing" => attempt[b] < retryCount[b]
                      /\ (status'[b] = "ok" \/ result'[b] = "ok") /\ Changes(b) => effects[b] > 0
                      /\ (status'[b] = "client_error" \/ result'[b] = "refused") /\ effects[b] > 0 => attempt[b] > 0
    BY <1>3 DEF Answers, Changes
  <2>1. CASE b = c
    BY <2>1, <1>1, <1>4 DEF Answers
  <2>2. CASE b # c
    BY <2>2, <1>1, <1>4 DEF Answers
  <2> QED BY <2>1, <2>2
<1>10. Named'
  <2>1. \A b \in Calls : reply'[b].did <= created /\ didDocument'.did <= created
    <3>1. 0 <= created /\ None.did = 0
      BY <1>1 DEF TypeOK, Dids, None
    <3>2. Shown(c).did <= created
      BY <3>1, <1>1 DEF Shown, Named
    <3>3. CASE c \in HookCalls
      BY <3>1, <3>2, <3>3, <1>1, <1>2, <1>5, <1>6 DEF Named
    <3>4. CASE c \notin HookCalls
      BY <3>4, <1>1, <1>5 DEF Named
    <3> QED BY <3>3, <3>4
  <2>2. \A b \in Calls : stage'[b] # "ready" => stage[b] # "ready"
    BY <1>4
  <2> QED BY <2>1, <2>2, <1>1 DEF Named
<1>11. /\ \A b \in Calls : Underway(b)' <=> b # c /\ Underway(b)
       /\ Underway(c) /\ \A b \in Calls : status[b] = "ok" => Underway(b)
  BY <1>1, <1>4 DEF Underway, Answers
<1>12. Alone'
  <2> SUFFICES ASSUME ~overlapped
               PROVE  /\ \A g, h \in HookCalls : Underway(g)' /\ Underway(h)' => g = h
                      /\ Current(didDocument)' \/ \E b \in Calls : Spares(b, didDocument)'
                      /\ \A x \in HookCalls : status'[x] = "ok" =>
                             Current(reply[x])' \/ \E b \in Calls \ {x} : Spares(b, reply[x])'
    BY DEF Alone
  <2>1. \A doc : Current(doc) => Current(doc)'
    BY DEF Current
  <2>2. ASSUME NEW doc, NEW b \in Calls, Spares(b, doc), b # c \/ outcome # "ok" \/ c \notin HookCalls
        PROVE  Spares(b, doc)'
    <3>1. result'[b] = result[b] \/ (b = c /\ result'[b] = outcome)
      BY <1>4
    <3> QED BY <2>2, <3>1 DEF Spares
  <2>3. \A g, h \in HookCalls : Underway(g)' /\ Underway(h)' => g = h
    BY <1>1, <1>6, <1>11 DEF Alone
  <2>4. Current(didDocument)' \/ \E b \in Calls : Spares(b, didDocument)'
    <3>1. CASE c \in HookCalls /\ outcome = "ok"
      <4>1. PICK doc : doc = didDocument' /\ doc = Shown(c)
        BY <3>1, <1>5
      <4>2. CASE doc = None
        <5>1. Current(doc)'
          BY <4>2 DEF Current, None
        <5> QED BY <5>1, <4>1 DEF Current
      <4>3. CASE doc = reply[c]
        <5>1. Current(doc) \/ \E b \in Calls \ {c} : Spares(b, doc)
          BY <3>1, <4>3, <1>1 DEF Alone
        <5>2. Current(doc)' \/ \E b \in Calls : Spares(b, doc)'
          BY <5>1, <2>1, <2>2
        <5> QED BY <5>2, <4>1 DEF Current, Spares
      <4> QED BY <4>1, <4>2, <4>3 DEF Shown
    <3>2. CASE ~(c \in HookCalls /\ outcome = "ok")
      <4>1. PICK doc : doc = didDocument' /\ doc = didDocument
        BY <3>2, <1>5
      <4>2. Current(doc) \/ \E b \in Calls : Spares(b, doc)
        BY <4>1, <1>1 DEF Alone
      <4>3. Current(doc)' \/ \E b \in Calls : Spares(b, doc)'
        BY <3>2, <4>2, <2>1, <2>2
      <4> QED BY <4>1, <4>3 DEF Current, Spares
    <3> QED BY <3>1, <3>2
  <2>5. ASSUME NEW x \in HookCalls, status'[x] = "ok"
        PROVE  Current(reply[x])' \/ \E b \in Calls \ {x} : Spares(b, reply[x])'
    <3>1. x # c /\ status[x] = "ok" /\ x \in Calls
      BY <2>5, <1>4, <1>6
    <3>2. c \notin HookCalls
      BY <3>1, <1>1, <1>11 DEF Alone
    <3>3. PICK doc : doc = reply'[x] /\ doc = reply[x]
      BY <3>2, <1>5
    <3>4. Current(doc) \/ \E b \in Calls \ {x} : Spares(b, doc)
      BY <3>1, <3>3, <1>1 DEF Alone
    <3>5. Current(doc)' \/ \E b \in Calls \ {x} : Spares(b, doc)'
      BY <3>2, <3>4, <2>1, <2>2
    <3> QED BY <3>3, <3>5 DEF Current, Spares
  <2> QED BY <2>3, <2>4, <2>5
<1>13. SpinnerTells'
  <2>1. CASE c \in HookCalls
    <3>1. \A h \in HookCalls : Underway(h)' => overlapped
      BY <2>1, <1>1, <1>6, <1>11 DEF Alone
    <3> QED BY <2>1, <3>1, <1>5 DEF SpinnerTells
  <2>2. CASE c \notin HookCalls
    <3>1. isLoading' = isLoading /\ \A h \in HookCalls : Underway(h)' <=> Underway(h)
      BY <2>2, <1>5, <1>6, <1>11
    <3> QED BY <3>1, <1>1 DEF SpinnerTells
  <2> QED BY <2>1, <2>2
<1> QED BY <1>7, <1>8, <1>9, <1>10, <1>12, <1>13 DEF DidInv

(* A step of request() keeps the invariant.                                *)
LEMMA ProgressKeeps ==
    ASSUME DidInv, NEW c \in Calls, Progress(c)
    PROVE  DidInv'
<1>1. React(c) /\ UNCHANGED <<operation, registry, created, effects, overlapped>>
  BY DEF Progress
<1>2. stage[c] \in {"waiting", "reading"} => ~(stage[c] = "reading" /\ status[c] = "none")
  BY DEF DidInv, Answers
<1>3. ASSUME stage[c] \in {"waiting", "reading"}, TryAgain(c)
      PROVE  DidInv'
  <2>1. CASE attempt[c] < retryCount[c]
    <3>1. /\ stage' = [stage EXCEPT ![c] = "pausing"] /\ status' = [status EXCEPT ![c] = "none"]
          /\ UNCHANGED <<attempt, requests, result>>
      BY <1>3, <2>1 DEF TryAgain
    <3> QED BY <1>1, <1>3, <2>1, <3>1, WaitsKeep
  <2>2. CASE ~(attempt[c] < retryCount[c])
    <3>1. Settle(c, "failed")
      BY <1>3, <2>2 DEF TryAgain
    <3> QED BY <1>1, <1>3, <3>1, SettleKeeps
  <2> QED BY <2>1, <2>2
<1>4. CASE Resend(c)
  BY <1>1, <1>4, ResendKeeps
<1>5. CASE Break(c) \/ BrokenBody(c)
  BY <1>3, <1>5 DEF Break, BrokenBody
<1>6. CASE Headers(c)
  <2>1. /\ stage[c] = "waiting" /\ status[c] # "none" /\ stage' = [stage EXCEPT ![c] = "reading"]
        /\ status' = status /\ UNCHANGED <<attempt, requests, result>>
    BY <1>6 DEF Headers
  <2> QED BY <1>1, <2>1, WaitsKeep
<1>7. CASE Body(c)
  <2>1. stage[c] = "reading"
    BY <1>7 DEF Body
  <2>2. CASE status[c] = "ok"
    <3>1. Settle(c, "ok")
      BY <1>7, <2>2 DEF Body
    <3> QED BY <1>1, <2>1, <2>2, <3>1, SettleKeeps
  <2>3. CASE status[c] = "client_error"
    <3>1. Settle(c, "refused")
      BY <1>7, <2>3 DEF Body, Final
    <3> QED BY <1>1, <2>1, <2>3, <3>1, SettleKeeps
  <2>4. CASE status[c] \notin {"ok", "client_error"}
    <3>1. TryAgain(c)
      BY <1>7, <2>4 DEF Body, Final
    <3> QED BY <1>3, <2>1, <3>1
  <2> QED BY <2>2, <2>3, <2>4
<1> QED BY <1>4, <1>5, <1>6, <1>7 DEF Progress

-----------------------------------------------------------------------------
\* The request of attempt n is executed, stopped or lost, and t answers it.
Answered(c, n, t) ==
    /\ <<c, n>> \in requests /\ requests' = requests \ {<<c, n>>}
    /\ \/ status' = status
       \/ t \in Statuses /\ stage[c] = "waiting" /\ attempt[c] = n /\ status' = [status EXCEPT ![c] = t]
    /\ UNCHANGED <<stage, attempt, result>>

Kept == UNCHANGED <<registry, effects, created>>

\* The registry changes DID d, an existing one or a new one.
Changed(c, d) ==
    /\ d \in Dids /\ effects' = [effects EXCEPT ![c] = @ + 1]
    /\ \E v \in Nat : registry' = [registry EXCEPT ![d] = v]
    /\ \/ d = created + 1 /\ created' = d
       \/ d = operation[c].did /\ created' = created

\* A good answer to the hook carries a document of the registry as it is now.
Replied(c, t) ==
    \/ reply' = reply /\ (c \in HookCalls => t # "ok" \/ status' = status)
    \/ /\ c \in HookCalls
       /\ \E doc \in [did : Dids, version : Nat] :
            reply' = [reply EXCEPT ![c] = doc] /\ doc.did <= created' /\ registry'[doc.did] = doc.version

(* A call of the hook that has a request under way has no answer yet.      *)
LEMMA HookAwaits ==
    ASSUME DidInv, NEW c \in HookCalls, NEW n, <<c, n>> \in requests
    PROVE  n = attempt[c] /\ status[c] = "none" /\ result[c] # "ok"
<1>1. c \in Calls /\ retryCount[c] = 0
  BY DidClientsAssumption DEF DidClientsAssumption
<1>2. /\ attempt[c] \in Nat /\ attempt[c] <= retryCount[c]
      /\ requests \subseteq {r \in Calls \X Nat : r[2] <= attempt[r[1]]}
  BY <1>1 DEF DidInv, TypeOK, RequestTypeOK
<1>3. n \in Nat /\ n <= attempt[c]
  BY <1>2, RequestsBounded
<1>4. n = attempt[c]
  BY <1>1, <1>2, <1>3
<1> QED BY <1>1, <1>4 DEF DidInv, Attempts

(* What the server and the network do to a request keeps the invariant.    *)
LEMMA ServeKeeps ==
    ASSUME DidInv, NEW c \in Calls, NEW n, NEW t, NEW d, Answered(c, n, t), Kept \/ Changed(c, d), Replied(c, t),
           t = "ok" /\ Changes(c) => Changed(c, d), t = "client_error" => Kept,
           UNCHANGED <<operation, hookVars, overlapped>>
    PROVE  DidInv'
<1>1. TypeOK /\ Attempts /\ Answers /\ Named /\ Alone /\ SpinnerTells
  BY DEF DidInv
<1>2. /\ stage \in [Calls -> {"ready", "waiting", "reading", "pausing", "done"}]
      /\ status \in [Calls -> Statuses \cup {"none"}] /\ attempt \in [Calls -> Nat]
      /\ requests \subseteq {r \in Calls \X Nat : r[2] <= attempt[r[1]]}
      /\ \A b \in Calls : (result[b] # "none" <=> stage[b] = "done") /\ attempt[b] <= retryCount[b]
      /\ registry \in [Dids -> Nat] /\ created \in Dids /\ effects \in [Calls -> Nat]
      /\ reply \in [Calls -> [did : Dids \cup {0}, version : Nat]]
      /\ didDocument \in [did : Dids \cup {0}, version : Nat]
  BY <1>1 DEF TypeOK, RequestTypeOK
<1>3. /\ <<c, n>> \in requests /\ requests' = requests \ {<<c, n>>}
      /\ UNCHANGED <<stage, attempt, result, operation, didDocument, isLoading, overlapped>>
  BY DEF Answered, hookVars
<1>4. n \in Nat /\ n <= attempt[c]
  BY <1>2, <1>3, RequestsBounded
<1>5. /\ \A b \in Calls \ {c} : status'[b] = status[b] /\ reply'[b] = reply[b] /\ effects'[b] = effects[b]
      /\ status'[c] = status[c] \/ (status'[c] = t /\ t \in Statuses /\ stage[c] = "waiting" /\ attempt[c] = n)
      /\ status' \in [Calls -> Statuses \cup {"none"}]
      /\ effects' \in [Calls -> Nat] /\ (effects'[c] = effects[c] \/ effects'[c] = effects[c] + 1)
      /\ Changed(c, d) => effects'[c] = effects[c] + 1
  <2>1. /\ \A b \in Calls \ {c} : status'[b] = status[b]
        /\ status'[c] = status[c] \/ (status'[c] = t /\ t \in Statuses /\ stage[c] = "waiting" /\ attempt[c] = n)
        /\ status' \in [Calls -> Statuses \cup {"none"}]
    <3>1. CASE status' = status
      BY <3>1, <1>2
    <3>2. CASE t \in Statuses /\ stage[c] = "waiting" /\ attempt[c] = n /\ status' = [status EXCEPT ![c] = t]
      BY <3>2, <1>2
    <3> QED BY <3>1, <3>2 DEF Answered
  <2>2. \A b \in Calls \ {c} : reply'[b] = reply[b]
    BY <1>2 DEF Replied
  <2>3. /\ \A b \in Calls \ {c} : effects'[b] = effects[b]
        /\ effects' \in [Calls -> Nat] /\ (effects'[c] = effects[c] \/ effects'[c] = effects[c] + 1)
        /\ Changed(c, d) => effects'[c] = effects[c] + 1
    BY <1>2 DEF Kept, Changed
  <2> QED BY <2>1, <2>2, <2>3
<1>6. /\ Cardinality(Sent(c)') = Cardinality(Sent(c)) - 1 /\ Cardinality(Sent(c)) \in Nat
      /\ Sent(c)' = Sent(c) \ {n} /\ n \in Sent(c)
      /\ \A b \in Calls \ {c} : Sent(b)' = Sent(b)
  BY <1>1, <1>3, OneLessSent, SentFacts
<1>7. /\ effects[c] + Cardinality(Sent(c)) <= attempt[c] + 1
      /\ (status[c] # "none" \/ result[c] \in {"ok", "refused"}) => n # attempt[c]
      /\ stage[c] # "ready"
  BY <1>1, <1>3, <1>6 DEF Attempts
<1>8. created \in Nat /\ created' \in Dids /\ created <= created'
  <2>1. created \in Nat
    BY <1>2 DEF Dids
  <2> QED BY <1>2, <2>1 DEF Kept, Changed
<1>9. /\ registry' \in [Dids -> Nat] /\ reply' \in [Calls -> [did : Dids \cup {0}, version : Nat]]
  <2>1. registry' \in [Dids -> Nat]
    BY <1>2 DEF Kept, Changed
  <2>2. \A doc \in [did : Dids, version : Nat] : doc \in [did : Dids \cup {0}, version : Nat]
    OBVIOUS
  <2>3. reply' \in [Calls -> [did : Dids \cup {0}, version : Nat]]
    BY <1>2, <2>2 DEF Replied
  <2> QED BY <2>1, <2>3
<1>10. TypeOK'
  <2>1. requests' \subseteq {r \in Calls \X Nat : r[2] <= attempt[r[1]]}
    BY <1>2, <1>3
  <2>2. RequestTypeOK'
    BY <1>1, <1>3, <1>5, <2>1 DEF TypeOK, RequestTypeOK
  <2> QED BY <1>1, <1>3, <1>5, <1>8, <1>9, <2>2 DEF TypeOK
<1>11. Attempts'
  <2> SUFFICES ASSUME NEW b \in Calls
               PROVE  /\ effects'[b] + Cardinality(Sent(b)') <= attempt[b] + 1
                      /\ (status'[b] # "none" \/ result[b] \in {"ok", "refused"}) => <<b, attempt[b]>> \notin requests'
                      /\ stage[b] = "ready" => Sent(b)' = {} /\ effects'[b] = 0
    BY <1>3 DEF Attempts
  <2>1. CASE b = c
    <3>1. effects'[c] + Cardinality(Sent(c)') <= attempt[c] + 1
      BY <1>2, <1>5, <1>6, <1>7
    <3>2. status'[c] # "none" \/ result[c] \in {"ok", "refused"} => <<c, attempt[c]>> \notin requests'
      <4>1. CASE status[c] # "none" \/ result[c] \in {"ok", "refused"}
        BY <4>1, <1>1, <1>3 DEF Attempts
      <4>2. CASE attempt[c] = n
        BY <4>2, <1>3
      <4> QED BY <4>1, <4>2, <1>5
    <3> QED BY <2>1, <3>1, <3>2, <1>7
  <2>2. CASE b # c
    <3>1. /\ effects[b] + Cardinality(Sent(b)) <= attempt[b] + 1
          /\ (status[b] # "none" \/ result[b] \in {"ok", "refused"}) => <<b, attempt[b]>> \notin requests
          /\ stage[b] = "ready" => Sent(b) = {} /\ effects[b] = 0
      BY <1>1 DEF Attempts
    <3> QED BY <2>2, <3>1, <1>3, <1>5, <1>6
  <2> QED BY <2>1, <2>2

<1>12. Answers'
  <2> SUFFICES ASSUME NEW b \in Calls
               PROVE  /\ status'[b] # "none" => stage[b] \in {"waiting", "reading"}
                      /\ stage[b] = "reading" => status'[b] # "none"
                      /\ stage[b] = "pausing" => attempt[b] < retryCount[b]
                      /\ (status'[b] = "ok" \/ result[b] = "ok") /\ Changes(b) => effects'[b] > 0
                      /\ (status'[b] = "client_error" \/ result[b] = "refused") /\ effects'[b] > 0 => attempt[b] > 0
    BY <1>3 DEF Answers, Changes
  <2>1. /\ status[b] # "none" => stage[b] \in {"waiting", "reading"}
        /\ stage[b] = "reading" => status[b] # "none"
        /\ stage[b] = "pausing" => attempt[b] < retryCount[b]
        /\ (status[b] = "ok" \/ result[b] = "ok") /\ Changes(b) => effects[b] > 0
        /\ (status[b] = "client_error" \/ result[b] = "refused") /\ effects[b] > 0 => attempt[b] > 0
    BY <1>1 DEF Answers
  <2>2. CASE b # c
    BY <2>1, <2>2, <1>5
  <2>3. CASE b = c
    <3>1. /\ status'[c] # "none" => stage[c] \in {"waiting", "reading"}
          /\ stage[c] = "reading" => status'[c] # "none"
      BY <2>1, <2>3, <1>5
    <3>2. (status'[c] = "ok" \/ result[c] = "ok") /\ Changes(c) => effects'[c] > 0
      <4>1. effects'[c] >= effects[c] /\ effects[c] \in Nat /\ effects'[c] \in Nat
        BY <1>2, <1>5
      <4>2. CASE status[c] = "ok" \/ result[c] = "ok"
        BY <4>1, <4>2, <2>1, <2>3
      <4>3. CASE t = "ok"
        BY <4>1, <4>3, <1>5
      <4> QED BY <4>2, <4>3, <1>5
    <3>3. ASSUME status'[c] = "client_error" \/ result[c] = "refused", effects'[c] > 0
          PROVE  attempt[c] > 0
      <4>1. CASE status[c] = "client_error" \/ result[c] = "refused"
        <5>1. n # attempt[c]
          BY <4>1, <1>7
        <5> QED BY <5>1, <1>2, <1>4
      <4>2. CASE t = "client_error"
        <5>1. effects[c] > 0
          BY <4>2, <3>3 DEF Kept
        <5>2. Cardinality(Sent(c)) # 0
          BY <1>1, <1>6, SentFacts, FS_EmptySet
        <5>3. PICK e, k, a \in Nat : e = effects[c] /\ k = Cardinality(Sent(c)) /\ a = attempt[c]
          BY <1>2, <1>6
        <5>4. e > 0 /\ k # 0 /\ e + k <= a + 1
          BY <5>1, <5>2, <5>3, <1>7
        <5>5. a > 0
          BY <5>4
        <5> QED BY <5>3, <5>5
      <4> QED BY <3>3, <4>1, <4>2, <1>5
    <3> QED BY <2>1, <2>3, <3>1, <3>2, <3>3
  <2> QED BY <2>2, <2>3
<1>13. Named'
  <2> SUFFICES ASSUME NEW b \in Calls
               PROVE  /\ stage[b] # "ready" => operation[b].kind \in Kinds
                      /\ stage[b] # "ready" /\ operation[b].kind # "create" => operation[b].did \in 1 .. created'
                      /\ operation[b].did <= created' /\ (operation[b].kind = "create" => operation[b].did = 0)
                      /\ reply'[b].did <= created' /\ didDocument.did <= created'
    BY <1>3 DEF Named
  <2>1. /\ stage[b] # "ready" => operation[b].kind \in Kinds
        /\ stage[b] # "ready" /\ operation[b].kind # "create" => operation[b].did \in 1 .. created
        /\ operation[b].did <= created /\ (operation[b].kind = "create" => operation[b].did = 0)
        /\ reply[b].did <= created /\ didDocument.did <= created
    BY <1>1 DEF Named
  <2>2. created' \in Nat /\ operation[b].did \in Nat /\ didDocument.did \in Nat /\ reply[b].did \in Nat
    BY <1>1, <1>8 DEF TypeOK, Dids
  <2>3. reply'[b].did <= created'
    <3>1. CASE reply'[b] = reply[b]
      BY <3>1, <2>1, <2>2, <1>8
    <3>2. CASE reply'[b] # reply[b]
      <4>1. b = c
        BY <3>2, <1>5
      <4> QED BY <3>2, <4>1, <1>2 DEF Replied
    <3> QED BY <3>1, <3>2
  <2> QED BY <2>1, <2>2, <2>3, <1>8
<1>14. \A b \in Calls : Underway(b)' <=> Underway(b)
  BY <1>3 DEF Underway
<1>15. SpinnerTells'
  BY <1>1, <1>3, <1>14, DidClientsAssumption DEF SpinnerTells, DidClientsAssumption
<1>16. HookCalls \subseteq Calls /\ \A h \in HookCalls : retryCount[h] = 0
  BY DidClientsAssumption DEF DidClientsAssumption
<1>17. ASSUME NEW doc, NEW b \in Calls, Spares(b, doc)
       PROVE  Spares(b, doc)'
  <2>1. effects'[b] >= effects[b] /\ effects[b] \in Nat /\ effects'[b] \in Nat
    BY <1>2, <1>5
  <2> QED BY <2>1, <1>3, <1>17 DEF Spares
<1>18. c \in HookCalls => n = attempt[c] /\ status[c] = "none" /\ result[c] # "ok"
  BY <1>3, HookAwaits
<1>19. ASSUME NEW doc \in [did : Dids \cup {0}, version : Nat], doc.did <= created, Current(doc), ~Current(doc)'
       PROVE  Spares(c, doc)'
  <2>1. Changed(c, d) /\ doc.did # 0 /\ doc.did \in Dids /\ registry'[doc.did] # registry[doc.did]
    BY <1>19 DEF Current, Kept
  <2>2. doc.did = d
    BY <2>1, <1>2 DEF Changed
  <2>3. d # created + 1
    BY <2>2, <1>19, <1>8
  <2>4. operation[c].did = doc.did
    BY <2>1, <2>2, <2>3 DEF Changed
  <2>5. effects'[c] > 0
    BY <2>1, <1>2, <1>5
  <2> QED BY <2>4, <2>5, <1>3, <1>18 DEF Spares
<1>20. Alone'
  <2> SUFFICES ASSUME ~overlapped
               PROVE  /\ \A g, h \in HookCalls : Underway(g)' /\ Underway(h)' => g = h
                      /\ Current(didDocument)' \/ \E b \in Calls : Spares(b, didDocument)'
                      /\ \A x \in HookCalls : status'[x] = "ok" =>
                             Current(reply[x])' \/ \E b \in Calls \ {x} : Spares(b, reply[x])'
    BY <1>3 DEF Alone
  <2>1. \A g, h \in HookCalls : Underway(g)' /\ Underway(h)' => g = h
    BY <1>1, <1>14, <1>16 DEF Alone
  <2>2. Current(didDocument)' \/ \E b \in Calls : Spares(b, didDocument)'
    <3>1. PICK doc : doc = didDocument /\ doc = didDocument'
      BY <1>3
    <3>2. doc \in [did : Dids \cup {0}, version : Nat] /\ doc.did <= created
      BY <3>1, <1>1, <1>2 DEF Named
    <3>3. Current(doc) \/ \E b \in Calls : Spares(b, doc)
      BY <3>1, <1>1 DEF Alone
    <3>4. Current(doc)' \/ \E b \in Calls : Spares(b, doc)'
      BY <3>2, <3>3, <1>17, <1>19
    <3> QED BY <3>1, <3>4 DEF Current, Spares
  <2>3. ASSUME NEW x \in HookCalls, status'[x] = "ok"
        PROVE  Current(reply[x])' \/ \E b \in Calls \ {x} : Spares(b, reply[x])'
    <3>1. CASE x = c
      <4>1. t = "ok" /\ status' # status
        BY <3>1, <2>3, <1>5, <1>18
      <4>2. PICK doc \in [did : Dids, version : Nat] :
                   reply' = [reply EXCEPT ![c] = doc] /\ registry'[doc.did] = doc.version
        BY <3>1, <4>1 DEF Replied
      <4>3. reply'[c] = doc
        BY <4>2, <1>2
      <4> QED BY <3>1, <4>2, <4>3 DEF Current
    <3>2. CASE x # c
      <4>1. x \in Calls /\ status[x] = "ok" /\ reply'[x] = reply[x]
        BY <3>2, <2>3, <1>5, <1>16
      <4>2. PICK doc : doc = reply[x] /\ doc = reply'[x]
        BY <4>1
      <4>3. doc \in [did : Dids \cup {0}, version : Nat] /\ doc.did <= created
        BY <4>1, <4>2, <1>1, <1>2 DEF Named
      <4>4. Current(doc) \/ \E b \in Calls \ {x} : Spares(b, doc)
        BY <4>1, <4>2, <1>1 DEF Alone
      <4>5. Current(doc)' \/ \E b \in Calls \ {x} : Spares(b, doc)'
        BY <3>2, <4>3, <4>4, <1>17, <1>19
      <4> QED BY <4>2, <4>5 DEF Current, Spares
    <3> QED BY <3>1, <3>2
  <2> QED BY <2>1, <2>2, <2>3
<1> QED BY <1>10, <1>11, <1>12, <1>13, <1>15, <1>20 DEF DidInv

(* A request that a proxy stops keeps the invariant.                       *)
LEMMA DropKeeps ==
    ASSUME DidInv, NEW c \in Calls, NEW n, Drop(c, n)
    PROVE  DidInv'
<1>1. Answered(c, n, "server_error")
  BY DEF Drop, Respond, Answered, Statuses
<1>2. Kept /\ Replied(c, "server_error") /\ UNCHANGED <<operation, hookVars, overlapped>>
  BY DEF Drop, Kept, Replied
<1> QED BY <1>1, <1>2, ServeKeeps

(* A request that the server executes keeps the invariant.                 *)
LEMMA ExecuteKeeps ==
    ASSUME DidInv, NEW c \in Calls, NEW n, Execute(c, n)
    PROVE  DidInv'
<1>1. PICK s \in {"ok", "client_error"} :
        /\ Apply(c, s)
        /\ \/ /\ Respond(c, n, s)
              /\ reply' = IF status'[c] = "ok" /\ c \in HookCalls THEN [reply EXCEPT ![c] = Document(c)]
                                                                  ELSE reply
           \/ (Respond(c, n, "server_error") \/ Lose(c, n)) /\ UNCHANGED reply
  BY DEF Execute
<1>2. <<c, n>> \in requests /\ UNCHANGED <<operation, hookVars, overlapped>>
  BY DEF Execute
<1>3. TypeOK /\ Attempts /\ Named
  BY DEF DidInv
<1>4. stage[c] # "ready"
  BY <1>2, <1>3, SentFacts DEF Attempts
<1> DEFINE kind == operation[c].kind
           d == IF kind = "create" THEN created + 1 ELSE operation[c].did
<1>5. kind \in Kinds /\ (kind # "create" => operation[c].did \in 1 .. created) /\ created \in Dids /\ registry \in [Dids -> Nat]
  BY <1>3, <1>4 DEF Named, TypeOK
<1>6. 1 .. created \subseteq Dids /\ created \in Nat /\ (created < MaxDids => created + 1 \in Dids)
  <2>1. MaxDids \in Nat
    BY DidClientsAssumption DEF DidClientsAssumption
  <2> QED BY <1>5, <2>1 DEF Dids
<1>7. /\ s = "client_error" => Kept
      /\ s = "ok" => d \in Dids
      /\ s = "ok" /\ kind = "resolve" => Kept
      /\ s = "ok" /\ kind # "resolve" => Changed(c, d)
  <2>1. CASE kind = "create"
    <3>1. s = "ok" /\ created < MaxDids /\ Change(c, created + 1, 1) /\ created' = created + 1
      BY <1>1, <2>1 DEF Apply
    <3> QED BY <2>1, <3>1, <1>6 DEF Change, Changed
  <2>2. CASE kind # "create"
    <3>1. created' = created /\ d = operation[c].did /\ d \in Dids
      BY <1>1, <1>5, <1>6, <2>2 DEF Apply
    <3>2. CASE registry[operation[c].did] = 0
      BY <1>1, <2>2, <3>1, <3>2 DEF Apply, Keep, Kept
    <3>3. CASE registry[operation[c].did] # 0
      <4>1. s = "ok"
        BY <1>1, <2>2, <3>3 DEF Apply
      <4>2. CASE kind = "resolve"
        BY <1>1, <2>2, <3>1, <3>3, <4>1, <4>2 DEF Apply, Keep, Kept
      <4>3. CASE kind = "rotate"
        <5>1. Change(c, d, registry[d] + 1) /\ registry[d] + 1 \in Nat
          BY <1>1, <1>5, <2>2, <3>1, <3>3, <4>3 DEF Apply
        <5> QED BY <3>1, <4>1, <4>3, <5>1 DEF Change, Changed
      <4>4. CASE kind = "deactivate"
        <5>1. Change(c, d, 0)
          BY <1>1, <1>5, <2>2, <3>1, <3>3, <4>4 DEF Apply
        <5> QED BY <3>1, <4>1, <4>4, <5>1 DEF Change, Changed
      <4> QED BY <1>5, <2>2, <4>2, <4>3, <4>4 DEF Kinds
    <3> QED BY <3>2, <3>3
  <2> QED BY <2>1, <2>2
<1> HIDE DEF d
<1>8. Changes(c) <=> kind # "resolve"
  BY <1>5 DEF Changes
<1> HIDE DEF kind
<1>9. Kept \/ Changed(c, d)
  BY <1>7
<1>10. CASE Respond(c, n, s) /\ reply' = IF status'[c] = "ok" /\ c \in HookCalls THEN [reply EXCEPT ![c] = Document(c)] ELSE reply
  <2>1. Answered(c, n, s)
    BY <1>2, <1>10 DEF Respond, Answered, Statuses
  <2>2. Replied(c, s)
    <3>3. /\ kind = "create" /\ s = "ok" => created' = created + 1
          /\ kind # "create" => created' = created
      BY <1>1 DEF Apply, kind
    <3>1. CASE status'[c] = "ok" /\ c \in HookCalls
      <4>1. status[c] = "none" /\ status \in [Calls -> Statuses \cup {"none"}]
        BY <1>2, <1>3, <3>1, HookAwaits DEF TypeOK, RequestTypeOK
      <4>2. s = "ok"
        BY <1>10, <3>1, <4>1 DEF Respond
      <4>3. d \in Dids /\ d <= created' /\ registry' \in [Dids -> Nat]
        <5>1. CASE kind = "resolve"
          BY <1>5, <1>6, <1>7, <4>2, <5>1 DEF Kept, d
        <5>2. CASE kind # "resolve"
          <6>1. Changed(c, d)
            BY <1>7, <4>2, <5>2
          <6>2. d \in Dids /\ registry' \in [Dids -> Nat]
            BY <6>1, <1>5 DEF Changed
          <6>3. CASE kind = "create"
            BY <6>2, <6>3, <3>3, <4>2, <1>5, <1>6 DEF d
          <6>4. CASE kind # "create"
            <7>1. d \in 1 .. created /\ created' = created
              BY <6>4, <3>3, <1>5 DEF d
            <7> QED BY <7>1, <6>2, <1>6
          <6> QED BY <6>2, <6>3, <6>4
        <5> QED BY <5>1, <5>2
      <4>4. Document(c) = [did |-> d, version |-> registry'[d]]
        BY <3>3, <4>2 DEF Document, d, kind
      <4>5. PICK doc : doc = Document(c) /\ doc = [did |-> d, version |-> registry'[d]]
        BY <4>4
      <4>6. doc \in [did : Dids, version : Nat] /\ doc.did <= created' /\ registry'[doc.did] = doc.version
        BY <4>3, <4>5
      <4>7. reply' = [reply EXCEPT ![c] = doc]
        BY <1>10, <3>1, <4>5
      <4> QED BY <3>1, <4>6, <4>7 DEF Replied
    <3>2. CASE ~(status'[c] = "ok" /\ c \in HookCalls)
      <4>1. reply' = reply
        BY <1>10, <3>2
      <4>2. status \in [Calls -> Statuses \cup {"none"}]
        BY <1>3 DEF TypeOK, RequestTypeOK
      <4>3. c \in HookCalls /\ s = "ok" => status' = status
        BY <1>10, <3>2, <4>2 DEF Respond
      <4> QED BY <4>1, <4>3 DEF Replied
    <3> QED BY <3>1, <3>2
  <2> QED BY <1>2, <1>7, <1>8, <1>9, <2>1, <2>2, ServeKeeps
<1>11. CASE Respond(c, n, "server_error") /\ reply' = reply
  <2>1. Answered(c, n, "server_error") /\ Replied(c, "server_error")
    BY <1>2, <1>11 DEF Respond, Answered, Statuses, Replied
  <2> QED BY <1>2, <1>9, <2>1, ServeKeeps
<1>12. CASE Lose(c, n) /\ reply' = reply
  <2>1. Answered(c, n, "server_error") /\ Replied(c, "server_error")
    BY <1>2, <1>12 DEF Lose, Answered, Replied
  <2> QED BY <1>2, <1>9, <2>1, ServeKeeps
<1> QED BY <1>1, <1>10, <1>11, <1>12

-----------------------------------------------------------------------------
(* The invariant survives every step.                                      *)
LEMMA DidKept == DidInv /\ [Next]_vars => DidInv'
<1> SUFFICES ASSUME DidInv, [Next]_vars
             PROVE  DidInv'
  OBVIOUS
<1>1. CASE Next
  <2>1. PICK c \in Calls : \/ Begin(c)
                           \/ Progress(c)
                           \/ \E n \in 0 .. retryCount[c] : Execute(c, n) \/ Drop(c, n)
    BY <1>1 DEF Next
  <2> QED BY <2>1, BeginKeeps, ProgressKeeps, ExecuteKeeps, DropKeeps
<1>2. CASE UNCHANGED vars
  <2> USE <1>2 DEF vars, requestVars, hookVars
  <2>1. TypeOK'
    BY DEF DidInv, TypeOK, RequestTypeOK
  <2>2. Attempts' /\ Answers' /\ Named'
    BY DEF DidInv, Attempts, Sent, Answers, Changes, Named
  <2>3. Alone' /\ SpinnerTells'
    BY DEF DidInv, Alone, Current, Spares, SpinnerTells, Underway
  <2> QED BY <2>1, <2>2, <2>3 DEF DidInv
<1> QED BY <1>1, <1>2

(* Requests are counted to the effects they may still have, answers        *)
(* promise what the outcome will, and a stale document has its excuse: the *)
(* state of request() in client.ts and of the hook of useDID.ts at all     *)
(* times.                                                                  *)
THEOREM DidInvariant == Spec => []DidInv
<1> QED BY DidStarts, DidKept, PTL DEF Spec

(* What a caller of request() may conclude from its outcome: a success was *)
(* carried out, nothing more often than it was tried, and a refusal means  *)
(* nothing was done unless the call was retried (client.ts:256, 283).      *)
THEOREM OutcomesAreTruthful == Spec => []OutcomesTruthful
<1>1. DidInv => OutcomesTruthful
  <2> SUFFICES ASSUME DidInv
               PROVE  OutcomesTruthful
    OBVIOUS
  <2>1. TypeOK /\ Attempts /\ Answers
    BY DEF DidInv
  <2>2. EffectsKnown
    <3> SUFFICES ASSUME NEW c \in Calls
                 PROVE  /\ effects[c] <= attempt[c] + 1
                        /\ result[c] = "ok" /\ Changes(c) => effects[c] > 0
      BY DEF EffectsKnown
    <3>1. PICK e, k, a \in Nat : e = effects[c] /\ k = Cardinality(Sent(c)) /\ a = attempt[c]
      BY <2>1, SentFacts DEF TypeOK, RequestTypeOK
    <3>2. e + k <= a + 1
      BY <2>1, <3>1 DEF Attempts
    <3>3. e <= a + 1
      BY <3>2
    <3> QED BY <2>1, <3>1, <3>3 DEF Answers
  <2>3. RefusalTruthful
    BY <2>1 DEF Answers, RefusalTruthful
  <2> QED BY <2>1, <2>2, <2>3 DEF OutcomesTruthful
<1> QED BY <1>1, DidInvariant, PTL

(* The document on the screen is current, or a call is to blame, and the   *)
(* spinner turns as long as a call is under way and no longer, where calls *)
(* do not overlap (useDID.ts:88, 95).                                      *)
THEOREM ScreenIsTruthful == Spec => []ScreenTruthful
<1>1. DidInv => ScreenTruthful
  BY DEF DidInv, Alone, Spares, ScreenTruthful, ShownIsCurrent
<1> QED BY <1>1, DidInvariant, PTL
=============================================================================
