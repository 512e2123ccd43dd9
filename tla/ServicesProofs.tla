---------------------------- MODULE ServicesProofs ----------------------------
(***************************************************************************)
(* What is proved of the six parts MCServices checks: the circuit breaker, *)
(* the encodings and the exporters of packages/core, the provider adapters *)
(* of the aggregation service, the resolution of DIDs and the limit on     *)
(* requests.  They share nothing; each has a section of its own.           *)
(***************************************************************************)
EXTENDS CircuitBreaker, Serialization, MetricsExport, ProviderAdapters, DidResolution, RateLimit, DataLemmas

-----------------------------------------------------------------------------
(***************************************************************************)
(* The safety properties of CircuitBreaker for every number of calls and   *)
(* every thresholds and timeout.  The inductive invariant is their         *)
(* conjunction plus FailuresCounted: net failures never exceed the         *)
(* failures reported since the breaker last closed.                        *)
(***************************************************************************)

(* In closed the leaky counter failureCount is at most the number of       *)
(* failures reported since closing, so reaching the threshold is evidence. *)
FailuresCounted == state = "closed" => failureCount <= failures

IInv ==
    /\ TypeOK
    /\ CountersFitState
    /\ OpenHasClock
    /\ MonitorMatchesState
    /\ FailuresCounted

USE ThresholdsAssumption DEF ThresholdsAssumption, None, CircuitState

(* The initial breaker satisfies the inductive invariant.                  *)
LEMMA InitIInv == Init => IInv
<1> SUFFICES ASSUME Init PROVE IInv
  OBVIOUS
<1>1. TypeOK
  BY DEF Init, BreakerInit, TypeOK, BreakerTypeOK
<1>2. CountersFitState /\ OpenHasClock
  BY DEF Init, BreakerInit, CountersFitState, OpenHasClock
<1>3. MonitorMatchesState
  BY DEF Init, BreakerInit, MonitorMatchesState
<1>4. FailuresCounted
  BY DEF Init, BreakerInit, FailuresCounted
<1> QED
  BY <1>1, <1>2, <1>3, <1>4 DEF IInv

(* onSuccess(), whatever state it finds, keeps the counters, the clock and *)
(* the monitor in step with the state.                                     *)
LEMMA SuccessPreserves ==
  ASSUME IInv, NEW c \in Calls, CallSucceeds(c)
  PROVE  IInv'
<1> USE DEF IInv, TypeOK, BreakerTypeOK, CountersFitState, OpenHasClock, MonitorMatchesState,
            FailuresCounted, CallSucceeds, OnSuccess
<1>1. CASE state = "half-open" /\ successCount + 1 >= successThreshold
  BY <1>1 DEF Reset
<1>2. CASE state = "half-open" /\ successCount + 1 < successThreshold
  BY <1>2
<1>3. CASE state = "closed"
  BY <1>3
<1>4. CASE state = "open"
  BY <1>4 DEF breaker
<1> QED
  BY <1>1, <1>2, <1>3, <1>4

(* onFailure(), called for a settled call or by onTimeout(), does too.     *)
LEMMA FailurePreserves ==
  ASSUME IInv, OnFailure, CountFailure, UNCHANGED lifetime,
         inflight' \subseteq inflight
  PROVE  IInv'
  BY DEF IInv, TypeOK, BreakerTypeOK, CountersFitState, OpenHasClock, MonitorMatchesState,
         FailuresCounted, OnFailure, CountFailure, TransitionToOpen

(* Every step of the breaker preserves the inductive invariant.            *)
LEMMA NextIInv == IInv /\ [Next]_cbVars => IInv'
<1> SUFFICES ASSUME IInv, [Next]_cbVars PROVE IInv'
  OBVIOUS
<1>1. ASSUME NEW c \in Calls, Execute(c) PROVE IInv'
  BY <1>1 DEF IInv, TypeOK, BreakerTypeOK, CountersFitState, OpenHasClock, MonitorMatchesState,
     FailuresCounted, Execute, Prologue, Admits, ShouldAttemptReset,
     TransitionToHalfOpen, breaker
<1>2. ASSUME NEW c \in Calls, CallSucceeds(c) PROVE IInv'
  BY <1>2, SuccessPreserves
<1>3. ASSUME NEW c \in Calls, CallFails(c) PROVE IInv'
  BY <1>3, FailurePreserves DEF CallFails
<1>4. CASE OnTimeout
  BY <1>4, FailurePreserves DEF OnTimeout
<1>5. CASE MonitorFires
  BY <1>5 DEF IInv, TypeOK, BreakerTypeOK, CountersFitState, OpenHasClock, MonitorMatchesState,
     FailuresCounted, MonitorFires, MonitorCallback, TransitionToHalfOpen
<1>6. CASE Destroy
  BY <1>6 DEF IInv, TypeOK, BreakerTypeOK, CountersFitState, OpenHasClock, MonitorMatchesState,
     FailuresCounted, Destroy, StopMonitor
<1>7. CASE Tick
  BY <1>7 DEF IInv, TypeOK, BreakerTypeOK, CountersFitState, OpenHasClock, MonitorMatchesState,
     FailuresCounted, Tick, ClockTick
<1>8. CASE UNCHANGED cbVars
  BY <1>8 DEF IInv, TypeOK, BreakerTypeOK, CountersFitState, OpenHasClock, MonitorMatchesState,
     FailuresCounted, cbVars, breaker
<1> QED
  BY <1>1, <1>2, <1>3, <1>4, <1>5, <1>6, <1>7, <1>8 DEF Next

(* The inductive invariant holds in every reachable state.                 *)
THEOREM BreakerInvariant == Spec => []IInv
<1> QED
  BY InitIInv, NextIInv, PTL DEF Spec

(* circuit_breaker.ts: the counters, openedAt and the monitor's timer      *)
(* agree with the state after any order of outcomes of overlapping calls.  *)
THEOREM BreakerSafety == Spec => []BreakerConsistent
<1>1. IInv => BreakerConsistent
  BY DEF IInv, BreakerConsistent
<1> QED
  BY BreakerInvariant, <1>1, PTL

(* A step that leaves closed reports the failure that completes the        *)
(* evidence: failureThreshold failures since the breaker last closed.      *)
LEMMA OpeningStep ==
  ASSUME IInv, Next, state = "closed", state' # "closed"
  PROVE  failures' >= failureThreshold
<1> USE DEF IInv, TypeOK, BreakerTypeOK, FailuresCounted
<1>1. ASSUME OnFailure, CountFailure PROVE failures' >= failureThreshold
  BY <1>1 DEF OnFailure, CountFailure
<1> QED
  BY <1>1 DEF Next, Execute, Prologue, breaker, CallSucceeds, OnSuccess,
     CallFails, OnTimeout, MonitorFires, MonitorCallback, Destroy,
     StopMonitor, Tick, ClockTick

(* circuit_breaker.ts:101-104: the breaker opens only on evidence.         *)
THEOREM BreakerOpensOnEvidence == Spec => OpensOnEvidence
<1>1. IInv /\ [Next]_cbVars
      => [state = "closed" /\ state' # "closed" => failures' >= failureThreshold]_cbVars
  BY OpeningStep DEF cbVars, breaker
<1> QED
  BY BreakerInvariant, <1>1, PTL DEF Spec, OpensOnEvidence

HIDE ThresholdsAssumption DEF ThresholdsAssumption, None, CircuitState

-----------------------------------------------------------------------------
(***************************************************************************)
(* What the heads of packages/core/src/serialization give back, for every  *)
(* number and every length: the cases of the encoder against the order of  *)
(* the tests of the decoder.                                               *)
(***************************************************************************)

USE WordAssumption DEF WordAssumption, MaxUInt32, MinInt32

(* An item is its kind and its number.                                     *)
LEMMA ItemForm ==
  ASSUME NEW item \in Items
  PROVE  item = Item(item.kind, item.n)
  BY DEF Items, Item, Sized

-----------------------------------------------------------------------------
(* A head that was written has a token.                                    *)
LEMMA WrittenHead ==
  ASSUME NEW token \in Nat, NEW field
  PROVE  Chunk(token, field) # Refused
<1>1. Chunk(token, field).token = token /\ Refused.token = -1
  BY DEF Chunk, Refused
<1> QED BY <1>1

(* The tokens that say that an integer follows, and that it is one.        *)
LEMMA IntHead ==
  ASSUME NEW token \in 204 .. 207 \cup 209 .. 211, NEW n \in Int
  PROVE  Chunk(token, n) # Refused /\ Unpack(Chunk(token, n)) = Item("int", n)
<1>1. Chunk(token, n) # Refused
  BY WrittenHead
<1>2. Unpack(Chunk(token, n)) = Item("int", n)
  BY DEF Unpack, Chunk
<1> QED BY <1>1, <1>2

(* MessagePack: a whole number comes back from the shortest of ten forms,  *)
(* unless the longest does not hold it.                                    *)
LEMMA PackedInt ==
  ASSUME NEW n \in Int
  PROVE  /\ n >= Wide \/ n < -(Wide \div 2) => PackInt(n) = Refused
         /\ n < Wide /\ n >= -(Wide \div 2) => PackInt(n) # Refused /\ Unpack(PackInt(n)) = Item("int", n)
<1>0. Wide > 4 * Word /\ Wide \div 2 > Word /\ Word \div 2 > 32768 /\ Word \div 2 < Word
  OBVIOUS
<1>1. CASE 0 <= n /\ n <= 127
  <2>1. PackInt(n) = Chunk(n, 0)
    BY <1>1 DEF PackInt, Alone
  <2>2. Unpack(Chunk(n, 0)) = Item("int", n)
    BY <1>1 DEF Unpack, Chunk
  <2>3. Chunk(n, 0) # Refused
    BY <1>1, WrittenHead
  <2> QED BY <1>0, <1>1, <2>1, <2>2, <2>3
<1>2. CASE n < 0 /\ n >= -32
  <2>1. Byte(n) = n + 256 /\ n + 256 \in Nat
    BY <1>2 DEF Byte
  <2>2. PackInt(n) = Chunk(n + 256, 0)
    BY <1>2, <2>1 DEF PackInt, Alone
  <2>3. Unpack(Chunk(n + 256, 0)) = Item("int", n)
    BY <1>2 DEF Unpack, Chunk
  <2>4. Chunk(n + 256, 0) # Refused
    BY <2>1, WrittenHead
  <2> QED BY <1>0, <1>2, <2>2, <2>3, <2>4
<1>3. CASE 127 < n /\ n <= 255
  <2>1. Byte(n) = n
    BY <1>3 DEF Byte
  <2>2. PackInt(n) = Chunk(204, n)
    BY <1>3, <2>1 DEF PackInt
  <2> QED BY <1>0, <1>3, <2>2, IntHead
<1>4. CASE 255 < n /\ n <= 65535
  <2>1. PackInt(n) = Chunk(205, n)
    BY <1>0, <1>4 DEF PackInt
  <2> QED BY <1>0, <1>4, <2>1, IntHead
<1>5. CASE 65535 < n /\ n <= MaxUInt32
  <2>1. PackInt(n) = Chunk(206, n)
    BY <1>0, <1>5 DEF PackInt
  <2> QED BY <1>0, <1>5, <2>1, IntHead
<1>6. CASE MaxUInt32 < n /\ n < Wide
  <2>1. PackInt(n) = Chunk(207, n)
    BY <1>0, <1>6 DEF PackInt, BigUint64
  <2> QED BY <1>0, <1>6, <2>1, IntHead
<1>7. CASE n < -32 /\ n >= -128
  <2>1. Signed8(Byte(n)) = n
    BY <1>7 DEF Byte, Signed8
  <2>2. PackInt(n) = Chunk(208, Byte(n))
    BY <1>7 DEF PackInt
  <2>3. Unpack(Chunk(208, Byte(n))) = Item("int", n)
    BY <2>1 DEF Unpack, Chunk
  <2>4. Chunk(208, Byte(n)) # Refused
    BY WrittenHead
  <2> QED BY <1>0, <1>7, <2>2, <2>3, <2>4
<1>8. CASE n < -128 /\ n >= -32768
  <2>1. PackInt(n) = Chunk(209, n)
    BY <1>0, <1>8 DEF PackInt
  <2> QED BY <1>0, <1>8, <2>1, IntHead
<1>9. CASE n < -32768 /\ n >= MinInt32
  <2>1. PackInt(n) = Chunk(210, n)
    BY <1>0, <1>9 DEF PackInt
  <2> QED BY <1>0, <1>9, <2>1, IntHead
<1>10. CASE n < MinInt32 /\ n >= -(Wide \div 2)
  <2>1. PackInt(n) = Chunk(211, n)
    BY <1>0, <1>10 DEF PackInt, BigInt64
  <2> QED BY <1>0, <1>10, <2>1, IntHead
<1>11. CASE n >= Wide
  BY <1>0, <1>11 DEF PackInt, BigUint64
<1>12. CASE n < -(Wide \div 2)
  BY <1>0, <1>12 DEF PackInt, BigInt64
<1> QED
  BY <1>1, <1>2, <1>3, <1>4, <1>5, <1>6, <1>7, <1>8, <1>9, <1>10, <1>11, <1>12

(* The heads of a text.                                                    *)
LEMMA PackedText ==
  ASSUME NEW n \in 0 .. MaxUInt32
  PROVE  /\ PackSize(n, 160, 31, 217, 218, 219) # Refused
         /\ Unpack(PackSize(n, 160, 31, 217, 218, 219)) = Item("text", n)
<1>1. n <= 255 => Byte(n) = n
  BY DEF Byte
<1>2. n <= 31 => (160 + n) % 32 = n
  OBVIOUS
<1>3. Chunk(217, Byte(n)) # Refused /\ Chunk(218, n) # Refused /\ Chunk(219, n) # Refused
  BY WrittenHead
<1>4. 160 + n \in Nat /\ Chunk(160 + n, 0) # Refused
  BY WrittenHead
<1>5. PackSize(n, 160, 31, 217, 218, 219) # Refused
  BY <1>3, <1>4 DEF PackSize, Alone
<1>6. Unpack(PackSize(n, 160, 31, 217, 218, 219)) = Item("text", n)
  BY <1>1, <1>2 DEF PackSize, Unpack, Alone, Chunk
<1> QED BY <1>5, <1>6

(* The three heads of bytes.                                               *)
LEMMA PackedBytes ==
  ASSUME NEW n \in 0 .. MaxUInt32
  PROVE  /\ PackSize(n, 0, -1, 196, 197, 198) # Refused
         /\ Unpack(PackSize(n, 0, -1, 196, 197, 198)) = Item("bytes", n)
<1>1. n <= 255 => Byte(n) = n
  BY DEF Byte
<1>3. Chunk(196, Byte(n)) # Refused /\ Chunk(197, n) # Refused /\ Chunk(198, n) # Refused
  BY WrittenHead
<1>4. 0 + n \in Nat /\ Chunk(0 + n, 0) # Refused
  BY WrittenHead
<1>5. PackSize(n, 0, -1, 196, 197, 198) # Refused
  BY <1>3, <1>4 DEF PackSize, Alone
<1>6. Unpack(PackSize(n, 0, -1, 196, 197, 198)) = Item("bytes", n)
  BY <1>1 DEF PackSize, Unpack, Alone, Chunk
<1> QED BY <1>5, <1>6

(* The heads of a list: the shortest is read as that of a map              *)
(* (msgpack.ts).                                                           *)
LEMMA PackedList ==
  ASSUME NEW n \in 0 .. MaxUInt32
  PROVE  /\ PackSize(n, 144, 15, 0, 220, 221) # Refused
         /\ Unpack(PackSize(n, 144, 15, 0, 220, 221)) = Item(IF n <= 15 THEN "map" ELSE "list", n)
<1>1. n <= 255 => Byte(n) = n
  BY DEF Byte
<1>2. n <= 15 => (144 + n) % 16 = n
  OBVIOUS
<1>3. Chunk(220, n) # Refused /\ Chunk(221, n) # Refused
  BY WrittenHead
<1>4. 144 + n \in Nat /\ Chunk(144 + n, 0) # Refused
  BY WrittenHead
<1>5. PackSize(n, 144, 15, 0, 220, 221) # Refused
  BY <1>3, <1>4 DEF PackSize, Alone
<1>6. Unpack(PackSize(n, 144, 15, 0, 220, 221)) = Item(IF n <= 15 THEN "map" ELSE "list", n)
  BY <1>1, <1>2 DEF PackSize, Unpack, Alone, Chunk
<1> QED BY <1>5, <1>6

(* The heads of a map.                                                     *)
LEMMA PackedMap ==
  ASSUME NEW n \in 0 .. MaxUInt32
  PROVE  /\ PackSize(n, 128, 15, 0, 222, 223) # Refused
         /\ Unpack(PackSize(n, 128, 15, 0, 222, 223)) = Item("map", n)
<1>1. n <= 255 => Byte(n) = n
  BY DEF Byte
<1>2. n <= 15 => (128 + n) % 16 = n
  OBVIOUS
<1>3. Chunk(222, n) # Refused /\ Chunk(223, n) # Refused
  BY WrittenHead
<1>4. 128 + n \in Nat /\ Chunk(128 + n, 0) # Refused
  BY WrittenHead
<1>5. PackSize(n, 128, 15, 0, 222, 223) # Refused
  BY <1>3, <1>4 DEF PackSize, Alone
<1>6. Unpack(PackSize(n, 128, 15, 0, 222, 223)) = Item("map", n)
  BY <1>1, <1>2 DEF PackSize, Unpack, Alone, Chunk
<1> QED BY <1>5, <1>6

\* Integers that eight bytes do not hold, as each of the formats uses them.
PastMessagePack(item) == item.kind = "int" /\ (item.n >= Wide \/ item.n < -(Wide \div 2))
PastCbor(item) == item.kind = "int" /\ (item.n >= Wide \/ item.n <= -Wide)

(* msgpack.ts: the encoder throws exactly at integers of 2^64 and more and *)
(* at those below -2^63.  Every other item comes back as it was, but for   *)
(* `undefined', which becomes null, and a list of at most fifteen, which   *)
(* becomes a map.                                                          *)
THEOREM MessagePackHeads ==
  \A item \in Items :
      /\ Pack(item) = Refused <=> PastMessagePack(item)
      /\ item.kind = "undefined" => Unpack(Pack(item)) = Item("nil", 0)
      /\ item.kind = "list" /\ item.n <= 15 => Unpack(Pack(item)) = Item("map", item.n)
      /\ item.kind # "undefined" /\ ~(item.kind = "list" /\ item.n <= 15) /\ ~PastMessagePack(item) =>
           Unpack(Pack(item)) = item
<1> SUFFICES ASSUME NEW item \in Items
             PROVE  /\ Pack(item) = Refused <=> PastMessagePack(item)
                    /\ item.kind = "undefined" => Unpack(Pack(item)) = Item("nil", 0)
                    /\ item.kind = "list" /\ item.n <= 15 => Unpack(Pack(item)) = Item("map", item.n)
                    /\ item.kind # "undefined" /\ ~(item.kind = "list" /\ item.n <= 15) /\ ~PastMessagePack(item) =>
                         Unpack(Pack(item)) = item
  OBVIOUS
<1>1. item = Item(item.kind, item.n)
  BY ItemForm
<1>2. CASE item.kind \in {"undefined", "nil"}
  <2>1. Pack(item) = Chunk(192, 0) /\ item.n = 0
    BY <1>2 DEF Items, Sized, Pack, Alone
  <2>2. Unpack(Chunk(192, 0)) = Item("nil", 0) /\ Chunk(192, 0) # Refused
    BY WrittenHead DEF Unpack, Chunk
  <2>3. ~PastMessagePack(item)
    BY <1>2 DEF PastMessagePack
  <2> QED
    BY <1>1, <1>2, <2>1, <2>2, <2>3
<1>3. CASE item.kind = "bool"
  <2>1. item.n \in {0, 1} /\ Pack(item) = Chunk(194 + item.n, 0)
    BY <1>3 DEF Items, Sized, Pack, Alone
  <2>2. Unpack(Chunk(194 + item.n, 0)) = Item("bool", item.n)
    BY <2>1 DEF Unpack, Chunk
  <2>3. 194 + item.n \in Nat
    BY <2>1
  <2>4. Chunk(194 + item.n, 0) # Refused
    BY <2>3, WrittenHead
  <2>5. ~PastMessagePack(item)
    BY <1>3 DEF PastMessagePack
  <2> QED
    BY <1>1, <1>3, <2>1, <2>2, <2>4, <2>5
<1>4. CASE item.kind = "int"
  <2>1. item.n \in Int /\ Pack(item) = PackInt(item.n)
    BY <1>4 DEF Items, Sized, Pack, Doubles
  <2>2. PastMessagePack(item) <=> item.n >= Wide \/ item.n < -(Wide \div 2)
    BY <1>4 DEF PastMessagePack
  <2>3. PastMessagePack(item) => PackInt(item.n) = Refused
    BY <2>1, <2>2, PackedInt
  <2>4. ~PastMessagePack(item) => PackInt(item.n) # Refused /\ Unpack(PackInt(item.n)) = item
    BY <1>1, <1>4, <2>1, <2>2, PackedInt
  <2> QED
    BY <1>4, <2>1, <2>3, <2>4
<1>5. CASE item.kind = "float"
  <2>1. Pack(item) = Chunk(203, item.n)
    BY <1>5 DEF Pack
  <2>2. Unpack(Chunk(203, item.n)) = Item("float", item.n) /\ Chunk(203, item.n) # Refused
    BY WrittenHead DEF Unpack, Chunk
  <2>3. ~PastMessagePack(item)
    BY <1>5 DEF PastMessagePack
  <2> QED
    BY <1>1, <1>5, <2>1, <2>2, <2>3
<1>6. CASE item.kind \in Sized
  <2>0. ~PastMessagePack(item)
    BY <1>6 DEF Sized, PastMessagePack
  <2>1. item.n \in 0 .. MaxUInt32
    BY <1>6 DEF Items, Sized
  <2>2. CASE item.kind = "text"
    <3>1. Pack(item) = PackSize(item.n, 160, 31, 217, 218, 219)
      BY <2>2 DEF Pack
    <3>2. PackSize(item.n, 160, 31, 217, 218, 219) # Refused /\ Unpack(PackSize(item.n, 160, 31, 217, 218, 219)) = Item("text", item.n)
      BY <2>1, PackedText
    <3> QED
      BY <1>1, <2>0, <2>2, <3>1, <3>2
  <2>3. CASE item.kind = "bytes"
    <3>1. Pack(item) = PackSize(item.n, 0, -1, 196, 197, 198)
      BY <2>3 DEF Pack
    <3>2. PackSize(item.n, 0, -1, 196, 197, 198) # Refused /\ Unpack(PackSize(item.n, 0, -1, 196, 197, 198)) = Item("bytes", item.n)
      BY <2>1, PackedBytes
    <3> QED
      BY <1>1, <2>0, <2>3, <3>1, <3>2
  <2>4. CASE item.kind = "list"
    <3>1. Pack(item) = PackSize(item.n, 144, 15, 0, 220, 221)
      BY <2>4 DEF Pack
    <3>2. PackSize(item.n, 144, 15, 0, 220, 221) # Refused /\ Unpack(PackSize(item.n, 144, 15, 0, 220, 221)) = Item(IF item.n <= 15 THEN "map" ELSE "list", item.n)
      BY <2>1, PackedList
    <3> QED
      BY <1>1, <2>0, <2>4, <3>1, <3>2
  <2>5. CASE item.kind = "map"
    <3>1. Pack(item) = PackSize(item.n, 128, 15, 0, 222, 223)
      BY <2>5 DEF Pack
    <3>2. PackSize(item.n, 128, 15, 0, 222, 223) # Refused /\ Unpack(PackSize(item.n, 128, 15, 0, 222, 223)) = Item("map", item.n)
      BY <2>1, PackedMap
    <3> QED
      BY <1>1, <2>0, <2>5, <3>1, <3>2
  <2> QED
    BY <1>6, <2>2, <2>3, <2>4, <2>5 DEF Sized
<1> QED
  BY <1>2, <1>3, <1>4, <1>5, <1>6 DEF Items

-----------------------------------------------------------------------------
(* CBOR: a head of a major type gives back the type and the number, unless *)
(* eight bytes do not hold it.                                             *)
LEMMA CborHeadRead ==
  ASSUME NEW major \in {0, 32, 64, 96, 128, 160, 224}, NEW n \in Nat
  PROVE  LET h == CborHead(major, n)
         IN  /\ n >= Wide => h = Refused
             /\ n < Wide => /\ h # Refused
                            /\ h.token - (h.token % 32) = major
                            /\ (IF h.token % 32 \in 24 .. 27 THEN h.field ELSE h.token % 32) = n
<1>0. Wide > 4 * Word
  OBVIOUS
<1>1. n <= 255 => Byte(n) = n
  BY DEF Byte
<1>2. \A k \in 0 .. 27 : (major + k) % 32 = k /\ major + k \in Nat
  OBVIOUS
<1>3. CASE n <= 23
  <2>1. CborHead(major, n) = Chunk(major + n, 0)
    BY <1>3 DEF CborHead, Alone
  <2>2. CborHead(major, n) # Refused
    BY <1>2, <1>3, <2>1, WrittenHead
  <2> QED BY <1>0, <1>2, <1>3, <2>1, <2>2 DEF Chunk
<1>4. CASE n > 23 /\ n < Wide
  <2>1. ASSUME NEW k \in 24 .. 27
        PROVE  /\ Chunk(major + k, n) # Refused
               /\ Chunk(major + k, n).token = major + k /\ Chunk(major + k, n).field = n
               /\ (major + k) % 32 = k /\ major + k - k = major
    BY <1>2, WrittenHead DEF Chunk
  <2>2. \/ CborHead(major, n) = Chunk(major + 24, n)
        \/ CborHead(major, n) = Chunk(major + 25, n)
        \/ CborHead(major, n) = Chunk(major + 26, n)
        \/ CborHead(major, n) = Chunk(major + 27, n)
    BY <1>1, <1>4 DEF CborHead, BigUint64
  <2>3. PICK k \in 24 .. 27 : CborHead(major, n) = Chunk(major + k, n)
    BY <2>2
  <2> QED BY <1>4, <2>1, <2>3
<1>5. CASE n >= Wide
  BY <1>0, <1>5 DEF CborHead, BigUint64
<1> QED
  BY <1>3, <1>4, <1>5

(* -1 - n twice: a negative double comes back unless it is one of every    *)
(* second between 2^53 and 2^54.                                           *)
LEMMA MinusOneTwice ==
  ASSUME NEW n \in Doubles, n < 0
  PROVE  /\ MinusOneMinus(n) \in Nat
         /\ MinusOneMinus(n) >= Wide <=> n <= -Wide
         /\ MinusOneMinus(MinusOneMinus(n)) = n <=> (n \in -2 * Safe .. -Safe => n % 4 = 0)
<1>0. n \in Int /\ (n \in -Safe .. Safe \/ n % 2 = 0) /\ (n \in -2 * Safe .. 2 * Safe \/ n % 4 = 0)
  BY DEF Doubles
<1>1. CASE n >= -Safe
  <2>1. MinusOneMinus(n) = -1 - n
    BY <1>0, <1>1 DEF MinusOneMinus
  <2>2. MinusOneMinus(-1 - n) = n
    BY <1>0, <1>1 DEF MinusOneMinus
  <2>3. n \in -2 * Safe .. -Safe => n = -Safe
    BY <1>0, <1>1
  <2> QED BY <1>0, <1>1, <2>1, <2>2, <2>3
<1>2. CASE n < -Safe /\ n % 4 = 0
  <2>1. MinusOneMinus(n) = -n
    BY <1>0, <1>2 DEF MinusOneMinus
  <2>2. (-n) % 4 = 0
    BY <1>0, <1>2
  <2>3. MinusOneMinus(-n) = n
    BY <1>0, <1>2, <2>2 DEF MinusOneMinus
  <2> QED BY <1>0, <1>2, <2>1, <2>3
<1>3. CASE n < -Safe /\ n % 4 # 0
  <2>1. MinusOneMinus(n) = -n - 2
    BY <1>0, <1>3 DEF MinusOneMinus
  <2>2. (-n - 2) % 4 = 0 /\ n < -Safe - 1 /\ n >= -2 * Safe
    BY <1>0, <1>3
  <2>3. MinusOneMinus(-n - 2) = n + 2
    BY <1>0, <1>3, <2>2 DEF MinusOneMinus
  <2> QED BY <1>0, <1>3, <2>1, <2>2, <2>3
<1> QED BY <1>0, <1>1, <1>2, <1>3

(* cbor.ts: the encoder throws exactly at integers past 64 bits.  Of the   *)
(* other items, floats aside, exactly every second of the negative         *)
(* integers between 2^53 and 2^54 does not come back as it was.            *)
THEOREM CborHeads ==
  \A item \in Items : item.kind # "float" =>
      /\ Cbor(item) = Refused <=> PastCbor(item)
      /\ ~PastCbor(item) =>
           (Uncbor(Cbor(item)) = item
               <=> (item.kind = "int" /\ item.n \in -2 * Safe .. -Safe => item.n % 4 = 0))
<1> SUFFICES ASSUME NEW item \in Items, item.kind # "float"
             PROVE  /\ Cbor(item) = Refused <=> PastCbor(item)
                    /\ ~PastCbor(item) =>
                         (Uncbor(Cbor(item)) = item
                             <=> (item.kind = "int" /\ item.n \in -2 * Safe .. -Safe => item.n % 4 = 0))
  OBVIOUS
<1>0. Wide > 4 * Word
  OBVIOUS
<1>1. item = Item(item.kind, item.n)
  BY ItemForm
<1>2. CASE item.kind \in Simple
  <2>1. PICK k \in 20 .. 23 : Cbor(item) = CborHead(224, k) /\ CborSimple(k) = Item(item.kind, item.n)
    BY <1>2 DEF Simple, Items, Sized, Cbor, CborSimple
  <2>2. k \in Nat /\ k < Wide
    BY <1>0
  <2>3. Cbor(item) # Refused
    BY <2>1, <2>2, CborHeadRead
  <2>4. Uncbor(Cbor(item)) = CborSimple(k)
    BY <2>1, <2>2, CborHeadRead DEF Uncbor
  <2>5. item.kind # "int"
    BY <1>2 DEF Simple
  <2> QED
    BY <1>1, <2>1, <2>3, <2>4, <2>5 DEF PastCbor
<1>3. CASE item.kind = "int"
  <2>1. item.n \in Doubles /\ item.n \in Int
    BY <1>3 DEF Items, Sized, Doubles
  <2>2. CASE item.n >= 0
    <3>1. Cbor(item) = CborHead(0, item.n)
      BY <1>3, <2>2 DEF Cbor
    <3>2. ASSUME item.n < Wide PROVE Uncbor(CborHead(0, item.n)) = Item("int", item.n)
      <4>1. PICK h : h = CborHead(0, item.n)
        OBVIOUS
      <4>2. item.n \in Nat
        BY <2>1, <2>2
      <4>3. /\ h.token - (h.token % 32) = 0
            /\ (IF h.token % 32 \in 24 .. 27 THEN h.field ELSE h.token % 32) = item.n
        BY <3>2, <4>1, <4>2, CborHeadRead
      <4>4. Uncbor(h) = Item("int", item.n)
        BY <4>3 DEF Uncbor
      <4> QED BY <4>1, <4>4
    <3>3. PastCbor(item) <=> item.n >= Wide
      BY <1>3, <2>1, <2>2 DEF PastCbor
    <3>4. item.n \notin -2 * Safe .. -Safe
      BY <2>1, <2>2
    <3>5. CborHead(0, item.n) = Refused <=> item.n >= Wide
      BY <2>1, <2>2, CborHeadRead
    <3> QED
      BY <1>1, <1>3, <2>1, <3>1, <3>2, <3>3, <3>4, <3>5
  <2>3. CASE item.n < 0
    <3>1. Cbor(item) = CborHead(32, MinusOneMinus(item.n))
      BY <1>3, <2>1, <2>3 DEF Cbor
    <3>2. PICK m \in Nat :
            /\ m = MinusOneMinus(item.n)
            /\ m >= Wide <=> item.n <= -Wide
            /\ MinusOneMinus(m) = item.n <=> (item.n \in -2 * Safe .. -Safe => item.n % 4 = 0)
      BY <2>1, <2>3, MinusOneTwice
    <3>3. CborHead(32, m) = Refused <=> m >= Wide
      BY CborHeadRead
    <3>4. ASSUME m < Wide PROVE Uncbor(CborHead(32, m)) = Item("int", MinusOneMinus(m))
      <4>1. PICK h : h = CborHead(32, m)
        OBVIOUS
      <4>2. /\ h.token - (h.token % 32) = 32
            /\ (IF h.token % 32 \in 24 .. 27 THEN h.field ELSE h.token % 32) = m
        BY <3>4, <4>1, CborHeadRead
      <4>3. Uncbor(h) = Item("int", MinusOneMinus(m))
        BY <4>2 DEF Uncbor
      <4> QED BY <4>1, <4>3
    <3>5. PastCbor(item) <=> m >= Wide
      BY <1>3, <2>1, <2>3, <3>2 DEF PastCbor
    <3>6. Item("int", MinusOneMinus(m)) = item <=> MinusOneMinus(m) = item.n
      BY <1>1, <1>3 DEF Item
    <3> QED
      BY <1>3, <3>1, <3>2, <3>3, <3>4, <3>5, <3>6
  <2> QED
    BY <2>1, <2>2, <2>3
<1>4. CASE item.kind \in Sized
  <2>1. item.n \in Nat /\ item.n < Wide
    BY <1>0, <1>4 DEF Items, Sized
  <2>2. PICK major \in {64, 96, 128, 160} :
          /\ Cbor(item) = CborHead(major, item.n)
          /\ major = IF item.kind = "bytes" THEN 64 ELSE IF item.kind = "text" THEN 96
                     ELSE IF item.kind = "list" THEN 128 ELSE 160
    BY <1>4 DEF Sized, Cbor
  <2>3. PICK h : h = CborHead(major, item.n)
    OBVIOUS
  <2>4. /\ h # Refused
        /\ h.token - (h.token % 32) = major
        /\ (IF h.token % 32 \in 24 .. 27 THEN h.field ELSE h.token % 32) = item.n
    BY <2>1, <2>3, CborHeadRead
  <2>5. Uncbor(h) = Item(item.kind, item.n)
    BY <1>4, <2>2, <2>4 DEF Uncbor, Sized
  <2>6. item.kind # "int"
    BY <1>4 DEF Sized
  <2> QED
    BY <1>1, <2>2, <2>3, <2>4, <2>5, <2>6 DEF PastCbor
<1> QED
  BY <1>2, <1>3, <1>4 DEF Items, Simple

-----------------------------------------------------------------------------
(* An integer in 32 bits is one of 32 bits, and itself if it was one; what *)
(* is at most twice such a one is moved once around.                       *)
LEMMA WrapFacts ==
  ASSUME NEW n \in Int
  PROVE  /\ Wrap(n) \in Int32
         /\ n \in Int32 => Wrap(n) = n
         /\ n \in -MinInt32 .. Word => Wrap(n) = n - Word
         /\ n \in -Word .. MinInt32 - 1 => Wrap(n) = n + Word
<1>0. Word \in Nat /\ Word > 0 /\ MinInt32 \in Int /\ Word = -2 * MinInt32
  OBVIOUS
<1> DEFINE x == n - MinInt32
<1>1. x \in Int /\ Wrap(n) = (x % Word) + MinInt32
  BY <1>0 DEF Wrap
<1> HIDE DEF x
<1> HIDE WordAssumption DEF WordAssumption, MaxUInt32, MinInt32
<1>2. x % Word \in 0 .. Word - 1
  BY <1>0, <1>1
<1>3. x \in 0 .. Word - 1 => x % Word = x
  BY <1>0, <1>1
<1>4. x - Word \in 0 .. Word - 1 => x % Word = x - Word
  BY <1>0, <1>1
<1>5. x + Word \in 0 .. Word - 1 => x % Word = x + Word
  BY <1>0, <1>1
<1> DEFINE r == x % Word
<1>6. r \in 0 .. Word - 1 /\ Wrap(n) = r + MinInt32
  BY <1>1, <1>2
<1>7. x \in 0 .. Word - 1 => r = x
  BY <1>3
<1>8. x - Word \in 0 .. Word - 1 => r = x - Word
  BY <1>4
<1>9. x + Word \in 0 .. Word - 1 => r = x + Word
  BY <1>5
<1> HIDE DEF r
<1> QED BY <1>0, <1>6, <1>7, <1>8, <1>9 DEF Int32, x

(* avro.ts encodeLong() and decodeLong(), protobuf.ts encodeSignedVarint():*)
(* a number of 32 bits comes back exactly when doubling it does not leave  *)
(* the 32 bits.                                                            *)
THEOREM ZigZagExact ==
  \A n \in Int32 :
      UnZigZag(Varint(ZigZag(n))) = n <=> n \in -(Word \div 4) .. (Word \div 4) - 1
<1> SUFFICES ASSUME NEW n \in Int32
             PROVE  UnZigZag(Varint(ZigZag(n))) = n <=> n \in -(Word \div 4) .. (Word \div 4) - 1
  OBVIOUS
<1> DEFINE q == Word \div 4
<1>0. /\ q \in Nat /\ Word = 4 * q /\ q > 32768
      /\ MinInt32 = -2 * q /\ Int32 = -2 * q .. 2 * q - 1
  BY DEF Int32
<1>w. \A k \in Int : /\ Wrap(k) \in Int
                     /\ k \in -2 * q .. 2 * q - 1 => Wrap(k) = k
                     /\ k \in 2 * q .. 4 * q => Wrap(k) = k - 4 * q
                     /\ k \in -4 * q .. -2 * q - 1 => Wrap(k) = k + 4 * q
  <2> SUFFICES ASSUME NEW k \in Int
               PROVE  /\ Wrap(k) \in Int
                      /\ k \in -2 * q .. 2 * q - 1 => Wrap(k) = k
                      /\ k \in 2 * q .. 4 * q => Wrap(k) = k - 4 * q
                      /\ k \in -4 * q .. -2 * q - 1 => Wrap(k) = k + 4 * q
    OBVIOUS
  <2> HIDE WordAssumption DEF q, WordAssumption, MaxUInt32, MinInt32
  <2> QED BY <1>0, WrapFacts
<1> HIDE DEF q
<1> HIDE WordAssumption DEF WordAssumption, MaxUInt32, MinInt32
<1>d. PICK d \in Int : d = 2 * n
  BY <1>0
<1>1. CASE n \in 0 .. q - 1
  <2>1. Wrap(2 * n) = 2 * n
    <3>1. Wrap(d) = d
      BY <1>0, <1>w, <1>d, <1>1
    <3> QED BY <1>d, <3>1
  <2>2. Varint(ZigZag(n)) = 2 * n
    BY <1>0, <1>1, <2>1 DEF ZigZag, Varint
  <2>3. UnZigZag(2 * n) = n
    BY <1>1 DEF UnZigZag
  <2> QED
    BY <1>0, <1>1, <2>2, <2>3 DEF q
<1>2. CASE n \in -q .. -1
  <2>1. Wrap(2 * n) = 2 * n /\ Wrap(-1 - 2 * n) = -1 - 2 * n
    <3>1. PICK e \in Int : e = -1 - 2 * n
      BY <1>0
    <3>2. Wrap(d) = d /\ Wrap(e) = e
      BY <1>0, <1>w, <1>d, <1>2, <3>1
    <3> QED BY <1>d, <3>1, <3>2
  <2>2. Varint(ZigZag(n)) = -1 - 2 * n
    BY <1>0, <1>2, <2>1 DEF ZigZag, Varint
  <2>3. UnZigZag(-1 - 2 * n) = n
    BY <1>2 DEF UnZigZag
  <2> QED
    BY <1>0, <1>2, <2>2, <2>3 DEF q
<1>3. CASE n >= q \/ n < -q
  <2>0. n \in Int /\ n >= -2 * q /\ n <= 2 * q - 1
    BY <1>0
  <2>1. ZigZag(n) \in Int /\ ZigZag(n) < 0
    <3>1. CASE n >= q
      <4>1. Wrap(2 * n) = 2 * n - 4 * q
        <5>1. Wrap(d) = d - 4 * q
          BY <1>0, <1>w, <1>d, <2>0, <3>1
        <5> QED BY <1>d, <5>1
      <4> QED BY <1>0, <2>0, <3>1, <4>1 DEF ZigZag
    <3>2. CASE n < -q
      <4>1. Wrap(2 * n) = 2 * n + 4 * q
        <5>1. Wrap(d) = d + 4 * q
          BY <1>0, <1>w, <1>d, <2>0, <3>2
        <5> QED BY <1>d, <5>1
      <4> QED BY <1>0, <2>0, <3>2, <4>1 DEF ZigZag
    <3> QED BY <1>3, <3>1, <3>2
  <2>2. Varint(ZigZag(n)) \in Nat /\ Varint(ZigZag(n)) <= 127
    BY <2>1 DEF Varint
  <2>3. PICK u \in Nat : u = Varint(ZigZag(n)) /\ u <= 127
    BY <2>2
  <2>4. UnZigZag(u) \in Int /\ -64 <= UnZigZag(u) /\ UnZigZag(u) <= 63
    BY <2>3 DEF UnZigZag
  <2>5. ~(-64 <= n /\ n <= 63)
    BY <1>0, <1>3, <2>0
  <2>6. n \notin -(Word \div 4) .. (Word \div 4) - 1
    BY <1>0, <1>3, <2>0 DEF q
  <2> QED
    BY <2>0, <2>3, <2>4, <2>5, <2>6
<1> QED
  BY <1>0, <1>1, <1>2, <1>3

HIDE WordAssumption DEF WordAssumption, MaxUInt32, MinInt32

-----------------------------------------------------------------------------
(***************************************************************************)
(* What is encoded is decoded again: values of any size and depth, under   *)
(* any schema that SerialAssumption admits, in each of the four formats.   *)
(*                                                                         *)
(* MessagePack and CBOR are read item by item, and the heads, of which the *)
(* theorems above say what they lose, tell where a value ends.  In Avro    *)
(* the state of the reader after i items is what was left to write after   *)
(* them, behind the bytes of them, as long as both choose the same branch  *)
(* of every union.  The recursive functions are unfolded first: a function *)
(* that is as the recursion says exists, by induction on how far it goes.  *)
(***************************************************************************)

(* The recursion of Left, whatever is counted.                             *)
LEMMA LeftUnfolds ==
  ASSUME NEW items, Len(items) \in Nat
  PROVE  /\ Left(items)[0] = 1
         /\ \A i \in 1 .. Len(items) : Left(items)[i] = IF Left(items)[i - 1] = 0 THEN 0 ELSE Left(items)[i - 1] - 1 + Parts(items[i])
<1> DEFINE Base == 1
           After(l, i) == IF l = 0 THEN 0 ELSE l - 1 + Parts(items[i])
           Rec(f, m) == f = [i \in 0 .. m |-> IF i = 0 THEN Base ELSE After(f[i - 1], i)]
           G == {m \in 0 .. Len(items) : \E f : Rec(f, m)}
<1>1. Len(items) \in Nat /\ 0 \in 0 .. Len(items)
  OBVIOUS
<1> HIDE DEF Base, After
<1>2. \A i \in 0 .. Len(items) : i \in G
  <2>1. 0 \in G
    <3>1. Rec([i \in 0 .. 0 |-> Base], 0)
      OBVIOUS
    <3> QED BY <1>1, <3>1
  <2>2. ASSUME NEW m \in 0 .. Len(items) - 1, m \in G
        PROVE  m + 1 \in G
    <3>1. PICK f : Rec(f, m)
      BY <2>2
    <3> DEFINE g == [i \in 0 .. m + 1 |-> IF i = m + 1 THEN After(f[m], m + 1) ELSE f[i]]
    <3>2. \A i \in 0 .. m : f[i] = IF i = 0 THEN Base ELSE After(f[i - 1], i)
      BY <3>1
    <3>3. ASSUME NEW i \in 0 .. m + 1
          PROVE  g[i] = IF i = 0 THEN Base ELSE After(g[i - 1], i)
      <4>1. CASE i = m + 1
        <5>1. i # 0 /\ i - 1 = m /\ m \in 0 .. m + 1 /\ m # m + 1
          BY <4>1
        <5> QED BY <4>1, <5>1
      <4>2. CASE i \in 1 .. m
        <5>1. i # m + 1 /\ i - 1 \in 0 .. m + 1 /\ i - 1 # m + 1 /\ i \in 0 .. m /\ i # 0
          BY <4>2
        <5> QED BY <5>1, <3>2
      <4>3. CASE i = 0
        BY <4>3, <3>2
      <4> QED BY <4>1, <4>2, <4>3
    <3>4. g = [i \in 0 .. m + 1 |-> IF i = 0 THEN Base ELSE After(g[i - 1], i)]
      <4>1. g = [i \in 0 .. m + 1 |-> g[i]]
        OBVIOUS
      <4> HIDE DEF g
      <4> QED BY <3>3, <4>1
    <3> HIDE DEF g
    <3>5. m + 1 \in 0 .. Len(items)
      BY <1>1
    <3>6. Rec(g, m + 1)
      BY <3>4
    <3> QED BY <3>5, <3>6
  <2> HIDE DEF G
  <2> QED BY <1>1, <2>1, <2>2, Induction
<1>3. \E f : Rec(f, Len(items))
  <2>1. Len(items) \in 0 .. Len(items)
    BY <1>1
  <2> QED BY <1>2, <2>1
<1> DEFINE chosen == CHOOSE f : Rec(f, Len(items))
<1>4. Rec(chosen, Len(items))
  BY <1>3
<1>5. Left(items) = chosen
  BY DEF Left, Base, After
<1> HIDE DEF chosen
<1>6. \A i \in 0 .. Len(items) : chosen[i] = IF i = 0 THEN Base ELSE After(chosen[i - 1], i)
  BY <1>4
<1>7. Left(items)[0] = Base /\ \A i \in 1 .. Len(items) : Left(items)[i] = After(Left(items)[i - 1], i)
  <2>1. \A i \in 1 .. Len(items) : i \in 0 .. Len(items) /\ i # 0
    BY <1>1
  <2> QED BY <2>1, <1>1, <1>5, <1>6
<1> QED BY <1>7, Zenon DEF Base, After

(* The recursion of Agenda.                                                *)
LEMMA AgendaUnfolds ==
  ASSUME NEW r, Len(r.items) \in Nat
  PROVE  /\ Agenda(r)[0] = <<Ask(r.schema, FALSE)>>
         /\ \A i \in 1 .. Len(r.items) : Agenda(r)[i] = Behind(r.items[i], Head(Agenda(r)[i - 1])) \o Tail(Agenda(r)[i - 1])
<1> DEFINE Base == <<Ask(r.schema, FALSE)>>
           After(l, i) == Behind(r.items[i], Head(l)) \o Tail(l)
           Rec(f, m) == f = [i \in 0 .. m |-> IF i = 0 THEN Base ELSE After(f[i - 1], i)]
           G == {m \in 0 .. Len(r.items) : \E f : Rec(f, m)}
<1>1. Len(r.items) \in Nat /\ 0 \in 0 .. Len(r.items)
  OBVIOUS
<1> HIDE DEF Base, After
<1>2. \A i \in 0 .. Len(r.items) : i \in G
  <2>1. 0 \in G
    <3>1. Rec([i \in 0 .. 0 |-> Base], 0)
      OBVIOUS
    <3> QED BY <1>1, <3>1
  <2>2. ASSUME NEW m \in 0 .. Len(r.items) - 1, m \in G
        PROVE  m + 1 \in G
    <3>1. PICK f : Rec(f, m)
      BY <2>2
    <3> DEFINE g == [i \in 0 .. m + 1 |-> IF i = m + 1 THEN After(f[m], m + 1) ELSE f[i]]
    <3>2. \A i \in 0 .. m : f[i] = IF i = 0 THEN Base ELSE After(f[i - 1], i)
      BY <3>1
    <3>3. ASSUME NEW i \in 0 .. m + 1
          PROVE  g[i] = IF i = 0 THEN Base ELSE After(g[i - 1], i)
      <4>1. CASE i = m + 1
        <5>1. i # 0 /\ i - 1 = m /\ m \in 0 .. m + 1 /\ m # m + 1
          BY <4>1
        <5> QED BY <4>1, <5>1
      <4>2. CASE i \in 1 .. m
        <5>1. i # m + 1 /\ i - 1 \in 0 .. m + 1 /\ i - 1 # m + 1 /\ i \in 0 .. m /\ i # 0
          BY <4>2
        <5> QED BY <5>1, <3>2
      <4>3. CASE i = 0
        BY <4>3, <3>2
      <4> QED BY <4>1, <4>2, <4>3
    <3>4. g = [i \in 0 .. m + 1 |-> IF i = 0 THEN Base ELSE After(g[i - 1], i)]
      <4>1. g = [i \in 0 .. m + 1 |-> g[i]]
        OBVIOUS
      <4> HIDE DEF g
      <4> QED BY <3>3, <4>1
    <3> HIDE DEF g
    <3>5. m + 1 \in 0 .. Len(r.items)
      BY <1>1
    <3>6. Rec(g, m + 1)
      BY <3>4
    <3> QED BY <3>5, <3>6
  <2> HIDE DEF G
  <2> QED BY <1>1, <2>1, <2>2, Induction
<1>3. \E f : Rec(f, Len(r.items))
  <2>1. Len(r.items) \in 0 .. Len(r.items)
    BY <1>1
  <2> QED BY <1>2, <2>1
<1> DEFINE chosen == CHOOSE f : Rec(f, Len(r.items))
<1>4. Rec(chosen, Len(r.items))
  BY <1>3
<1>5. Agenda(r) = chosen
  BY DEF Agenda, Base, After
<1> HIDE DEF chosen
<1>6. \A i \in 0 .. Len(r.items) : chosen[i] = IF i = 0 THEN Base ELSE After(chosen[i - 1], i)
  BY <1>4
<1>7. Agenda(r)[0] = Base /\ \A i \in 1 .. Len(r.items) : Agenda(r)[i] = After(Agenda(r)[i - 1], i)
  <2>1. \A i \in 1 .. Len(r.items) : i \in 0 .. Len(r.items) /\ i # 0
    BY <1>1
  <2> QED BY <2>1, <1>1, <1>5, <1>6
<1> QED BY <1>7, Zenon DEF Base, After

(* The recursion of AvroBytes.                                             *)
LEMMA BytesUnfold ==
  ASSUME NEW r, Len(r.items) \in Nat
  PROVE  /\ AvroBytes(r)[0] = <<>>
         /\ \A i \in 1 .. Len(r.items) : AvroBytes(r)[i] = AvroBytes(r)[i - 1] \o Bytes(r.items[i], Head(Agenda(r)[i - 1]))
<1> DEFINE Base == <<>>
           After(l, i) == l \o Bytes(r.items[i], Head(Agenda(r)[i - 1]))
           Rec(f, m) == f = [i \in 0 .. m |-> IF i = 0 THEN Base ELSE After(f[i - 1], i)]
           G == {m \in 0 .. Len(r.items) : \E f : Rec(f, m)}
<1>1. Len(r.items) \in Nat /\ 0 \in 0 .. Len(r.items)
  OBVIOUS
<1> HIDE DEF Base, After
<1>2. \A i \in 0 .. Len(r.items) : i \in G
  <2>1. 0 \in G
    <3>1. Rec([i \in 0 .. 0 |-> Base], 0)
      OBVIOUS
    <3> QED BY <1>1, <3>1
  <2>2. ASSUME NEW m \in 0 .. Len(r.items) - 1, m \in G
        PROVE  m + 1 \in G
    <3>1. PICK f : Rec(f, m)
      BY <2>2
    <3> DEFINE g == [i \in 0 .. m + 1 |-> IF i = m + 1 THEN After(f[m], m + 1) ELSE f[i]]
    <3>2. \A i \in 0 .. m : f[i] = IF i = 0 THEN Base ELSE After(f[i - 1], i)
      BY <3>1
    <3>3. ASSUME NEW i \in 0 .. m + 1
          PROVE  g[i] = IF i = 0 THEN Base ELSE After(g[i - 1], i)
      <4>1. CASE i = m + 1
        <5>1. i # 0 /\ i - 1 = m /\ m \in 0 .. m + 1 /\ m # m + 1
          BY <4>1
        <5> QED BY <4>1, <5>1
      <4>2. CASE i \in 1 .. m
        <5>1. i # m + 1 /\ i - 1 \in 0 .. m + 1 /\ i - 1 # m + 1 /\ i \in 0 .. m /\ i # 0
          BY <4>2
        <5> QED BY <5>1, <3>2
      <4>3. CASE i = 0
        BY <4>3, <3>2
      <4> QED BY <4>1, <4>2, <4>3
    <3>4. g = [i \in 0 .. m + 1 |-> IF i = 0 THEN Base ELSE After(g[i - 1], i)]
      <4>1. g = [i \in 0 .. m + 1 |-> g[i]]
        OBVIOUS
      <4> HIDE DEF g
      <4> QED BY <3>3, <4>1
    <3> HIDE DEF g
    <3>5. m + 1 \in 0 .. Len(r.items)
      BY <1>1
    <3>6. Rec(g, m + 1)
      BY <3>4
    <3> QED BY <3>5, <3>6
  <2> HIDE DEF G
  <2> QED BY <1>1, <2>1, <2>2, Induction
<1>3. \E f : Rec(f, Len(r.items))
  <2>1. Len(r.items) \in 0 .. Len(r.items)
    BY <1>1
  <2> QED BY <1>2, <2>1
<1> DEFINE chosen == CHOOSE f : Rec(f, Len(r.items))
<1>4. Rec(chosen, Len(r.items))
  BY <1>3
<1>5. AvroBytes(r) = chosen
  BY DEF AvroBytes, Base, After
<1> HIDE DEF chosen
<1>6. \A i \in 0 .. Len(r.items) : chosen[i] = IF i = 0 THEN Base ELSE After(chosen[i - 1], i)
  BY <1>4
<1>7. AvroBytes(r)[0] = Base /\ \A i \in 1 .. Len(r.items) : AvroBytes(r)[i] = After(AvroBytes(r)[i - 1], i)
  <2>1. \A i \in 1 .. Len(r.items) : i \in 0 .. Len(r.items) /\ i # 0
    BY <1>1
  <2> QED BY <2>1, <1>1, <1>5, <1>6
<1> QED BY <1>7, Zenon DEF Base, After

(* The recursion of AvroRuns.                                              *)
LEMMA RunsUnfold ==
  ASSUME NEW w, NEW schema
  PROVE  /\ AvroRuns(w, schema)[0] = Reading(<<Ask(schema, FALSE)>>, 1, <<>>)
         /\ \A i \in 1 .. MaxItems : AvroRuns(w, schema)[i] = Advance(w, AvroRuns(w, schema)[i - 1])
<1> DEFINE Base == Reading(<<Ask(schema, FALSE)>>, 1, <<>>)
           After(l, i) == Advance(w, l)
           Rec(f, m) == f = [i \in 0 .. m |-> IF i = 0 THEN Base ELSE After(f[i - 1], i)]
           G == {m \in 0 .. MaxItems : \E f : Rec(f, m)}
<1>1. MaxItems \in Nat /\ 0 \in 0 .. MaxItems
  BY SerialAssumption
<1> HIDE DEF Base, After
<1>2. \A i \in 0 .. MaxItems : i \in G
  <2>1. 0 \in G
    <3>1. Rec([i \in 0 .. 0 |-> Base], 0)
      OBVIOUS
    <3> QED BY <1>1, <3>1
  <2>2. ASSUME NEW m \in 0 .. MaxItems - 1, m \in G
        PROVE  m + 1 \in G
    <3>1. PICK f : Rec(f, m)
      BY <2>2
    <3> DEFINE g == [i \in 0 .. m + 1 |-> IF i = m + 1 THEN After(f[m], m + 1) ELSE f[i]]
    <3>2. \A i \in 0 .. m : f[i] = IF i = 0 THEN Base ELSE After(f[i - 1], i)
      BY <3>1
    <3>3. ASSUME NEW i \in 0 .. m + 1
          PROVE  g[i] = IF i = 0 THEN Base ELSE After(g[i - 1], i)
      <4>1. CASE i = m + 1
        <5>1. i # 0 /\ i - 1 = m /\ m \in 0 .. m + 1 /\ m # m + 1
          BY <4>1
        <5> QED BY <4>1, <5>1
      <4>2. CASE i \in 1 .. m
        <5>1. i # m + 1 /\ i - 1 \in 0 .. m + 1 /\ i - 1 # m + 1 /\ i \in 0 .. m /\ i # 0
          BY <4>2
        <5> QED BY <5>1, <3>2
      <4>3. CASE i = 0
        BY <4>3, <3>2
      <4> QED BY <4>1, <4>2, <4>3
    <3>4. g = [i \in 0 .. m + 1 |-> IF i = 0 THEN Base ELSE After(g[i - 1], i)]
      <4>1. g = [i \in 0 .. m + 1 |-> g[i]]
        OBVIOUS
      <4> HIDE DEF g
      <4> QED BY <3>3, <4>1
    <3> HIDE DEF g
    <3>5. m + 1 \in 0 .. MaxItems
      BY <1>1
    <3>6. Rec(g, m + 1)
      BY <3>4
    <3> QED BY <3>5, <3>6
  <2> HIDE DEF G
  <2> QED BY <1>1, <2>1, <2>2, Induction
<1>3. \E f : Rec(f, MaxItems)
  <2>1. MaxItems \in 0 .. MaxItems
    BY <1>1
  <2> QED BY <1>2, <2>1
<1> DEFINE chosen == CHOOSE f : Rec(f, MaxItems)
<1>4. Rec(chosen, MaxItems)
  BY <1>3
<1>5. AvroRuns(w, schema) = chosen
  BY DEF AvroRuns, Base, After
<1> HIDE DEF chosen
<1>6. \A i \in 0 .. MaxItems : chosen[i] = IF i = 0 THEN Base ELSE After(chosen[i - 1], i)
  BY <1>4
<1>7. AvroRuns(w, schema)[0] = Base /\ \A i \in 1 .. MaxItems : AvroRuns(w, schema)[i] = After(AvroRuns(w, schema)[i - 1], i)
  <2>1. \A i \in 1 .. MaxItems : i \in 0 .. MaxItems /\ i # 0
    BY <1>1
  <2> QED BY <2>1, <1>1, <1>5, <1>6
<1> QED BY <1>7, Zenon DEF Base, After

(* One item is written and comes back exactly if Survives says so.         *)
LEMMA HeadSurvives ==
  ASSUME NEW item \in Items, format \in {"msgpack", "cbor"}
  PROVE  /\ HeadOf(item) = Refused => ~Survives(item)
         /\ HeadOf(item) # Refused => (ItemOf(HeadOf(item)) = item <=> Survives(item))
<1>0. Wide \in Int /\ Wide \div 2 \in Int /\ Safe \in Int
  BY WordAssumption DEF WordAssumption
<1>n. item.kind = "int" => item.n \in Int
  BY DEF Items, Sized, Doubles
<1>1. CASE format = "msgpack"
  <2> DEFINE kept == item.kind # "undefined" /\ ~(item.kind = "list" /\ item.n <= 15)
  <2>1. ItemOf(HeadOf(item)) = Unpack(Pack(item)) /\ HeadOf(item) = Pack(item)
    BY <1>1 DEF ItemOf, HeadOf
  <2>2. Survives(item) <=> kept /\ ~PastMessagePack(item)
    BY <1>0, <1>n, <1>1 DEF Survives, PastMessagePack
  <2>3. Pack(item) = Refused <=> PastMessagePack(item)
    BY MessagePackHeads
  <2>4. CASE item.kind = "undefined"
    <3>1. Unpack(Pack(item)).kind = "nil"
      BY <2>4, MessagePackHeads DEF Item
    <3> QED BY <2>1, <2>2, <2>4, <3>1
  <2>5. CASE item.kind = "list" /\ item.n <= 15
    <3>1. Unpack(Pack(item)) = Item("map", item.n)
      BY <2>5, MessagePackHeads
    <3>2. Unpack(Pack(item)).kind = "map"
      BY <3>1 DEF Item
    <3> QED BY <2>1, <2>2, <2>5, <3>2
  <2>6. CASE kept
    <3>1. ~PastMessagePack(item) => Unpack(Pack(item)) = item
      BY <2>6, MessagePackHeads
    <3> HIDE DEF kept
    <3> QED BY <2>1, <2>2, <2>3, <2>6, <3>1
  <2> QED BY <2>4, <2>5, <2>6
<1>2. CASE format = "cbor"
  <2> DEFINE kept == item.kind = "int" /\ item.n \in -2 * Safe .. -Safe => item.n % 4 = 0
  <2>1. ItemOf(HeadOf(item)) = Uncbor(Cbor(item)) /\ HeadOf(item) = Cbor(item)
    BY <1>2 DEF ItemOf, HeadOf
  <2>2. Survives(item) <=> item.kind # "float" /\ ~PastCbor(item) /\ kept
    BY <1>0, <1>n, <1>2 DEF Survives, PastCbor
  <2>3. CASE item.kind # "float"
    <3>1. /\ Cbor(item) = Refused <=> PastCbor(item)
          /\ ~PastCbor(item) => (Uncbor(Cbor(item)) = item <=> kept)
      BY <2>3, CborHeads
    <3> HIDE DEF kept
    <3> QED BY <2>1, <2>2, <2>3, <3>1
  <2>4. CASE item.kind = "float"
    <3>1. Cbor(item) = Chunk(251, item.n)
      BY <2>4 DEF Cbor
    <3>2. Chunk(251, item.n).token = 251 /\ Chunk(251, item.n).field = item.n
      BY DEF Chunk
    <3>3. 251 % 32 = 27 /\ 251 - 27 = 224
      OBVIOUS
    <3>4. Uncbor(Cbor(item)) = CborSimple(item.n)
      BY <3>1, <3>2, <3>3 DEF Uncbor
    <3>5. CborSimple(item.n).kind # "float"
      BY DEF CborSimple, Item
    <3>6. Cbor(item) # Refused
      BY <3>1, WrittenHead
    <3> HIDE DEF kept
    <3> QED BY <2>1, <2>2, <2>4, <3>4, <3>5, <3>6
  <2> QED BY <2>3, <2>4
<1> QED BY <1>1, <1>2

(* Nothing is left after the end of a value, and so there is one end only. *)
LEMMA OneEnd ==
  ASSUME NEW v \in Seq(Items), NEW n \in 1 .. Len(v), Closes(v, n), Closes(v, Len(v))
  PROVE  n = Len(v)
<1>1. Len(v) \in Nat
  OBVIOUS
<1> DEFINE left == Left(v)
<1>2. \A i \in 1 .. Len(v) : left[i] = IF left[i - 1] = 0 THEN 0 ELSE left[i - 1] - 1 + Parts(v[i])
  BY <1>1, LeftUnfolds
<1>3. left[n] = 0 /\ left[Len(v) - 1] > 0
  BY DEF Closes
<1> HIDE DEF left
<1> DEFINE G == {k \in 0 .. Len(v) - n : left[n + k] = 0}
<1>4. Len(v) - n \in Nat /\ n \in Nat
  BY <1>1
<1>5. 0 \in G
  BY <1>3, <1>4
<1>6. ASSUME NEW k \in 0 .. Len(v) - n - 1, k \in G
      PROVE  k + 1 \in G
  <2>1. n + (k + 1) \in 1 .. Len(v) /\ n + (k + 1) - 1 = n + k /\ k + 1 \in 0 .. Len(v) - n
    BY <1>4
  <2> QED BY <2>1, <1>2, <1>6
<1> HIDE DEF G
<1>7. \A k \in 0 .. Len(v) - n : k \in G
  BY <1>4, <1>5, <1>6, Induction
<1>8. CASE n # Len(v)
  <2>1. Len(v) - 1 - n \in 0 .. Len(v) - n /\ n + (Len(v) - 1 - n) = Len(v) - 1
    BY <1>1, <1>8
  <2>2. left[Len(v) - 1] = 0
    BY <2>1, <1>7 DEF G
  <2> QED BY <2>2, <1>3
<1> QED BY <1>8

(* A value that is written comes back exactly if all its items do, and one *)
(* that is not has an item that is lost.                                   *)
LEMMA ValueSurvives ==
  ASSUME NEW v \in Samples, format \in {"msgpack", "cbor"}
  PROVE  /\ Refuses(v) => ~(\A i \in DOMAIN v : Survives(v[i]))
         /\ ~Refuses(v) => (Read(Written(v)) = v <=> \A i \in DOMAIN v : Survives(v[i]))
<1>r. Refuses(v) => ~(\A i \in DOMAIN v : Survives(v[i]))
  <2> SUFFICES ASSUME Refuses(v) PROVE \E i \in DOMAIN v : ~Survives(v[i])
    OBVIOUS
  <2>1. PICK i \in DOMAIN v : HeadOf(v[i]) = Refused
    BY DEF Refuses
  <2>2. v \in Seq(Items)
    BY SerialAssumption
  <2>3. v[i] \in Items
    BY <2>1, <2>2
  <2> QED BY <2>1, <2>3, HeadSurvives
<1> SUFFICES ASSUME ~Refuses(v)
             PROVE  Read(Written(v)) = v <=> \A i \in DOMAIN v : Survives(v[i])
  BY <1>r
<1> DEFINE come == [i \in DOMAIN v |-> ItemOf(HeadOf(v[i]))]
           Ends(n) == n \in DOMAIN v /\ Closes(come, n)
<1>1. v \in Seq(Items) /\ v # <<>> /\ Closes(v, Len(v))
  BY SerialAssumption
<1>2. Len(v) \in Nat \ {0} /\ DOMAIN v = 1 .. Len(v) /\ v = [i \in 1 .. Len(v) |-> v[i]]
  BY <1>1
<1>3. \A i \in DOMAIN v : come[i] = v[i] <=> Survives(v[i])
  <2>1. \A i \in DOMAIN v : v[i] \in Items /\ HeadOf(v[i]) # Refused
    BY <1>1 DEF Refuses
  <2> QED BY <2>1, HeadSurvives
<1>4. Read(Written(v)) = IF \E n \in DOMAIN v : Closes(come, n)
                         THEN SubSeq(come, 1, CHOOSE n \in DOMAIN v : Closes(come, n)) ELSE <<Thrown>>
  <2>1. DOMAIN Written(v) = DOMAIN v /\ \A i \in DOMAIN v : Written(v)[i] = HeadOf(v[i])
    BY DEF Written
  <2>2. [i \in DOMAIN Written(v) |-> ItemOf(Written(v)[i])] = come
    BY <2>1
  <2> HIDE DEF come
  <2> QED BY <2>1, <2>2 DEF Read
<1>5. come \in Seq({come[i] : i \in DOMAIN v}) /\ Len(come) = Len(v)
  BY <1>2
<1>6. ASSUME \A i \in DOMAIN v : Survives(v[i])
      PROVE  Read(Written(v)) = v
  <2>1. come = v
    <3>1. \A i \in 1 .. Len(v) : come[i] = v[i]
      BY <1>2, <1>3, <1>6
    <3>2. come = [i \in 1 .. Len(v) |-> come[i]]
      BY <1>2
    <3> HIDE DEF come
    <3> QED BY <1>2, <3>1, <3>2
  <2> HIDE DEF come
  <2>2. Len(v) \in DOMAIN v /\ \A n \in DOMAIN v : Closes(v, n) => n = Len(v)
    BY <1>1, <1>2, OneEnd
  <2>3. (CHOOSE n \in DOMAIN v : Closes(v, n)) = Len(v)
    BY <1>1, <2>2
  <2>4. SubSeq(v, 1, Len(v)) = v
    BY <1>1
  <2> QED BY <1>1, <1>4, <2>1, <2>2, <2>3, <2>4
<1>7. ASSUME Read(Written(v)) = v, NEW i \in DOMAIN v
      PROVE  Survives(v[i])
  <2>1. \A item \in Items : item.kind # "thrown"
    BY DEF Items, Sized
  <2>2. <<Thrown>>[1].kind = "thrown" /\ v[1] \in Items
    BY <1>1, <1>2 DEF Thrown, Item
  <2>3. v # <<Thrown>>
    BY <2>1, <2>2
  <2> HIDE DEF come
  <2>4. PICK n \in DOMAIN v : v = SubSeq(come, 1, n)
    BY <1>4, <1>7, <2>3
  <2>5. n \in 1 .. Len(v)
    BY <1>2
  <2>6. Len(v) = n /\ \A k \in 1 .. n : v[k] = come[k]
    <3>1. Len(SubSeq(come, 1, n)) = n /\ \A k \in 1 .. n : SubSeq(come, 1, n)[k] = come[k]
      <4>1. PICK T : come \in Seq(T) /\ n \in 1 .. Len(come)
        BY <1>5, <2>5
      <4>2. \A s \in Seq(T), l \in Nat :
               l \in 1 .. Len(s) => Len(SubSeq(s, 1, l)) = l /\ \A k \in 1 .. l : SubSeq(s, 1, l)[k] = s[k]
        OBVIOUS
      <4>3. n \in Nat
        BY <2>5
      <4> QED BY <4>1, <4>2, <4>3, Zenon
    <3> QED BY <2>4, <3>1
  <2> QED BY <1>2, <1>3, <2>6
<1> QED BY <1>6, <1>7

(* What protobuf.ts makes of a field.                                      *)
Came(f) ==
    [number |-> Key(f) \div 8,
     type |-> CHOOSE ty \in DOMAIN WireType : WireType[ty] = Key(f) % 8,
     n |-> Payload(f)]

(* Numbers in terms of the sixteenth part of a word.                       *)
LEMMA WordFacts ==
  ASSUME NEW p, p = Word \div 16
  PROVE  /\ p \in Nat /\ p > 8192 /\ Word = 16 * p /\ Word \div 8 = 2 * p
         /\ MinInt32 = -8 * p /\ Int32 = -8 * p .. 8 * p - 1
<1>1. p \in Nat /\ p > 8191 /\ Word = 16 * p
  BY WordAssumption DEF WordAssumption
<1>2. p > 8192
  BY <1>1, WordAssumption DEF WordAssumption
<1>3. Word \div 8 = 2 * p /\ Word \div 2 = 8 * p
  BY <1>1
<1>4. MinInt32 = -8 * p
  BY <1>1, <1>3 DEF MinInt32
<1>5. Int32 = -8 * p .. 8 * p - 1
  BY <1>1, <1>4 DEF Int32
<1> QED BY <1>1, <1>2, <1>3, <1>4, <1>5

(* A varint is what was written if that is not negative and has 31 bits.   *)
LEMMA VarintBack ==
  ASSUME NEW n \in Int
  PROVE  /\ Varint(n) \in Int
         /\ Varint(n) = n <=> n \in 0 .. -MinInt32 - 1
<1> DEFINE p == Word \div 16
<1>1. p \in Nat /\ p > 8192 /\ MinInt32 = -8 * p /\ Int32 = -8 * p .. 8 * p - 1
  BY WordFacts
<1>2. Wrap(n) \in Int32 /\ (n \in Int32 => Wrap(n) = n)
  BY WrapFacts
<1> HIDE DEF p
<1>3. CASE n < 0
  BY <1>1, <1>3 DEF Varint
<1>4. CASE n \in 0 .. 8 * p - 1
  BY <1>1, <1>2, <1>4 DEF Varint
<1>5. CASE n >= 8 * p
  <2>1. n % 16384 \in 0 .. 16383
    OBVIOUS
  <2>2. CASE Wrap(n) < 0
    BY <1>1, <1>5, <2>1, <2>2 DEF Varint
  <2>3. CASE Wrap(n) >= 0
    <3>1. Varint(n) = Wrap(n)
      BY <1>1, <1>2, <1>5, <2>3 DEF Varint
    <3> QED BY <1>1, <1>2, <1>5, <3>1
  <2> QED BY <1>1, <1>2, <2>2, <2>3
<1> QED BY <1>1, <1>3, <1>4, <1>5

(* A key of at most 31 bits holds a number and a type, and a longer one    *)
(* holds neither.                                                          *)
LEMMA KeyBack ==
  ASSUME NEW f \in Fields
  PROVE  /\ f.number < Word \div 16 =>
              Key(f) \div 8 = f.number /\ (CHOOSE ty \in DOMAIN WireType : WireType[ty] = Key(f) % 8) = f.type
         /\ f.number >= Word \div 16 => Key(f) \div 8 # f.number
<1> DEFINE p == Word \div 16
           wt == WireType[f.type]
           number == f.number
           sum == 8 * number + wt
<1>1. p \in Nat /\ p > 8192 /\ Word = 16 * p /\ Word \div 8 = 2 * p /\ MinInt32 = -8 * p /\ Int32 = -8 * p .. 8 * p - 1
  BY WordFacts
<1>2. DOMAIN WireType = {"varint", "fixed64", "length_delimited", "fixed32"}
  BY DEF WireType
<1>3. f.type \in DOMAIN WireType /\ number \in 0 .. Word \div 8 - 1
  BY <1>2 DEF Fields
<1>4. wt \in 0 .. 5 /\ \A ty \in DOMAIN WireType : WireType[ty] = wt => ty = f.type
  BY <1>2, <1>3 DEF WireType
<1>5. (CHOOSE ty \in DOMAIN WireType : WireType[ty] = wt) = f.type
  <2>1. f.type \in DOMAIN WireType /\ WireType[f.type] = wt
    BY <1>3
  <2> HIDE DEF wt
  <2> QED BY <2>1, <1>4
<1>6. Key(f) = Varint(Wrap(sum))
  BY DEF Key
<1> HIDE DEF p, wt, number, sum
<1>7. number \in 0 .. 2 * p - 1
  BY <1>1, <1>3
<1>8. sum \in Int /\ sum = 8 * number + wt
  BY <1>4, <1>7 DEF sum
<1>9. /\ Wrap(sum) \in Int
      /\ sum \in -8 * p .. 8 * p - 1 => Wrap(sum) = sum
      /\ sum \in 8 * p .. 16 * p => Wrap(sum) = sum - 16 * p
  BY <1>1, <1>8, WrapFacts
<1>a. p \in Int /\ number \in Int /\ 0 <= number /\ number <= 2 * p - 1 /\ wt \in Int /\ 0 <= wt /\ wt <= 5
  BY <1>1, <1>4, <1>7
<1>b. number < p => 0 <= sum /\ sum <= 8 * p - 1
  BY <1>8, <1>a
<1>c. number >= p => 8 * p <= sum /\ sum <= 16 * p - 1
  BY <1>8, <1>a
<1>10. CASE number < p
  <2>1. sum \in 0 .. 8 * p - 1
    BY <1>8, <1>a, <1>b, <1>10
  <2>2. Wrap(sum) = sum
    BY <1>1, <1>9, <2>1
  <2>3. Varint(sum) = sum
    BY <1>1, <1>8, <2>1, VarintBack
  <2>4. sum \div 8 = number /\ sum % 8 = wt
    BY <1>4, <1>7, <1>8
  <2>5. Key(f) = sum
    BY <1>6, <2>2, <2>3
  <2> QED BY <1>1, <1>5, <1>7, <1>10, <2>4, <2>5 DEF number, p
<1>11. CASE number >= p
  <2>1. sum \in 8 * p .. 16 * p - 1
    BY <1>8, <1>a, <1>c, <1>11
  <2>2. Wrap(sum) = sum - 16 * p
    BY <1>1, <1>9, <2>1
  <2>3. Wrap(sum) < 0 /\ Wrap(sum) \in Int
    BY <1>1, <2>1, <2>2
  <2>4. Varint(Wrap(sum)) = Wrap(sum) % 128
    BY <2>3 DEF Varint
  <2>5. Key(f) \in 0 .. 127
    BY <1>6, <2>3, <2>4
  <2>6. Key(f) \div 8 <= 15
    BY <2>5
  <2>7. Key(f) \div 8 # number
    BY <1>1, <1>7, <1>11, <2>5, <2>6
  <2> QED BY <1>1, <1>7, <1>11, <2>7 DEF number, p
<1> QED BY <1>1, <1>7, <1>10, <1>11

(* One field comes back exactly if FieldSurvives says so.                  *)
LEMMA FieldBack ==
  ASSUME NEW f \in Fields
  PROVE  Came(f) = f <=> FieldSurvives(f)
<1> DEFINE type == CHOOSE ty \in DOMAIN WireType : WireType[ty] = Key(f) % 8
<1>0. Word \div 16 \in Int
  BY WordFacts
<1>1. f = [number |-> f.number, type |-> f.type, n |-> f.n] /\ f.number \in Nat
      /\ f.type \in {"varint", "fixed64", "length_delimited", "fixed32"} /\ f.n \in Int
      /\ (f.type = "length_delimited" => f.n \in 0 .. -MinInt32 - 1)
  BY WordFacts DEF Fields, Doubles
<1>2. /\ f.number < Word \div 16 => Key(f) \div 8 = f.number /\ type = f.type
      /\ f.number >= Word \div 16 => Key(f) \div 8 # f.number
  BY KeyBack
<1>3. Payload(f) = f.n <=> (/\ f.type = "varint" => f.n \in 0 .. -MinInt32 - 1
                            /\ f.type = "fixed32" => Single(f.n) = f.n)
  <2>1. Varint(f.n) = f.n <=> f.n \in 0 .. -MinInt32 - 1
    BY <1>1, VarintBack
  <2> QED BY <1>1, <2>1 DEF Payload
<1>4. Came(f) = [number |-> Key(f) \div 8, type |-> type, n |-> Payload(f)]
  BY DEF Came
<1> HIDE DEF type
<1>5. Came(f) = f <=> Key(f) \div 8 = f.number /\ type = f.type /\ Payload(f) = f.n
  <2>1. Came(f).number = Key(f) \div 8 /\ Came(f).type = type /\ Came(f).n = Payload(f)
    BY <1>4
  <2> QED BY <1>1, <1>4, <2>1
<1>6. Key(f) \div 8 = f.number /\ type = f.type <=> f.number < Word \div 16
  BY <1>0, <1>1, <1>2
<1> QED BY <1>3, <1>5, <1>6 DEF FieldSurvives

(* A message comes back exactly if all its fields do.                      *)
LEMMA MessageSurvives ==
  ASSUME NEW m \in Messages
  PROVE  Unproto(Proto(m)) = m <=> \A i \in DOMAIN m : FieldSurvives(m[i])
<1> DEFINE w == Proto(m)
<1>1. Len(m) \in Nat /\ DOMAIN m = 1 .. Len(m) /\ m = [i \in 1 .. Len(m) |-> m[i]]
     /\ \A i \in 1 .. Len(m) : m[i] \in Fields
  <2>1. m \in Seq(Fields)
    BY SerialAssumption
  <2> QED BY <2>1
<1>2. ASSUME NEW i \in 1 .. Len(m)
      PROVE  w[2 * i - 1] = Key(m[i]) /\ w[2 * i] = Payload(m[i])
  <2>1. 2 * i - 1 \in 1 .. 2 * Len(m) /\ 2 * i \in 1 .. 2 * Len(m)
    BY <1>1
  <2>2. (2 * i - 1 + 1) \div 2 = i /\ (2 * i + 1) \div 2 = i /\ (2 * i - 1) % 2 = 1 /\ (2 * i) % 2 # 1
    OBVIOUS
  <2> QED BY <2>1, <2>2 DEF Proto
<1>3. Len(w) = 2 * Len(m) /\ Len(w) \div 2 = Len(m)
  <2>1. DOMAIN w = 1 .. 2 * Len(m) /\ w = [i \in 1 .. 2 * Len(m) |-> w[i]]
    BY DEF Proto
  <2> HIDE DEF w
  <2> DEFINE N == 2 * Len(m)
  <2>2. N \in Nat /\ N \div 2 = Len(m)
    <3>1. \A k \in Nat : (2 * k) \div 2 = k
      OBVIOUS
    <3>2. (2 * Len(m)) \div 2 = Len(m)
      BY <1>1, <3>1, Zenon
    <3>3. N \in Nat
      BY <1>1
    <3> QED BY <3>2, <3>3, Zenon
  <2> HIDE DEF N
  <2>3. DOMAIN w = 1 .. N /\ w = [i \in 1 .. N |-> w[i]]
    BY <2>1 DEF N
  <2>4. w \in Seq({w[i] : i \in 1 .. N})
    BY <2>2, <2>3
  <2>5. Len(w) = N
    BY <2>2, <2>3, <2>4
  <2> QED BY <2>2, <2>5 DEF N
<1> HIDE DEF w
<1>4. Unproto(w) = [i \in 1 .. Len(m) |-> Came(m[i])]
  <2>1. \A i \in 1 .. Len(m) :
           [number |-> w[2 * i - 1] \div 8,
            type |-> CHOOSE ty \in DOMAIN WireType : WireType[ty] = w[2 * i - 1] % 8,
            n |-> w[2 * i]] = Came(m[i])
    BY <1>2, Zenon DEF Came
  <2>2. Unproto(w) = [i \in 1 .. Len(m) |->
                        [number |-> w[2 * i - 1] \div 8,
                         type |-> CHOOSE ty \in DOMAIN WireType : WireType[ty] = w[2 * i - 1] % 8,
                         n |-> w[2 * i]]]
    BY <1>3, Zenon DEF Unproto
  <2> QED BY <2>1, <2>2, Zenon
<1>5. Unproto(w) = m <=> \A i \in 1 .. Len(m) : Came(m[i]) = m[i]
  BY <1>1, <1>4
<1>6. \A i \in 1 .. Len(m) : Came(m[i]) = m[i] <=> FieldSurvives(m[i])
  BY <1>1, FieldBack
<1> QED BY <1>1, <1>5, <1>6 DEF w

\* What is asked for, and the pieces of what is written.
Asks == [type : Schemas, field : BOOLEAN]
Chunks == [token : {"number", "text"}, field : Int]

\* An item that is of the type asked for, and that the reader can tell.
Readable(item, a) ==
    /\ a \in Asks /\ OfType(item, a.type) /\ AvroSurvives(item, a)
    /\ item = Item(item.kind, item.n) /\ item.n \in Int
    /\ item.kind = "nil" => item.n = 0
    /\ item.kind = "bool" => item.n \in {0, 1}
    /\ item.kind \in {"text", "list", "object"} => item.n \in Nat
    /\ FirstOf(a.type).name = "record" => item.n = 0

\* An item of this kind is of the type with this name.
Fits(name, kind) ==
    \/ name = "null" /\ kind = "nil"
    \/ name = "boolean" /\ kind = "bool"
    \/ name = "long" /\ kind = "int"
    \/ name = "string" /\ kind = "text"
    \/ name = "array" /\ kind = "list"
    \/ name \in {"map", "record"} /\ kind = "object"

LEMMA SchemaFacts ==
  ASSUME NEW t \in Schemas
  PROVE  /\ t.name \in {"null", "boolean", "long", "string", "array", "map", "record", "union"}
         /\ t.of \in Seq(Schemas)
         /\ t.name \in {"array", "map", "union"} => t.of # <<>>
         /\ t.name = "union" => \A i \in DOMAIN t.of : t.of[i].name # "union"
  BY SerialAssumption

(* The branch that is written is the first, which is the one that is read. *)
LEMMA SameBranch ==
  ASSUME NEW item, NEW a \in Asks, OfType(item, a.type), AvroSurvives(item, a)
  PROVE  /\ Chosen(item, a.type) = FirstOf(a.type) /\ FirstOf(a.type) \in Schemas
         /\ Fits(FirstOf(a.type).name, item.kind)
<1> DEFINE t == a.type
<1>1. t \in Schemas
  BY DEF Asks
<1> HIDE DEF t
<1>2. CASE t.name = "union"
  <2>1. Matches(item, t.of[1])
    BY <1>2 DEF AvroSurvives, t
  <2>2. t.of \in Seq(Schemas) /\ t.of # <<>> /\ \A i \in DOMAIN t.of : t.of[i].name # "union"
    BY <1>1, <1>2, SchemaFacts
  <2> DEFINE First(k) == Matches(item, t.of[k]) /\ \A j \in 1 .. k - 1 : ~Matches(item, t.of[j])
  <2>3. 1 \in DOMAIN t.of /\ DOMAIN t.of \subseteq Nat \ {0} /\ t.of[1] \in Schemas
    BY <2>2
  <2>4. First(1)
    BY <2>1
  <2>5. ASSUME NEW k \in DOMAIN t.of, First(k)
        PROVE  k = 1
    <3>1. k # 1 => 1 \in 1 .. k - 1
      BY <2>3
    <3> QED BY <3>1, <2>1, <2>5
  <2>6. (CHOOSE k \in DOMAIN t.of : First(k)) = 1
    <3> HIDE DEF First
    <3> QED BY <2>3, <2>4, <2>5
  <2>7. Chosen(item, t) = t.of[1] /\ FirstOf(t) = t.of[1]
    BY <1>2, <2>6, Zenon DEF Chosen, FirstOf
  <2>8. t.of[1].name # "union"
    BY <2>2, <2>3
  <2>9. t.of[1].name \in {"map", "record"} => item.kind = "object"
    BY <1>2, <2>7 DEF OfType, t
  <2>10. Fits(t.of[1].name, item.kind)
    BY <2>1, <2>9 DEF Matches, Fits
  <2> QED BY <2>3, <2>7, <2>10 DEF t
<1>3. CASE t.name # "union"
  <2>1. Chosen(item, t) = t /\ FirstOf(t) = t
    BY <1>3 DEF Chosen, FirstOf
  <2>2. Matches(item, t) /\ (t.name \in {"map", "record"} => item.kind = "object")
    BY <1>3 DEF OfType, t
  <2>3. Fits(t.name, item.kind)
    BY <2>2 DEF Matches, Fits
  <2> QED BY <1>1, <2>1, <2>3 DEF t
<1> QED BY <1>2, <1>3

(* What a type asks for is asked for from the schemas.                     *)
LEMMA FollowsAsks ==
  ASSUME NEW t \in Schemas, NEW n \in Int, t.name \in {"array", "map"} => n \in Nat
  PROVE  Follows(t, n) \in Seq(Asks)
<1>1. t.of \in Seq(Schemas) /\ Text \in Schemas
  BY SchemaFacts, SerialAssumption
<1>2. \A u \in Schemas : Ask(u, TRUE) \in Asks /\ Ask(u, FALSE) \in Asks
  BY DEF Ask, Asks
<1>3. CASE t.name = "record"
  <2> DEFINE k == Len(t.of)
  <2>1. k \in Nat /\ DOMAIN t.of = 1 .. k /\ \A i \in 1 .. k : t.of[i] \in Schemas
    BY <1>1
  <2> HIDE DEF k
  <2> DEFINE e(i) == Ask(t.of[i], TRUE)
  <2>2. Follows(t, n) = [i \in 1 .. k |-> e(i)]
    BY <1>3, <2>1 DEF Follows
  <2>3. \A i \in 1 .. k : e(i) \in Asks
    BY <1>2, <2>1
  <2> HIDE DEF e
  <2> QED BY <2>1, <2>2, <2>3
<1>4. CASE t.name = "array"
  <2>1. t.of[1] \in Schemas /\ n \in Nat
    BY <1>1, <1>4, SchemaFacts
  <2> DEFINE e == Ask(t.of[1], FALSE)
  <2>2. e \in Asks
    BY <1>2, <2>1
  <2>3. Follows(t, n) = [i \in 1 .. n |-> e]
    BY <1>4 DEF Follows
  <2> HIDE DEF e
  <2> QED BY <2>1, <2>2, <2>3
<1>5. CASE t.name = "map"
  <2>1. t.of[1] \in Schemas /\ n \in Nat
    BY <1>1, <1>5, SchemaFacts
  <2> DEFINE k == 2 * n
             e(i) == Ask(IF i % 2 = 1 THEN Text ELSE t.of[1], FALSE)
  <2>2. k \in Nat
    BY <2>1
  <2>3. Follows(t, n) = [i \in 1 .. k |-> e(i)]
    BY <1>5 DEF Follows
  <2>4. \A i \in 1 .. k : e(i) \in Asks
    BY <1>1, <1>2, <2>1
  <2> HIDE DEF k, e
  <2> QED BY <2>2, <2>3, <2>4
<1>6. CASE t.name \notin {"record", "array", "map"}
  <2>1. Follows(t, n) = <<>>
    BY <1>6, Zenon DEF Follows
  <2> QED BY <2>1
<1> QED BY <1>3, <1>4, <1>5, <1>6

(* What is written of such an item.                                        *)
LEMMA BytesFacts ==
  ASSUME NEW item, NEW a, Readable(item, a), NEW t, t = FirstOf(a.type)
  PROVE  /\ Bytes(item, a) =
              IF t.name \in {"null", "record"} THEN <<>>
              ELSE IF t.name = "boolean" THEN <<Chunk("number", item.n)>>
              ELSE IF t.name = "string" /\ item.n # 0 THEN Long(item.n) \o <<Chunk("text", item.n)>>
              ELSE Long(item.n)
         /\ Behind(item, a) = Follows(t, item.n)
  BY SameBranch, Zenon DEF Bytes, Behind, Readable, AvroSurvives

(* Numbers and lengths of 31 bits come back, and so do the bytes of them.  *)
LEMMA LongBack ==
  ASSUME NEW n \in -(Word \div 4) .. (Word \div 4) - 1
  PROVE  \E u \in Int : Long(n) = <<Chunk("number", u)>> /\ UnZigZag(u) = n
<1>1. n \in Int32
  BY WordAssumption DEF WordAssumption, Int32, MinInt32
<1>2. UnZigZag(Varint(ZigZag(n))) = n
  BY <1>1, ZigZagExact
<1>3. ZigZag(n) \in Int
  <2>1. PICK d : d \in Int /\ d = 2 * n
    BY <1>1, WordFacts
  <2>2. Wrap(d) \in Int
    BY <2>1, WordFacts, WrapFacts
  <2> QED BY <2>1, <2>2 DEF ZigZag
<1>4. Varint(ZigZag(n)) \in Int
  BY <1>3, VarintBack
<1> QED BY <1>2, <1>4 DEF Long

(* The bytes of an item are pieces.                                        *)
LEMMA BytesChunks ==
  ASSUME NEW item, NEW a, Readable(item, a)
  PROVE  Bytes(item, a) \in Seq(Chunks)
<1> DEFINE t == FirstOf(a.type)
<1>1. /\ Bytes(item, a) =
              IF t.name \in {"null", "record"} THEN <<>>
              ELSE IF t.name = "boolean" THEN <<Chunk("number", item.n)>>
              ELSE IF t.name = "string" /\ item.n # 0 THEN Long(item.n) \o <<Chunk("text", item.n)>>
              ELSE Long(item.n)
      /\ item.n \in -(Word \div 4) .. (Word \div 4) - 1 /\ item.n \in Int
  BY BytesFacts DEF Readable, AvroSurvives
<1>2. PICK u \in Int : Long(item.n) = <<Chunk("number", u)>>
  BY <1>1, LongBack
<1> DEFINE number == Chunk("number", u)
           bit == Chunk("number", item.n)
           text == Chunk("text", item.n)
<1>3. number \in Chunks /\ bit \in Chunks /\ text \in Chunks
  BY <1>1 DEF Chunk, Chunks
<1> HIDE DEF number, bit, text
<1>4. <<>> \in Seq(Chunks) /\ <<bit>> \in Seq(Chunks) /\ <<number>> \in Seq(Chunks) /\ <<number>> \o <<text>> \in Seq(Chunks)
  BY <1>3
<1> QED BY <1>1, <1>2, <1>4, Zenon DEF number, bit, text

\* w has b at this place.
Holds(w, at, b) ==
    /\ at \in Nat \ {0} /\ at + Len(b) - 1 <= Len(w)
    /\ \A k \in 1 .. Len(b) : w[at + k - 1] = b[k]

(* The reader takes such an item from where it was written.                *)
LEMMA ItemRead ==
  ASSUME NEW item, NEW a, Readable(item, a), NEW w \in Seq(Chunks), NEW s, s.agenda # <<>>, Head(s.agenda) = a,
         Holds(w, s.at, Bytes(item, a))
  PROVE  Advance(w, s) = Reading(Behind(item, a) \o Tail(s.agenda), s.at + Len(Bytes(item, a)), Append(s.items, item))
<1> DEFINE t == FirstOf(a.type)
           b == Bytes(item, a)
           After(new, chunks) == Reading(Follows(t, new.n) \o Tail(s.agenda), s.at + chunks, Append(s.items, new))
<1>1. Fits(t.name, item.kind)
  BY SameBranch, Zenon DEF Readable
<1>2. /\ b = IF t.name \in {"null", "record"} THEN <<>>
              ELSE IF t.name = "boolean" THEN <<Chunk("number", item.n)>>
              ELSE IF t.name = "string" /\ item.n # 0 THEN Long(item.n) \o <<Chunk("text", item.n)>>
              ELSE Long(item.n)
      /\ Behind(item, a) = Follows(t, item.n)
  BY BytesFacts
<1>3. /\ item = Item(item.kind, item.n) /\ item.n \in -(Word \div 4) .. (Word \div 4) - 1 /\ item.n \in Int
      /\ item.kind = "nil" => item.n = 0
      /\ item.kind = "bool" => item.n \in {0, 1}
      /\ item.kind \in {"text", "list", "object"} => item.n \in Nat
      /\ t.name = "record" => item.n = 0
  BY DEF Readable, AvroSurvives
<1>4. Head(s.agenda).type = a.type
  OBVIOUS
<1>5. Len(w) \in Nat
  OBVIOUS
<1> HIDE DEF t, b
<1>6. SUFFICES Advance(w, s) = After(item, Len(b))
  BY <1>2 DEF b
<1>7. CASE t.name = "null" \/ t.name = "record"
  <2>1. b = <<>> /\ Len(b) = 0
    BY <1>2, <1>7
  <2>2. CASE t.name = "null"
    <3>1. item = Item("nil", 0)
      BY <1>1, <1>3, <2>2 DEF Fits
    <3>2. Advance(w, s) = After(Item("nil", 0), 0)
      BY <2>2, Zenon DEF Advance, t
    <3> QED BY <2>1, <3>1, <3>2
  <2>3. CASE t.name = "record"
    <3>1. item = Item("object", 0)
      BY <1>1, <1>3, <2>3 DEF Fits
    <3>2. Advance(w, s) = After(Item("object", 0), 0)
      BY <2>3, Zenon DEF Advance, t
    <3> QED BY <2>1, <3>1, <3>2
  <2> QED BY <1>7, <2>2, <2>3
<1>8. ASSUME NEW u \in Int, b # <<>>, b[1] = Chunk("number", u), b \in Seq(Chunks)
      PROVE  /\ s.at \in Nat \ {0} /\ ~(s.at > Len(w)) /\ w[s.at].token = "number" /\ w[s.at].field = u
             /\ Len(b) = 2 => s.at < Len(w) /\ w[s.at + 1] = b[2]
  <2>1. Len(b) \in Nat /\ Len(b) >= 1
    BY <1>8
  <2>2. s.at \in Nat \ {0} /\ s.at + Len(b) - 1 <= Len(w) /\ \A k \in 1 .. Len(b) : w[s.at + k - 1] = b[k]
    BY DEF Holds, b
  <2>3. s.at <= Len(w)
    BY <1>5, <2>1, <2>2
  <2>4. s.at + 1 - 1 = s.at /\ s.at + 2 - 1 = s.at + 1
    BY <2>2
  <2>5. w[s.at] = b[1] /\ (Len(b) = 2 => w[s.at + 1] = b[2] /\ s.at < Len(w))
    <3>1. 1 \in 1 .. Len(b) /\ (Len(b) = 2 => 2 \in 1 .. Len(b) /\ s.at < Len(w))
      <4>1. \A at, l, m \in Nat : at + l - 1 <= m /\ l = 2 => at < m
        OBVIOUS
      <4>2. Len(b) = 2 => s.at < Len(w)
        <5>1. s.at \in Nat
          BY <2>2
        <5> QED BY <4>1, <5>1, <2>1, <2>2, <1>5, Zenon
      <4>3. 1 \in 1 .. Len(b) /\ (Len(b) = 2 => 2 \in 1 .. Len(b))
        <5>1. \A l \in Nat : l >= 1 => 1 \in 1 .. l /\ (l = 2 => 2 \in 1 .. l)
          OBVIOUS
        <5> QED BY <5>1, <2>1, Zenon
      <4> QED BY <4>2, <4>3, Zenon
    <3>2. w[s.at + 1 - 1] = b[1] /\ (Len(b) = 2 => w[s.at + 2 - 1] = b[2])
      BY <2>2, <3>1, Zenon
    <3> QED BY <2>4, <3>1, <3>2, Zenon
  <2> QED BY <1>5, <1>8, <2>2, <2>3, <2>5 DEF Chunk
<1>9. CASE t.name = "boolean"
  <2>1. b = <<Chunk("number", item.n)>> /\ item.kind = "bool" /\ item.n \in {0, 1}
    BY <1>1, <1>2, <1>3, <1>9 DEF Fits
  <2>2. Chunk("number", item.n) \in Chunks
    BY <2>1 DEF Chunk, Chunks
  <2>3. b \in Seq(Chunks) /\ b # <<>> /\ b[1] = Chunk("number", item.n) /\ Len(b) = 1
    BY <2>1, <2>2
  <2>4. ~(s.at > Len(w)) /\ w[s.at].token = "number" /\ w[s.at].field = item.n
    BY <1>3, <1>8, <2>3
  <2>5. Advance(w, s) = After(Item("bool", IF item.n # 0 THEN 1 ELSE 0), 1)
    BY <1>9, <2>4, Zenon DEF Advance, t
  <2>6. item = Item("bool", IF item.n # 0 THEN 1 ELSE 0)
    BY <1>3, <2>1
  <2> QED BY <2>3, <2>5, <2>6
<1>10. CASE t.name \in {"long", "array", "map"}
  <2>1. PICK u \in Int : Long(item.n) = <<Chunk("number", u)>> /\ UnZigZag(u) = item.n
    BY <1>3, LongBack
  <2>2. Chunk("number", u) \in Chunks
    BY DEF Chunk, Chunks
  <2>3. b \in Seq(Chunks) /\ b # <<>> /\ b[1] = Chunk("number", u) /\ Len(b) = 1
    BY <1>2, <1>10, <2>1, <2>2
  <2>4. ~(s.at > Len(w)) /\ w[s.at].token = "number" /\ w[s.at].field = u
    BY <1>8, <2>3
  <2>5. CASE t.name = "long"
    <3>1. Advance(w, s) = After(Item("int", item.n), 1)
      BY <2>1, <2>4, <2>5, Zenon DEF Advance, t
    <3>2. item = Item("int", item.n)
      BY <1>1, <1>3, <2>5 DEF Fits
    <3> QED BY <2>3, <3>1, <3>2
  <2>6. CASE t.name = "array"
    <3>1. item = Item("list", item.n) /\ ~(item.n < 0)
      BY <1>1, <1>3, <2>6 DEF Fits
    <3>2. Advance(w, s) = After(Item("list", item.n), 1)
      BY <2>1, <2>4, <2>6, <3>1, Zenon DEF Advance, t
    <3> QED BY <2>3, <3>1, <3>2
  <2>7. CASE t.name = "map"
    <3>1. item = Item("object", item.n) /\ ~(item.n < 0)
      BY <1>1, <1>3, <2>7 DEF Fits
    <3>2. Advance(w, s) = After(Item("object", item.n), 1)
      BY <2>1, <2>4, <2>7, <3>1, Zenon DEF Advance, t
    <3> QED BY <2>3, <3>1, <3>2
  <2> QED BY <1>10, <2>5, <2>6, <2>7
<1>11. CASE t.name = "string"
  <2>1. PICK u \in Int : Long(item.n) = <<Chunk("number", u)>> /\ UnZigZag(u) = item.n
    BY <1>3, LongBack
  <2>2. Chunk("number", u) \in Chunks /\ Chunk("text", item.n) \in Chunks
    BY <1>3 DEF Chunk, Chunks
  <2>3. item = Item("text", item.n)
    BY <1>1, <1>3, <1>11 DEF Fits
  <2>4. CASE item.n = 0
    <3>1. b \in Seq(Chunks) /\ b # <<>> /\ b[1] = Chunk("number", u) /\ Len(b) = 1
      BY <1>2, <1>11, <2>1, <2>2, <2>4
    <3>2. ~(s.at > Len(w)) /\ w[s.at].token = "number" /\ w[s.at].field = u
      BY <1>8, <3>1
    <3>3. Advance(w, s) = After(Item("text", 0), 1)
      BY <2>1, <2>4, <3>2, <1>11, Zenon DEF Advance, t
    <3> QED BY <2>3, <2>4, <3>1, <3>3
  <2>5. CASE item.n # 0
    <3>1. b = <<Chunk("number", u)>> \o <<Chunk("text", item.n)>>
      BY <1>2, <1>11, <2>1, <2>5
    <3>2. b \in Seq(Chunks) /\ b # <<>> /\ b[1] = Chunk("number", u) /\ Len(b) = 2 /\ b[2] = Chunk("text", item.n)
      BY <3>1, <2>2
    <3>3. /\ ~(s.at > Len(w)) /\ w[s.at].token = "number" /\ w[s.at].field = u
          /\ s.at < Len(w) /\ w[s.at + 1] = Chunk("text", item.n)
      BY <1>8, <3>2
    <3>4. Advance(w, s) = After(Item("text", item.n), 2)
      BY <2>1, <2>5, <3>3, <1>11, Zenon DEF Advance, t
    <3> QED BY <2>3, <3>2, <3>4
  <2> QED BY <2>4, <2>5
<1> QED BY <1>1, <1>7, <1>9, <1>10, <1>11 DEF Fits

(* What WellTyped and Lossless say of each item, and of the agenda.        *)
LEMMA RecordFacts ==
  ASSUME NEW r \in Records, NEW n, n = Len(r.items),
         \A i \in DOMAIN r.items : AvroSurvives(r.items[i], Head(Agenda(r)[i - 1]))
  PROVE  /\ n \in Nat /\ n <= MaxItems /\ DOMAIN r.items = 1 .. n
         /\ r.items \in Seq([kind : {"nil", "bool", "int", "text", "list", "object"}, n : Int])
         /\ Agenda(r)[n] = <<>> /\ Agenda(r)[0] = <<Ask(r.schema, FALSE)>>
         /\ \A i \in 0 .. n : Agenda(r)[i] \in Seq(Asks)
         /\ \A i \in 1 .. n :
              /\ Agenda(r)[i - 1] # <<>> /\ Readable(r.items[i], Head(Agenda(r)[i - 1]))
              /\ Agenda(r)[i] = Behind(r.items[i], Head(Agenda(r)[i - 1])) \o Tail(Agenda(r)[i - 1])
<1> DEFINE agenda == Agenda(r)
           Kinds == {"nil", "bool", "int", "text", "list", "object"}
           AllItems == [kind : Kinds, n : Int]
<1>1. WellTyped(r)
  BY SerialAssumption
<1>2. /\ r.schema \in Schemas /\ n <= MaxItems /\ agenda[n] = <<>>
      /\ r.items \in Seq(AllItems)
  <2> DEFINE DoubleItems == [kind : Kinds, n : Doubles]
  <2>1. r.items \in Seq(DoubleItems)
    BY <1>1 DEF WellTyped
  <2>2. \A item \in DoubleItems : item \in AllItems
    BY DEF Doubles
  <2> HIDE DEF AllItems, DoubleItems
  <2>3. r.items \in Seq(AllItems)
    <3>1. Len(r.items) \in Nat /\ \A i \in 1 .. Len(r.items) : r.items[i] \in DoubleItems
      BY <2>1
    <3>2. r.items = [i \in 1 .. Len(r.items) |-> r.items[i]]
      BY <2>1
    <3>3. \A i \in 1 .. Len(r.items) : r.items[i] \in AllItems
      BY <2>2, <3>1
    <3> QED BY <3>1, <3>2, <3>3
  <2> QED BY <1>1, <2>3 DEF WellTyped
<1>3. n \in Nat /\ DOMAIN r.items = 1 .. n /\ \A i \in 1 .. n : r.items[i] \in AllItems
  <2> HIDE DEF AllItems
  <2> QED BY <1>2
<1>4. /\ agenda[0] = <<Ask(r.schema, FALSE)>>
      /\ \A i \in 1 .. n : agenda[i] = Behind(r.items[i], Head(agenda[i - 1])) \o Tail(agenda[i - 1])
  BY <1>3, AgendaUnfolds
<1>5. ASSUME NEW i \in 1 .. n
      PROVE  /\ agenda[i - 1] # <<>>
             /\ IsNull(r.items[i], Head(agenda[i - 1])) \/ OfType(r.items[i], Head(agenda[i - 1]).type)
             /\ r.items[i].kind = "nil" => r.items[i].n = 0
             /\ r.items[i].kind = "bool" => r.items[i].n \in {0, 1}
             /\ r.items[i].kind \in {"text", "list", "object"} => r.items[i].n \in Nat
             /\ Chosen(r.items[i], Head(agenda[i - 1]).type).name = "record" => r.items[i].n = 0
  BY <1>1, <1>3 DEF WellTyped
<1> HIDE DEF agenda
<1>6. ASSUME NEW i \in 1 .. n, agenda[i - 1] \in Seq(Asks)
      PROVE  Readable(r.items[i], Head(agenda[i - 1]))
  <2> DEFINE item == r.items[i]
             a == Head(agenda[i - 1])
  <2>1. a \in Asks
    BY <1>5, <1>6
  <2>2. AvroSurvives(item, a)
    BY <1>3 DEF agenda
  <2>3. item \in AllItems
    BY <1>3
  <2>4. /\ IsNull(item, a) \/ OfType(item, a.type)
        /\ item.kind = "nil" => item.n = 0
        /\ item.kind = "bool" => item.n \in {0, 1}
        /\ item.kind \in {"text", "list", "object"} => item.n \in Nat
        /\ Chosen(item, a.type).name = "record" => item.n = 0
    BY <1>5
  <2> HIDE DEF item, a
  <2>5. OfType(item, a.type)
    BY <2>2, <2>4 DEF AvroSurvives
  <2>6. FirstOf(a.type).name = "record" => item.n = 0
    BY <2>1, <2>2, <2>4, <2>5, SameBranch
  <2>7. item = Item(item.kind, item.n) /\ item.n \in Int
    BY <2>3 DEF Item
  <2> QED BY <2>1, <2>2, <2>4, <2>5, <2>6, <2>7 DEF Readable, item, a
<1> DEFINE G == {i \in 0 .. n : agenda[i] \in Seq(Asks)}
<1>7. 0 \in G
  <2> DEFINE first == Ask(r.schema, FALSE)
  <2>1. first \in Asks
    BY <1>2 DEF Ask, Asks
  <2>2. agenda[0] = <<first>>
    BY <1>4
  <2> HIDE DEF first
  <2>3. <<first>> \in Seq(Asks)
    BY <2>1
  <2>4. 0 \in 0 .. n
    BY <1>3
  <2>5. agenda[0] \in Seq(Asks)
    BY <2>2, <2>3, Zenon
  <2> QED BY <2>4, <2>5
<1>8. ASSUME NEW i \in 0 .. n - 1, i \in G
      PROVE  i + 1 \in G
  <2> DEFINE item == r.items[i + 1]
             a == Head(agenda[i])
  <2>1. i + 1 \in 1 .. n /\ (i + 1) - 1 = i /\ i + 1 \in 0 .. n
    BY <1>3
  <2>2. Readable(item, a) /\ agenda[i] # <<>> /\ agenda[i] \in Seq(Asks)
    BY <1>5, <1>6, <1>8, <2>1
  <2>3. agenda[i + 1] = Behind(item, a) \o Tail(agenda[i])
    BY <1>4, <2>1
  <2> DEFINE t == FirstOf(a.type)
  <2>4. t \in Schemas /\ Fits(t.name, item.kind)
    BY <2>2, SameBranch DEF Readable
  <2>5. item.n \in Int /\ (t.name \in {"array", "map"} => item.n \in Nat)
    BY <2>2, <2>4 DEF Readable, Fits
  <2>6. Behind(item, a) = Follows(t, item.n)
    BY <2>2, BytesFacts
  <2> HIDE DEF item, t
  <2>7. Follows(t, item.n) \in Seq(Asks)
    BY <2>4, <2>5, FollowsAsks
  <2>8. Tail(agenda[i]) \in Seq(Asks)
    BY <2>2
  <2> DEFINE rest == Tail(agenda[i])
             new == Behind(item, a)
  <2>9. new \in Seq(Asks) /\ rest \in Seq(Asks)
    BY <2>6, <2>7, <2>8
  <2> HIDE DEF rest, new
  <2>10. new \o rest \in Seq(Asks)
    BY <2>9
  <2>11. agenda[i + 1] \in Seq(Asks)
    BY <2>3, <2>10, Zenon DEF rest, new
  <2> QED BY <2>1, <2>11, Zenon
<1>9. \A i \in 0 .. n : i \in G
  <2> HIDE DEF G
  <2> QED BY <1>3, <1>7, <1>8, Induction
<1>10. \A i \in 1 .. n : i - 1 \in 0 .. n
  BY <1>3
<1> QED BY <1>2, <1>3, <1>4, <1>5, <1>6, <1>9, <1>10 DEF agenda

(* A record comes back if the reader can tell all its items.               *)
LEMMA RecordSurvives ==
  ASSUME NEW r \in Records,
         \A i \in DOMAIN r.items : AvroSurvives(r.items[i], Head(Agenda(r)[i - 1]))
  PROVE  AvroRead(AvroWritten(r), r.schema) = r.items
<1> DEFINE items == r.items
           n == Len(items)
           agenda == Agenda(r)
           bytes == AvroBytes(r)
           w == bytes[n]
           run == AvroRuns(w, r.schema)
           B(i) == Bytes(items[i], Head(agenda[i - 1]))
           Reached(i) == Reading(agenda[i], Len(bytes[i]) + 1, Prefix(items, i))
<1>1. /\ n \in Nat /\ n <= MaxItems
      /\ agenda[n] = <<>> /\ agenda[0] = <<Ask(r.schema, FALSE)>>
      /\ \A i \in 1 .. n :
            /\ agenda[i - 1] # <<>> /\ Readable(items[i], Head(agenda[i - 1]))
            /\ agenda[i] = Behind(items[i], Head(agenda[i - 1])) \o Tail(agenda[i - 1])
  BY RecordFacts
<1>2. Prefix(items, 0) = <<>> /\ Prefix(items, n) = items
      /\ \A i \in 0 .. n - 1 : Prefix(items, i + 1) = Append(Prefix(items, i), items[i + 1])
  <2> DEFINE AllItems == [kind : {"nil", "bool", "int", "text", "list", "object"}, n : Int]
  <2>1. items \in Seq(AllItems)
    BY RecordFacts
  <2> HIDE DEF AllItems, items
  <2> QED BY <2>1, PrefixFacts
<1>3. bytes[0] = <<>> /\ \A i \in 1 .. n : bytes[i] = bytes[i - 1] \o B(i)
  BY <1>1, BytesUnfold
<1>4. /\ run[0] = Reading(<<Ask(r.schema, FALSE)>>, 1, <<>>)
      /\ \A i \in 1 .. MaxItems : run[i] = Advance(w, run[i - 1])
  <2>1. \A v, t : /\ AvroRuns(v, t)[0] = Reading(<<Ask(t, FALSE)>>, 1, <<>>)
                  /\ \A i \in 1 .. MaxItems : AvroRuns(v, t)[i] = Advance(v, AvroRuns(v, t)[i - 1])
    BY RunsUnfold
  <2> HIDE DEF w
  <2> QED BY <2>1, Zenon
<1>5. \A i \in 1 .. n : B(i) \in Seq(Chunks)
  BY <1>1, BytesChunks
<1>6. AvroWritten(r) = w /\ AvroRead(w, r.schema) = run[MaxItems].items /\ MaxItems \in Nat
  BY SerialAssumption DEF AvroWritten, AvroRead
<1>7. \A i \in 0 .. n - 1 : i + 1 \in 1 .. n /\ (i + 1) - 1 = i /\ i + 1 \in 0 .. n
  BY <1>1
<1> HIDE DEF agenda, bytes, run, B, items, n
<1>8. \A i \in 0 .. n : bytes[i] \in Seq(Chunks)
  <2> DEFINE G == {i \in 0 .. n : bytes[i] \in Seq(Chunks)}
  <2>1. 0 \in G
    <3>1. 0 \in 0 .. n /\ <<>> \in Seq(Chunks)
      BY <1>1
    <3> QED BY <1>3, <3>1, Zenon
  <2>2. ASSUME NEW i \in 0 .. n - 1, i \in G
        PROVE  i + 1 \in G
    <3>1. bytes[i] \in Seq(Chunks) /\ B(i + 1) \in Seq(Chunks) /\ bytes[i + 1] = bytes[i] \o B(i + 1)
      BY <1>3, <1>5, <1>7, <2>2
    <3>2. bytes[i + 1] \in Seq(Chunks)
      BY <3>1
    <3> QED BY <1>7, <3>2
  <2> HIDE DEF G
  <2>3. \A i \in 0 .. n : i \in G
    BY <1>1, <2>1, <2>2, Induction
  <2> QED BY <2>3 DEF G
<1>9. ASSUME NEW i \in 0 .. n - 1
      PROVE  /\ Len(bytes[i]) \in Nat /\ Len(B(i + 1)) \in Nat /\ Len(bytes[i + 1]) = Len(bytes[i]) + Len(B(i + 1))
             /\ \A k \in 1 .. Len(bytes[i]) : bytes[i + 1][k] = bytes[i][k]
             /\ \A k \in 1 .. Len(B(i + 1)) : bytes[i + 1][Len(bytes[i]) + k] = B(i + 1)[k]
  <2>1. bytes[i] \in Seq(Chunks) /\ B(i + 1) \in Seq(Chunks) /\ bytes[i + 1] = bytes[i] \o B(i + 1)
    <3>1. i \in 0 .. n
      BY <1>1
    <3> QED BY <1>3, <1>5, <1>7, <1>8, <3>1
  <2> DEFINE x == bytes[i]
             y == B(i + 1)
             z == bytes[i + 1]
  <2>2. x \in Seq(Chunks) /\ y \in Seq(Chunks) /\ z = x \o y
    BY <2>1
  <2> HIDE DEF x, y, z
  <2>3. /\ Len(x) \in Nat /\ Len(y) \in Nat /\ Len(z) = Len(x) + Len(y)
        /\ \A k \in 1 .. Len(x) : z[k] = x[k]
        /\ \A k \in 1 .. Len(y) : z[Len(x) + k] = y[k]
    BY <2>2
  <2> QED BY <2>3, Zenon DEF x, y, z
<1> DEFINE Begins(b) == Len(b) <= Len(w) /\ \A k \in 1 .. Len(b) : w[k] = b[k]
<1>10. w \in Seq(Chunks) /\ Len(w) \in Nat
  <2>1. n \in 0 .. n
    BY <1>1
  <2>2. w \in Seq(Chunks)
    BY <1>8, <2>1
  <2> HIDE DEF w
  <2> QED BY <2>2
<1>11. \A i \in 0 .. n : Begins(bytes[i])
  <2> DEFINE G == {j \in 0 .. n : Begins(bytes[n - j])}
  <2>1. 0 \in G
    <3>1. n - 0 = n /\ 0 \in 0 .. n
      BY <1>1
    <3>2. Begins(w)
      BY <1>10
    <3> QED BY <3>1, <3>2
  <2>2. ASSUME NEW j \in 0 .. n - 1, j \in G
        PROVE  j + 1 \in G
    <3> DEFINE i == n - (j + 1)
    <3>1. i \in 0 .. n - 1 /\ i + 1 = n - j /\ j + 1 \in 0 .. n
      BY <1>1
    <3>2. Begins(bytes[i + 1])
      BY <2>2, <3>1
    <3> HIDE DEF i, w
    <3> DEFINE l == Len(bytes[i])
    <3>3. /\ l \in Nat /\ Len(B(i + 1)) \in Nat /\ Len(bytes[i + 1]) = l + Len(B(i + 1))
          /\ \A k \in 1 .. l : bytes[i + 1][k] = bytes[i][k]
      BY <1>9, <3>1
    <3>4. l <= Len(bytes[i + 1]) /\ 1 .. l \subseteq 1 .. Len(bytes[i + 1]) /\ Len(bytes[i + 1]) \in Nat
      <4> HIDE DEF l
      <4> QED BY <3>3
    <3>5. l <= Len(w)
      <4>1. \A p, q, m \in Nat : p <= q /\ q <= m => p <= m
        OBVIOUS
      <4> QED BY <4>1, <1>10, <3>2, <3>3, <3>4, Zenon
    <3>6. \A k \in 1 .. l : w[k] = bytes[i][k]
      BY <3>2, <3>3, <3>4, Zenon
    <3>7. Begins(bytes[i])
      BY <3>5, <3>6
    <3> QED BY <3>1, <3>7 DEF i
  <2> HIDE DEF G
  <2>3. \A j \in 0 .. n : j \in G
    BY <1>1, <2>1, <2>2, Induction
  <2>4. ASSUME NEW i \in 0 .. n
        PROVE  Begins(bytes[i])
    <3>1. n - i \in 0 .. n /\ n - (n - i) = i
      BY <1>1
    <3>2. Begins(bytes[n - (n - i)])
      BY <2>3, <3>1 DEF G
    <3> QED BY <3>1, <3>2, Zenon
  <2> QED BY <2>4
<1>12. ASSUME NEW i \in 0 .. n - 1
       PROVE  Holds(w, Len(bytes[i]) + 1, B(i + 1))
  <2> DEFINE l == Len(bytes[i])
             b == B(i + 1)
  <2>1. /\ l \in Nat /\ Len(b) \in Nat /\ Len(bytes[i + 1]) = l + Len(b)
        /\ \A k \in 1 .. Len(b) : bytes[i + 1][l + k] = b[k]
    BY <1>9
  <2>2. Begins(bytes[i + 1])
    BY <1>7, <1>11
  <2> HIDE DEF l, b, w
  <2>3. l + 1 \in Nat \ {0} /\ l + 1 + Len(b) - 1 <= Len(w)
    BY <1>10, <2>1, <2>2
  <2>4. ASSUME NEW k \in 1 .. Len(b)
        PROVE  w[l + 1 + k - 1] = b[k]
    <3>1. l + 1 + k - 1 = l + k /\ l + k \in 1 .. Len(bytes[i + 1])
      BY <2>1
    <3>2. w[l + k] = bytes[i + 1][l + k]
      BY <2>2, <3>1
    <3> QED BY <2>1, <3>1, <3>2, Zenon
  <2>5. Holds(w, l + 1, b)
    BY <2>3, <2>4 DEF Holds
  <2> QED BY <2>5 DEF l, b
<1> HIDE DEF w
<1>13. \A i \in 0 .. n : run[i] = Reached(i)
  <2> DEFINE G == {i \in 0 .. n : run[i] = Reached(i)}
  <2>1. 0 \in G
    <3>1. Len(bytes[0]) + 1 = 1 /\ 0 \in 0 .. n
      BY <1>1, <1>3
    <3> QED BY <1>1, <1>2, <1>4, <3>1
  <2>2. ASSUME NEW i \in 0 .. n - 1, i \in G
        PROVE  i + 1 \in G
    <3> DEFINE item == items[i + 1]
               a == Head(agenda[i])
               s == run[i]
               b == B(i + 1)
    <3>1. /\ agenda[i] # <<>> /\ Readable(item, a) /\ agenda[i + 1] = Behind(item, a) \o Tail(agenda[i])
          /\ b = Bytes(item, a)
      BY <1>1, <1>7 DEF B
    <3>2. s = Reached(i)
      BY <2>2
    <3>3. s.agenda = agenda[i] /\ s.at = Len(bytes[i]) + 1 /\ s.items = Prefix(items, i)
      BY <3>2 DEF Reading
    <3>4. run[i + 1] = Advance(w, s)
      <4>1. i + 1 \in 1 .. MaxItems /\ (i + 1) - 1 = i
        BY <1>1, <1>6
      <4> QED BY <1>4, <4>1
    <3>5. Holds(w, s.at, b)
      BY <1>12, <3>3
    <3> HIDE DEF item, s, b
    <3>6. Advance(w, s) = Reading(Behind(item, a) \o Tail(s.agenda), s.at + Len(b), Append(s.items, item))
      BY <1>10, <3>1, <3>3, <3>5, ItemRead
    <3>7. Len(bytes[i]) + 1 + Len(b) = Len(bytes[i + 1]) + 1
      <4>1. \A p, q \in Nat : p + 1 + q = (p + q) + 1
        OBVIOUS
      <4>2. Len(bytes[i]) \in Nat /\ Len(b) \in Nat /\ Len(bytes[i + 1]) = Len(bytes[i]) + Len(b)
        BY <1>9, Zenon DEF b
      <4>3. Len(bytes[i]) + 1 + Len(b) = (Len(bytes[i]) + Len(b)) + 1
        BY <4>1, <4>2, Zenon
      <4> QED BY <4>2, <4>3, Zenon
    <3>8. Prefix(items, i + 1) = Append(Prefix(items, i), item)
      BY <1>2 DEF item
    <3>9. run[i + 1] = Reached(i + 1)
      BY <3>1, <3>3, <3>4, <3>6, <3>7, <3>8, Zenon
    <3> QED BY <1>7, <3>9
  <2> HIDE DEF G
  <2>3. \A i \in 0 .. n : i \in G
    BY <1>1, <2>1, <2>2, Induction
  <2> QED BY <2>3 DEF G
<1>14. run[n].agenda = <<>> /\ run[n].items = items
  <2>1. n \in 0 .. n
    BY <1>1
  <2>2. run[n] = Reached(n)
    BY <1>13, <2>1
  <2> QED BY <1>1, <1>2, <2>2 DEF Reading
<1>15. run[MaxItems] = run[n]
  <2> DEFINE m == MaxItems - n
             G == {j \in 0 .. m : run[n + j] = run[n]}
  <2>1. m \in Nat /\ n + m = MaxItems /\ n + 0 = n
    BY <1>1, <1>6
  <2> HIDE DEF m
  <2>2. 0 \in G
    BY <2>1
  <2>3. ASSUME NEW j \in 0 .. m - 1, j \in G
        PROVE  j + 1 \in G
    <3> DEFINE p == n + (j + 1)
    <3>1. p \in 1 .. MaxItems /\ p - 1 = n + j /\ j + 1 \in 0 .. m
      BY <1>1, <1>6, <2>1
    <3>2. run[n + j] = run[n]
      BY <2>3
    <3> HIDE DEF p
    <3>3. run[p] = Advance(w, run[n])
      BY <1>4, <3>1, <3>2, Zenon
    <3>4. Advance(w, run[n]) = run[n]
      BY <1>14, Zenon DEF Advance
    <3>5. run[n + (j + 1)] = run[n]
      BY <3>3, <3>4 DEF p
    <3> QED BY <3>1, <3>5
  <2> HIDE DEF G
  <2>4. \A j \in 0 .. m : j \in G
    BY <2>1, <2>2, <2>3, Induction
  <2>5. m \in 0 .. m
    BY <2>1
  <2>6. run[n + m] = run[n]
    BY <2>4, <2>5 DEF G
  <2> QED BY <2>1, <2>6
<1> QED BY <1>6, <1>14, <1>15 DEF items

OfFormat ==
    \/ format \in {"msgpack", "cbor"} /\ value \in Samples
    \/ format = "avro" /\ value \in Records
    \/ format = "protobuf" /\ value \in Messages

\* What is on the wire is the value encoded, unless it is refused, and what
\* was decoded is that.
SerialInv ==
    /\ OfFormat
    /\ stage \in {"value", "wire", "decoded", "refused"}
    /\ stage = "refused" => Refuses(value)
    /\ stage \in {"wire", "decoded"} =>
        /\ ~Refuses(value)
        /\ wire = IF format = "avro" THEN AvroWritten(value)
                  ELSE IF format = "protobuf" THEN Proto(value) ELSE Written(value)
    /\ stage = "decoded" =>
        decoded = IF format = "avro" THEN AvroRead(wire, value.schema)
                  ELSE IF format = "protobuf" THEN Unproto(wire) ELSE Read(wire)

LEMMA SerialSteps == SerialInv /\ [SerialNext]_serialVars => SerialInv'
<1> SUFFICES ASSUME SerialInv, [SerialNext]_serialVars PROVE SerialInv'
  OBVIOUS
<1> DEFINE Sent == IF format = "avro" THEN AvroWritten(value)
                   ELSE IF format = "protobuf" THEN Proto(value) ELSE Written(value)
           Got == IF format = "avro" THEN AvroRead(wire, value.schema)
                  ELSE IF format = "protobuf" THEN Unproto(wire) ELSE Read(wire)
<1>1. UNCHANGED <<format, value>>
  BY DEF SerialNext, Encode, EncodeThrows, Decode, Again, serialVars
<1>2. UNCHANGED Sent
  BY <1>1 DEF Written, HeadOf
<1>3. UNCHANGED wire => UNCHANGED Got
  BY <1>1 DEF Read, Closes, Left, ItemOf
<1>4. UNCHANGED Refuses(value)
  BY <1>1 DEF Refuses, HeadOf
<1> HIDE DEF Sent, Got
<1>5. /\ stage' \in {"value", "wire", "decoded", "refused"}
      /\ stage' = "refused" => Refuses(value)
      /\ stage' \in {"wire", "decoded"} => ~Refuses(value) /\ wire' = Sent
      /\ stage' = "decoded" => decoded' = Got /\ UNCHANGED wire
  <2>1. CASE Encode
    BY <2>1 DEF Encode, Sent
  <2>2. CASE EncodeThrows
    BY <2>2 DEF EncodeThrows
  <2>3. CASE Decode
    BY <2>3 DEF Decode, SerialInv, Sent, Got
  <2>4. CASE Again
    BY <2>4 DEF Again
  <2>5. CASE UNCHANGED serialVars
    BY <2>5 DEF serialVars, SerialInv, Sent, Got
  <2> QED BY <2>1, <2>2, <2>3, <2>4, <2>5 DEF SerialNext
<1>6. /\ stage' = "refused" => Refuses(value)'
      /\ stage' \in {"wire", "decoded"} => ~Refuses(value)' /\ wire' = Sent'
      /\ stage' = "decoded" => decoded' = Got'
  BY <1>2, <1>3, <1>4, <1>5, Zenon
<1>7. OfFormat'
  BY <1>1 DEF SerialInv, OfFormat
<1> QED BY <1>5, <1>6, <1>7, Zenon DEF SerialInv, Sent, Got

(* msgpack.ts, cbor.ts, avro.ts, protobuf.ts: whatever Lossless does not   *)
(* except is written and comes back as it was; in the three other than     *)
(* Avro, nothing else does, and nothing else makes an encoder throw.       *)
THEOREM EncodingsComeBack == SerialSpec => []RoundTrip
<1>1. SerialInit => SerialInv
  BY DEF SerialInit, SerialInv, OfFormat
<1>2. SerialInv => RoundTrip
  <2> SUFFICES ASSUME SerialInv
               PROVE  /\ stage = "decoded" => (Lossless => Back) /\ (format # "avro" /\ Back => Lossless)
                      /\ stage = "refused" => ~Lossless
    BY DEF RoundTrip
  <2>1. CASE format \in {"msgpack", "cbor"} /\ value \in Samples
    <3>1. /\ stage = "decoded" => ~Refuses(value) /\ decoded = Read(Written(value))
          /\ stage = "refused" => Refuses(value)
          /\ Back <=> decoded = value
      BY <2>1 DEF SerialInv, Back
    <3>2. Lossless <=> \A i \in DOMAIN value : Survives(value[i])
      BY <2>1 DEF Lossless
    <3>3. /\ Refuses(value) => ~(\A i \in DOMAIN value : Survives(value[i]))
          /\ ~Refuses(value) => (Read(Written(value)) = value <=> \A i \in DOMAIN value : Survives(value[i]))
      BY <2>1, ValueSurvives
    <3> QED BY <3>1, <3>2, <3>3
  <2>2. CASE format = "avro" /\ value \in Records
    <3>1. /\ stage = "decoded" => decoded = AvroRead(AvroWritten(value), value.schema)
          /\ Back <=> decoded = value.items
          /\ stage # "refused"
      BY <2>2 DEF SerialInv, Back, Refuses
    <3>2. Lossless <=> \A i \in DOMAIN value.items : AvroSurvives(value.items[i], Head(Agenda(value)[i - 1]))
      BY <2>2 DEF Lossless
    <3>3. Lossless => AvroRead(AvroWritten(value), value.schema) = value.items
      BY <2>2, <3>2, RecordSurvives
    <3> QED BY <2>2, <3>1, <3>3
  <2>3. CASE format = "protobuf" /\ value \in Messages
    <3>1. /\ stage = "decoded" => decoded = Unproto(Proto(value))
          /\ Back <=> decoded = value
          /\ stage # "refused"
      BY <2>3 DEF SerialInv, Back, Refuses
    <3>2. Lossless <=> \A i \in DOMAIN value : FieldSurvives(value[i])
      BY <2>3 DEF Lossless
    <3>3. Unproto(Proto(value)) = value <=> \A i \in DOMAIN value : FieldSurvives(value[i])
      BY <2>3, MessageSurvives
    <3> QED BY <3>1, <3>2, <3>3
  <2> QED BY <2>1, <2>2, <2>3 DEF SerialInv, OfFormat
<1> QED BY <1>1, <1>2, SerialSteps, PTL DEF SerialSpec
-----------------------------------------------------------------------------
(***************************************************************************)
(* For every size of the buffer, any number of overlapping posts and any   *)
(* behaviour of the collector: no metric is in two places, and none is gone*)
(* that the collector did not accept or refuse.                            *)
(*                                                                         *)
(* Beside what ExportAccounted says the proof needs that a metric not yet  *)
(* pushed has no history, that one still kept was not refused, that        *)
(* DogStatsDExporter has nothing in flight, and where the order of the     *)
(* queue comes from: a batch put back goes before what was pushed since.   *)
(***************************************************************************)

ExportTypes ==
    /\ exporter \in {"otel", "dogstatsd"} /\ pushed \in 0 .. MaxMetrics
    /\ queue \in Seq(Metrics) /\ inFlight \in [Flights -> Seq(Metrics)]
    /\ accepted \in [Metrics -> 0 .. 2]
    /\ refused \subseteq Metrics /\ unanswered \subseteq Metrics
    /\ unsent \in BOOLEAN /\ overlapped \in BOOLEAN

\* Each metric is in one place, once.
Placed ==
    /\ IsInjective(queue) /\ \A f \in Flights : IsInjective(inFlight[f])
    /\ \A m \in Metrics : Kept(m) => m <= pushed
    /\ \A f \in Flights, m \in Metrics : Contains(inFlight[f], m) =>
        ~Contains(queue, m) /\ \A g \in Flights \ {f} : ~Contains(inFlight[g], m)

Answers == \A m \in Metrics :
    /\ m > pushed => accepted[m] = 0 /\ m \notin refused
    /\ m <= pushed /\ ~Kept(m) => accepted[m] > 0 \/ m \in refused
    /\ Kept(m) => m \notin refused
    /\ accepted[m] > 1 \/ (accepted[m] = 1 /\ (Kept(m) \/ m \in refused)) => m \in unanswered

Ordered == ~overlapped =>
    /\ Increases(queue)
    /\ \A f \in Flights : inFlight[f] # <<>> =>
        /\ Increases(inFlight[f] \o queue)
        /\ \A g \in Flights : inFlight[g] # <<>> => g = f

Lines == exporter = "dogstatsd" =>
    /\ unsent \/ Len(queue) < bufferSize
    /\ \A f \in Flights : inFlight[f] = <<>>

ExportInv == ExportTypes /\ Placed /\ Answers /\ Ordered /\ Lines

USE ExportAssumption DEF ExportAssumption

-----------------------------------------------------------------------------
(* Numbers that increase still do when a larger one follows, in front of   *)
(* which another sequence may stand.                                       *)
LEMMA IncreasesFurther ==
  ASSUME NEW b \in Seq(Metrics), NEW q \in Seq(Metrics), NEW e \in Metrics,
         Increases(b \o q), \A m : Contains(b, m) \/ Contains(q, m) => m < e
  PROVE  Increases(b \o Append(q, e))
<1> DEFINE s == b \o q
           t == b \o Append(q, e)
<1>1. s \in Seq(Metrics) /\ t \in Seq(Metrics) /\ Len(s) \in Nat /\ Len(t) = Len(s) + 1
  OBVIOUS
<1>2. t[Len(s) + 1] = e /\ \A i \in 1 .. Len(s) : t[i] = s[i]
  OBVIOUS
<1>3. \A m : Contains(s, m) => m < e
  BY ConcatContains
<1>4. Increases(s)
  OBVIOUS
<1> HIDE DEF s, t
<1>5. \A i \in 1 .. Len(s) : s[i] \in Metrics /\ s[i] < e
  BY <1>1, <1>3 DEF Contains
<1>6. ASSUME NEW i \in 1 .. Len(s) + 1, NEW j \in 1 .. Len(s) + 1, i < j
      PROVE  t[i] < t[j]
  <2>1. i \in 1 .. Len(s) /\ t[i] = s[i]
    BY <1>1, <1>2, <1>6
  <2>2. CASE j = Len(s) + 1
    BY <2>1, <2>2, <1>2, <1>5
  <2>3. CASE j # Len(s) + 1
    <3>1. j \in 1 .. Len(s) /\ t[j] = s[j]
      BY <2>3, <1>1, <1>2
    <3> QED BY <2>1, <3>1, <1>1, <1>4, <1>6 DEF Increases
  <2> QED BY <2>2, <2>3
<1>7. Increases(t)
  BY <1>1, <1>6 DEF Increases
<1> QED BY <1>7 DEF t

(* The list of no metrics.                                                 *)
LEMMA EmptyFacts ==
  /\ <<>> \in Seq(Metrics) /\ IsInjective(<<>>) /\ Increases(<<>>) /\ Len(<<>>) = 0
  /\ \A m : ~Contains(<<>>, m)
  /\ \A s \in Seq(Metrics) : <<>> \o s = s /\ s \o <<>> = s
<1>1. <<>> \in Seq(Metrics)
  OBVIOUS
<1>2. IsInjective(<<>>) /\ Increases(<<>>) /\ \A m : ~Contains(<<>>, m)
  BY DEF IsInjective, Increases, Contains
<1> QED BY <1>1, <1>2

(* What push() and flush() offer to the socket, or leave in the queue: all *)
(* there was, and the metric just pushed.                                  *)
Offer(lines) ==
    /\ lines \in Seq(Metrics) /\ IsInjective(lines)
    /\ pushed' \in pushed .. MaxMetrics
    /\ \A m \in Metrics : Contains(lines, m) <=> Contains(queue, m) \/ (pushed < m /\ m <= pushed')
    /\ \A f \in Flights : Increases(inFlight[f] \o queue) => Increases(inFlight[f] \o lines)
    /\ Increases(queue) => Increases(lines)

(* What Push, and what a flush, offers to be sent is what is placed, in    *)
(* its order.                                                              *)
LEMMA OfferMade ==
  ASSUME ExportInv,
         NEW lines,
         \/ lines = queue /\ pushed' = pushed
         \/ lines = Append(queue, pushed + 1) /\ pushed < MaxMetrics /\ pushed' = pushed + 1
  PROVE  Offer(lines)
<1> USE DEF ExportInv
<1>1. queue \in Seq(Metrics) /\ IsInjective(queue) /\ pushed \in 0 .. MaxMetrics
      /\ \A f \in Flights : inFlight[f] \in Seq(Metrics)
  BY DEF ExportTypes, Placed
<1>2. CASE lines = queue /\ pushed' = pushed
  <2>1. \A m \in Metrics : ~(pushed < m /\ m <= pushed')
    BY <1>1, <1>2 DEF Metrics
  <2> QED BY <1>1, <1>2, <2>1 DEF Offer
<1>3. CASE lines = Append(queue, pushed + 1) /\ pushed < MaxMetrics /\ pushed' = pushed + 1
  <2> DEFINE e == pushed + 1
  <2>1. e \in Metrics /\ pushed' \in pushed .. MaxMetrics
        /\ \A m \in Metrics : (pushed < m /\ m <= pushed') <=> m = e
    BY <1>1, <1>3 DEF Metrics
  <2>2. \A s \in Seq(Metrics) : \A m : Contains(s, m) => m \in Metrics
    BY DEF Contains
  <2>3. \A m : Contains(queue, m) => m < e
    BY <1>1, <2>2 DEF Placed, Kept, Metrics
  <2>4. \A f \in Flights : \A m : Contains(inFlight[f], m) => m < e
    BY <1>1, <2>2 DEF Placed, Kept, Metrics
  <2>5. ~Contains(queue, e)
    BY <1>1, <2>3
  <2> HIDE DEF e
  <2>6. /\ Append(queue, e) \in Seq(Metrics) /\ IsInjective(Append(queue, e))
        /\ \A d : Contains(Append(queue, e), d) <=> d = e \/ Contains(queue, d)
    BY <1>1, <2>1, <2>5, AppendContains
  <2>7. ASSUME NEW f \in Flights, Increases(inFlight[f] \o queue)
        PROVE  Increases(inFlight[f] \o Append(queue, e))
    BY <2>7, <1>1, <2>1, <2>3, <2>4, IncreasesFurther
  <2>8. ASSUME Increases(queue)
        PROVE  Increases(Append(queue, e))
    <3>1. Increases(<<>> \o queue) /\ \A m : Contains(<<>>, m) \/ Contains(queue, m) => m < e
      BY <2>8, <1>1, <2>3, EmptyFacts
    <3>2. Increases(<<>> \o Append(queue, e))
      BY <3>1, <1>1, <2>1, EmptyFacts, IncreasesFurther
    <3> QED BY <3>2, <2>6, EmptyFacts
  <2>9. lines = Append(queue, e)
    BY <1>3 DEF e
  <2> QED BY <2>1, <2>6, <2>7, <2>8, <2>9 DEF Offer
<1> QED BY <1>2, <1>3

(* The queue is left with what was offered.                                *)
LEMMA QueueGrows ==
  ASSUME ExportInv, NEW lines, Offer(lines), queue' = lines,
         UNCHANGED <<exporter, inFlight, accepted, refused, unanswered, overlapped>>,
         unsent' \in BOOLEAN, exporter = "dogstatsd" => unsent' \/ Len(lines) < bufferSize
  PROVE  ExportInv'
<1> USE DEF ExportInv, Offer
<1>1. \A m \in Metrics : Kept(m)' <=> Kept(m) \/ (pushed < m /\ m <= pushed')
  BY DEF Kept
<1>2. pushed \in Nat /\ pushed' \in Nat /\ pushed <= pushed' /\ pushed' \in 0 .. MaxMetrics
  BY DEF ExportTypes
<1>3. ExportTypes'
  BY <1>2 DEF ExportTypes
<1>4. \A m \in Metrics : Kept(m) => m <= pushed
  BY DEF Placed
<1>5. \A m \in Metrics : Kept(m)' => m <= pushed'
  BY <1>1, <1>2, <1>4 DEF Metrics
<1>6. Placed'
  <2>1. ASSUME NEW f \in Flights, NEW m \in Metrics, Contains(inFlight[f], m)
        PROVE  ~Contains(lines, m) /\ \A g \in Flights \ {f} : ~Contains(inFlight[g], m)
    <3>1. Kept(m)
      BY <2>1 DEF Kept
    <3>2. ~(pushed < m /\ m <= pushed')
      BY <3>1, <1>2, <1>4 DEF Metrics
    <3> QED BY <2>1, <3>2 DEF Placed
  <2> QED BY <2>1, <1>5 DEF Placed
<1>7. Answers'
  <2> SUFFICES ASSUME NEW m \in Metrics
               PROVE  /\ m > pushed' => accepted[m] = 0 /\ m \notin refused
                      /\ m <= pushed' /\ ~Kept(m)' => accepted[m] > 0 \/ m \in refused
                      /\ Kept(m)' => m \notin refused
                      /\ accepted[m] > 1 \/ (accepted[m] = 1 /\ (Kept(m)' \/ m \in refused)) => m \in unanswered
    BY DEF Answers
  <2>1. /\ m > pushed => accepted[m] = 0 /\ m \notin refused
        /\ m <= pushed /\ ~Kept(m) => accepted[m] > 0 \/ m \in refused
        /\ Kept(m) => m \notin refused
        /\ accepted[m] > 1 \/ (accepted[m] = 1 /\ (Kept(m) \/ m \in refused)) => m \in unanswered
    BY DEF Answers
  <2>2. m \in Nat
    BY DEF Metrics
  <2> QED BY <2>1, <2>2, <1>1, <1>2
<1>8. Ordered'
  BY DEF Ordered
<1>9. Lines'
  BY DEF Lines
<1> QED BY <1>3, <1>6, <1>7, <1>8, <1>9

(* DogStatsDExporter's socket takes or refuses all that is offered.        *)
LEMMA SendKeeps ==
  ASSUME ExportInv, NEW lines, Offer(lines), Send(lines), exporter = "dogstatsd",
         UNCHANGED <<exporter, inFlight, refused, unanswered, overlapped>>
  PROVE  ExportInv'
<1>1. CASE queue' = lines /\ unsent' = (unsent \/ lines # <<>>) /\ UNCHANGED accepted
  <2>1. unsent' \in BOOLEAN /\ (unsent' \/ Len(lines) < bufferSize)
    <3>1. unsent \in BOOLEAN
      BY DEF ExportInv, ExportTypes
    <3>2. CASE lines = <<>>
      BY <1>1, <3>1, <3>2, EmptyFacts
    <3>3. CASE lines # <<>>
      BY <1>1, <3>1, <3>3
    <3> QED BY <3>2, <3>3
  <2> QED BY <2>1, <1>1, QueueGrows
<1>2. CASE queue' = <<>> /\ accepted' = Taken(lines) /\ unsent' = FALSE
  <2> USE DEF ExportInv, Offer
  <2>1. \A f \in Flights : inFlight[f] = <<>>
    BY DEF Lines
  <2>2. \A m \in Metrics : ~Kept(m)' /\ (Kept(m) <=> Contains(queue, m))
    BY <1>2, <2>1, EmptyFacts DEF Kept
  <2>3. pushed \in Nat /\ pushed' \in Nat /\ pushed <= pushed' /\ pushed' \in 0 .. MaxMetrics
    BY DEF ExportTypes
  <2>4. accepted' \in [Metrics -> 0 .. 2]
        /\ \A m \in Metrics : accepted'[m] = IF Contains(lines, m) /\ accepted[m] < 2 THEN accepted[m] + 1 ELSE accepted[m]
    BY <1>2 DEF Taken, ExportTypes
  <2>5. ExportTypes'
    <3>1. queue' \in Seq(Metrics) /\ unsent' \in BOOLEAN
      BY <1>2, EmptyFacts
    <3> QED BY <2>3, <2>4, <3>1 DEF ExportTypes
  <2>6. Placed' /\ Ordered' /\ Lines'
    BY <1>2, <2>1, <2>2, EmptyFacts DEF Placed, Ordered, Lines
  <2>7. Answers'
    <3> SUFFICES ASSUME NEW m \in Metrics
                 PROVE  /\ m > pushed' => accepted'[m] = 0 /\ m \notin refused
                        /\ m <= pushed' => accepted'[m] > 0 \/ m \in refused
                        /\ accepted'[m] > 1 \/ (accepted'[m] = 1 /\ m \in refused) => m \in unanswered
      BY <2>2 DEF Answers
    <3>1. /\ m > pushed => accepted[m] = 0 /\ m \notin refused
          /\ m <= pushed /\ ~Contains(queue, m) => accepted[m] > 0 \/ m \in refused
          /\ Contains(queue, m) => m \notin refused
          /\ accepted[m] > 1 \/ (accepted[m] = 1 /\ (Contains(queue, m) \/ m \in refused)) => m \in unanswered
      BY <2>2 DEF Answers
    <3>2. m \in Nat /\ accepted[m] \in 0 .. 2
      BY DEF Metrics, ExportTypes
    <3>3. Contains(queue, m) => m <= pushed
      BY <2>2 DEF Placed
    <3>4. Contains(lines, m) <=> Contains(queue, m) \/ (pushed < m /\ m <= pushed')
      OBVIOUS
    <3>5. accepted'[m] = IF Contains(lines, m) /\ accepted[m] < 2 THEN accepted[m] + 1 ELSE accepted[m]
      BY <2>4
    <3> HIDE DEF Offer, ExportInv
    <3> QED BY <2>3, <3>1, <3>2, <3>3, <3>4, <3>5
  <2> QED BY <2>5, <2>6, <2>7
<1> QED BY <1>1, <1>2 DEF Send

(* flush() moves the queue into a batch.                                   *)
LEMMA PostKeeps ==
  ASSUME ExportInv, NEW f \in Flights, Post(f)
  PROVE  ExportInv'
<1> USE DEF ExportInv
<1>1. /\ exporter = "otel" /\ inFlight[f] = <<>> /\ queue' = <<>> /\ inFlight' = [inFlight EXCEPT ![f] = queue]
      /\ overlapped' = (overlapped \/ \E g \in Flights : inFlight[g] # <<>>)
      /\ UNCHANGED <<exporter, pushed, accepted, refused, unanswered, unsent>>
  BY DEF Post
<1>2. /\ queue \in Seq(Metrics) /\ inFlight \in [Flights -> Seq(Metrics)] /\ inFlight'[f] = queue
      /\ \A g \in Flights \ {f} : inFlight'[g] = inFlight[g]
  BY <1>1 DEF ExportTypes
<1>3. \A m \in Metrics : Kept(m)' <=> Kept(m)
  BY <1>1, <1>2, EmptyFacts DEF Kept
<1>4. ExportTypes'
  <2>1. overlapped' \in BOOLEAN
    <3>1. (\E g \in Flights : inFlight[g] # <<>>) \in BOOLEAN
      OBVIOUS
    <3>2. CASE \E g \in Flights : inFlight[g] # <<>>
      BY <1>1, <3>2
    <3>3. CASE ~\E g \in Flights : inFlight[g] # <<>>
      BY <1>1, <3>3 DEF ExportTypes
    <3> QED BY <3>2, <3>3
  <2> QED BY <2>1, <1>1, <1>2, EmptyFacts DEF ExportTypes
<1>5. Placed'
  <2>1. IsInjective(queue') /\ \A g \in Flights : IsInjective(inFlight'[g])
    BY <1>1, <1>2, EmptyFacts DEF Placed
  <2>2. ASSUME NEW g \in Flights, NEW m \in Metrics, Contains(inFlight'[g], m)
        PROVE  ~Contains(queue', m) /\ \A h \in Flights \ {g} : ~Contains(inFlight'[h], m)
    <3>1. ~Contains(queue', m)
      BY <1>1, EmptyFacts
    <3>2. CASE g = f
      BY <2>2, <3>1, <3>2, <1>2 DEF Placed
    <3>3. CASE g # f
      BY <2>2, <3>1, <3>3, <1>2 DEF Placed
    <3> QED BY <3>2, <3>3
  <2> QED BY <2>1, <2>2, <1>1, <1>3 DEF Placed
<1>6. Answers'
  BY <1>1, <1>3 DEF Answers
<1>7. Ordered'
  <2> SUFFICES ASSUME ~overlapped'
               PROVE  Ordered'
    BY DEF Ordered
  <2>1. Increases(queue) /\ \A g \in Flights \ {f} : inFlight'[g] = <<>>
    BY <1>1, <1>2 DEF Ordered
  <2>2. inFlight'[f] \o queue' = queue
    BY <1>1, <1>2, EmptyFacts
  <2> QED BY <2>1, <2>2, <1>1, EmptyFacts DEF Ordered
<1>8. Lines'
  BY <1>1 DEF Lines
<1> QED BY <1>4, <1>5, <1>6, <1>7, <1>8

(* A batch whose answer is in, or whose time is over: its metrics go back  *)
(* to the front of the queue, or are counted as accepted or refused.       *)
Settled(f) ==
    /\ inFlight[f] # <<>> /\ inFlight' = [inFlight EXCEPT ![f] = <<>>]
    /\ UNCHANGED <<exporter, pushed, unsent, overlapped>>

(* A batch that is settled leaves its flight; its metrics were in it       *)
(* alone.                                                                  *)
LEMMA BatchFacts ==
  ASSUME ExportInv, NEW f \in Flights, Settled(f)
  PROVE  /\ exporter = "otel"
         /\ inFlight[f] \in Seq(Metrics) /\ IsInjective(inFlight[f]) /\ inFlight' \in [Flights -> Seq(Metrics)]
         /\ inFlight'[f] = <<>> /\ \A g \in Flights \ {f} : inFlight'[g] = inFlight[g]
         /\ \A m \in Metrics : Contains(inFlight[f], m) =>
              Kept(m) /\ ~Contains(queue, m) /\ \A g \in Flights : ~Contains(inFlight'[g], m)
         /\ \A m \in Metrics : Kept(m) <=>
              Contains(queue, m) \/ Contains(inFlight[f], m) \/ \E g \in Flights : Contains(inFlight'[g], m)
         /\ \A m : Contains(inFlight[f], m) => m \in Metrics
<1> USE DEF ExportInv
<1>1. inFlight \in [Flights -> Seq(Metrics)] /\ inFlight' = [inFlight EXCEPT ![f] = <<>>]
      /\ inFlight[f] # <<>> /\ exporter \in {"otel", "dogstatsd"}
  BY DEF Settled, ExportTypes
<1>2. inFlight' \in [Flights -> Seq(Metrics)]
  BY <1>1, EmptyFacts
<1>3. inFlight'[f] = <<>> /\ \A g \in Flights \ {f} : inFlight'[g] = inFlight[g]
  BY <1>1
<1>4. exporter = "otel" /\ IsInjective(inFlight[f])
  BY <1>1 DEF Lines, Placed
<1>5. ASSUME NEW m \in Metrics, Contains(inFlight[f], m)
      PROVE  Kept(m) /\ ~Contains(queue, m) /\ \A g \in Flights : ~Contains(inFlight'[g], m)
  BY <1>3, <1>5, EmptyFacts DEF Placed, Kept
<1>6. ASSUME NEW m \in Metrics
      PROVE  Kept(m) <=> \/ Contains(queue, m) \/ Contains(inFlight[f], m)
                         \/ \E g \in Flights : Contains(inFlight'[g], m)
  BY <1>3, EmptyFacts DEF Kept
<1>7. \A m : Contains(inFlight[f], m) => m \in Metrics
  BY <1>1 DEF Contains
<1> QED BY <1>1, <1>2, <1>3, <1>4, <1>5, <1>6, <1>7

(* What was accepted once may be accepted again.                           *)
LEMMA TakenFacts ==
  ASSUME ExportTypes, NEW b, accepted' = Taken(b)
  PROVE  /\ accepted' \in [Metrics -> 0 .. 2]
         /\ \A m \in Metrics : IF Contains(b, m)
                               THEN accepted'[m] > 0 /\ (accepted'[m] > 1 => accepted[m] > 0)
                               ELSE accepted'[m] = accepted[m]
<1>1. accepted \in [Metrics -> 0 .. 2]
  BY DEF ExportTypes
<1>2. accepted' = [m \in Metrics |-> IF Contains(b, m) /\ accepted[m] < 2 THEN accepted[m] + 1 ELSE accepted[m]]
  BY DEF Taken
<1>3. \A m \in Metrics : (IF Contains(b, m) /\ accepted[m] < 2 THEN accepted[m] + 1 ELSE accepted[m]) \in 0 .. 2
  BY <1>1
<1>4. ASSUME NEW m \in Metrics
      PROVE  IF Contains(b, m)
             THEN accepted'[m] > 0 /\ (accepted'[m] > 1 => accepted[m] > 0)
             ELSE accepted'[m] = accepted[m]
  BY <1>1, <1>2
<1> QED BY <1>2, <1>3, <1>4

(* An answer of the collector keeps the invariant.                         *)
LEMMA PostAnsweredKeeps ==
  ASSUME ExportInv, NEW f \in Flights, PostAnswered(f)
  PROVE  ExportInv'
<1> DEFINE batch == inFlight[f]
<1>1. /\ Settled(f) /\ UNCHANGED <<queue, unanswered>>
      /\ \/ accepted' = Taken(batch) /\ UNCHANGED refused
         \/ refused' = refused \cup ToSet(batch) /\ UNCHANGED accepted
  BY DEF PostAnswered, Settled
<1>2. /\ exporter = "otel" /\ inFlight' \in [Flights -> Seq(Metrics)]
      /\ batch \in Seq(Metrics) /\ inFlight'[f] = <<>> /\ \A g \in Flights \ {f} : inFlight'[g] = inFlight[g]
      /\ \A m \in Metrics : Contains(batch, m) =>
           Kept(m) /\ ~Contains(queue, m) /\ \A g \in Flights : ~Contains(inFlight'[g], m)
      /\ \A m \in Metrics : Kept(m) <=>
           Contains(queue, m) \/ Contains(batch, m) \/ \E g \in Flights : Contains(inFlight'[g], m)
      /\ \A m : Contains(batch, m) => m \in Metrics
  BY <1>1, BatchFacts
<1> HIDE DEF batch
<1> USE DEF ExportInv
<1>3. \A m \in Metrics : Kept(m)' <=> Kept(m) /\ ~Contains(batch, m)
  BY <1>1, <1>2 DEF Kept
<1>4. /\ accepted' \in [Metrics -> 0 .. 2] /\ refused' \subseteq Metrics
      /\ \A m \in Metrics :
           IF Contains(batch, m)
           THEN \/ m \in refused' /\ accepted'[m] = accepted[m]
                \/ accepted'[m] > 0 /\ (accepted'[m] > 1 => accepted[m] > 0) /\ (m \in refused' <=> m \in refused)
           ELSE accepted'[m] = accepted[m] /\ (m \in refused' <=> m \in refused)
  <2>1. CASE accepted' = Taken(batch) /\ UNCHANGED refused
    BY <2>1, TakenFacts DEF ExportTypes
  <2>2. CASE refused' = refused \cup ToSet(batch) /\ UNCHANGED accepted
    <3>1. \A m : m \in ToSet(batch) <=> Contains(batch, m)
      BY <1>2 DEF ToSet, Contains
    <3> QED BY <2>2, <3>1, <1>2 DEF ExportTypes
  <2> QED BY <2>1, <2>2, <1>1
<1>5. ExportTypes'
  BY <1>1, <1>2, <1>4 DEF ExportTypes, Settled
<1>6. Placed'
  <2>1. \A g \in Flights : IsInjective(inFlight'[g])
    BY <1>2, EmptyFacts DEF Placed
  <2>2. \A g \in Flights : \A m : Contains(inFlight'[g], m) => g # f /\ inFlight'[g] = inFlight[g]
    BY <1>2, EmptyFacts
  <2>3. IsInjective(queue') /\ queue' = queue /\ pushed' = pushed
    BY <1>1 DEF Placed, Settled
  <2>4. \A m \in Metrics : Kept(m)' => m <= pushed'
    BY <2>3, <1>3 DEF Placed
  <2>5. \A g \in Flights, m \in Metrics : Contains(inFlight'[g], m) =>
            ~Contains(queue', m) /\ \A h \in Flights \ {g} : ~Contains(inFlight'[h], m)
    <3> SUFFICES ASSUME NEW g \in Flights, NEW m \in Metrics, Contains(inFlight'[g], m)
                 PROVE  ~Contains(queue, m) /\ \A h \in Flights \ {g} : ~Contains(inFlight'[h], m)
      BY <2>3
    <3>1. Contains(inFlight[g], m)
      BY <2>2
    <3>2. ~Contains(queue, m) /\ \A h \in Flights \ {g} : ~Contains(inFlight[h], m)
      BY <3>1 DEF Placed
    <3>3. \A h \in Flights : Contains(inFlight'[h], m) => Contains(inFlight[h], m)
      BY <2>2
    <3> QED BY <3>2, <3>3
  <2> QED BY <2>1, <2>3, <2>4, <2>5 DEF Placed
<1>7. Answers'
  <2> SUFFICES ASSUME NEW m \in Metrics
               PROVE  /\ m > pushed => accepted'[m] = 0 /\ m \notin refused'
                      /\ m <= pushed /\ ~Kept(m)' => accepted'[m] > 0 \/ m \in refused'
                      /\ Kept(m)' => m \notin refused'
                      /\ accepted'[m] > 1 \/ (accepted'[m] = 1 /\ (Kept(m)' \/ m \in refused')) => m \in unanswered
    BY <1>1 DEF Answers, Settled
  <2>1. /\ m > pushed => accepted[m] = 0 /\ m \notin refused
        /\ m <= pushed /\ ~Kept(m) => accepted[m] > 0 \/ m \in refused
        /\ Kept(m) => m \notin refused
        /\ accepted[m] > 1 \/ (accepted[m] = 1 /\ (Kept(m) \/ m \in refused)) => m \in unanswered
    BY DEF Answers
  <2>2. m \in Nat /\ pushed \in Nat /\ accepted[m] \in 0 .. 2 /\ accepted'[m] \in 0 .. 2
        /\ (Kept(m) => m <= pushed) /\ (Kept(m)' <=> Kept(m) /\ ~Contains(batch, m))
    BY <1>3, <1>4 DEF Metrics, ExportTypes, Placed
  <2>3. CASE Contains(batch, m)
    BY <2>1, <2>2, <2>3, <1>2, <1>4
  <2>4. CASE ~Contains(batch, m)
    BY <2>1, <2>2, <2>4, <1>4
  <2> QED BY <2>3, <2>4
<1>8. Ordered'
  <2> SUFFICES ASSUME ~overlapped
               PROVE  Ordered'
    BY <1>1 DEF Ordered, Settled
  <2>1. \A g \in Flights : inFlight'[g] = <<>>
    BY <1>1, <1>2 DEF Ordered, Settled, batch
  <2> QED BY <2>1, <1>1 DEF Ordered
<1>9. Lines'
  BY <1>1, <1>2 DEF Lines, Settled
<1> QED BY <1>5, <1>6, <1>7, <1>8, <1>9

(* A post that fails keeps the invariant: its batch is put back.           *)
LEMMA PostFailsKeeps ==
  ASSUME ExportInv, NEW f \in Flights, PostFails(f)
  PROVE  ExportInv'
<1> DEFINE batch == inFlight[f]
<1>1. /\ Settled(f) /\ queue' = batch \o queue /\ UNCHANGED refused
      /\ \/ accepted' = Taken(batch) /\ unanswered' = unanswered \cup ToSet(batch)
         \/ UNCHANGED <<accepted, unanswered>>
  BY DEF PostFails, Settled, PutBack
<1>2. /\ exporter = "otel" /\ inFlight' \in [Flights -> Seq(Metrics)] /\ IsInjective(batch)
      /\ batch \in Seq(Metrics) /\ inFlight'[f] = <<>> /\ \A g \in Flights \ {f} : inFlight'[g] = inFlight[g]
      /\ \A m \in Metrics : Contains(batch, m) =>
           Kept(m) /\ ~Contains(queue, m) /\ \A g \in Flights : ~Contains(inFlight'[g], m)
      /\ \A m \in Metrics : Kept(m) <=>
           Contains(queue, m) \/ Contains(batch, m) \/ \E g \in Flights : Contains(inFlight'[g], m)
      /\ \A m : Contains(batch, m) => m \in Metrics
  BY <1>1, BatchFacts
<1> HIDE DEF batch
<1> USE DEF ExportInv
<1>3. /\ queue' \in Seq(Metrics) /\ IsInjective(queue')
      /\ \A m : Contains(queue', m) <=> Contains(batch, m) \/ Contains(queue, m)
  <2>1. queue \in Seq(Metrics) /\ IsInjective(queue)
    BY DEF ExportTypes, Placed
  <2> QED BY <2>1, <1>1, <1>2, ConcatContains
<1>4. \A m \in Metrics : Kept(m)' <=> Kept(m)
  BY <1>2, <1>3 DEF Kept
<1>5. /\ accepted' \in [Metrics -> 0 .. 2] /\ unanswered' \subseteq Metrics /\ unanswered \subseteq unanswered'
      /\ \A m \in Metrics : (Contains(batch, m) /\ m \in unanswered') \/ accepted'[m] = accepted[m]
  <2>1. CASE accepted' = Taken(batch) /\ unanswered' = unanswered \cup ToSet(batch)
    <3>1. \A m : m \in ToSet(batch) <=> Contains(batch, m)
      BY <1>2 DEF ToSet, Contains
    <3> QED BY <2>1, <3>1, <1>2, TakenFacts DEF ExportTypes
  <2>2. CASE UNCHANGED <<accepted, unanswered>>
    BY <2>2 DEF ExportTypes
  <2> QED BY <2>1, <2>2, <1>1
<1>6. ExportTypes'
  BY <1>1, <1>2, <1>3, <1>5 DEF ExportTypes, Settled
<1>7. Placed'
  <2>1. \A g \in Flights : IsInjective(inFlight'[g])
    BY <1>2, EmptyFacts DEF Placed
  <2>2. \A g \in Flights : \A m : Contains(inFlight'[g], m) => g # f /\ inFlight'[g] = inFlight[g]
    BY <1>2, EmptyFacts
  <2>3. ASSUME NEW g \in Flights, NEW m \in Metrics, Contains(inFlight'[g], m)
        PROVE  ~Contains(queue', m) /\ \A h \in Flights \ {g} : ~Contains(inFlight'[h], m)
    <3>1. g # f /\ Contains(inFlight[g], m) /\ ~Contains(batch, m)
      BY <2>2, <2>3, <1>2
    <3> QED BY <3>1, <2>2, <1>3 DEF Placed
  <2> QED BY <2>1, <2>3, <1>1, <1>3, <1>4 DEF Placed, Settled
<1>8. Answers'
  <2> SUFFICES ASSUME NEW m \in Metrics
               PROVE  /\ m > pushed => accepted'[m] = 0
                      /\ m <= pushed /\ ~Kept(m)' => accepted'[m] > 0 \/ m \in refused
                      /\ Kept(m)' => m \notin refused
                      /\ accepted'[m] > 1 \/ (accepted'[m] = 1 /\ (Kept(m)' \/ m \in refused)) => m \in unanswered'
    BY <1>1 DEF Answers, Settled
  <2>1. /\ m > pushed => accepted[m] = 0 /\ m \notin refused
        /\ m <= pushed /\ ~Kept(m) => accepted[m] > 0 \/ m \in refused
        /\ Kept(m) => m \notin refused
        /\ accepted[m] > 1 \/ (accepted[m] = 1 /\ (Kept(m) \/ m \in refused)) => m \in unanswered
    BY DEF Answers
  <2>2. m \in Nat /\ pushed \in Nat /\ (Kept(m) => m <= pushed) /\ (Kept(m)' <=> Kept(m))
    BY <1>4 DEF Metrics, ExportTypes, Placed
  <2>3. CASE Contains(batch, m) /\ m \in unanswered'
    BY <2>1, <2>2, <2>3, <1>2
  <2>4. CASE accepted'[m] = accepted[m]
    BY <2>1, <2>2, <2>4, <1>5
  <2> QED BY <2>3, <2>4, <1>5
<1>9. Ordered'
  <2> SUFFICES ASSUME ~overlapped
               PROVE  Ordered'
    BY <1>1 DEF Ordered, Settled
  <2>1. \A g \in Flights : inFlight'[g] = <<>>
    BY <1>1, <1>2 DEF Ordered, Settled, batch
  <2>2. Increases(queue')
    BY <1>1 DEF Ordered, Settled, batch
  <2> QED BY <2>1, <2>2 DEF Ordered
<1>10. Lines'
  BY <1>1, <1>2 DEF Lines, Settled
<1> QED BY <1>6, <1>7, <1>8, <1>9, <1>10

(* Every step of an exporter keeps its invariant.                          *)
LEMMA ExportKept == ExportInv /\ [ExportNext]_exportVars => ExportInv'
<1> SUFFICES ASSUME ExportInv, [ExportNext]_exportVars
             PROVE  ExportInv'
  OBVIOUS
<1>1. CASE Push
  <2> DEFINE lines == Append(queue, pushed + 1)
  <2>1. /\ pushed < MaxMetrics /\ pushed' = pushed + 1
        /\ UNCHANGED <<exporter, inFlight, refused, unanswered, overlapped>>
        /\ IF exporter = "dogstatsd" /\ Len(lines) >= bufferSize
           THEN Send(lines) ELSE queue' = lines /\ UNCHANGED <<accepted, unsent>>
    BY <1>1 DEF Push
  <2>2. Offer(lines)
    BY <2>1, OfferMade
  <2>3. CASE exporter = "dogstatsd" /\ Len(lines) >= bufferSize
    BY <2>1, <2>2, <2>3, SendKeeps
  <2>4. CASE ~(exporter = "dogstatsd" /\ Len(lines) >= bufferSize)
    <3>1. queue' = lines /\ UNCHANGED <<accepted, unsent>> /\ unsent \in BOOLEAN /\ Len(lines) \in Nat
      BY <2>1, <2>2, <2>4 DEF Offer, ExportInv, ExportTypes
    <3>2. exporter = "dogstatsd" => unsent' \/ Len(lines) < bufferSize
      BY <3>1, <2>4
    <3> QED BY <2>1, <2>2, <3>1, <3>2, QueueGrows
  <2> QED BY <2>3, <2>4
<1>2. CASE Flush \/ StopInterval \/ StartInterval \/ UNCHANGED exportVars
  <2>1. CASE Flush \/ (StopInterval /\ exporter = "dogstatsd")
    <3>1. Send(queue) /\ exporter = "dogstatsd" /\ pushed' = pushed
          /\ UNCHANGED <<exporter, inFlight, refused, unanswered, overlapped>>
      BY <2>1 DEF Flush, StopInterval
    <3>2. Offer(queue)
      BY <3>1, OfferMade
    <3> QED BY <3>1, <3>2, SendKeeps
  <2>2. CASE ~(Flush \/ (StopInterval /\ exporter = "dogstatsd"))
    <3>1. UNCHANGED <<exporter, pushed, queue, inFlight, accepted, refused, unanswered, unsent, overlapped>>
      BY <1>2, <2>2 DEF StopInterval, StartInterval, exportVars
    <3> QED BY <3>1 DEF ExportInv, ExportTypes, Placed, Answers, Ordered, Lines, Kept
  <2> QED BY <2>1, <2>2
<1>3. CASE \E f \in Flights : Post(f) \/ PostAnswered(f) \/ PostFails(f)
  BY <1>3, PostKeeps, PostAnsweredKeeps, PostFailsKeeps
<1> QED BY <1>1, <1>2, <1>3 DEF ExportNext

(* A metric is in the queue or in one batch, once, or the collector gave   *)
(* its answer to it, whatever overlaps and whatever answer is lost         *)
(* (otel_exporter.ts:208, dogstatsd_exporter.ts:92).                       *)
THEOREM MetricsAccounted == ExportSpec => []ExportAccounted
<1>1. ExportInit => ExportInv
  <2> SUFFICES ASSUME ExportInit PROVE ExportInv
    OBVIOUS
  <2> USE EmptyFacts DEF ExportInit
  <2>1. ExportTypes
    <3>1. queue \in Seq(Metrics) /\ inFlight \in [Flights -> Seq(Metrics)]
      OBVIOUS
    <3>2. pushed \in 0 .. MaxMetrics /\ accepted \in [Metrics -> 0 .. 2] /\ refused \subseteq Metrics /\ unanswered \subseteq Metrics
      OBVIOUS
    <3>3. unsent \in BOOLEAN /\ overlapped \in BOOLEAN
      BY Zenon
    <3> QED BY <3>1, <3>2, <3>3 DEF ExportTypes
  <2>2. \A m : ~Kept(m)
    BY DEF Kept
  <2> QED BY <2>1, <2>2 DEF ExportInv, Placed, Answers, Ordered, Lines, Metrics
<1>2. ExportInv => ExportAccounted
  <2> SUFFICES ASSUME ExportInv PROVE ExportAccounted
    OBVIOUS
  <2> USE DEF ExportInv
  <2>1. ASSUME NEW s \in Seq(Metrics), \A m \in Metrics : Contains(s, m) => m <= pushed
        PROVE  ToSet(s) \subseteq 1 .. pushed
    <3>1. \A m \in ToSet(s) : m \in Metrics /\ Contains(s, m)
      BY DEF ToSet, Contains
    <3> QED BY <2>1, <3>1 DEF Metrics, ExportTypes
  <2>2. \A s \in {queue} \cup {inFlight[f] : f \in Flights} : ToSet(s) \subseteq 1 .. pushed /\ IsInjective(s)
    BY <2>1 DEF ExportTypes, Placed, Kept
  <2>3. 1 .. pushed \subseteq Metrics /\ \A m \in 1 .. pushed : m <= pushed
    BY DEF ExportTypes, Metrics
  <2>4. \A m \in 1 .. pushed :
          /\ ~Kept(m) => accepted[m] > 0 \/ m \in refused
          /\ accepted[m] > 1 \/ (accepted[m] = 1 /\ (Kept(m) \/ m \in refused)) => m \in unanswered
    BY <2>3 DEF Answers
  <2> QED BY <2>2, <2>4 DEF ExportAccounted, Placed, Ordered, Lines
<1> QED BY <1>1, <1>2, ExportKept, PTL DEF ExportSpec

HIDE ExportAssumption DEF ExportAssumption

-----------------------------------------------------------------------------
(***************************************************************************)
(* The breaker of an adapter shields its provider while it is open.        *)
(***************************************************************************)

BreakerTypes ==
    /\ circuit \in {"CLOSED", "OPEN", "HALF_OPEN"}
    /\ failed \in Nat /\ succeeded \in Nat /\ late \in 0 .. succeeded
    /\ sinceFailure \in 0 .. resetTimeout + 1

CallTypes ==
    /\ step \in [Requests -> Awaiting \cup {"idle"}]
    /\ waited \in [Requests -> 0 .. timeout]
    /\ performed \subseteq reached /\ reached \subseteq InFlight

\* The calls whose outcome the breaker may still count
Undecided == {r \in Requests : step[r] \in Awaiting \ {"storing"}}

\* The bound on outcomes holds when every undecided call has one.
Bounded == IsFiniteSet(InFlight) /\ failed + succeeded + Cardinality(Undecided) <= MaxOutcomes

\* The share of failures that opened the breaker is still there, late
\* successes left out.
ShareKept == circuit # "CLOSED" => 100 * failed >= errorThresholdPercentage * (failed + succeeded - late)

AdapterInv == BreakerTypes /\ CallTypes /\ Bounded /\ ShareKept

\* What OpenShields says of a step
Shields ==
    /\ circuit = "OPEN" /\ circuit' = "OPEN" => reached' \subseteq reached
    /\ circuit = "OPEN" /\ circuit' = "HALF_OPEN" => sinceFailure > resetTimeout
    /\ circuit = "HALF_OPEN" /\ failed' > failed /\ late = 0 => circuit' = "OPEN"
-----------------------------------------------------------------------------
(* The adapter starts as its invariant says.                               *)
LEMMA AdapterStarts == AdapterInit => AdapterInv
<1> SUFFICES ASSUME AdapterInit PROVE AdapterInv
  OBVIOUS
<1>1. BreakerTypes
  BY ProviderAssumption DEF AdapterInit, BreakerTypes
<1>2. InFlight = {} /\ Undecided = {}
  BY DEF AdapterInit, InFlight, Undecided, Awaiting
<1>3. CallTypes
  BY ProviderAssumption DEF AdapterInit, CallTypes
<1>4. Bounded
  BY <1>2, ProviderAssumption, FS_EmptySet DEF AdapterInit, Bounded
<1> QED BY <1>1, <1>3, <1>4 DEF AdapterInv, AdapterInit, ShareKept

\* The call r goes to another step, and sends nothing past an open breaker.
Moves(r, to) ==
    /\ step' = [step EXCEPT ![r] = to] /\ to \in Awaiting \cup {"idle"}
    /\ CallTypes'
    /\ circuit = "OPEN" /\ circuit' = "OPEN" => reached' \subseteq reached

\* At most the state of the breaker changes, to probe.
OnlyProbes ==
    /\ UNCHANGED <<failed, succeeded, sinceFailure, late>>
    /\ \/ circuit' = circuit
       \/ circuit = "OPEN" /\ circuit' = "HALF_OPEN" /\ sinceFailure > resetTimeout

(* Who is in flight after a step of one call.                              *)
LEMMA FlightAfter ==
    ASSUME CallTypes, NEW r \in Requests, NEW to, step' = [step EXCEPT ![r] = to]
    PROVE  /\ InFlight' = IF to \in Awaiting THEN InFlight \cup {r} ELSE InFlight \ {r}
           /\ Undecided' = IF to \in Awaiting \ {"storing"} THEN Undecided \cup {r} ELSE Undecided \ {r}
<1>1. step'[r] = to /\ \A q \in Requests \ {r} : step'[q] = step[q]
  BY DEF CallTypes
<1> QED BY <1>1 DEF InFlight, Undecided

(* The end of a call moves it to idle.                                     *)
LEMMA EndMoves ==
    ASSUME CallTypes, NEW r \in Requests, End(r)
    PROVE  Moves(r, "idle")
<1>1. step' = [step EXCEPT ![r] = "idle"]
  BY DEF End, Goto
<1>2. InFlight' = InFlight \ {r}
  BY <1>1, FlightAfter DEF Awaiting
<1>3. waited' \in [Requests -> 0 .. timeout] /\ step' \in [Requests -> Awaiting \cup {"idle"}]
  BY <1>1, ProviderAssumption DEF End, CallTypes
<1> QED BY <1>1, <1>2, <1>3 DEF End, CallTypes, Moves

(* An await moves a call to what it awaits.                                *)
LEMMA SuspendMoves ==
    ASSUME CallTypes, NEW r \in Requests, NEW m, NEW at \in Awaiting, Suspend(r, m, at)
    PROVE  Moves(r, at) /\ circuit' = circuit
<1>1. step' = [step EXCEPT ![r] = at]
  BY DEF Suspend, Goto
<1>2. InFlight' = InFlight \cup {r}
  BY <1>1, FlightAfter
<1>3. waited' \in [Requests -> 0 .. timeout] /\ step' \in [Requests -> Awaiting \cup {"idle"}]
  BY <1>1 DEF Suspend, CallTypes
<1> QED BY <1>1, <1>2, <1>3 DEF Suspend, CallTypes, Moves

(* fire() moves its call to the provider or, refused, to its end; it       *)
(* changes the breaker only to probe.                                      *)
LEMMA FireMoves ==
    ASSUME CallTypes, BreakerTypes, NEW r \in Requests, NEW m, fire(r, m), UNCHANGED <<failed, succeeded, sinceFailure, late>>
    PROVE  (\E to \in {"idle", "calling"} : Moves(r, to)) /\ OnlyProbes
<1>1. CASE circuit = "OPEN" /\ sinceFailure <= resetTimeout
  <2>1. End(r) /\ circuit' = circuit
    BY <1>1 DEF fire
  <2> QED BY <2>1, EndMoves DEF OnlyProbes
<1>2. CASE ~(circuit = "OPEN" /\ sinceFailure <= resetTimeout)
  <2>1. /\ step' = [step EXCEPT ![r] = "calling"] /\ reached' = reached \cup {r}
        /\ circuit' = IF circuit = "OPEN" THEN "HALF_OPEN" ELSE circuit
        /\ UNCHANGED <<waited, performed>>
    BY <1>2 DEF fire, Goto
  <2>2. InFlight' = InFlight \cup {r}
    BY <2>1, FlightAfter DEF Awaiting
  <2>3. step' \in [Requests -> Awaiting \cup {"idle"}]
    BY <2>1 DEF CallTypes, Awaiting
  <2>4. CallTypes'
    BY <2>1, <2>2, <2>3 DEF CallTypes
  <2>5. Moves(r, "calling")
    BY <2>1, <2>4 DEF Moves, Awaiting
  <2>6. circuit = "OPEN" => sinceFailure > resetTimeout
    BY <1>2, ProviderAssumption DEF BreakerTypes
  <2>7. OnlyProbes
    BY <2>1, <2>6 DEF OnlyProbes
  <2> QED BY <2>5, <2>7
<1> QED BY <1>1, <1>2

(* So does a call that goes on after an await.                             *)
LEMMA ContinueMoves ==
    ASSUME CallTypes, BreakerTypes, NEW r \in Requests, NEW m, Continue(r, m)
    PROVE  (\E to \in Awaiting \cup {"idle"} : Moves(r, to)) /\ OnlyProbes
<1>1. UNCHANGED <<failed, succeeded, sinceFailure, late>>
  BY DEF Continue
<1>2. CASE End(r) /\ UNCHANGED circuit
  BY <1>1, <1>2, EndMoves DEF OnlyProbes
<1>3. CASE fire(r, m)
  BY <1>1, <1>3, FireMoves DEF Awaiting
<1>4. CASE Suspend(r, m, "authorizing")
  <2>1. "authorizing" \in Awaiting
    BY DEF Awaiting
  <2> QED BY <1>1, <1>4, <2>1, SuspendMoves DEF OnlyProbes
<1>5. CASE Suspend(r, m, "storing")
  <2>1. "storing" \in Awaiting
    BY DEF Awaiting
  <2> QED BY <1>1, <1>5, <2>1, SuspendMoves DEF OnlyProbes
<1> QED BY <1>2, <1>3, <1>4, <1>5 DEF Continue
-----------------------------------------------------------------------------
(* A probe keeps the types and the share of the failures.                  *)
LEMMA OnlyProbesKeeps ==
    ASSUME BreakerTypes, ShareKept, OnlyProbes
    PROVE  BreakerTypes' /\ ShareKept'
<1>1. BreakerTypes'
  BY DEF BreakerTypes, OnlyProbes
<1>2. ShareKept'
  BY DEF BreakerTypes, OnlyProbes, ShareKept
<1> QED BY <1>1, <1>2

(* A call moves, and no outcome is counted.                                *)
LEMMA MoveKeeps ==
    ASSUME AdapterInv, NEW r \in Requests, NEW to, Moves(r, to), OnlyProbes,
           \/ step[r] \in Awaiting \ {"storing"}
           \/ to \in {"idle", "storing"}
           \/ failed + succeeded + Cardinality(InFlight) < MaxOutcomes
    PROVE  AdapterInv' /\ Shields
<1>1. BreakerTypes /\ CallTypes /\ Bounded /\ ShareKept
  BY DEF AdapterInv
<1>2. BreakerTypes' /\ ShareKept' /\ CallTypes'
  BY <1>1, OnlyProbesKeeps DEF Moves
<1>3. step' = [step EXCEPT ![r] = to] /\ to \in Awaiting \cup {"idle"}
  BY DEF Moves
<1>4. /\ InFlight' = IF to \in Awaiting THEN InFlight \cup {r} ELSE InFlight \ {r}
      /\ Undecided' = IF to \in Awaiting \ {"storing"} THEN Undecided \cup {r} ELSE Undecided \ {r}
  BY <1>1, <1>3, FlightAfter
<1>5. IsFiniteSet(InFlight) /\ IsFiniteSet(InFlight')
  <2>1. IsFiniteSet(InFlight)
    BY <1>1 DEF Bounded
  <2>2. IsFiniteSet(InFlight \cup {r}) /\ IsFiniteSet(InFlight \ {r})
    BY <2>1, FS_AddElement, FS_RemoveElement
  <2> QED BY <1>4, <2>1, <2>2
<1>6. /\ IsFiniteSet(Undecided) /\ Cardinality(Undecided) <= Cardinality(InFlight)
      /\ Cardinality(Undecided) \in Nat /\ Cardinality(InFlight) \in Nat
  <2>1. Undecided \in SUBSET InFlight
    BY DEF Undecided, InFlight
  <2>2. IsFiniteSet(Undecided) /\ Cardinality(Undecided) <= Cardinality(InFlight)
    BY <1>5, <2>1, FS_Subset
  <2> QED BY <1>5, <2>2, FS_CardinalityType
<1>7. failed + succeeded + Cardinality(Undecided') <= MaxOutcomes
  <2>1. failed + succeeded + Cardinality(Undecided) <= MaxOutcomes /\ failed \in Nat /\ succeeded \in Nat
    BY <1>1 DEF Bounded, BreakerTypes
  <2>2. CASE r \in Undecided /\ to \in Awaiting \ {"storing"}
    <3>1. Undecided' = Undecided
      BY <1>4, <2>2
    <3> QED BY <2>1, <3>1
  <2>3. CASE to \notin Awaiting \ {"storing"}
    <3>1. Undecided' \in SUBSET Undecided
      BY <1>4, <2>3
    <3>2. Cardinality(Undecided') <= Cardinality(Undecided) /\ Cardinality(Undecided') \in Nat
      BY <1>6, <3>1, FS_Subset, FS_CardinalityType
    <3> QED BY <1>6, <2>1, <3>2, ProviderAssumption
  <2>4. CASE r \notin Undecided /\ to \in Awaiting \ {"storing"}
    <3>1. failed + succeeded + Cardinality(InFlight) < MaxOutcomes
      BY <1>3, <2>4 DEF Undecided, Awaiting
    <3>2. Undecided' = Undecided \cup {r}
      BY <1>4, <2>4
    <3>3. Cardinality(Undecided \cup {r}) = Cardinality(Undecided) + 1
      BY <1>6, <2>4, FS_AddElement
    <3> QED BY <1>6, <2>1, <3>1, <3>2, <3>3, ProviderAssumption
  <2> QED BY <2>2, <2>3, <2>4
<1>8. Bounded'
  BY <1>5, <1>7 DEF Bounded, OnlyProbes
<1>9. Shields
  BY <1>1 DEF Moves, OnlyProbes, Shields, BreakerTypes
<1> QED BY <1>2, <1>8, <1>9 DEF AdapterInv

\* The breaker counts an outcome.
Counts ==
    /\ BreakerTypes' /\ ShareKept' /\ failed' + succeeded' <= failed + succeeded + 1
    /\ circuit = "OPEN" => circuit' # "HALF_OPEN"
    /\ circuit = "HALF_OPEN" /\ failed' > failed /\ late = 0 => circuit' = "OPEN"

(* onFailure() counts one outcome, and opens at the share of failures it   *)
(* should.                                                                 *)
LEMMA FailureCounts ==
    ASSUME BreakerTypes, ShareKept, onFailure
    PROVE  Counts
<1> DEFINE p == errorThresholdPercentage
           opens == 100 * (failed + 1) >= p * (failed + 1 + succeeded)
<1>1. p \in 0 .. 100 /\ resetTimeout \in Nat
  BY ProviderAssumption
<1>2. /\ failed' = failed + 1 /\ sinceFailure' = 0 /\ succeeded' = succeeded
      /\ circuit' = IF opens THEN "OPEN" ELSE circuit
      /\ late' = IF opens THEN 0 ELSE late
  BY DEF onFailure
<1>3. failed \in Nat /\ succeeded \in Nat /\ late \in 0 .. succeeded
  BY DEF BreakerTypes
<1> HIDE DEF p
<1>4. BreakerTypes'
  <2>1. CASE opens
    BY <1>1, <1>2, <1>3, <2>1 DEF BreakerTypes
  <2>2. CASE ~opens
    BY <1>1, <1>2, <1>3, <2>2 DEF BreakerTypes
  <2> QED BY <2>1, <2>2
<1>5. ASSUME NEW n \in Int, 100 * failed >= p * n
      PROVE  100 * (failed + 1) >= p * (n + 1)
  <2>1. p * (n + 1) = p * n + p
    BY <1>1
  <2> QED BY <1>1, <1>3, <1>5, <2>1
<1>6. 100 * failed' >= p * (failed' + succeeded' - late') \/ circuit' = "CLOSED"
  <2>1. CASE opens
    <3>1. failed' + succeeded' - late' = failed + 1 + succeeded
      BY <1>2, <1>3, <2>1
    <3> QED BY <1>2, <2>1, <3>1
  <2>2. CASE ~opens /\ circuit # "CLOSED"
    <3>1. PICK n \in Int : n = failed + succeeded - late
      BY <1>3
    <3>2. 100 * failed >= p * n
      BY <2>2, <3>1 DEF ShareKept, p
    <3>3. failed' + succeeded' - late' = n + 1 /\ failed' = failed + 1
      BY <1>2, <1>3, <2>2, <3>1
    <3>4. 100 * (failed + 1) >= p * (n + 1)
      BY <1>5, <3>2
    <3> QED BY <3>3, <3>4
  <2>3. CASE ~opens /\ circuit = "CLOSED"
    BY <1>2, <2>3
  <2> QED BY <2>1, <2>2, <2>3
<1>7. circuit = "HALF_OPEN" /\ late = 0 => circuit' = "OPEN"
  <2> SUFFICES ASSUME circuit = "HALF_OPEN", late = 0
               PROVE  opens
    BY <1>2
  <2>1. PICK n \in Int : n = failed + succeeded
    BY <1>3
  <2>2. 100 * failed >= p * n
    <3>1. failed + succeeded - late = n
      BY <1>3, <2>1
    <3> QED BY <3>1 DEF ShareKept, p
  <2>3. 100 * (failed + 1) >= p * (n + 1)
    BY <1>5, <2>2
  <2>4. failed + 1 + succeeded = n + 1
    BY <1>3, <2>1
  <2> QED BY <2>3, <2>4
<1>8. circuit = "OPEN" => circuit' # "HALF_OPEN"
  BY <1>2
<1>9. failed' + succeeded' <= failed + succeeded + 1
  BY <1>2, <1>3
<1> QED BY <1>4, <1>6, <1>7, <1>8, <1>9 DEF Counts, ShareKept, p

(* onSuccess() counts one outcome.                                         *)
LEMMA SuccessCounts ==
    ASSUME BreakerTypes, ShareKept, onSuccess
    PROVE  Counts
<1>1. failed \in Nat /\ succeeded \in Nat /\ late \in 0 .. succeeded /\ resetTimeout \in Nat
  BY ProviderAssumption DEF BreakerTypes
<1>2. CASE circuit = "HALF_OPEN"
  <2>1. reset
    BY <1>2 DEF onSuccess
  <2> QED BY <1>1, <1>2, <2>1 DEF reset, Counts, BreakerTypes, ShareKept
<1>3. CASE circuit # "HALF_OPEN"
  <2>1. /\ succeeded' = succeeded + 1 /\ late' = IF circuit = "OPEN" THEN late + 1 ELSE late
        /\ UNCHANGED <<circuit, failed, sinceFailure>>
    BY <1>3 DEF onSuccess
  <2>2. BreakerTypes'
    BY <1>1, <2>1 DEF BreakerTypes
  <2>3. ShareKept'
    <3>1. CASE circuit = "OPEN"
      <4>1. failed' + succeeded' - late' = failed + succeeded - late
        BY <1>1, <2>1, <3>1
      <4> QED BY <2>1, <3>1, <4>1 DEF ShareKept
    <3>2. CASE circuit # "OPEN"
      BY <1>3, <2>1, <3>2 DEF ShareKept, BreakerTypes
    <3> QED BY <3>1, <3>2
  <2> QED BY <1>1, <1>3, <2>1, <2>2, <2>3 DEF Counts
<1> QED BY <1>2, <1>3

(* An outcome more for a call less                                         *)
LEMMA OneOutcomeLess ==
    ASSUME NEW f \in Nat, NEW s \in Nat, NEW g \in Nat, NEW t \in Nat, NEW n \in Nat, NEW k, k = n - 1,
           f + s + n <= MaxOutcomes, g + t <= f + s + 1
    PROVE  g + t + k <= MaxOutcomes
BY ProviderAssumption

(* A call is answered or rejected, and the breaker counts it.              *)
LEMMA CountKeeps ==
    ASSUME AdapterInv, NEW r \in Requests, NEW to \in {"idle", "storing"}, step[r] = "calling",
           Moves(r, to), reached' \subseteq reached, Counts
    PROVE  AdapterInv' /\ Shields
<1>1. BreakerTypes /\ CallTypes /\ Bounded
  BY DEF AdapterInv
<1>2. step' = [step EXCEPT ![r] = to] /\ CallTypes'
  BY DEF Moves
<1>3. /\ InFlight' = IF to \in Awaiting THEN InFlight \cup {r} ELSE InFlight \ {r}
      /\ Undecided' = Undecided \ {r} /\ r \in Undecided
  <2>1. /\ InFlight' = IF to \in Awaiting THEN InFlight \cup {r} ELSE InFlight \ {r}
        /\ Undecided' = IF to \in Awaiting \ {"storing"} THEN Undecided \cup {r} ELSE Undecided \ {r}
    BY <1>1, <1>2, FlightAfter
  <2>2. r \in Undecided /\ to \notin Awaiting \ {"storing"}
    BY DEF Undecided, Awaiting
  <2> QED BY <2>1, <2>2
<1>4. IsFiniteSet(InFlight) /\ IsFiniteSet(InFlight') /\ IsFiniteSet(Undecided)
  <2>1. IsFiniteSet(InFlight) /\ Undecided \in SUBSET InFlight
    BY <1>1 DEF Bounded, Undecided, InFlight
  <2>2. IsFiniteSet(InFlight \cup {r}) /\ IsFiniteSet(InFlight \ {r}) /\ IsFiniteSet(Undecided)
    BY <2>1, FS_AddElement, FS_RemoveElement, FS_Subset
  <2> QED BY <1>3, <2>1, <2>2
<1>5. Cardinality(Undecided') = Cardinality(Undecided) - 1 /\ Cardinality(Undecided) \in Nat
  BY <1>3, <1>4, FS_RemoveElement, FS_CardinalityType
<1>6. Bounded'
  <2>1. failed + succeeded + Cardinality(Undecided) <= MaxOutcomes
    BY <1>1 DEF Bounded
  <2>2. failed \in Nat /\ succeeded \in Nat /\ failed' \in Nat /\ succeeded' \in Nat
        /\ failed' + succeeded' <= failed + succeeded + 1
    BY <1>1 DEF BreakerTypes, Counts
  <2>3. failed' + succeeded' + Cardinality(Undecided') <= MaxOutcomes
    <3>1. PICK f \in Nat, s \in Nat, g \in Nat, t \in Nat, n \in Nat, k \in Int :
                 /\ f = failed /\ s = succeeded /\ g = failed' /\ t = succeeded'
                 /\ n = Cardinality(Undecided) /\ k = Cardinality(Undecided')
      BY <1>5, <2>2
    <3>2. k = n - 1 /\ f + s + n <= MaxOutcomes /\ g + t <= f + s + 1
      BY <1>5, <2>1, <2>2, <3>1
    <3>3. k = n - 1 /\ f + s + n <= MaxOutcomes /\ g + t <= f + s + 1 /\ n \in Nat
      BY <3>2
    <3>4. g + t + (n - 1) <= MaxOutcomes
      BY <3>3, ProviderAssumption
    <3> QED BY <3>1, <3>3, <3>4
  <2> QED BY <1>4, <2>3 DEF Bounded
<1>7. Shields
  BY DEF Shields, Counts
<1> QED BY <1>2, <1>6, <1>7 DEF AdapterInv, Counts

(* Every step of an adapter keeps its invariant and shields the provider.  *)
LEMMA AdapterStep ==
    ASSUME AdapterInv, AdapterNext
    PROVE  AdapterInv' /\ Shields
<1>1. BreakerTypes /\ CallTypes /\ Bounded /\ ShareKept
  BY DEF AdapterInv
<1>2. ASSUME NEW r \in Requests, NEW m, Begin(r, m)
      PROVE  AdapterInv' /\ Shields
  <2>1. failed + succeeded + Cardinality(InFlight) < MaxOutcomes
    BY <1>2 DEF Begin
  <2>2. CASE Suspend(r, m, "looking") /\ UNCHANGED breakerVars
    <3>1. "looking" \in Awaiting
      BY DEF Awaiting
    <3>2. Moves(r, "looking") /\ OnlyProbes
      BY <1>1, <2>2, <3>1, SuspendMoves DEF breakerVars, OnlyProbes
    <3> QED BY <2>1, <3>2, MoveKeeps
  <2>3. CASE Continue(r, m)
    <3>1. PICK to : Moves(r, to) /\ OnlyProbes
      BY <1>1, <2>3, ContinueMoves
    <3> QED BY <2>1, <3>1, MoveKeeps
  <2> QED BY <1>2, <2>2, <2>3 DEF Begin
<1>3. ASSUME NEW r \in Requests, Looked(r)
      PROVE  AdapterInv' /\ Shields
  <2>1. step[r] \in Awaiting \ {"storing"}
    BY <1>3 DEF Looked, Awaiting
  <2>2. PICK to : Moves(r, to) /\ OnlyProbes
    <3>1. CASE End(r) /\ UNCHANGED breakerVars
      BY <1>1, <3>1, EndMoves DEF breakerVars, OnlyProbes
    <3>2. CASE Continue(r, method[r])
      BY <1>1, <3>2, ContinueMoves
    <3> QED BY <1>3, <3>1, <3>2 DEF Looked
  <2> QED BY <2>1, <2>2, MoveKeeps
<1>4. ASSUME NEW r \in Requests, Authorized(r)
      PROVE  AdapterInv' /\ Shields
  <2>1. step[r] \in Awaiting \ {"storing"}
    BY <1>4 DEF Authorized, Awaiting
  <2>2. UNCHANGED <<failed, succeeded, sinceFailure, late>>
    BY <1>4 DEF Authorized
  <2>3. PICK to : Moves(r, to) /\ OnlyProbes
    <3>1. CASE End(r) /\ UNCHANGED circuit
      BY <1>1, <2>2, <3>1, EndMoves DEF OnlyProbes
    <3>2. CASE fire(r, method[r])
      BY <1>1, <2>2, <3>2, FireMoves
    <3> QED BY <1>4, <3>1, <3>2 DEF Authorized
  <2> QED BY <2>1, <2>3, MoveKeeps
<1>5. ASSUME NEW r \in Requests, Answered(r)
      PROVE  AdapterInv' /\ Shields
  <2>1. step[r] = "calling" /\ Counts
    BY <1>1, <1>5, SuccessCounts DEF Answered
  <2>2. CASE End(r)
    <3>1. Moves(r, "idle") /\ reached' \subseteq reached
      BY <1>1, <2>2, EndMoves DEF End
    <3> QED BY <2>1, <3>1, CountKeeps
  <2>3. CASE Goto(r, "storing") /\ waited' = [waited EXCEPT ![r] = 0] /\ UNCHANGED <<method, reached, performed>>
    <3>1. step' = [step EXCEPT ![r] = "storing"] /\ "storing" \in Awaiting
      BY <2>3 DEF Goto, Awaiting
    <3>2. InFlight' = InFlight \cup {r}
      BY <1>1, <3>1, FlightAfter
    <3>3. step' \in [Requests -> Awaiting \cup {"idle"}] /\ waited' \in [Requests -> 0 .. timeout]
      BY <1>1, <2>3, <3>1, ProviderAssumption DEF CallTypes
    <3>4. CallTypes'
      BY <1>1, <2>3, <3>2, <3>3 DEF CallTypes
    <3>5. Moves(r, "storing") /\ reached' \subseteq reached
      BY <2>3, <3>1, <3>4 DEF Moves
    <3> QED BY <2>1, <3>5, CountKeeps
  <2> QED BY <1>5, <2>2, <2>3 DEF Answered
<1>6. ASSUME NEW r \in Requests, Rejected(r)
      PROVE  AdapterInv' /\ Shields
  <2>1. step[r] = "calling" /\ Counts
    BY <1>1, <1>6, FailureCounts DEF Rejected
  <2>2. Moves(r, "idle") /\ reached' \subseteq reached
    BY <1>1, <1>6, EndMoves DEF Rejected, End
  <2> QED BY <2>1, <2>2, CountKeeps
<1>7. ASSUME NEW r \in Requests, Stored(r)
      PROVE  AdapterInv' /\ Shields
  <2>1. Moves(r, "idle") /\ OnlyProbes
    BY <1>1, <1>7, EndMoves DEF Stored, breakerVars, OnlyProbes
  <2> QED BY <2>1, MoveKeeps
<1>8. ASSUME UNCHANGED <<circuit, failed, succeeded, late, step, reached>>,
             sinceFailure' \in 0 .. resetTimeout + 1, waited' \in [Requests -> 0 .. timeout],
             performed' \subseteq reached
      PROVE  AdapterInv' /\ Shields
  <2>1. InFlight' = InFlight /\ Undecided' = Undecided
    BY <1>8 DEF InFlight, Undecided
  <2>2. BreakerTypes' /\ CallTypes'
    BY <1>1, <1>8, <2>1 DEF BreakerTypes, CallTypes
  <2>3. Bounded' /\ ShareKept'
    BY <1>1, <1>8, <2>1 DEF Bounded, ShareKept
  <2>4. Shields
    BY <1>1, <1>8 DEF Shields, BreakerTypes
  <2> QED BY <2>2, <2>3, <2>4 DEF AdapterInv
<1>9. ASSUME NEW r \in Requests, Perform(r)
      PROVE  AdapterInv' /\ Shields
  BY <1>1, <1>8, <1>9 DEF Perform, breakerVars, BreakerTypes, CallTypes
<1>10. CASE TokenExpires
  BY <1>1, <1>8, <1>10 DEF TokenExpires, breakerVars, callVars, BreakerTypes, CallTypes
<1>11. CASE AdapterTick
  <2>1. UNCHANGED <<circuit, failed, succeeded, late, step, reached, performed>> /\ ~Overdue
    BY <1>11 DEF AdapterTick
  <2>2. sinceFailure' \in 0 .. resetTimeout + 1
    <3>1. sinceFailure' = sinceFailure \/ (sinceFailure <= resetTimeout /\ sinceFailure' = sinceFailure + 1)
      BY <1>11 DEF AdapterTick
    <3> QED BY <1>1, <3>1, ProviderAssumption DEF BreakerTypes
  <2>3. ASSUME NEW r \in Requests
        PROVE  (IF step[r] = "calling" THEN waited[r] + 1 ELSE waited[r]) \in 0 .. timeout
    <3>1. waited[r] \in 0 .. timeout /\ (step[r] = "calling" => waited[r] # timeout)
      BY <1>1, <2>1 DEF CallTypes, Overdue
    <3> QED BY <3>1, ProviderAssumption
  <2>4. waited' \in [Requests -> 0 .. timeout]
    BY <1>11, <2>3 DEF AdapterTick
  <2> QED BY <1>1, <1>8, <2>1, <2>2, <2>4 DEF CallTypes
<1>12. CASE Restart
  <2>1. /\ circuit' = "CLOSED" /\ failed' = 0 /\ succeeded' = 0 /\ sinceFailure' = 0 /\ late' = 0
        /\ step' = [r \in Requests |-> "idle"] /\ waited' = [r \in Requests |-> 0]
        /\ reached' = {} /\ performed' = {}
    BY <1>12 DEF Restart, reset
  <2>2. InFlight' = {} /\ Undecided' = {}
    BY <2>1 DEF InFlight, Undecided, Awaiting
  <2>3. BreakerTypes' /\ CallTypes'
    BY <2>1, ProviderAssumption DEF BreakerTypes, CallTypes
  <2>4. Bounded'
    <3>1. IsFiniteSet(InFlight') /\ Cardinality(Undecided') = 0
      BY <2>2, FS_EmptySet
    <3> QED BY <2>1, <3>1, ProviderAssumption DEF Bounded
  <2>5. ShareKept' /\ Shields
    BY <1>1, <2>1 DEF ShareKept, Shields, BreakerTypes
  <2> QED BY <2>3, <2>4, <2>5 DEF AdapterInv
<1> QED
  BY <1>2, <1>3, <1>4, <1>5, <1>6, <1>7, <1>9, <1>10, <1>11, <1>12 DEF AdapterNext, Errored, TimesOut
-----------------------------------------------------------------------------
(* AdapterInv is an invariant of an adapter.                               *)
THEOREM AdapterInvariant == AdapterSpec => []AdapterInv
<1>1. AdapterInv /\ UNCHANGED adapterVars => AdapterInv'
  BY DEF adapterVars, breakerVars, callVars, AdapterInv, BreakerTypes, CallTypes, Bounded, ShareKept, InFlight, Undecided
<1>2. AdapterInv /\ [AdapterNext]_adapterVars => AdapterInv'
  BY <1>1, AdapterStep
<1> QED BY AdapterStarts, <1>2, PTL DEF AdapterSpec

(* The breaker of an adapter (circuitBreaker/index.js:64) shields its      *)
(* provider while it is open, and a failed probe opens it again unless     *)
(* successes came in late, whatever the threshold, the times and the       *)
(* number of calls that overlap.                                           *)
THEOREM BreakerShields == AdapterSpec => OpenShields
<1> DEFINE A == /\ circuit = "OPEN" /\ circuit' = "OPEN" => reached' \subseteq reached
                /\ circuit = "OPEN" /\ circuit' = "HALF_OPEN" => sinceFailure > resetTimeout
                /\ circuit = "HALF_OPEN" /\ failed' > failed /\ late = 0 => circuit' = "OPEN"
<1>1. AdapterInv /\ [AdapterNext]_adapterVars => [A]_adapterVars
  BY AdapterStep DEF Shields
<1>2. AdapterInv => AdapterTypeOK
  <2> SUFFICES ASSUME AdapterInv PROVE AdapterTypeOK
    OBVIOUS
  <2>1. BreakerTypes /\ CallTypes /\ Bounded
    BY DEF AdapterInv
  <2>2. Cardinality(Undecided) \in Nat
    <3>1. Undecided \in SUBSET InFlight
      BY DEF Undecided, InFlight
    <3>2. IsFiniteSet(Undecided)
      BY <2>1, <3>1, FS_Subset DEF Bounded
    <3> QED BY <3>2, FS_CardinalityType
  <2>3. failed \in 0 .. MaxOutcomes /\ succeeded \in 0 .. MaxOutcomes
    BY <2>1, <2>2, ProviderAssumption DEF BreakerTypes, Bounded
  <2> QED BY <2>1, <2>3 DEF AdapterTypeOK, BreakerTypes, CallTypes
<1>3. AdapterSpec => [][A]_adapterVars
  BY <1>1, AdapterInvariant, PTL DEF AdapterSpec
<1>4. AdapterSpec => []AdapterTypeOK
  BY <1>2, AdapterInvariant, PTL
<1> QED BY <1>3, <1>4, PTL DEF OpenShields

-----------------------------------------------------------------------------
(***************************************************************************)
(* For every number of requests, every three time limits and every number  *)
(* of versions: what the caches of DidResolution serve is stale by no more *)
(* than the limits add up to, and an invalidation holds.                   *)
(*                                                                         *)
(* What the properties need beside themselves: a bound on the staleness of *)
(* each thing that holds a version, by its own age.  A fetch has read its  *)
(* version since it began; a document was fetched when its age was zero;   *)
(* a response was made of a document that was still fresh.                 *)
(***************************************************************************)

USE ResolutionAssumption DEF ResolutionAssumption

CurrentFresh == \A v \in Versions : v >= version => superseded[v] = 0

FetchBounded ==
    \A l \in Lookups : fetched[l] # Error =>
        lookup[l] = "fetching" /\ superseded[fetched[l]] <= awaited[l]

DocumentBounded ==
    document # NoEntry /\ document.age < cacheTTL =>
        superseded[document.body] <= document.age + fetchTimeout

ResponseBounded ==
    response # NoEntry /\ response.body # Error /\ response.age <= ttlMs =>
        superseded[response.body] <= response.age + fetchTimeout + cacheTTL

FloorHolds ==
    /\ floor <= version
    /\ route = "did-resolver" =>
        /\ \A l \in Lookups : fetched[l] # Error => fetched[l] >= floor
        /\ document # NoEntry => document.body >= floor

RInv == ResolutionTypeOK /\ CurrentFresh /\ FetchBounded /\ DocumentBounded /\ ResponseBounded /\ FloorHolds
-----------------------------------------------------------------------------
(* Nothing, or an entry of a cache that tells ages apart up to limit.      *)
EntryOf(B, limit) == {NoEntry} \cup [body : B, age : 0 .. limit]

(* An entry that grows older is still an entry, with the same body.        *)
LEMMA OlderFacts ==
  ASSUME NEW B, NEW limit \in Nat, NEW e \in EntryOf(B, limit)
  PROVE  /\ Older(e, limit) \in EntryOf(B, limit)
         /\ e = NoEntry => Older(e, limit) = NoEntry
         /\ e # NoEntry => Older(e, limit).body = e.body /\ Older(e, limit).age >= e.age
         /\ e # NoEntry /\ Older(e, limit).age < limit => Older(e, limit).age = e.age + 1
<1> USE DEF EntryOf
<1>1. CASE e = NoEntry
  BY <1>1 DEF Older, NoEntry, Error
<1>2. CASE e # NoEntry
  <2>1. e \in [body : B, age : 0 .. limit] /\ e.age \in 0 .. limit
    BY <1>2
  <2>2. CASE e.age < limit
    <3>1. Older(e, limit) = [body |-> e.body, age |-> e.age + 1]
      BY <1>2, <2>1, <2>2 DEF Older
    <3> QED
      BY <1>2, <2>1, <2>2, <3>1
  <2>3. CASE ~(e.age < limit)
    <3>1. Older(e, limit) = e
      BY <1>2, <2>3 DEF Older
    <3> QED
      BY <1>2, <2>1, <2>3, <3>1
  <2> QED
    BY <2>2, <2>3
<1> QED
  BY <1>1, <1>2

(* An entry that is made now.                                              *)
LEMMA NewFacts ==
  ASSUME NEW B, NEW limit \in Nat, NEW v \in B
  PROVE  New(v) \in [body : B, age : 0 .. limit] /\ New(v).body = v /\ New(v).age = 0
  BY DEF New

(* The caches start as the invariant says.                                 *)
LEMMA RInit == ResolutionInit => RInv
  BY DEF ResolutionInit, RInv, ResolutionTypeOK, CurrentFresh, FetchBounded, DocumentBounded, ResponseBounded,
         FloorHolds, NoEntry, Error, Versions

(* What a request leaves behind when it ends.                              *)
LEMMA IdleFacts ==
  ASSUME RInv, NEW l \in Lookups, Idle(l)
  PROVE  /\ lookup' \in [Lookups -> {"idle", "fetching"}]
         /\ fetched' \in [Lookups -> Versions \cup {Error}]
         /\ awaited' \in [Lookups -> 0 .. fetchTimeout]
         /\ stores' \subseteq Lookups
         /\ fetched'[l] = Error
         /\ \A k \in Lookups \ {l} : lookup'[k] = lookup[k] /\ fetched'[k] = fetched[k] /\ awaited'[k] = awaited[k]
  BY DEF Idle, RInv, ResolutionTypeOK, Error

(* Every step of a resolution keeps the invariant.                         *)
LEMMA RNext == RInv /\ [ResolutionNext]_resolutionVars => RInv'
<1> SUFFICES ASSUME RInv, [ResolutionNext]_resolutionVars
             PROVE  RInv'
  OBVIOUS
<1> USE DEF Versions
<1>1. ASSUME NEW l \in Lookups, NEW cacheable \in BOOLEAN, NEW bypass \in BOOLEAN, Request(l, cacheable, bypass)
      PROVE  RInv'
  <2>1. CASE route # "ready" /\ Fresh
    <3>1. UNCHANGED requestVars /\ UNCHANGED <<route, version, superseded, document, floor>>
      BY <1>1, <2>1 DEF Request
    <3>2. response' = response \/ response' = New(document.body)
      BY <1>1, <2>1 DEF Request, Respond
    <3>3. /\ document # NoEntry /\ document.age < cacheTTL
          /\ document \in [body : Versions, age : 0 .. cacheTTL]
      BY <2>1 DEF RInv, ResolutionTypeOK, Fresh
    <3>4. document.body \in Versions /\ document.age \in Nat
      BY <3>3
    <3>5. superseded[document.body] <= document.age + fetchTimeout
      BY <3>3 DEF RInv, DocumentBounded
    <3>6. superseded[document.body] \in Nat
      BY <3>4 DEF RInv, ResolutionTypeOK
    <3>7. /\ New(document.body) \in [body : Versions \cup {Error}, age : 0 .. ttlMs + 1]
          /\ New(document.body).body = document.body /\ New(document.body).age = 0
      <4>1. ttlMs + 1 \in Nat /\ document.body \in Versions \cup {Error}
        BY <3>4
      <4> QED
        BY <4>1, NewFacts
    <3>8. response' = NoEntry \/ response' \in [body : Versions \cup {Error}, age : 0 .. ttlMs + 1]
      BY <3>2, <3>7 DEF RInv, ResolutionTypeOK
    <3>9. ResolutionTypeOK'
      BY <3>1, <3>8 DEF RInv, ResolutionTypeOK, requestVars
    <3>10. ASSUME response' = response PROVE ResponseBounded'
      BY <3>1, <3>10 DEF RInv, ResponseBounded
    <3>11. ASSUME response' = New(document.body) PROVE ResponseBounded'
      <4>1. superseded'[response'.body] <= response'.age + fetchTimeout + cacheTTL
        BY <3>1, <3>3, <3>4, <3>5, <3>6, <3>7, <3>11
      <4> QED
        BY <4>1 DEF ResponseBounded
    <3> QED
      BY <3>1, <3>2, <3>9, <3>10, <3>11 DEF RInv, CurrentFresh, FetchBounded, DocumentBounded, FloorHolds, requestVars
  <2>2. CASE ~(route # "ready" /\ Fresh)
    <3>1. /\ lookup' = [lookup EXCEPT ![l] = "fetching"] /\ stores' \in {stores, stores \cup {l}}
          /\ response' \in {response, NoEntry}
          /\ UNCHANGED <<route, version, superseded, document, floor, fetched, awaited>>
      BY <1>1, <2>2 DEF Request
    <3>2. ResolutionTypeOK'
      BY <3>1 DEF RInv, ResolutionTypeOK
    <3>3. ResponseBounded'
      BY <3>1 DEF RInv, ResponseBounded
    <3>4. FetchBounded'
      BY <3>1 DEF RInv, ResolutionTypeOK, FetchBounded
    <3> QED
      BY <3>1, <3>2, <3>3, <3>4 DEF RInv, CurrentFresh, DocumentBounded, FloorHolds
  <2> QED
    BY <2>1, <2>2
<1>2. ASSUME NEW l \in Lookups, OriginReads(l)
      PROVE  RInv'
  <2>1. ResolutionTypeOK'
    BY <1>2 DEF OriginReads, RInv, ResolutionTypeOK
  <2>2. FetchBounded'
    BY <1>2 DEF OriginReads, RInv, ResolutionTypeOK, FetchBounded, CurrentFresh, Error
  <2>3. FloorHolds'
    BY <1>2 DEF OriginReads, RInv, ResolutionTypeOK, FloorHolds
  <2> QED
    BY <1>2, <2>1, <2>2, <2>3 DEF OriginReads, RInv, CurrentFresh, DocumentBounded, ResponseBounded
<1>3. ASSUME NEW l \in Lookups, Resolved(l)
      PROVE  RInv'
  <2>1. /\ fetched[l] \in Versions /\ superseded[fetched[l]] <= fetchTimeout /\ superseded[fetched[l]] \in Nat
        /\ route = "did-resolver" => fetched[l] >= floor
    BY <1>3 DEF Resolved, RInv, ResolutionTypeOK, FetchBounded, FloorHolds
  <2>2. document' = document \/ document' = New(fetched[l])
    BY <1>3 DEF Resolved, Remember
  <2>3. response' = response \/ response' = New(fetched[l])
    BY <1>3 DEF Resolved, Respond
  <2>4. Idle(l) /\ UNCHANGED <<route, version, superseded, floor>>
    BY <1>3 DEF Resolved
  <2>5. /\ New(fetched[l]) \in [body : Versions, age : 0 .. cacheTTL]
        /\ New(fetched[l]) \in [body : Versions \cup {Error}, age : 0 .. ttlMs + 1]
        /\ New(fetched[l]).body = fetched[l] /\ New(fetched[l]).age = 0
    <3>1. ttlMs + 1 \in Nat /\ fetched[l] \in Versions \cup {Error}
      BY <2>1
    <3>2. New(fetched[l]) \in [body : Versions, age : 0 .. cacheTTL]
      BY <2>1, NewFacts
    <3> QED
      BY <3>1, <3>2, NewFacts
  <2>6. ResolutionTypeOK'
    <3>1. document' = NoEntry \/ document' \in [body : Versions, age : 0 .. cacheTTL]
      BY <2>2, <2>5 DEF RInv, ResolutionTypeOK
    <3>2. response' = NoEntry \/ response' \in [body : Versions \cup {Error}, age : 0 .. ttlMs + 1]
      BY <2>3, <2>5 DEF RInv, ResolutionTypeOK
    <3> QED
      BY <2>4, <3>1, <3>2, IdleFacts DEF RInv, ResolutionTypeOK
  <2>9. DocumentBounded'
    BY <2>1, <2>2, <2>4, <2>5 DEF RInv, DocumentBounded
  <2>10. ResponseBounded'
    BY <2>1, <2>3, <2>4, <2>5 DEF RInv, ResponseBounded
  <2>7. FetchBounded'
    BY <2>4, IdleFacts DEF RInv, FetchBounded
  <2>8. FloorHolds'
    BY <2>1, <2>2, <2>4, <2>5, IdleFacts DEF RInv, FloorHolds
  <2> QED
    BY <2>4, <2>6, <2>7, <2>8, <2>9, <2>10 DEF RInv, CurrentFresh
<1>4. ASSUME NEW l \in Lookups, Failed(l)
      PROVE  RInv'
  <2>1. response' = response \/ response' = New(Error)
    BY <1>4 DEF Failed, Respond
  <2>2. Idle(l) /\ UNCHANGED <<route, version, superseded, document, floor>>
    BY <1>4 DEF Failed
  <2>7. New(Error) \in [body : Versions \cup {Error}, age : 0 .. ttlMs + 1] /\ New(Error).body = Error
    <3>1. ttlMs + 1 \in Nat /\ Error \in Versions \cup {Error}
      OBVIOUS
    <3> QED
      BY <3>1, NewFacts
  <2>3. ResolutionTypeOK'
    <3>1. response' = NoEntry \/ response' \in [body : Versions \cup {Error}, age : 0 .. ttlMs + 1]
      BY <2>1, <2>7 DEF RInv, ResolutionTypeOK
    <3> QED
      BY <2>2, <3>1, IdleFacts DEF RInv, ResolutionTypeOK
  <2>4. ResponseBounded'
    BY <2>1, <2>2, <2>7 DEF RInv, ResponseBounded
  <2>5. FetchBounded'
    BY <2>2, IdleFacts DEF RInv, FetchBounded
  <2>6. FloorHolds'
    BY <2>2, IdleFacts DEF RInv, FloorHolds
  <2> QED
    BY <2>2, <2>3, <2>4, <2>5, <2>6 DEF RInv, CurrentFresh, DocumentBounded
<1>5. ASSUME NEW l \in Lookups, Aborted(l)
      PROVE  RInv'
  BY <1>4, <1>5 DEF Aborted
<1>6. CASE Invalidate
  <2>1. ResolutionTypeOK'
    BY <1>6 DEF Invalidate, Forget, requestVars, RInv, ResolutionTypeOK
  <2>2. FloorHolds'
    BY <1>6 DEF Invalidate, Forget, requestVars, RInv, ResolutionTypeOK, FloorHolds, FetchBounded
  <2> QED
    BY <1>6, <2>1, <2>2 DEF Invalidate, Forget, requestVars, RInv, CurrentFresh, FetchBounded, DocumentBounded, ResponseBounded
<1>7. CASE Evict
  BY <1>7 DEF Evict, requestVars, RInv, ResolutionTypeOK, CurrentFresh, FetchBounded, DocumentBounded, ResponseBounded, FloorHolds
<1>8. CASE Publish
  BY <1>8 DEF Publish, requestVars, RInv, ResolutionTypeOK, CurrentFresh, FetchBounded, DocumentBounded, ResponseBounded, FloorHolds
<1>9. CASE ResolutionTick
  <2>1. \A v \in Versions : /\ superseded'[v] \in 0 .. Horizon
                            /\ superseded[v] \in Nat /\ superseded'[v] <= superseded[v] + 1
                            /\ v >= version => superseded'[v] = superseded[v]
    BY <1>9 DEF ResolutionTick, RInv, ResolutionTypeOK
  <2>2. /\ superseded' \in [Versions -> 0 .. Horizon]
        /\ awaited' \in [Lookups -> 0 .. fetchTimeout]
        /\ \A l \in Lookups : lookup[l] = "fetching" => awaited'[l] = awaited[l] + 1
    BY <1>9, <2>1 DEF ResolutionTick, RInv, ResolutionTypeOK
  <2>3. document' = Older(document, cacheTTL) /\ response' = Older(response, ttlMs + 1)
        /\ UNCHANGED <<route, version, lookup, fetched, stores, floor>>
    BY <1>9 DEF ResolutionTick
  <2>4. document \in EntryOf(Versions, cacheTTL) /\ response \in EntryOf(Versions \cup {Error}, ttlMs + 1)
    BY DEF RInv, ResolutionTypeOK, EntryOf
  <2>6. ttlMs + 1 \in Nat /\ cacheTTL \in Nat
    OBVIOUS
  <2>5. /\ document' \in EntryOf(Versions, cacheTTL)
        /\ document = NoEntry => document' = NoEntry
        /\ document # NoEntry => document'.body = document.body /\ document'.age >= document.age
        /\ document # NoEntry /\ document'.age < cacheTTL => document'.age = document.age + 1
    <3>1. /\ Older(document, cacheTTL) \in EntryOf(Versions, cacheTTL)
          /\ document = NoEntry => Older(document, cacheTTL) = NoEntry
          /\ document # NoEntry => Older(document, cacheTTL).body = document.body /\ Older(document, cacheTTL).age >= document.age
          /\ document # NoEntry /\ Older(document, cacheTTL).age < cacheTTL => Older(document, cacheTTL).age = document.age + 1
      BY <2>4, <2>6, OlderFacts
    <3> QED
      BY <2>3, <3>1
  <2>7. /\ response' \in EntryOf(Versions \cup {Error}, ttlMs + 1)
        /\ response = NoEntry => response' = NoEntry
        /\ response # NoEntry => response'.body = response.body /\ response'.age >= response.age
        /\ response # NoEntry /\ response'.age < ttlMs + 1 => response'.age = response.age + 1
    <3>1. /\ Older(response, ttlMs + 1) \in EntryOf(Versions \cup {Error}, ttlMs + 1)
          /\ response = NoEntry => Older(response, ttlMs + 1) = NoEntry
          /\ response # NoEntry => Older(response, ttlMs + 1).body = response.body /\ Older(response, ttlMs + 1).age >= response.age
          /\ response # NoEntry /\ Older(response, ttlMs + 1).age < ttlMs + 1 => Older(response, ttlMs + 1).age = response.age + 1
      BY <2>4, <2>6, OlderFacts
    <3> QED
      BY <2>3, <3>1
  <2>8. ResolutionTypeOK'
    BY <2>2, <2>3, <2>5, <2>7 DEF RInv, ResolutionTypeOK, EntryOf
  <2>9. CurrentFresh'
    BY <2>1, <2>3 DEF RInv, CurrentFresh
  <2>10. FetchBounded'
    <3> SUFFICES ASSUME NEW l \in Lookups, fetched[l] # Error
                 PROVE  lookup[l] = "fetching" /\ superseded'[fetched[l]] <= awaited'[l]
      BY <2>3 DEF FetchBounded
    <3>1. /\ lookup[l] = "fetching" /\ superseded[fetched[l]] <= awaited[l]
          /\ fetched[l] \in Versions /\ awaited[l] \in Nat
      BY DEF RInv, ResolutionTypeOK, FetchBounded
    <3>2. awaited'[l] = awaited[l] + 1
      BY <2>2, <3>1
    <3>3. superseded'[fetched[l]] <= superseded[fetched[l]] + 1 /\ superseded[fetched[l]] \in Nat
          /\ superseded'[fetched[l]] \in Nat
      BY <2>1, <3>1
    <3> QED
      BY <3>1, <3>2, <3>3
  <2>11. DocumentBounded'
    BY <2>1, <2>4, <2>5 DEF RInv, DocumentBounded, EntryOf
  <2>12. ResponseBounded'
    BY <2>1, <2>4, <2>7 DEF RInv, ResponseBounded, EntryOf
  <2>13. FloorHolds'
    BY <2>3, <2>4, <2>5 DEF RInv, FloorHolds
  <2> QED
    BY <2>8, <2>9, <2>10, <2>11, <2>12, <2>13 DEF RInv
<1>10. CASE UNCHANGED resolutionVars
  BY <1>10 DEF resolutionVars, requestVars, RInv, ResolutionTypeOK, CurrentFresh, FetchBounded, DocumentBounded, ResponseBounded, FloorHolds
<1> QED
  BY <1>1, <1>2, <1>3, <1>4, <1>5, <1>6, <1>7, <1>8, <1>9, <1>10 DEF ResolutionNext

(* The invariant of the resolver and the response cache.                   *)
THEOREM ResolutionInvariant == ResolutionSpec => []RInv
  BY RInit, RNext, PTL DEF ResolutionSpec

(* The limits of both caches and of the fetch bound how old an answer is.  *)
THEOREM StaleWithinLimits == ResolutionSpec => []StalenessBounded
<1>1. RInv => StalenessBounded
  <2> SUFFICES ASSUME RInv PROVE StalenessBounded
    OBVIOUS
  <2>1. ASSUME Fresh PROVE superseded[document.body] < fetchTimeout + cacheTTL
    <3>1. document.body \in Versions /\ document.age \in Nat /\ document.age < cacheTTL
      BY <2>1 DEF Fresh, RInv, ResolutionTypeOK
    <3>2. superseded[document.body] \in Nat
      BY <3>1 DEF RInv, ResolutionTypeOK
    <3>3. superseded[document.body] <= document.age + fetchTimeout
      BY <2>1 DEF Fresh, RInv, DocumentBounded
    <3> QED
      BY <3>1, <3>2, <3>3
  <2>2. ASSUME Servable, response.body # Error
        PROVE  superseded[response.body] <= fetchTimeout + cacheTTL + ttlMs
    <3>1. response.body \in Versions /\ response.age \in Nat /\ response.age <= ttlMs
      BY <2>2 DEF Servable, RInv, ResolutionTypeOK
    <3>2. superseded[response.body] \in Nat
      BY <3>1 DEF RInv, ResolutionTypeOK
    <3>3. superseded[response.body] <= response.age + fetchTimeout + cacheTTL
      BY <2>2 DEF Servable, RInv, ResponseBounded
    <3> QED
      BY <3>1, <3>2, <3>3
  <2> QED
    BY <2>1, <2>2 DEF StalenessBounded
<1> QED
  BY <1>1, ResolutionInvariant, PTL

(* Nothing older than the last quiet invalidation is served.               *)
THEOREM InvalidationIsFinal == ResolutionSpec => []InvalidationHolds
<1>1. RInv => InvalidationHolds
  BY DEF RInv, FloorHolds, InvalidationHolds, Fresh
<1> QED
  BY <1>1, ResolutionInvariant, PTL

HIDE ResolutionAssumption DEF ResolutionAssumption

-----------------------------------------------------------------------------
(***************************************************************************)
(* For every window, every number of requests, every burst: the bucket of  *)
(* RateLimit admits no more than it held and was refilled.                 *)
(*                                                                         *)
(* The bound alone is not inductive: it leaves open what the bucket still  *)
(* holds.  With that on its left-hand side it is: a request moves windowMs *)
(* parts from the bucket to the count, a tick adds at most maxRequests     *)
(* parts to both sides, and a full bucket only helps.                      *)
(***************************************************************************)

USE RateAssumption DEF RateAssumption

BucketTypes ==
    /\ limiter \in {"bucket", "window"}
    /\ tokens \in Nat /\ tokens <= burstSize * windowMs
    /\ sinceRefill \in Nat /\ since \in Nat /\ admitted \in Nat

BucketAccounts ==
    limiter = "bucket" => admitted * windowMs + Refilled <= burstSize * windowMs + since * maxRequests

BucketInv == BucketTypes /\ BucketAccounts
-----------------------------------------------------------------------------
(* What one more step of a product adds.                                   *)
LEMMA OneMore ==
  ASSUME NEW a \in Nat, NEW b \in Nat
  PROVE  a * b \in Nat /\ 0 * b = 0 /\ (a + 1) * b = a * b + b
  OBVIOUS

(* The bucket is never over-full, and holds what it held at least.         *)
LEMMA RefilledFacts ==
  ASSUME BucketTypes
  PROVE  /\ burstSize * windowMs \in Nat
         /\ Refilled \in Nat /\ Refilled <= burstSize * windowMs
         /\ sinceRefill * maxRequests \in Nat
         /\ Refilled <= tokens + sinceRefill * maxRequests
<1>1. burstSize \in Nat /\ windowMs \in Nat /\ maxRequests \in Nat /\ sinceRefill \in Nat
  BY DEF BucketTypes
<1>2. burstSize * windowMs \in Nat /\ sinceRefill * maxRequests \in Nat
  BY <1>1, OneMore
<1> DEFINE full == burstSize * windowMs
           gain == sinceRefill * maxRequests
<1>3. full \in Nat /\ gain \in Nat /\ tokens \in Nat /\ tokens <= full
  BY <1>2 DEF BucketTypes
<1>4. Refilled = Least(full, tokens + gain)
  BY DEF Refilled
<1> HIDE DEF full, gain
<1>5. Refilled \in Nat /\ Refilled <= full /\ Refilled <= tokens + gain
  BY <1>3, <1>4 DEF Least
<1> QED
  BY <1>2, <1>5 DEF full, gain

(* A bucket that was just written holds what was written.                  *)
LEMMA JustWritten ==
  ASSUME NEW t \in Nat, t <= burstSize * windowMs, burstSize * windowMs \in Nat,
         tokens' = t, sinceRefill' = 0
  PROVE  Refilled' = t
<1>1. sinceRefill' * maxRequests = 0
  BY OneMore
<1>2. Refilled' = Least(burstSize * windowMs, t + sinceRefill' * maxRequests)
  BY DEF Refilled
<1> DEFINE full == burstSize * windowMs
<1>3. Refilled' = Least(full, t)
  BY <1>1, <1>2
<1>4. full \in Nat /\ t <= full
  OBVIOUS
<1> HIDE DEF full
<1> QED
  BY <1>3, <1>4 DEF Least

(* The bucket starts as its invariant says.                                *)
LEMMA BucketInit == LimitInit => BucketInv
<1> SUFFICES ASSUME LimitInit PROVE BucketInv
  OBVIOUS
<1>1. burstSize * windowMs \in Nat /\ 0 * windowMs = 0 /\ 0 * maxRequests = 0
  BY OneMore
<1>2. BucketTypes
  BY <1>1 DEF LimitInit, BucketTypes
<1>3. Refilled <= burstSize * windowMs /\ Refilled \in Nat
  BY <1>2, RefilledFacts
<1>4. admitted * windowMs = 0 /\ since * maxRequests = 0
  BY <1>1 DEF LimitInit
<1> QED
  BY <1>1, <1>2, <1>3, <1>4 DEF BucketInv, BucketAccounts

(* Every step keeps the invariant of the bucket.                           *)
LEMMA BucketNext == BucketInv /\ [LimitNext]_limitVars => BucketInv'
<1> SUFFICES ASSUME BucketInv, [LimitNext]_limitVars PROVE BucketInv'
  OBVIOUS
<1> DEFINE full == burstSize * windowMs
           count == admitted * windowMs
           earned == since * maxRequests
<1>1. /\ full \in Nat /\ count \in Nat /\ earned \in Nat
      /\ Refilled \in Nat /\ Refilled <= full
      /\ limiter = "bucket" => count + Refilled <= full + earned
  <2>1. full \in Nat /\ Refilled \in Nat /\ Refilled <= full
    BY RefilledFacts DEF BucketInv
  <2>2. count \in Nat /\ earned \in Nat
    BY OneMore DEF BucketInv, BucketTypes
  <2> QED
    BY <2>1, <2>2 DEF BucketInv, BucketAccounts
<1>2. CASE Pass
  <2>1. BucketTypes'
    BY <1>1, <1>2 DEF Pass, Allows, BucketInv, BucketTypes
  <2>2. ASSUME limiter = "bucket"
        PROVE  admitted' * windowMs + Refilled' <= full + since' * maxRequests
    <3>1. /\ Refilled >= windowMs /\ tokens' = Refilled - windowMs /\ sinceRefill' = 0
          /\ admitted' = admitted + 1 /\ since' = since
      BY <1>2, <2>2 DEF Pass, Allows
    <3>2. admitted' * windowMs = count + windowMs
      BY <3>1, OneMore DEF BucketInv, BucketTypes
    <3>3. Refilled - windowMs \in Nat /\ Refilled - windowMs <= full
      BY <1>1, <3>1
    <3>4. Refilled' = Refilled - windowMs
      BY <1>1, <3>1, <3>3, JustWritten
    <3> HIDE DEF full, count, earned
    <3>5. since' * maxRequests = earned
      BY <3>1 DEF earned
    <3> QED
      BY <1>1, <2>2, <3>2, <3>4, <3>5
  <2> QED
    BY <1>2, <2>1, <2>2 DEF Pass, BucketInv, BucketAccounts
<1>3. CASE Refuse
  <2>1. BucketTypes'
    BY <1>1, <1>3 DEF Refuse, BucketInv, BucketTypes
  <2>2. ASSUME limiter = "bucket" PROVE Refilled' = Refilled
    BY <1>1, <1>3, <2>2, JustWritten DEF Refuse
  <2> QED
    BY <1>3, <2>1, <2>2 DEF Refuse, BucketInv, BucketAccounts
<1>4. CASE LimitTick
  <2>1. BucketTypes'
    BY <1>4 DEF LimitTick, BucketInv, BucketTypes
  <2>2. since' * maxRequests = earned + maxRequests
    BY <1>4, OneMore DEF LimitTick, BucketInv, BucketTypes
  <2>3. Refilled' <= Refilled + maxRequests /\ Refilled' \in Nat
    <3> DEFINE gain == sinceRefill * maxRequests
    <3>1. gain \in Nat /\ tokens \in Nat /\ Refilled = Least(full, tokens + gain)
      BY RefilledFacts DEF BucketInv, BucketTypes, Refilled
    <3>2. sinceRefill' * maxRequests = gain \/ sinceRefill' * maxRequests = gain + maxRequests
      BY <1>4, OneMore DEF LimitTick, BucketInv, BucketTypes
    <3>3. Refilled' = Least(full, tokens + sinceRefill' * maxRequests)
      BY <1>4 DEF LimitTick, Refilled
    <3>4. Refilled' = Least(full, tokens + gain) \/ Refilled' = Least(full, tokens + (gain + maxRequests))
      BY <3>2, <3>3
    <3> HIDE DEF full, gain
    <3> QED
      BY <1>1, <3>1, <3>4 DEF Least
  <2>5. admitted' * windowMs = count
    BY <1>4 DEF LimitTick
  <2>4. ASSUME limiter = "bucket"
        PROVE  admitted' * windowMs + Refilled' <= full + since' * maxRequests
    <3> HIDE DEF full, count, earned
    <3> QED
      BY <1>1, <2>2, <2>3, <2>5, <2>4
  <2> QED
    BY <1>4, <2>1, <2>4 DEF LimitTick, BucketInv, BucketAccounts
<1>5. CASE Mark
  <2>1. BucketTypes' /\ Refilled' = Refilled
    BY <1>5 DEF Mark, BucketInv, BucketTypes, Refilled
  <2>2. admitted' * windowMs = 0 /\ since' * maxRequests = 0
    BY <1>5, OneMore DEF Mark
  <2> QED
    BY <1>1, <2>1, <2>2 DEF BucketInv, BucketAccounts
<1>6. CASE ClearStores
  <2>1. BucketTypes'
    BY <1>1, <1>6 DEF ClearStores, BucketInv, BucketTypes
  <2>2. Refilled' = full
    BY <1>1, <1>6, JustWritten DEF ClearStores
  <2>3. admitted' * windowMs = 0 /\ since' * maxRequests = 0
    BY <1>6, OneMore DEF ClearStores
  <2> QED
    BY <1>1, <2>1, <2>2, <2>3 DEF BucketInv, BucketAccounts
<1>7. CASE UNCHANGED limitVars
  BY <1>7 DEF limitVars, BucketInv, BucketTypes, BucketAccounts, Refilled
<1> QED
  BY <1>2, <1>3, <1>4, <1>5, <1>6, <1>7 DEF LimitNext

(* What was admitted and what is left never exceed what there was.         *)
THEOREM BucketInvariant == LimitSpec => []BucketInv
  BY BucketInit, BucketNext, PTL DEF LimitSpec

(* tokenBucket() admits from any moment on what a full bucket holds and    *)
(* what time refills, whatever the requests and the refusals between.      *)
THEOREM AdmitsWithinBurst == LimitSpec => []BucketBounded
<1>1. BucketInv => BucketBounded
  <2> SUFFICES ASSUME BucketInv, limiter = "bucket"
               PROVE  admitted * windowMs <= burstSize * windowMs + since * maxRequests
    BY DEF BucketBounded
  <2> DEFINE full == burstSize * windowMs
             count == admitted * windowMs
             earned == since * maxRequests
  <2>1. full \in Nat /\ Refilled \in Nat
    BY RefilledFacts DEF BucketInv
  <2>2. count \in Nat /\ earned \in Nat
    BY OneMore DEF BucketInv, BucketTypes
  <2>3. count + Refilled <= full + earned
    BY DEF BucketInv, BucketAccounts
  <2>4. count <= full + earned
    <3> HIDE DEF full, count, earned
    <3> QED
      BY <2>1, <2>2, <2>3
  <2> QED
    BY <2>4
<1> QED
  BY <1>1, BucketInvariant, PTL

-----------------------------------------------------------------------------
\* The requests of the window that are still in it after so many ticks.
Still(ticks) == {age \in 0 .. windowMs : age + ticks < windowMs}

\* The requests a sliding window admitted since the moment are in it.
WindowAccounts ==
    /\ Len(entries) <= maxRequests
    /\ limiter = "window" /\ since < windowMs => admitted <= Len(Retain(entries, 0 .. since))

\* At the end of Retry-After there is a token, or a place in the window.
RetryAccounts == retryIn >= 0 =>
    IF limiter = "bucket" THEN Refilled + retryIn * maxRequests >= windowMs
                          ELSE Len(Retain(entries, Still(retryIn))) < maxRequests

LimitInv == LimitTypeOK /\ BucketInv /\ WindowAccounts /\ RetryAccounts

(* Math.ceil of a quotient, times its divisor, is no less than its         *)
(* dividend.                                                               *)
LEMMA CeilingFacts ==
  ASSUME NEW a \in Nat, NEW b \in Nat \ {0}
  PROVE  Ceiling(a, b) \in Nat /\ Ceiling(a, b) * b >= a
<1> DEFINE n == a + b - 1
           q == n \div b
<1>1. n \in Nat /\ q \in Nat /\ n < (q + 1) * b
  OBVIOUS
<1>2. (q + 1) * b = q * b + b
  BY <1>1
<1> QED BY <1>1, <1>2 DEF Ceiling

(* Products in another order.                                              *)
LEMMA Regroup ==
  ASSUME NEW a \in Nat, NEW b \in Nat, NEW c \in Nat
  PROVE  (a * b) * c = b * (c * a) /\ a * b = b * a
  OBVIOUS

\* What the window holds
LEMMA WindowFacts ==
  ASSUME LimitTypeOK
  PROVE  /\ Recent \in Seq(0 .. windowMs) /\ Len(entries) \in Nat
         /\ Len(Recent) \in Nat /\ Len(Recent) <= Len(entries)
         /\ \A i \in 1 .. Len(Recent) : Recent[i] \in 0 .. windowMs - 1
<1>1. entries \in Seq(0 .. windowMs)
  BY DEF LimitTypeOK
<1>2. Recent \in Seq(0 .. windowMs) /\ \A e : Contains(Recent, e) <=> Contains(entries, e) /\ e \in 0 .. windowMs - 1
  BY <1>1, RetainContains DEF Recent
<1>3. \A i \in 1 .. Len(Recent) : Recent[i] \in 0 .. windowMs - 1
  BY <1>2 DEF Contains
<1>4. Len(Retain(entries, 0 .. windowMs - 1)) \in Nat /\ Len(Retain(entries, 0 .. windowMs - 1)) <= Len(entries)
  BY <1>1, RetainShorter
<1> QED BY <1>1, <1>2, <1>3, <1>4 DEF Recent

(* The wait that Retry-After asks for is long enough.                      *)
LEMMA RetryLasts ==
  ASSUME LimitTypeOK, BucketInv, ~Allows
  PROVE  /\ RetryAfter \in Nat
         /\ limiter = "bucket" => Refilled + RetryAfter * maxRequests >= windowMs
         /\ limiter = "window" => Recent # <<>> /\ Recent[1] + RetryAfter >= windowMs
<1>1. CASE limiter = "bucket"
  <2> DEFINE a == windowMs - Refilled
             b == maxRequests * second
             q == Ceiling(a, b)
  <2>1. Refilled \in Nat /\ Refilled < windowMs /\ a \in Nat
    BY <1>1, RefilledFacts DEF BucketInv, Allows
  <2>2. b \in Nat \ {0}
    OBVIOUS
  <2>3. RetryAfter = second * q
    BY <1>1 DEF RetryAfter
  <2>4. windowMs = Refilled + a
    BY <2>1
  <2> HIDE DEF a, b
  <2>5. q \in Nat /\ q * b >= a
    BY <2>1, <2>2, CeilingFacts
  <2> HIDE DEF q
  <2>6. (second * q) * maxRequests = q * b /\ second * q \in Nat
    BY <2>5, Regroup DEF b
  <2>7. RetryAfter * maxRequests = q * b /\ RetryAfter \in Nat
    BY <2>3, <2>6
  <2>8. q * b \in Nat
    BY <2>2, <2>5
  <2>9. Refilled + RetryAfter * maxRequests >= windowMs
    BY <2>1, <2>4, <2>5, <2>7, <2>8
  <2> QED BY <1>1, <2>7, <2>9
<1>2. CASE limiter = "window"
  <2>1. Recent \in Seq(0 .. windowMs) /\ Len(Recent) \in Nat /\ Len(Recent) >= maxRequests
        /\ \A i \in 1 .. Len(Recent) : Recent[i] \in 0 .. windowMs - 1
    BY <1>2, WindowFacts DEF Allows
  <2>2. 1 \in 1 .. Len(Recent) /\ Recent # <<>>
    BY <2>1
  <2> DEFINE a == windowMs - Recent[1]
             q == Ceiling(a, second)
  <2>3. a \in Nat /\ Recent[1] \in Nat /\ windowMs = Recent[1] + a
    <3>1. Recent[1] \in 0 .. windowMs - 1
      BY <2>1, <2>2
    <3> QED BY <3>1
  <2>4. RetryAfter = second * q
    BY <1>2 DEF RetryAfter
  <2> HIDE DEF a
  <2>5. q \in Nat /\ q * second >= a
    BY <2>3, CeilingFacts
  <2> HIDE DEF q
  <2>6. RetryAfter = q * second /\ q * second \in Nat
    BY <2>4, <2>5, Regroup
  <2> QED BY <1>2, <2>2, <2>3, <2>5, <2>6
<1> QED BY <1>1, <1>2 DEF LimitTypeOK

(* Both limiters leave a sequence of at most maxRequests requests.         *)
LEMMA LimitTypes ==
  ASSUME LimitInv, LimitNext
  PROVE  LimitTypeOK' /\ Len(entries') <= maxRequests
<1> DEFINE full == burstSize * windowMs
<1>0. LimitTypeOK /\ BucketInv /\ Len(entries) <= maxRequests
  BY DEF LimitInv, WindowAccounts
<1>1. full \in Nat /\ Refilled \in Nat /\ Refilled <= full
  BY <1>0, RefilledFacts DEF BucketInv
<1>2. Recent \in Seq(0 .. windowMs) /\ Len(Recent) \in Nat /\ Len(Recent) <= maxRequests /\ Len(entries) \in Nat
  BY <1>0, WindowFacts
<1>3. entries \in Seq(0 .. windowMs) /\ tokens \in 0 .. full /\ sinceRefill \in Nat /\ admitted \in Nat
      /\ since \in 0 .. MaxSince /\ retryIn \in Nat \cup {-1} /\ limiter \in {"bucket", "window"}
  BY <1>0 DEF LimitTypeOK
<1> HIDE DEF full
<1>4. CASE Pass
  <2>1. limiter' = limiter /\ since' = since /\ admitted' \in Nat /\ retryIn' = -1
    BY <1>3, <1>4 DEF Pass
  <2>2. tokens' \in 0 .. full /\ sinceRefill' \in Nat
    BY <1>1, <1>3, <1>4 DEF Pass, Allows
  <2>3. entries' \in Seq(0 .. windowMs) /\ Len(entries') <= maxRequests
    <3>1. CASE limiter = "bucket"
      BY <3>1, <1>0, <1>3, <1>4 DEF Pass
    <3>2. CASE limiter # "bucket"
      <4>1. entries' = Append(Recent, 0) /\ Len(Recent) < maxRequests
        BY <3>2, <1>4 DEF Pass, Allows
      <4>2. 0 \in 0 .. windowMs
        OBVIOUS
      <4>3. Append(Recent, 0) \in Seq(0 .. windowMs) /\ Len(Append(Recent, 0)) = Len(Recent) + 1
        BY <4>2, <1>2, AppendFacts
      <4> QED BY <4>1, <4>3, <1>2
    <3> QED BY <3>1, <3>2
  <2> QED BY <2>1, <2>2, <2>3, <1>3 DEF LimitTypeOK, full
<1>5. CASE Refuse
  <2>1. limiter' = limiter /\ since' = since /\ admitted' = admitted /\ retryIn' \in Nat
    BY <1>0, <1>5, RetryLasts DEF Refuse
  <2>2. tokens' \in 0 .. full /\ sinceRefill' \in Nat
    BY <1>1, <1>3, <1>5 DEF Refuse
  <2>3. entries' \in Seq(0 .. windowMs) /\ Len(entries') <= maxRequests
    BY <1>0, <1>2, <1>3, <1>5 DEF Refuse
  <2> QED BY <2>1, <2>2, <2>3, <1>3 DEF LimitTypeOK, full
<1>6. CASE LimitTick
  <2>1. limiter' = limiter /\ since' \in 0 .. MaxSince /\ admitted' = admitted /\ tokens' = tokens
        /\ retryIn' \in Nat \cup {-1} /\ sinceRefill' \in Nat
    BY <1>3, <1>6 DEF LimitTick
  <2>2. entries' \in Seq(0 .. windowMs) /\ Len(entries') = Len(entries)
    <3>1. entries' = [i \in DOMAIN entries |-> Least(entries[i] + 1, windowMs)]
      BY <1>6 DEF LimitTick
    <3>2. DOMAIN entries = 1 .. Len(entries) /\ \A i \in 1 .. Len(entries) : entries[i] \in 0 .. windowMs
      BY <1>3
    <3>3. \A i \in 1 .. Len(entries) : Least(entries[i] + 1, windowMs) \in 0 .. windowMs
      BY <3>2 DEF Least
    <3> QED BY <3>1, <3>2, <3>3, <1>2
  <2> QED BY <2>1, <2>2, <1>0, <1>3 DEF LimitTypeOK, full
<1>7. CASE Mark
  <2>1. LimitTypeOK'
    BY <1>3, <1>7 DEF Mark, LimitTypeOK, full
  <2> QED BY <2>1, <1>0, <1>7 DEF Mark
<1>8. CASE ClearStores
  <2>1. <<>> \in Seq(0 .. windowMs) /\ Len(<<>>) = 0
    OBVIOUS
  <2>2. tokens' \in 0 .. full
    BY <1>1, <1>8 DEF ClearStores, full
  <2> QED BY <2>1, <2>2, <1>3, <1>8 DEF ClearStores, LimitTypeOK, full
<1> QED BY <1>4, <1>5, <1>6, <1>7, <1>8 DEF LimitNext

(* What is left of the window, of a younger part of it.                    *)
LEMMA RecentOf ==
  ASSUME LimitTypeOK, NEW T, T \subseteq 0 .. windowMs - 1
  PROVE  Retain(Recent, T) = Retain(entries, T)
<1>1. (0 .. windowMs - 1) \cap T = T /\ entries \in Seq(0 .. windowMs)
  BY DEF LimitTypeOK
<1> QED BY <1>1, RetainRetain DEF Recent

(* A tick makes every request older.                                       *)
LEMMA TickAges ==
  ASSUME LimitTypeOK, LimitTick, NEW T, NEW U,
         \A age \in 0 .. windowMs : Least(age + 1, windowMs) \in U <=> age \in T
  PROVE  Len(Retain(entries', U)) = Len(Retain(entries, T))
<1> DEFINE ages == 0 .. windowMs
           older == [age \in ages |-> Least(age + 1, windowMs)]
<1>1. older \in [ages -> ages]
  BY DEF Least
<1>2. Takes(older, ages, ages, T, U)
  BY <1>1 DEF Takes
<1>3. entries \in Seq(ages)
  BY DEF LimitTypeOK
<1>4. entries' = Mapped(entries, older)
  <2>1. \A i \in DOMAIN entries : entries[i] \in ages
    BY <1>3
  <2> QED BY <2>1 DEF LimitTick, Mapped
<1> HIDE DEF older, ages
<1>5. \A s \in Seq(ages) : Mapped(s, older) \in Seq(ages) /\ Len(Retain(Mapped(s, older), U)) = Len(Retain(s, T))
  BY <1>2, RetainMapped
<1>6. Len(Retain(Mapped(entries, older), U)) = Len(Retain(entries, T))
  BY <1>3, <1>5
<1> QED BY <1>4, <1>6

(* Every step keeps what the window accounts for.                          *)
LEMMA WindowKeeps ==
  ASSUME LimitInv, LimitNext
  PROVE  WindowAccounts'
<1>0. LimitTypeOK /\ WindowAccounts /\ LimitTypeOK' /\ Len(entries') <= maxRequests
  BY LimitTypes DEF LimitInv
<1>1. entries \in Seq(0 .. windowMs) /\ admitted \in Nat /\ since \in Nat /\ limiter \in {"bucket", "window"}
  BY <1>0 DEF LimitTypeOK
<1>2. Recent \in Seq(0 .. windowMs)
  BY <1>0, WindowFacts
<1> SUFFICES ASSUME limiter' = "window", since' < windowMs
             PROVE  admitted' <= Len(Retain(entries', 0 .. since'))
  BY <1>0 DEF WindowAccounts
<1>3. CASE Pass
  <2>1. limiter = "window" /\ since < windowMs /\ since' = since /\ entries' = Append(Recent, 0) /\ admitted' = admitted + 1
    BY <1>3 DEF Pass
  <2> DEFINE T == 0 .. since
  <2>2. 0 \in T /\ 0 \in 0 .. windowMs /\ T \subseteq 0 .. windowMs - 1
    BY <1>1, <2>1
  <2>3. admitted <= Len(Retain(entries, T))
    BY <1>0, <2>1 DEF WindowAccounts
  <2> HIDE DEF T
  <2>4. Retain(Recent, T) = Retain(entries, T)
    BY <1>0, <2>2, RecentOf
  <2>5. Retain(Append(Recent, 0), T) = Append(Retain(Recent, T), 0)
    BY <1>2, <2>2, RetainAppend
  <2>6. Retain(Recent, T) \in Seq(0 .. windowMs)
    BY <1>2, RetainContains
  <2>7. Len(Append(Retain(Recent, T), 0)) = Len(Retain(Recent, T)) + 1 /\ Len(Retain(Recent, T)) \in Nat
    BY <2>2, <2>6
  <2>8. Len(Retain(entries', T)) = Len(Retain(entries, T)) + 1 /\ Len(Retain(entries, T)) \in Nat
    BY <2>1, <2>4, <2>5, <2>7
  <2>9. admitted' <= Len(Retain(entries', T))
    BY <1>1, <2>1, <2>3, <2>8
  <2> QED BY <2>1, <2>9 DEF T
<1>4. CASE Refuse
  <2>1. limiter = "window" /\ since < windowMs /\ since' = since /\ entries' = Recent /\ admitted' = admitted
    BY <1>4 DEF Refuse
  <2>2. 0 .. since \subseteq 0 .. windowMs - 1
    BY <1>1, <2>1
  <2>3. Retain(Recent, 0 .. since) = Retain(entries, 0 .. since)
    BY <1>0, <2>2, RecentOf
  <2> QED BY <1>0, <2>1, <2>3 DEF WindowAccounts
<1>5. CASE LimitTick
  <2>1. limiter = "window" /\ since' = since + 1 /\ admitted' = admitted
    BY <1>5 DEF LimitTick
  <2> DEFINE T == 0 .. since
             U == 0 .. since'
  <2>2. \A age \in 0 .. windowMs : Least(age + 1, windowMs) \in U <=> age \in T
    BY <1>1, <2>1 DEF Least
  <2>3. admitted <= Len(Retain(entries, T))
    BY <1>0, <1>1, <2>1 DEF WindowAccounts
  <2> HIDE DEF T
  <2>4. \A V : (\A age \in 0 .. windowMs : Least(age + 1, windowMs) \in V <=> age \in T)
               => Len(Retain(entries', V)) = Len(Retain(entries, T))
    BY <1>0, <1>5, TickAges
  <2> QED BY <2>1, <2>2, <2>3, <2>4
<1>6. CASE Mark
  <2>1. admitted' = 0 /\ since' = 0 /\ entries' = entries
    BY <1>6 DEF Mark
  <2>2. Len(Retain(entries, 0 .. 0)) \in Nat
    BY <1>1, RetainShorter
  <2> QED BY <2>1, <2>2
<1>7. CASE ClearStores
  <2>1. admitted' = 0 /\ since' = 0 /\ entries' = <<>>
    BY <1>7 DEF ClearStores
  <2>2. Len(<<>>) = 0
    OBVIOUS
  <2> QED BY <2>1, <2>2, RetainEmpty
<1> QED BY <1>3, <1>4, <1>5, <1>6, <1>7 DEF LimitNext

(* After retryIn ticks the bucket is refilled by a token.                  *)
LEMMA BucketRetries ==
  ASSUME LimitInv, LimitNext, limiter = "bucket", retryIn' >= 0
  PROVE  Refilled' + retryIn' * maxRequests >= windowMs
<1> DEFINE full == burstSize * windowMs
<1>0. LimitTypeOK /\ BucketInv /\ RetryAccounts
  BY DEF LimitInv
<1>1. full \in Nat /\ Refilled \in Nat /\ Refilled <= full /\ tokens \in Nat /\ sinceRefill \in Nat
      /\ sinceRefill * maxRequests \in Nat /\ retryIn \in Nat \cup {-1}
  BY <1>0, RefilledFacts DEF BucketInv, BucketTypes, LimitTypeOK
<1>2. full >= windowMs
  <2>1. \A a \in Nat, b \in Nat : (a + 1) * b = a * b + b /\ a * b \in Nat
    BY OneMore
  <2>2. burstSize - 1 \in Nat /\ burstSize = (burstSize - 1) + 1 /\ windowMs \in Nat
    OBVIOUS
  <2>3. burstSize * windowMs = (burstSize - 1) * windowMs + windowMs /\ (burstSize - 1) * windowMs \in Nat
    BY <2>1, <2>2
  <2> QED BY <2>3
<1>3. \A r \in Nat : r * maxRequests \in Nat /\ 0 * maxRequests = 0 /\ (r + 1) * maxRequests = r * maxRequests + maxRequests
  BY OneMore
<1> HIDE DEF full
<1>4. CASE Refuse
  <2>1. retryIn' = RetryAfter /\ Refilled' = Refilled
    BY <1>1, <1>4, JustWritten DEF Refuse, full
  <2>2. Refilled + RetryAfter * maxRequests >= windowMs
    BY <1>0, <1>4, RetryLasts DEF Refuse
  <2> QED BY <2>1, <2>2
<1>5. CASE LimitTick
  <2>1. retryIn \in Nat /\ retryIn' = IF retryIn > 0 THEN retryIn - 1 ELSE retryIn
    BY <1>1, <1>5 DEF LimitTick
  <2>2. Refilled + retryIn * maxRequests >= windowMs
    BY <1>0, <2>1 DEF RetryAccounts
  <2> DEFINE gain == sinceRefill * maxRequests
  <2>3. Refilled = Least(full, tokens + gain)
    BY DEF Refilled, full
  <2>4. Refilled' = Least(full, tokens + sinceRefill' * maxRequests)
    BY <1>5 DEF LimitTick, Refilled, full
  <2>5. sinceRefill' * maxRequests = IF Refilled < full THEN gain + maxRequests ELSE gain
    BY <1>1, <1>3, <1>5 DEF LimitTick, full
  <2>6. Refilled' = Least(full, Refilled + maxRequests)
    <3> HIDE DEF gain
    <3>1. CASE Refilled < full
      BY <3>1, <1>1, <2>3, <2>4, <2>5 DEF Least, gain
    <3>2. CASE ~(Refilled < full)
      BY <3>2, <1>1, <2>3, <2>4, <2>5 DEF Least, gain
    <3> QED BY <3>1, <3>2
  <2>7. CASE retryIn = 0
    BY <1>1, <1>2, <1>3, <2>1, <2>2, <2>6, <2>7 DEF Least
  <2>8. CASE retryIn > 0
    <3>1. retryIn - 1 \in Nat /\ retryIn = (retryIn - 1) + 1 /\ retryIn' = retryIn - 1
      BY <2>1, <2>8
    <3>2. retryIn * maxRequests = retryIn' * maxRequests + maxRequests /\ retryIn' * maxRequests \in Nat
      BY <3>1, <1>3
    <3> DEFINE left == retryIn' * maxRequests
               before == retryIn * maxRequests
    <3>3. left \in Nat /\ before = left + maxRequests /\ Refilled + before >= windowMs
      BY <3>2, <2>2
    <3> HIDE DEF left, before
    <3>4. Refilled' + left >= windowMs
      BY <3>3, <1>1, <1>2, <2>6 DEF Least
    <3> QED BY <3>4 DEF left
  <2> QED BY <2>1, <2>7, <2>8
<1>6. CASE Mark
  <2>1. Refilled' = Refilled /\ retryIn' = retryIn
    BY <1>6 DEF Mark, Refilled
  <2> QED BY <1>0, <2>1 DEF RetryAccounts
<1>7. CASE ClearStores
  <2>1. Refilled' = full /\ retryIn' = retryIn
    BY <1>1, <1>7, JustWritten DEF ClearStores, full
  <2>2. retryIn \in Nat /\ retryIn * maxRequests \in Nat
    BY <1>1, <1>3, <2>1
  <2> QED BY <1>1, <1>2, <2>1, <2>2
<1>8. CASE Pass
  BY <1>8 DEF Pass
<1> QED BY <1>4, <1>5, <1>6, <1>7, <1>8 DEF LimitNext

(* After retryIn ticks the window has room for a request.                  *)
LEMMA WindowRetries ==
  ASSUME LimitInv, LimitNext, limiter = "window", retryIn' >= 0
  PROVE  Len(Retain(entries', Still(retryIn'))) < maxRequests
<1>0. LimitTypeOK /\ BucketInv /\ RetryAccounts /\ Len(entries) <= maxRequests /\ Len(entries) \in Nat
  BY WindowFacts DEF LimitInv, WindowAccounts
<1>1. entries \in Seq(0 .. windowMs) /\ retryIn \in Nat \cup {-1}
  BY <1>0 DEF LimitTypeOK
<1>2. retryIn >= 0 => Len(Retain(entries, Still(retryIn))) < maxRequests
  BY <1>0 DEF RetryAccounts
<1>3. CASE Refuse
  <2>1. entries' = Recent /\ retryIn' = RetryAfter /\ ~Allows
    BY <1>3 DEF Refuse
  <2>2. RetryAfter \in Nat /\ Recent # <<>> /\ Recent[1] + RetryAfter >= windowMs
    BY <1>0, <2>1, RetryLasts
  <2>3. Recent[1] \notin Still(RetryAfter)
    BY <2>2 DEF Still
  <2>4. Recent \in Seq(0 .. windowMs) /\ Len(Recent) \in Nat /\ Len(Recent) <= maxRequests
    BY <1>0, WindowFacts
  <2>5. Len(Retain(Recent, Still(RetryAfter))) <= Len(Recent) - 1
    BY <2>2, <2>3, <2>4, RetainTail
  <2>6. Len(Retain(Recent, Still(RetryAfter))) \in Nat
    BY <2>4, RetainShorter
  <2>7. Len(Retain(Recent, Still(RetryAfter))) < maxRequests
    BY <2>4, <2>5, <2>6
  <2> QED BY <2>1, <2>7
<1>4. CASE LimitTick
  <2>1. retryIn \in Nat /\ retryIn' = IF retryIn > 0 THEN retryIn - 1 ELSE retryIn
    BY <1>1, <1>4 DEF LimitTick
  <2> DEFINE T == {age \in 0 .. windowMs : Least(age + 1, windowMs) + retryIn' < windowMs}
             U == Still(retryIn')
  <2>2. \A age \in 0 .. windowMs : Least(age + 1, windowMs) \in U <=> age \in T
    BY DEF Least, Still
  <2>3. T \subseteq Still(retryIn)
    BY <2>1 DEF Still, Least
  <2> HIDE DEF T
  <2>4. \A V : (\A age \in 0 .. windowMs : Least(age + 1, windowMs) \in V <=> age \in T)
               => Len(Retain(entries', V)) = Len(Retain(entries, T))
    BY <1>0, <1>4, TickAges
  <2>5. Len(Retain(entries', U)) = Len(Retain(entries, T))
    BY <2>2, <2>4
  <2>6. Len(Retain(entries, T)) <= Len(Retain(entries, Still(retryIn)))
    BY <1>1, <2>3, RetainMonotone
  <2>7. Len(Retain(entries, T)) \in Nat /\ Len(Retain(entries, Still(retryIn))) \in Nat
    BY <1>1, RetainShorter
  <2>8. Len(Retain(entries, T)) < maxRequests
    BY <1>2, <2>1, <2>6, <2>7
  <2> QED BY <2>5, <2>8
<1>5. CASE Mark
  BY <1>2, <1>5 DEF Mark
<1>6. CASE ClearStores
  <2>1. Len(<<>>) = 0 /\ entries' = <<>>
    BY <1>6 DEF ClearStores
  <2> QED BY <2>1, RetainEmpty
<1>7. CASE Pass
  BY <1>7 DEF Pass
<1> QED BY <1>3, <1>4, <1>5, <1>6, <1>7 DEF LimitNext

(* What LimitInv says of both limiters is kept by every step.              *)
THEOREM LimitInvariant == LimitSpec => []LimitInv
<1>1. LimitInit => LimitInv
  <2> SUFFICES ASSUME LimitInit PROVE LimitInv
    OBVIOUS
  <2>1. BucketInv /\ burstSize * windowMs \in Nat
    BY BucketInit, OneMore
  <2>2. <<>> \in Seq(0 .. windowMs) /\ Len(<<>>) = 0
    OBVIOUS
  <2>3. LimitTypeOK
    <3> DEFINE full == burstSize * windowMs
    <3>1. tokens = full /\ full \in Nat
      BY <2>1 DEF LimitInit
    <3> HIDE DEF full
    <3>2. tokens \in 0 .. full
      BY <3>1
    <3> QED BY <3>2, <2>2 DEF LimitInit, LimitTypeOK, full
  <2>4. WindowAccounts
    <3>1. Len(Retain(entries, 0 .. since)) \in Nat
      BY <2>2, RetainEmpty DEF LimitInit
    <3> QED BY <3>1, <2>2 DEF LimitInit, WindowAccounts
  <2>5. RetryAccounts
    BY DEF LimitInit, RetryAccounts
  <2> QED BY <2>1, <2>3, <2>4, <2>5 DEF LimitInv
<1>2. LimitInv /\ [LimitNext]_limitVars => LimitInv'
  <2> SUFFICES ASSUME LimitInv, [LimitNext]_limitVars PROVE LimitInv'
    OBVIOUS
  <2>1. BucketInv'
    BY BucketNext DEF LimitInv
  <2>2. CASE LimitNext
    <3>1. LimitTypeOK' /\ WindowAccounts'
      BY <2>2, LimitTypes, WindowKeeps
    <3>2. limiter' = limiter /\ limiter \in {"bucket", "window"}
      BY <2>2 DEF LimitNext, Pass, Refuse, LimitTick, Mark, ClearStores, LimitInv, LimitTypeOK
    <3>3. RetryAccounts'
      BY <2>2, <3>2, BucketRetries, WindowRetries DEF RetryAccounts
    <3> QED BY <2>1, <3>1, <3>3 DEF LimitInv
  <2>3. CASE UNCHANGED limitVars
    <3>1. LimitTypeOK' /\ WindowAccounts'
      BY <2>3 DEF limitVars, LimitInv, LimitTypeOK, WindowAccounts
    <3>2. RetryAccounts'
      BY <2>3 DEF limitVars, LimitInv, RetryAccounts, Refilled
    <3> QED BY <2>1, <3>1, <3>2 DEF LimitInv
  <2> QED BY <2>2, <2>3
<1> QED BY <1>1, <1>2, PTL DEF LimitSpec

(* Neither limiter admits more than it may, and a client that waits as     *)
(* long as Retry-After tells it is admitted (rate-limit.ts:35-127).        *)
THEOREM LimitsHold == LimitSpec => []RateLimitSound
<1>1. LimitInv => WindowBounded
  <2> SUFFICES ASSUME LimitInv, limiter = "window", since < windowMs
               PROVE  admitted <= maxRequests
    BY DEF WindowBounded
  <2>1. entries \in Seq(0 .. windowMs) /\ admitted \in Nat /\ Len(entries) <= maxRequests
        /\ admitted <= Len(Retain(entries, 0 .. since))
    BY DEF LimitInv, LimitTypeOK, WindowAccounts
  <2>2. Len(Retain(entries, 0 .. since)) \in Nat /\ Len(Retain(entries, 0 .. since)) <= Len(entries)
    BY <2>1, RetainShorter
  <2>3. Len(entries) \in Nat
    BY <2>1
  <2> QED BY <2>1, <2>2, <2>3
<1>2. LimitInv => RetryTruthful
  <2> SUFFICES ASSUME LimitInv, retryIn = 0
               PROVE  Allows
    BY DEF RetryTruthful
  <2>1. CASE limiter = "bucket"
    <3>1. Refilled + 0 * maxRequests >= windowMs /\ 0 * maxRequests = 0 /\ Refilled \in Nat
      BY <2>1, OneMore, RefilledFacts DEF LimitInv, RetryAccounts, BucketInv
    <3> QED BY <2>1, <3>1 DEF Allows
  <2>2. CASE limiter # "bucket"
    <3>1. Len(Retain(entries, Still(0))) < maxRequests
      BY <2>2 DEF LimitInv, RetryAccounts
    <3>2. Still(0) = 0 .. windowMs - 1
      BY DEF Still
    <3> QED BY <2>2, <3>1, <3>2 DEF Allows, Recent
  <2> QED BY <2>1, <2>2
<1> QED BY <1>1, <1>2, LimitInvariant, AdmitsWithinBurst, PTL DEF RateLimitSound, LimitInv

HIDE RateAssumption DEF RateAssumption
=============================================================================
