------------------------------ MODULE WireHeads ------------------------------
(***************************************************************************)
(* packages/core/src/serialization: the heads of the two self-describing   *)
(* formats, msgpack.ts and cbor.ts, and the numbers of avro.ts and         *)
(* protobuf.ts.                                                            *)
(*                                                                         *)
(* A head is the first byte of an item, its token, and the number that     *)
(* follows in one, two, four or eight bytes, its field.  Fields of two     *)
(* bytes and more are written and read by functions of Buffer that throw a *)
(* RangeError at what does not fit, which only integers of more than 64    *)
(* bits do not; a field of one byte is cut to it.  What a head announces   *)
(* is a kind of value with a number: the value of an integer, whether a    *)
(* boolean is true, the bits of a float, or a length.                      *)
(*                                                                         *)
(* Numbers are doubles.  Every integer up to 2^53 is one, beyond it every  *)
(* second, beyond 2^54 every fourth; that there are fewer still further on *)
(* makes no difference here.  Eight bytes hold those that fit exactly.     *)
(***************************************************************************)
EXTENDS Integers

CONSTANTS
    Word,   \* 2^32
    Safe,   \* 2^53
    Wide    \* 2^64

ASSUME WordAssumption ==
    /\ Word \in Nat /\ Word > 131072 /\ Word % 16 = 0
    /\ Safe \in Nat /\ Safe >= Word /\ Safe % 4 = 0
    /\ Wide \in Nat /\ Wide > 4 * Safe /\ Wide % 8 = 0

MaxUInt32 == Word - 1
MinInt32 == -(Word \div 2)

Doubles ==
    {n \in Int : /\ n \in -Safe .. Safe \/ n % 2 = 0
                 /\ n \in -2 * Safe .. 2 * Safe \/ n % 4 = 0}

(* -1 - n: where it lies half way between two doubles it is the one with   *)
(* the even significand, and further on it is -n.                          *)
MinusOneMinus(n) ==
    IF -1 - n \in -Safe .. Safe THEN -1 - n ELSE IF n % 4 = 0 THEN -n ELSE -n - 2

Item(kind, n) == [kind |-> kind, n |-> n]
Chunk(token, field) == [token |-> token, field |-> field]
Alone(token) == Chunk(token, 0)
Refused == Chunk(-1, 0)     \* a RangeError

\* writeBigUint64BE() and writeBigInt64BE()
BigUint64(token, n) == IF n < Wide THEN Chunk(token, n) ELSE Refused
BigInt64(token, n) == IF n >= -(Wide \div 2) THEN Chunk(token, n) ELSE Refused

Byte(n) == n % 256
Signed8(b) == IF b > 127 THEN b - 256 ELSE b

Simple == {"undefined", "nil", "bool"}
Sized == {"text", "bytes", "list", "map"}

\* The items that can be written.
Items == [kind : {"undefined", "nil"}, n : {0}] \cup [kind : {"bool"}, n : {0, 1}]
         \cup [kind : {"int"}, n : Doubles] \cup [kind : {"float"}, n : Nat]
         \cup [kind : Sized, n : 0 .. MaxUInt32]
-----------------------------------------------------------------------------
(* MessagePack. *)

\* A token of its own for small lengths, then those of 1, 2 and 4 bytes.
PackSize(n, small, limit, token8, token16, token32) ==
    IF n <= limit THEN Alone(small + n)
    ELSE IF n <= 255 /\ token8 # 0 THEN Chunk(token8, Byte(n))
    ELSE IF n <= 65535 THEN Chunk(token16, n)
    ELSE Chunk(token32, n)

\* Mutant: one more than the token holds is taken for a short integer.
PackIntOff(n) ==
    IF 0 <= n /\ n <= 127 THEN Alone(n)
    ELSE IF n < 0 /\ n >= -33 THEN Alone(Byte(n))
    ELSE IF 0 <= n /\ n <= 255 THEN Chunk(204, Byte(n))
    ELSE IF 0 <= n /\ n <= 65535 THEN Chunk(205, n)
    ELSE IF 0 <= n /\ n <= MaxUInt32 THEN Chunk(206, n)
    ELSE IF 0 <= n THEN BigUint64(207, n)
    ELSE IF n >= -128 THEN Chunk(208, Byte(n))
    ELSE IF n >= -32768 THEN Chunk(209, n)
    ELSE IF n >= MinInt32 THEN Chunk(210, n)
    ELSE BigInt64(211, n)

PackInt(n) ==
    IF 0 <= n /\ n <= 127 THEN Alone(n)
    ELSE IF n < 0 /\ n >= -32 THEN Alone(Byte(n))
    ELSE IF 0 <= n /\ n <= 255 THEN Chunk(204, Byte(n))
    ELSE IF 0 <= n /\ n <= 65535 THEN Chunk(205, n)
    ELSE IF 0 <= n /\ n <= MaxUInt32 THEN Chunk(206, n)
    ELSE IF 0 <= n THEN BigUint64(207, n)
    ELSE IF n >= -128 THEN Chunk(208, Byte(n))
    ELSE IF n >= -32768 THEN Chunk(209, n)
    ELSE IF n >= MinInt32 THEN Chunk(210, n)
    ELSE BigInt64(211, n)

Pack(item) ==
    IF item.kind \in {"undefined", "nil"} THEN Alone(192)
    ELSE IF item.kind = "bool" THEN Alone(194 + item.n)
    ELSE IF item.kind = "int" THEN PackInt(item.n)
    ELSE IF item.kind = "float" THEN Chunk(203, item.n)
    ELSE IF item.kind = "text" THEN PackSize(item.n, 160, 31, 217, 218, 219)
    ELSE IF item.kind = "bytes" THEN PackSize(item.n, 0, -1, 196, 197, 198)
    ELSE IF item.kind = "list" THEN PackSize(item.n, 144, 15, 0, 220, 221)
    ELSE PackSize(item.n, 128, 15, 0, 222, 223)

\* (token & 0xe0) === 0x80 holds of 0x90 to 0x9f too, and the test for 0x90
\* that follows of nothing: a short list is read as a map.
Unpack(h) ==
    IF h.token = 192 THEN Item("nil", 0)
    ELSE IF h.token \in {194, 195} THEN Item("bool", h.token - 194)
    ELSE IF h.token = 203 THEN Item("float", h.field)
    ELSE IF h.token >= 224 THEN Item("int", h.token - 256)
    ELSE IF h.token <= 127 THEN Item("int", h.token)
    ELSE IF h.token \in 160 .. 191 THEN Item("text", h.token % 32)
    ELSE IF h.token \in 128 .. 159 THEN Item("map", h.token % 16)
    ELSE IF h.token \in 204 .. 207 THEN Item("int", h.field)
    ELSE IF h.token = 208 THEN Item("int", Signed8(h.field))
    ELSE IF h.token \in 209 .. 211 THEN Item("int", h.field)
    ELSE IF h.token \in 217 .. 219 THEN Item("text", h.field)
    ELSE IF h.token \in 196 .. 198 THEN Item("bytes", h.field)
    ELSE IF h.token \in {220, 221} THEN Item("list", h.field)
    ELSE Item("map", h.field)
-----------------------------------------------------------------------------
(* CBOR. *)

\* encodeHeader()
CborHead(major, n) ==
    IF n <= 23 THEN Alone(major + n)
    ELSE IF n <= 255 THEN Chunk(major + 24, Byte(n))
    ELSE IF n <= 65535 THEN Chunk(major + 25, n)
    ELSE IF n <= MaxUInt32 THEN Chunk(major + 26, n)
    ELSE BigUint64(major + 27, n)

Cbor(item) ==
    IF item.kind = "undefined" THEN CborHead(224, 23)
    ELSE IF item.kind = "nil" THEN CborHead(224, 22)
    ELSE IF item.kind = "bool" THEN CborHead(224, 20 + item.n)
    ELSE IF item.kind = "int" THEN IF item.n >= 0 THEN CborHead(0, item.n) ELSE CborHead(32, MinusOneMinus(item.n))
    ELSE IF item.kind = "float" THEN Chunk(251, item.n)
    ELSE IF item.kind = "bytes" THEN CborHead(64, item.n)
    ELSE IF item.kind = "text" THEN CborHead(96, item.n)
    ELSE IF item.kind = "list" THEN CborHead(128, item.n)
    ELSE CborHead(160, item.n)

\* readSimple(); the bits of a float get here as if they were a simple value,
\* and are read as a number.
CborSimple(n) ==
    IF n \in {20, 21} THEN Item("bool", n - 20)
    ELSE IF n = 22 THEN Item("nil", 0)
    ELSE IF n = 23 \/ n \in 24 .. 27 THEN Item("undefined", 0)
    ELSE Item("int", n)

Uncbor(h) ==
    LET n == IF h.token % 32 \in 24 .. 27 THEN h.field ELSE h.token % 32
        major == h.token - (h.token % 32)
    IN  IF major = 0 THEN Item("int", n)
        ELSE IF major = 32 THEN Item("int", MinusOneMinus(n))
        ELSE IF major = 64 THEN Item("bytes", n)
        ELSE IF major = 96 THEN Item("text", n)
        ELSE IF major = 128 THEN Item("list", n)
        ELSE IF major = 160 THEN Item("map", n)
        ELSE CborSimple(n)
-----------------------------------------------------------------------------
(* Avro and Protocol Buffers: numbers of 32 bits, as JavaScript's bitwise  *)
(* operators make them of any integer, in as many groups of seven bits as  *)
(* they need.                                                              *)

Int32 == MinInt32 .. -MinInt32 - 1

\* An integer in 32 bits
Wrap(n) == ((n - MinInt32) % Word) + MinInt32

ZigZag(n) == IF n < 0 THEN -1 - Wrap(2 * n) ELSE Wrap(2 * n)

(* The loop stops at a number that is negative: at once, of which it keeps *)
(* seven bits, or, when the first shift made it so, with seven bits more.  *)
Varint(n) == IF n < 0 THEN n % 128 ELSE IF Wrap(n) < 0 THEN n % 16384 ELSE Wrap(n)

UnZigZag(u) == IF u % 2 = 0 THEN u \div 2 ELSE -(u \div 2) - 1
=============================================================================
