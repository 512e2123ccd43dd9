---------------------------- MODULE Serialization ----------------------------
(***************************************************************************)
(* packages/core/src/serialization: a value is encoded in one of the four  *)
(* formats and decoded again.                                              *)
(*                                                                         *)
(* A value is the sequence of its items in the order in which the encoders *)
(* visit them, each before its parts: a list before its elements, an       *)
(* object before its keys and values in turn.  The recursion of encoders   *)
(* and decoders over values in values thus becomes a walk along a          *)
(* sequence, with what is still to come kept beside it.  A text is known   *)
(* by its length, a float by its bits; the bytes of both follow their      *)
(* heads and are left out.  An encoder that throws leaves nothing behind.  *)
(***************************************************************************)
EXTENDS WireHeads, Sequences

CONSTANTS
    Samples,        \* values for MessagePack and CBOR
    Schemas,        \* types for Avro, with those they are made of
    Records,        \* values for Avro, with their schema
    MaxItems,       \* items an Avro decoder reads: a bound
    Messages,       \* fields for Protocol Buffers
    Single(_)       \* External: the bits of the double that writeFloatLE and
                    \* readFloatLE make of one, the nearest that 32 bits have

VARIABLES format, value, stage, wire, decoded

serialVars == <<format, value, stage, wire, decoded>>

Thrown == Item("thrown", 0)
-----------------------------------------------------------------------------
(* MessagePack and CBOR. *)

HeadOf(item) == IF format = "msgpack" THEN Pack(item) ELSE Cbor(item)
ItemOf(h) == IF format = "msgpack" THEN Unpack(h) ELSE Uncbor(h)

\* A head, and with it the encoder, throws.
Refuses(v) == format \in {"msgpack", "cbor"} /\ \E i \in DOMAIN v : HeadOf(v[i]) = Refused

\* encodeInternal()
Written(v) == [i \in DOMAIN v |-> HeadOf(v[i])]

\* The values that follow an item as its parts
Parts(item) == IF item.kind = "list" THEN item.n ELSE IF item.kind = "map" THEN 2 * item.n ELSE 0

\* The values still to be read when i items were
Left(items) ==
    LET left[i \in 0 .. Len(items)] ==
            IF i = 0 THEN 1
            ELSE LET l == left[i - 1]
                 IN  IF l = 0 THEN 0 ELSE l - 1 + Parts(items[i])
    IN  left

\* Item i is the last of the first value.
Closes(items, i) == LET left == Left(items) IN left[i - 1] > 0 /\ left[i] = 0

\* decodeInternal(), which throws past the end and leaves what follows the value
Read(w) ==
    LET items == [i \in DOMAIN w |-> ItemOf(w[i])]
    IN  IF \E n \in DOMAIN w : Closes(items, n)
        THEN SubSeq(items, 1, CHOOSE n \in DOMAIN w : Closes(items, n))
        ELSE <<Thrown>>
-----------------------------------------------------------------------------
(* Avro, which writes values without heads: encoder and decoder follow the *)
(* schema.  What they have still to write or to read is an agenda of       *)
(* types, of which some are those of a field.                              *)

Type(name, of) == [name |-> name, of |-> of]
Text == Type("string", <<>>)
Ask(t, field) == [type |-> t, field |-> field]

\* matchesType(), to which a list is an object as well, and a union nothing
Matches(item, t) ==
    \/ t.name = "null" /\ item.kind = "nil"
    \/ t.name = "boolean" /\ item.kind = "bool"
    \/ t.name = "long" /\ item.kind = "int"
    \/ t.name = "string" /\ item.kind = "text"
    \/ t.name = "array" /\ item.kind = "list"
    \/ t.name \in {"map", "record"} /\ item.kind \in {"object", "list"}

\* The type an item is written as: of a union, the first branch it matches
Chosen(item, t) ==
    IF t.name = "union"
    THEN t.of[CHOOSE k \in DOMAIN t.of : Matches(item, t.of[k]) /\ \A j \in 1 .. k - 1 : ~Matches(item, t.of[j])]
    ELSE t

\* What a type asks for behind an item: fields, or n elements or entries
Follows(t, n) ==
    IF t.name = "record" THEN [i \in DOMAIN t.of |-> Ask(t.of[i], TRUE)]
    ELSE IF t.name = "array" THEN [i \in 1 .. n |-> Ask(t.of[1], FALSE)]
    ELSE IF t.name = "map" THEN [i \in 1 .. 2 * n |-> Ask(IF i % 2 = 1 THEN Text ELSE t.of[1], FALSE)]
    ELSE <<>>

\* encodeRecord() writes one zero byte for a null, whatever the type.
IsNull(item, a) == a.field /\ item.kind = "nil"

Behind(item, a) == IF IsNull(item, a) THEN <<>> ELSE Follows(Chosen(item, a.type), item.n)

\* encodeLong()
Long(n) == <<Chunk("number", Varint(ZigZag(n)))>>

\* encodeValue() of one item
Bytes(item, a) ==
    LET t == Chosen(item, a.type)
    IN  IF IsNull(item, a) THEN <<Chunk("number", 0)>>
        ELSE IF t.name \in {"null", "record"} THEN <<>>
        ELSE IF t.name = "boolean" THEN <<Chunk("number", item.n)>>
        ELSE IF t.name = "string" /\ item.n # 0 THEN Long(item.n) \o <<Chunk("text", item.n)>>
        ELSE Long(item.n)

\* The agenda when i items are written, and what was written by then
Agenda(r) ==
    LET agenda[i \in 0 .. Len(r.items)] ==
            IF i = 0 THEN <<Ask(r.schema, FALSE)>>
            ELSE LET a == agenda[i - 1] IN Behind(r.items[i], Head(a)) \o Tail(a)
    IN  agenda

AvroBytes(r) ==
    LET bytes[i \in 0 .. Len(r.items)] ==
            IF i = 0 THEN <<>> ELSE bytes[i - 1] \o Bytes(r.items[i], Head(Agenda(r)[i - 1]))
    IN  bytes

AvroWritten(r) == AvroBytes(r)[Len(r.items)]

\* A union is read as its first branch.
FirstOf(t) == IF t.name = "union" THEN t.of[1] ELSE t

Reading(agenda, at, items) == [agenda |-> agenda, at |-> at, items |-> items]

(* decodeValue() of the first type of an agenda.  Behind the end there are *)
(* zeros; text read as a number, and the reverse, is garbage.              *)
Advance(w, s) ==
    LET t == FirstOf(Head(s.agenda).type)
        past == s.at > Len(w)
        field == IF past THEN 0 ELSE w[s.at].field
        n == UnZigZag(field)
        length == IF n < 0 THEN 0 ELSE n
        Take(item, chunks) ==
            Reading(Follows(t, item.n) \o Tail(s.agenda), s.at + chunks, Append(s.items, item))
    IN  IF s.agenda = <<>> THEN s
        ELSE IF t.name = "null" THEN Take(Item("nil", 0), 0)
        ELSE IF t.name = "record" THEN Take(Item("object", 0), 0)
        ELSE IF ~past /\ w[s.at].token # "number" THEN Reading(<<>>, s.at, <<Thrown>>)
        ELSE IF t.name = "boolean" THEN Take(Item("bool", IF past \/ field # 0 THEN 1 ELSE 0), 1)
        ELSE IF t.name = "long" THEN Take(Item("int", n), 1)
        ELSE IF t.name = "array" THEN Take(Item("list", length), 1)
        ELSE IF t.name = "map" THEN Take(Item("object", length), 1)
        ELSE IF n = 0 THEN Take(Item("text", 0), 1)
        ELSE IF s.at < Len(w) /\ w[s.at + 1] = Chunk("text", n) THEN Take(Item("text", n), 2)
        ELSE Reading(<<>>, s.at, <<Thrown>>)

AvroRuns(w, schema) ==
    LET run[k \in 0 .. MaxItems] ==
            IF k = 0 THEN Reading(<<Ask(schema, FALSE)>>, 1, <<>>) ELSE Advance(w, run[k - 1])
    IN  run

AvroRead(w, schema) == AvroRuns(w, schema)[MaxItems].items
-----------------------------------------------------------------------------
(* Protocol Buffers: keys with the wire type in their last three bits.  A  *)
(* field has a number, and as value n an integer, a length, or the bits of *)
(* a double.                                                               *)

WireType == [varint |-> 0, fixed64 |-> 1, length_delimited |-> 2, fixed32 |-> 5]

Key(f) == Varint(Wrap(8 * f.number + WireType[f.type]))

Payload(f) ==
    IF f.type = "fixed64" THEN f.n
    ELSE IF f.type = "fixed32" THEN Single(f.n)
    ELSE Varint(f.n)

Proto(fields) ==
    [i \in 1 .. 2 * Len(fields) |->
        LET f == fields[(i + 1) \div 2] IN IF i % 2 = 1 THEN Key(f) ELSE Payload(f)]

Unproto(w) ==
    [i \in 1 .. Len(w) \div 2 |->
        [number |-> w[2 * i - 1] \div 8,
         type |-> CHOOSE ty \in DOMAIN WireType : WireType[ty] = w[2 * i - 1] % 8,
         n |-> w[2 * i]]]
-----------------------------------------------------------------------------
(* Samples are whole values; what is encoded with a schema is of it, and   *)
(* of no union in a union, which Avro does not have; Protocol Buffers has  *)
(* numbers of fields of 29 bits, and lengths of 31.                        *)

OfType(item, t) ==
    IF t.name = "union"
    THEN \E k \in DOMAIN t.of : Matches(item, t.of[k]) /\ (Chosen(item, t).name \in {"map", "record"} => item.kind = "object")
    ELSE Matches(item, t) /\ (t.name \in {"map", "record"} => item.kind = "object")

WellTyped(r) ==
    /\ r.schema \in Schemas /\ r.items \in Seq([kind : {"nil", "bool", "int", "text", "list", "object"}, n : Doubles])
    /\ Len(r.items) <= MaxItems
    /\ \A i \in DOMAIN r.items :
        LET item == r.items[i]
            a == Agenda(r)[i - 1]
        IN  /\ a # <<>>
            /\ IsNull(item, Head(a)) \/ OfType(item, Head(a).type)
            /\ item.kind = "nil" => item.n = 0
            /\ item.kind = "bool" => item.n \in {0, 1}
            /\ item.kind \in {"text", "list", "object"} => item.n \in Nat
            /\ Chosen(item, Head(a).type).name = "record" => item.n = 0
    /\ Agenda(r)[Len(r.items)] = <<>>

Fields ==
    [number : 0 .. Word \div 8 - 1, type : {"varint"}, n : Doubles]
    \cup [number : 0 .. Word \div 8 - 1, type : {"fixed64", "fixed32"}, n : Nat]
    \cup [number : 0 .. Word \div 8 - 1, type : {"length_delimited"}, n : 0 .. -MinInt32 - 1]

ASSUME SerialAssumption ==
    /\ MaxItems \in Nat
    /\ Text \in Schemas
    /\ \A t \in Schemas :
        /\ t = Type(t.name, t.of) /\ t.of \in Seq(Schemas)
        /\ t.name \in {"null", "boolean", "long", "string", "array", "map", "record", "union"}
        /\ t.name \in {"array", "map", "union"} => t.of # <<>>
        /\ t.name = "union" => \A i \in DOMAIN t.of : t.of[i].name # "union"
    /\ \A v \in Samples : v \in Seq(Items) /\ v # <<>> /\ Closes(v, Len(v))
    /\ \A r \in Records : WellTyped(r)
    /\ \A m \in Messages : m \in Seq(Fields)

SerialInit ==
    /\ \/ format \in {"msgpack", "cbor"} /\ value \in Samples
       \/ format = "avro" /\ value \in Records
       \/ format = "protobuf" /\ value \in Messages
    /\ stage = "value" /\ wire = <<>> /\ decoded = <<>>

Encode ==
    /\ stage = "value" /\ ~Refuses(value) /\ stage' = "wire"
    /\ wire' = IF format = "avro" THEN AvroWritten(value)
               ELSE IF format = "protobuf" THEN Proto(value) ELSE Written(value)
    /\ UNCHANGED <<format, value, decoded>>

EncodeThrows ==
    /\ stage = "value" /\ Refuses(value) /\ stage' = "refused"
    /\ UNCHANGED <<format, value, wire, decoded>>

Decode ==
    /\ stage = "wire" /\ stage' = "decoded"
    /\ decoded' = IF format = "avro" THEN AvroRead(wire, value.schema)
                  ELSE IF format = "protobuf" THEN Unproto(wire) ELSE Read(wire)
    /\ UNCHANGED <<format, value, wire>>

\* External: the callers, who may do it again.
Again ==
    /\ stage \in {"decoded", "refused"} /\ stage' = "value"
    /\ wire' = <<>> /\ decoded' = <<>>
    /\ UNCHANGED <<format, value>>

SerialNext == Encode \/ EncodeThrows \/ Decode \/ Again

SerialSpec == SerialInit /\ [][SerialNext]_serialVars
-----------------------------------------------------------------------------
(* What is lost.  MessagePack has no undefined and reads a list of up to   *)
(* fifteen as a map; CBOR reads the bits of a float as an integer, and     *)
(* takes a negative integer past 2^53 from -1 in doubles, which moves      *)
(* every second one up to 2^54; both throw at integers past 64 bits.  Avro *)
(* doubles a number or a length in 32 bits, and writes neither nulls nor   *)
(* branches of a union so that they can be read.  A varint is not negative *)
(* and has 31 bits, a key has 32, of which the last is a sign; a fixed32   *)
(* is what 32 bits have of a double.                                       *)
Survives(item) ==
    /\ format = "msgpack" =>
        /\ item.kind # "undefined" /\ ~(item.kind = "list" /\ item.n <= 15)
        /\ item.kind = "int" => -(Wide \div 2) <= item.n /\ item.n < Wide
    /\ format = "cbor" =>
        /\ item.kind # "float"
        /\ item.kind = "int" => -Wide < item.n /\ item.n < Wide
        /\ item.kind = "int" /\ item.n \in -2 * Safe .. -Safe => item.n % 4 = 0

AvroSurvives(item, a) ==
    /\ ~IsNull(item, a)
    /\ a.type.name = "union" => Matches(item, a.type.of[1])
    /\ item.n \in -(Word \div 4) .. Word \div 4 - 1

FieldSurvives(f) ==
    /\ f.number < Word \div 16
    /\ f.type = "varint" => f.n \in 0 .. -MinInt32 - 1
    /\ f.type = "fixed32" => Single(f.n) = f.n

Lossless ==
    IF format = "avro" THEN \A i \in DOMAIN value.items : AvroSurvives(value.items[i], Head(Agenda(value)[i - 1]))
    ELSE IF format = "protobuf" THEN \A i \in DOMAIN value : FieldSurvives(value[i])
    ELSE \A i \in DOMAIN value : Survives(value[i])

Back == decoded = (IF format = "avro" THEN value.items ELSE value)

(* Everything else comes back as it was, however deep, and from whichever  *)
(* side of the bounds of the encodings its numbers and lengths are         *)
(* (msgpack.ts:47, cbor.ts:67, avro.ts:146, protobuf.ts:17).  But for      *)
(* Avro's, what is said to be lost is lost: it does not come back as it    *)
(* was, or is not written at all.                                          *)
RoundTrip ==
    /\ stage = "decoded" => (Lossless => Back) /\ (format # "avro" /\ Back => Lossless)
    /\ stage = "refused" => ~Lossless

(* tests/robot/serialization.robot:56, "Verify MsgPack serialize and       *)
(* deserialize roundtrip", of the values that JSON has.                    *)
MsgPackRoundTrip == format = "msgpack" /\ stage = "decoded" => Back
=============================================================================
