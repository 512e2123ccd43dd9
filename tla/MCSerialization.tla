--------------------------- MODULE MCSerialization ---------------------------
(* Values on both sides of every bound, alone and inside others.           *)
EXTENDS Serialization

Nil == <<Item("nil", 0)>>
Number(n) == <<Item("int", n)>>
Texts(n) == <<Item("text", n)>>
Ones(n) == [i \in 1 .. n |-> Item("int", 1)]
List(n, parts) == <<Item("list", n)>> \o parts
Map(n, parts) == <<Item("map", n)>> \o parts
Keyed(n) == [i \in 1 .. 2 * n |-> IF i % 2 = 1 THEN Item("text", i) ELSE Item("int", 1)]
Bounds == {0, 23, 24, 31, 32, 33, 127, 128, 129, 255, 256, 257, 32768, 32769, 65535, 65536,
           MaxUInt32 - 1, MaxUInt32, Word, Word + 1, -MinInt32, -MinInt32 + 1,
           Safe - 1, Safe, Safe + 2, Safe + 4, 2 * Safe - 4, 2 * Safe - 2, 2 * Safe, 2 * Safe + 4,
           Wide \div 2 - 32, Wide \div 2, Wide \div 2 + 64, Wide - 64, Wide, Wide + 128}
Scalars == {<<Item("undefined", 0)>>, Nil, <<Item("bool", 0)>>, <<Item("bool", 1)>>,
            <<Item("float", 20)>>, <<Item("float", 1000)>>}
           \cup {Number(n) : n \in Bounds} \cup {Number(-n) : n \in Bounds}
           \cup {<<Item(kind, n)>> : kind \in {"text", "bytes"}, n \in {b \in Bounds : b <= MaxUInt32}}
Nested == {List(n, Ones(n)) : n \in {0, 2, 15, 16, 17, 24}} \cup {Map(n, Keyed(n)) : n \in {0, 15, 16, 24}}
          \cup {List(2, List(2, Ones(2)) \o Nil), Map(2, Texts(1) \o List(2, Ones(2)) \o Keyed(1)),
                Map(2, Texts(1) \o Map(2, Keyed(2)) \o Texts(2) \o List(16, Ones(16)))}
MCSamples == Scalars \cup Nested \cup {Map(1, Texts(3) \o v) : v \in Scalars \cup Nested}
             \cup {List(16, v \o Ones(15)) : v \in Scalars \cup Nested}
JsonSamples == {v \in Scalars \cup Nested : v # <<Item("undefined", 0)>>}

Void == Type("null", <<>>)
Truth == Type("boolean", <<>>)
Integer == Type("long", <<>>)
Maybe == Type("union", <<Void, Text>>)
Either == Type("union", <<Text, Void>>)
Array(t) == Type("array", <<t>>)
Entries(t) == Type("map", <<t>>)
Pair(t, u) == Type("record", <<t, u>>)
Field(t, v) == [type |-> t, value |-> v]
Quarter == Word \div 4
AvroFieldSamples ==
    {Field(Integer, Number(n)) : n \in {0, 63, 64, -64, -65, Quarter - 1, Quarter, -Quarter, -Quarter - 1}}
    \cup {Field(Text, Texts(0)), Field(Text, Texts(64)), Field(Text, Nil), Field(Truth, <<Item("bool", 1)>>),
          Field(Maybe, Texts(2)), Field(Maybe, Nil), Field(Either, Texts(2)), Field(Either, Nil),
          Field(Array(Integer), List(3, Ones(3))), Field(Array(Text), List(2, Texts(1) \o Texts(70))),
          Field(Array(Array(Integer)), List(2, List(1, Ones(1)) \o List(0, <<>>))),
          Field(Array(Void), List(2, Nil \o Nil)), Field(Array(Maybe), List(2, Texts(2) \o Nil)),
          Field(Entries(Integer), <<Item("object", 2)>> \o Keyed(2)),
          Field(Pair(Text, Integer), <<Item("object", 0)>> \o Texts(5) \o Ones(1)),
          Field(Pair(Text, Integer), <<Item("object", 0)>> \o Nil \o Ones(1))}
MCSchemas ==
    LET fields == {f.type : f \in AvroFieldSamples}
    IN  {Void, Text} \cup fields \cup {Pair(t, u) : t \in fields, u \in fields}
MCRecords ==
    {[schema |-> Pair(f.type, g.type), items |-> <<Item("object", 0)>> \o f.value \o g.value] :
        f \in AvroFieldSamples, g \in AvroFieldSamples}

\* Two bits more in a double than in a float, and the largest float at 1000.
MCSingle(n) ==
    LET low == n - (n % 4)
        nearest == IF n % 4 = 3 \/ (n % 4 = 2 /\ low % 8 # 0) THEN low + 4 ELSE low
        infinity == 2000
    IN  IF nearest > 1000 THEN infinity ELSE nearest

MCMessages ==
    LET Numbers == {1, 15, 16, 2000, 16383, 16384}
        one == [number : Numbers, type : {"varint"},
                n : {0, 127, 128, 65536, -MinInt32 - 1, -MinInt32, Word, Word + 127, Safe + 4, -1, -128}]
               \cup [number : Numbers, type : {"length_delimited"}, n : {0, 127, 128, 65536, -MinInt32 - 1}]
               \cup [number : Numbers, type : {"fixed64", "fixed32"}, n : {0, 8, 9, 10, 11, 14, 1000, 1003, 2000}]
    IN  {<<f>> : f \in one} \cup {<<f, g>> : f \in {m \in one : m.number = 1}, g \in {m \in one : m.number = 16}}
=============================================================================
