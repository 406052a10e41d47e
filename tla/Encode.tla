---------------------------- MODULE Encode --------------------------
(***************************************************************************)
(* What the dump functions of msgpack11.cpp put before a value, or as the  *)
(* value when it is a number: the ladders that look for the shortest form. *)
(* A number is its big-endian bytes, so a cast to the next narrower type   *)
(* keeps the second half of them.                                          *)
(*                                                                         *)
(* The code throws for a length above 2^32 - 1; lengths here are below.    *)
(***************************************************************************)
EXTENDS Wire, SequencesExt

CONSTANT Encoded     \* operator<<: what it writes of each value, by value

---------------------------------------------------------------------
\* dump_data of an integer n of one, two or four bytes.

Bytes1(n) == <<n>>
Bytes2(n) == <<n \div 256, n % 256>>
Bytes4(n) == <<n \div 16777216, (n \div 65536) % 256, (n \div 256) % 256, n % 256>>

---------------------------------------------------------------------
\* Integers.

UpperHalf(b) == SubSeq(b, 1, Len(b) \div 2)
LowerHalf(b) == SubSeq(b, Len(b) \div 2 + 1, Len(b))
AllAre(s, byte) == \A i \in DOMAIN s : s[i] = byte

\* The least number of the next narrower signed type is greater than b.
BelowNarrower(b) == IsNegative(b) /\ ~(AllAre(UpperHalf(b), 255) /\ IsNegative(LowerHalf(b)))
NotPositive(b) == IsNegative(b) \/ AllAre(b, 0)

DumpUint8(b) == IF b[1] >= 128 THEN <<204>> \o b ELSE b

\* An unsigned number that the next narrower type can hold is dumped as one.
FitsNarrower(b) == AllAre(UpperHalf(b), 0)

DumpUint16(b) == IF FitsNarrower(b) THEN DumpUint8(LowerHalf(b)) ELSE <<205>> \o b
DumpUint32(b) == IF FitsNarrower(b) THEN DumpUint16(LowerHalf(b)) ELSE <<206>> \o b
DumpUint64(b) == IF FitsNarrower(b) THEN DumpUint32(LowerHalf(b)) ELSE <<207>> \o b

DumpInt8(b) == IF IsNegative(b) /\ b[1] < 224 THEN <<208>> \o b ELSE b

\* A signed number goes down while it is not positive; a positive one is dumped
\* as the unsigned number of the same width.
DumpInt16(b) ==
    IF BelowNarrower(b) THEN <<209>> \o b
    ELSE IF NotPositive(b) THEN DumpInt8(LowerHalf(b)) ELSE DumpUint16(b)

DumpInt32(b) ==
    IF BelowNarrower(b) THEN <<210>> \o b
    ELSE IF NotPositive(b) THEN DumpInt16(LowerHalf(b)) ELSE DumpUint32(b)

DumpInt64(b) ==
    IF BelowNarrower(b) THEN <<211>> \o b
    ELSE IF NotPositive(b) THEN DumpInt32(LowerHalf(b)) ELSE DumpUint64(b)

---------------------------------------------------------------------
\* What goes before n bytes, or before n elements or members.

\* Mutant of StringHeader: 32 bytes behind a first byte that has room for 31.
StringHeaderWide(n) ==
    IF n <= 32 THEN <<160 + n>>
    ELSE IF n <= 255 THEN <<217>> \o Bytes1(n)
    ELSE IF n <= 65535 THEN <<218>> \o Bytes2(n)
    ELSE <<219>> \o Bytes4(n)

StringHeader(n) ==
    IF n <= 31 THEN <<160 + n>>
    ELSE IF n <= 255 THEN <<217>> \o Bytes1(n)
    ELSE IF n <= 65535 THEN <<218>> \o Bytes2(n)
    ELSE <<219>> \o Bytes4(n)

BinaryHeader(n) ==
    IF n <= 255 THEN <<196>> \o Bytes1(n)
    ELSE IF n <= 65535 THEN <<197>> \o Bytes2(n)
    ELSE <<198>> \o Bytes4(n)

ContainerHeader(n, fix, prefix) ==
    IF n <= 15 THEN <<fix + n>>
    ELSE IF n <= 65535 THEN <<prefix>> \o Bytes2(n)
    ELSE <<prefix + 1>> \o Bytes4(n)

ArrayHeader(n) == ContainerHeader(n, 144, 220)
ObjectHeader(n) == ContainerHeader(n, 128, 222)

ExtensionHeader(n) ==
    CASE n = 1 -> <<212>>
      [] n = 2 -> <<213>>
      [] n = 4 -> <<214>>
      [] n = 8 -> <<215>>
      [] n = 16 -> <<216>>
      [] n \notin {1, 2, 4, 8, 16} ->
            IF n <= 255 THEN <<199>> \o Bytes1(n)
            ELSE IF n <= 65535 THEN <<200>> \o Bytes2(n)
            ELSE <<201>> \o Bytes4(n)

---------------------------------------------------------------------
\* Whole values that hold no other values.

DumpLeaf(v) ==
    CASE v.type = "NUL" -> <<192>>
      [] v.type = "BOOL" -> IF v.bytes = <<1>> THEN <<195>> ELSE <<194>>
      [] v.type = "FLOAT32" -> <<202>> \o v.bytes
      [] v.type = "FLOAT64" -> <<203>> \o v.bytes
      [] v.type = "UINT8" -> DumpUint8(v.bytes)
      [] v.type = "UINT16" -> DumpUint16(v.bytes)
      [] v.type = "UINT32" -> DumpUint32(v.bytes)
      [] v.type = "UINT64" -> DumpUint64(v.bytes)
      [] v.type = "INT8" -> DumpInt8(v.bytes)
      [] v.type = "INT16" -> DumpInt16(v.bytes)
      [] v.type = "INT32" -> DumpInt32(v.bytes)
      [] v.type = "INT64" -> DumpInt64(v.bytes)
      [] v.type = "STRING" -> StringHeader(Len(v.bytes)) \o v.bytes
      [] v.type = "BINARY" -> BinaryHeader(Len(v.bytes)) \o v.bytes
      [] v.type = "EXTENSION" -> ExtensionHeader(Len(v.bytes) - 1) \o v.bytes
---------------------------------------------------------------------
\* operator<<: a container dumps its header and then what it holds.

Header(v) ==
    IF v.type = "ARRAY" THEN ArrayHeader(Len(v.items)) ELSE ObjectHeader(Len(v.keys))

\* What "dump" gives for each of the values, one after the other.
Each(dump, values) == FlattenSeq([i \in DOMAIN values |-> dump[values[i]]])

\* The function "dump" is operator<<, on values with all the values they hold.  The
\* header of a length above 2^32 - 1 is no four bytes, and never written.
IsDump(dump) ==
    \A v \in DOMAIN dump :
        /\ v.bytes \in Seq(Byte)
        /\ v.items \in Seq(DOMAIN dump) /\ v.keys \in Seq(DOMAIN dump)
        /\ v.type = "OBJECT" => Len(v.items) = Len(v.keys)
        /\ dump[v] \in Seq(Nat)
        /\ dump[v] = IF IsContainer(v) THEN Header(v) \o Each(dump, Children(v)) ELSE DumpLeaf(v)

ASSUME EncodedAssumption == IsDump(Encoded)
=====================================================================
