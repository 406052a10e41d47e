---------------------------- MODULE Wire ----------------------------
(***************************************************************************)
(* What the parser and the serializer of msgpack11 share: bytes, the       *)
(* big-endian lengths of the wire format, the values a MsgPack can hold    *)
(* and the table that sends a first byte to the function that parses it.   *)
(*                                                                         *)
(* A number is kept as the big-endian bytes of its C++ representation, so  *)
(* that 64-bit and floating-point values need no arithmetic.               *)
(***************************************************************************)
EXTENDS Integers, Sequences

Byte == 0..255

(***************************************************************************)
(* A value is a record of one shape whatever its type:                     *)
(*   type  - the C++ type tag (enum MsgPack::Type);                        *)
(*   bytes - the bytes of a number, a bool (one byte), a string or a       *)
(*           binary; of an extension, its type byte and then its data;     *)
(*   items - the elements of an array, the mapped values of an object;     *)
(*   keys  - the keys of an object, keys[i] being the key of items[i].     *)
(***************************************************************************)
Type == {"NUL", "FLOAT32", "FLOAT64", "INT8", "INT16", "INT32", "INT64",
         "UINT8", "UINT16", "UINT32", "UINT64", "BOOL", "STRING", "BINARY",
         "ARRAY", "OBJECT", "EXTENSION"}

UnsignedTypes == {"UINT8", "UINT16", "UINT32", "UINT64"}
SignedTypes == {"INT8", "INT16", "INT32", "INT64"}

Scalar(t, bytes) == [type |-> t, bytes |-> bytes, items |-> <<>>, keys |-> <<>>]
Array(items) == [type |-> "ARRAY", bytes |-> <<>>, items |-> items, keys |-> <<>>]
Object(keys, items) ==
    [type |-> "OBJECT", bytes |-> <<>>, items |-> items, keys |-> keys]

Nil == Scalar("NUL", <<>>)

\* The members of an object in the order of its std::map, each key before its
\* mapped value.
Members(v) ==
    [i \in 1..2 * Len(v.keys) |->
        IF i % 2 = 1 THEN v.keys[(i + 1) \div 2] ELSE v.items[i \div 2]]

\* What a value holds, in the order in which it is dumped.
IsContainer(v) == v.type \in {"ARRAY", "OBJECT"}
Children(v) ==
    IF v.type = "OBJECT" THEN Members(v) ELSE IF v.type = "ARRAY" THEN v.items ELSE <<>>

\* The number of bytes of a T, where T is the type a tag stands for.
SizeOf == [FLOAT32 |-> 4, FLOAT64 |-> 8, UINT8 |-> 1, UINT16 |-> 2, UINT32 |-> 4,
           UINT64 |-> 8, INT8 |-> 1, INT16 |-> 2, INT32 |-> 4, INT64 |-> 8]

\* The sign of a two's complement number.
IsNegative(bytes) == bytes[1] >= 128

\* The unsigned number that 1, 2 or 4 big-endian bytes stand for.
BigEndian(b) ==
    IF Len(b) = 1 THEN b[1]
    ELSE IF Len(b) = 2 THEN b[1] * 256 + b[2]
    ELSE b[1] * 16777216 + b[2] * 65536 + b[3] * 256 + b[4]

(***************************************************************************)
(* The parser table.  Each row says: the first bytes up to "upto" that no  *)
(* earlier row has taken go to "parser", whose template argument is the    *)
(* type "T" ("" when it has none).  The array has room for four rows more, *)
(* which are left at (0, nullptr) and take no byte.                        *)
(***************************************************************************)
Row(upto, parser, T) == [upto |-> upto, parser |-> parser, T |-> T]

parser_template ==
    << Row(127, "pos_fixint", ""), Row(143, "fixobject", ""),
       Row(159, "fixarray", ""), Row(191, "fixstring", ""),
       Row(192, "nil", ""), Row(193, "invalid", ""), Row(195, "bool", ""),
       Row(196, "binary", "UINT8"), Row(197, "binary", "UINT16"),
       Row(198, "binary", "UINT32"), Row(199, "extension", "UINT8"),
       Row(200, "extension", "UINT16"), Row(201, "extension", "UINT32"),
       Row(202, "arith", "FLOAT32"), Row(203, "arith", "FLOAT64"),
       Row(204, "arith", "UINT8"), Row(205, "arith", "UINT16"),
       Row(206, "arith", "UINT32"), Row(207, "arith", "UINT64"),
       Row(208, "arith", "INT8"), Row(209, "arith", "INT16"),
       Row(210, "arith", "INT32"), Row(211, "arith", "INT64"),
       Row(216, "fixext", ""), Row(217, "string", "UINT8"),
       Row(218, "string", "UINT16"), Row(219, "string", "UINT32"),
       Row(220, "array", "UINT16"), Row(221, "array", "UINT32"),
       Row(222, "object", "UINT16"), Row(223, "object", "UINT32"),
       Row(255, "neg_fixint", "") >>

\* The loop that fills the table: row k takes the bytes above the row before it.
Takes(k, byte) ==
    /\ byte <= parser_template[k].upto
    /\ k > 1 => byte > parser_template[k - 1].upto

parsers == [byte \in Byte |->
    parser_template[CHOOSE k \in DOMAIN parser_template : Takes(k, byte)]]
=====================================================================
