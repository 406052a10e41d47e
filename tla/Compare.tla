--------------------------- MODULE Compare --------------------------
(***************************************************************************)
(* operator< and operator== on MsgPack values: the virtual functions less  *)
(* and equals of Value, NumberValue, MsgPackInt64 and MsgPackUint64.       *)
(*                                                                         *)
(* Numbers of different types meet as doubles (float64_value), and the     *)
(* conversion of a 64-bit integer to a double rounds.  A double is here a  *)
(* record of its sign, its exponent and the 52 bits after the leading one, *)
(* which is exact for every finite value.                                  *)
(***************************************************************************)
EXTENDS Wire, FiniteSetsExt

---------------------------------------------------------------------
\* Bits, the most significant first.

Bits(bytes) ==
    [i \in 1..8 * Len(bytes) |->
        (bytes[((i - 1) \div 8) + 1] \div 2 ^ (7 - ((i - 1) % 8))) % 2]

Zeros(n) == [i \in 1..n |-> 0]

\* The first place where two sequences of numbers differ decides; a proper
\* prefix is less.  This is std::lexicographical_compare.
LexLess(a, b) ==
    \E i \in 1..Len(b) :
        /\ \A j \in 1..(i - 1) : j <= Len(a) /\ a[j] = b[j]
        /\ i <= Len(a) => a[i] < b[i]

\* bits + 1, which wraps when every bit is one.
Increment(bits) ==
    LET zeros == {i \in DOMAIN bits : bits[i] = 0}
    IN  IF zeros = {} THEN Zeros(Len(bits))
        ELSE [i \in DOMAIN bits |->
                 IF i < Max(zeros) THEN bits[i] ELSE IF i = Max(zeros) THEN 1 ELSE 0]

\* The magnitude of a negative two's complement number.
Negated(bits) == Increment([i \in DOMAIN bits |-> 1 - bits[i]])

---------------------------------------------------------------------
\* Doubles.

NaN == [kind |-> "nan", neg |-> FALSE, exp |-> 0, frac |-> Zeros(52)]
Zero == [kind |-> "zero", neg |-> FALSE, exp |-> 0, frac |-> Zeros(52)]
Infinite(neg) == [kind |-> "inf", neg |-> neg, exp |-> 2000, frac |-> Zeros(52)]
Finite(neg, exp, frac) == [kind |-> "num", neg |-> neg, exp |-> exp, frac |-> frac]

\* The double nearest to 2^exp * bits[1].bits[2]bits[3]..., ties to even.
Nearest(neg, exp, bits) ==
    LET ones == {i \in DOMAIN bits : bits[i] = 1}
        lead == Min(ones)
        frac == [i \in 1..52 |->
                    IF lead + i <= Len(bits) THEN bits[lead + i] ELSE 0]
        cut == {i \in ones : i > lead + 52}
        half == lead + 53
        up == half \in cut /\ (cut # {half} \/ frac[52] = 1)
        carry == up /\ \A i \in 1..52 : frac[i] = 1
    IN  IF ones = {} THEN Zero
        ELSE Finite(neg, exp - (lead - 1) + (IF carry THEN 1 ELSE 0),
                    IF up THEN Increment(frac) ELSE frac)

Unsigned(bytes) == Nearest(FALSE, 8 * Len(bytes) - 1, Bits(bytes))

Signed(bytes) ==
    IF IsNegative(bytes) THEN Nearest(TRUE, 8 * Len(bytes) - 1, Negated(Bits(bytes)))
    ELSE Unsigned(bytes)

\* An IEEE 754 number with e bits of exponent.
RECURSIVE BitsValue(_)
BitsValue(bits) ==
    IF bits = <<>> THEN 0
    ELSE 2 * BitsValue(SubSeq(bits, 1, Len(bits) - 1)) + bits[Len(bits)]

Ieee(bytes, e) ==
    LET bits == Bits(bytes)
        neg == bits[1] = 1
        biased == BitsValue(SubSeq(bits, 2, e + 1))
        bias == 2 ^ (e - 1) - 1
        frac == SubSeq(bits, e + 2, Len(bits))
    IN  CASE biased = 2 * bias + 1 /\ frac # Zeros(Len(frac)) -> NaN
          [] biased = 2 * bias + 1 /\ frac = Zeros(Len(frac)) -> Infinite(neg)
          [] biased = 0 -> Nearest(neg, 1 - bias, <<0>> \o frac)
          [] OTHER -> Nearest(neg, biased - bias, <<1>> \o frac)

NumberTypes == UnsignedTypes \union SignedTypes \union {"FLOAT32", "FLOAT64"}

float64_value(v) ==
    CASE v.type = "FLOAT32" -> Ieee(v.bytes, 8)
      [] v.type = "FLOAT64" -> Ieee(v.bytes, 11)
      [] v.type \in SignedTypes -> Signed(v.bytes)
      [] v.type \in UnsignedTypes -> Unsigned(v.bytes)

MagnitudeLess(x, y) ==
    CASE x.kind = "zero" -> y.kind # "zero"
      [] y.kind = "zero" -> FALSE
      [] OTHER -> x.exp < y.exp \/ (x.exp = y.exp /\ LexLess(x.frac, y.frac))

DoubleLess(x, y) ==
    /\ x.kind # "nan" /\ y.kind # "nan"
    /\ CASE x.neg /\ ~y.neg -> TRUE
         [] ~x.neg /\ y.neg -> FALSE
         [] x.neg /\ y.neg -> MagnitudeLess(y, x)
         [] ~x.neg /\ ~y.neg -> MagnitudeLess(x, y)

DoubleEqual(x, y) == x.kind # "nan" /\ x = y

---------------------------------------------------------------------
\* 64-bit integers meet as integers.

Int64Less(a, b) ==
    IF IsNegative(a) # IsNegative(b) THEN IsNegative(a) ELSE LexLess(a, b)

\* 0 <= int64_value, and uint64_value <= the greatest int64_t.
less_uint64_int64(u, i) == ~IsNegative(i) /\ ~IsNegative(u) /\ LexLess(u, i)

\* Mutant of less_int64_uint64: without the test of the sign, the bits are compared.
less_int64_uint64AsBits(i, u) == IsNegative(u) \/ LexLess(i, u)

less_int64_uint64(i, u) == IsNegative(i) \/ IsNegative(u) \/ LexLess(i, u)
equal_uint64_int64(u, i) == ~IsNegative(i) /\ ~IsNegative(u) /\ u = i

\* Mutant of NumberLess: 64-bit integers meet as doubles, too.
NumberLessAsDouble(a, b) == DoubleLess(float64_value(a), float64_value(b))

NumberLess(a, b) ==
    CASE a.type = "INT64" /\ b.type = "INT64" -> Int64Less(a.bytes, b.bytes)
      [] a.type = "INT64" /\ b.type = "UINT64" -> less_int64_uint64(a.bytes, b.bytes)
      [] a.type = "UINT64" /\ b.type = "INT64" -> less_uint64_int64(a.bytes, b.bytes)
      [] a.type = "UINT64" /\ b.type = "UINT64" -> LexLess(a.bytes, b.bytes)
      [] OTHER -> DoubleLess(float64_value(a), float64_value(b))

\* Mutant of NumberEqual: numbers are equal only when their tags are, like all others.
NumberEqualTagged(a, b) == a.type = b.type /\ a.bytes = b.bytes

NumberEqual(a, b) ==
    CASE a.type = "INT64" /\ b.type = "UINT64" -> equal_uint64_int64(b.bytes, a.bytes)
      [] a.type = "UINT64" /\ b.type = "INT64" -> equal_uint64_int64(a.bytes, b.bytes)
      [] a.type = b.type /\ a.type \in {"INT64", "UINT64"} -> a.bytes = b.bytes
      [] OTHER -> DoubleEqual(float64_value(a), float64_value(b))

---------------------------------------------------------------------
\* operator< and operator==.

Tag == [NUL |-> 4, FLOAT32 |-> 9, FLOAT64 |-> 13, INT8 |-> 19, INT16 |-> 23,
        INT32 |-> 27, INT64 |-> 31, UINT8 |-> 35, UINT16 |-> 39, UINT32 |-> 43,
        UINT64 |-> 47, BOOL |-> 48, STRING |-> 52, BINARY |-> 56, ARRAY |-> 60,
        OBJECT |-> 64, EXTENSION |-> 68]

\* The type of an extension is an int8_t; its data are compared as bytes.
AsSigned(byte) == IF byte >= 128 THEN byte - 256 ELSE byte
ExtensionLess(a, b) ==
    LexLess(<<AsSigned(a[1])>> \o Tail(a), <<AsSigned(b[1])>> \o Tail(b))

RECURSIVE MsgLess(_, _)

\* std::lexicographical_compare with operator<, an object as its sequence of
\* keys and mapped values: std::pair compares the key first.
MembersLess(a, b) ==
    \E i \in 1..Len(b) :
        /\ \A j \in 1..(i - 1) :
              /\ j <= Len(a)
              /\ ~MsgLess(a[j], b[j]) /\ ~MsgLess(b[j], a[j])
        /\ i <= Len(a) => MsgLess(a[i], b[i])

MsgLess(a, b) ==
    CASE a.type \in NumberTypes /\ b.type \in NumberTypes -> NumberLess(a, b)
      [] a.type # b.type /\ ~(a.type \in NumberTypes /\ b.type \in NumberTypes) ->
            Tag[a.type] < Tag[b.type]
      [] a.type = b.type /\ a.type = "ARRAY" -> MembersLess(a.items, b.items)
      [] a.type = b.type /\ a.type = "OBJECT" -> MembersLess(Members(a), Members(b))
      [] a.type = b.type /\ a.type = "EXTENSION" -> ExtensionLess(a.bytes, b.bytes)
      [] a.type = b.type /\ a.type \in {"NUL", "BOOL", "STRING", "BINARY"} ->
            LexLess(a.bytes, b.bytes)

RECURSIVE MsgEqual(_, _)
AllEqual(a, b) == Len(a) = Len(b) /\ \A i \in DOMAIN a : MsgEqual(a[i], b[i])

MsgEqual(a, b) ==
    IF a.type \in NumberTypes /\ b.type \in NumberTypes THEN NumberEqual(a, b)
    ELSE /\ a.type = b.type
         /\ a.bytes = b.bytes
         /\ AllEqual(a.keys, b.keys) /\ AllEqual(a.items, b.items)
=====================================================================
