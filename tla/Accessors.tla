------------------------- MODULE Accessors --------------------------
(***************************************************************************)
(* What a program asks of a MsgPack it holds: the predicates on the bits   *)
(* of its type tag, the getters of integers and operator[].                 *)
(* All of them are const.  A getter of another type than the value's       *)
(* converts a number and gives the default of MsgPackValue otherwise.      *)
(***************************************************************************)
EXTENDS Compare, StdMap

\* type() & NUMBER, and (type() & INT) == INT.
is_number(v) == Tag[v.type] % 2 = 1
is_int(v) == Tag[v.type] % 4 = 3
is_object(v) == v.type = "OBJECT"

---------------------------------------------------------------------
\* The getters of integers.

IntTypes == UnsignedTypes \union SignedTypes

\* Mutant of Resized: a negative number is widened with zeroes.
ResizedUnsigned(v, n) ==
    [i \in 1..n |-> LET j == i + Len(v.bytes) - n IN IF j > 0 THEN v.bytes[j] ELSE 0]

\* static_cast of an integer to one of n bytes: the low bytes stay, and a wider
\* type repeats the sign of a signed one.
Resized(v, n) ==
    LET fill == IF v.type \in SignedTypes /\ IsNegative(v.bytes) THEN 255 ELSE 0
    IN  [i \in 1..n |-> LET j == i + Len(v.bytes) - n IN IF j > 0 THEN v.bytes[j] ELSE fill]

\* The bits of the integer part of the finite double d that are worth 2^(n-1) to 1.
IntegerPart(d, n) ==
    [i \in 1..n |-> CASE n - i > d.exp -> 0
                      [] n - i = d.exp -> 1
                      [] d.exp - (n - i) \in 1..52 -> d.frac[d.exp - (n - i)]
                      [] OTHER -> 0]

\* The integer part of d, or zero when that is none, is a T; otherwise its
\* conversion is undefined.
Fits(d, T) ==
    LET n == 8 * SizeOf[T]
        least == d.neg /\ d.exp = n - 1 /\ \A j \in 1..52 : j <= d.exp => d.frac[j] = 0
    IN  \/ d.kind = "zero"
        \/ /\ d.kind = "num"
           /\ \/ d.exp < 0
              \/ T \in UnsignedTypes /\ ~d.neg /\ d.exp < n
              \/ T \in SignedTypes /\ (d.exp < n - 1 \/ least)

AsBytes(bits) == [k \in 1..(Len(bits) \div 8) |-> BitsValue(SubSeq(bits, 8 * k - 7, 8 * k))]

\* static_cast of a double to T drops the fraction.
Truncated(d, T) ==
    LET n == 8 * SizeOf[T]
        magnitude == IF d.kind = "zero" THEN Zeros(n) ELSE IntegerPart(d, n)
    IN  AsBytes(IF d.neg THEN Negated(magnitude) ELSE magnitude)

\* What the getter of the integer type T, int32_value for INT32 and so on, may
\* return of v: any T when the conversion is undefined.
Gets(v, T) ==
    CASE v.type \in IntTypes -> {Resized(v, SizeOf[T])}
      [] v.type \in NumberTypes \ IntTypes ->
            UNION {IF Fits(d, T) THEN {Truncated(d, T)} ELSE [1..SizeOf[T] -> Byte] :
                      d \in {float64_value(v)}}
      [] v.type \notin NumberTypes -> {[i \in 1..SizeOf[T] |-> 0]}

---------------------------------------------------------------------
\* operator[] and has_shape.

\* Mutant of At: the test is i > size().
AtSize(v, i) ==
    IF v.type = "ARRAY" /\ i < Len(v.items) THEN v.items[i + 1]
    ELSE IF v.type = "ARRAY" /\ i = Len(v.items) /\ i > 0 THEN v.items[i] ELSE Nil

\* v[i], which counts from zero.
At(v, i) == IF v.type = "ARRAY" /\ i < Len(v.items) THEN v.items[i + 1] ELSE Nil

\* Mutant of Field: the iterator is taken without the test that find gives.
FieldUntested(v, key) ==
    LET p == CHOOSE p \in 1..(Len(v.keys) + 1) : Reaches(v.keys, key, p)
    IN  IF v.type = "OBJECT" /\ p <= Len(v.keys) THEN v.items[p] ELSE Nil

\* v[key] for a string key, which is of another type than most keys may have.
Field(v, key) ==
    LET p == CHOOSE p \in 1..(Len(v.keys) + 1) : Reaches(v.keys, key, p)
    IN  IF v.type = "OBJECT" /\ Finds(v.keys, key, p) THEN v.items[p] ELSE Nil

\* A shape is a sequence of pairs of a name and a type, which may be NUMBER or
\* INT too.  These are the items that v has not, the first of which ends the loop
\* of has_shape.
BadItems(v, shape) == {i \in DOMAIN shape : Field(v, shape[i].name).type # shape[i].type}
=====================================================================
