---------------------------- MODULE Decode --------------------------
(***************************************************************************)
(* What parsing promises, as a definition over the whole input: the value  *)
(* that starts at a position, or how reading it first goes wrong.  It      *)
(* stops at the first error and has neither stream bits nor loops that run *)
(* on, so that it can be the reference for Parser.  The recursion is on    *)
(* how many containers are around a value, and on how many values came     *)
(* before it in the innermost one.                                         *)
(***************************************************************************)
EXTENDS Wire, StdMap

CONSTANT MaxDepth

\* An outcome: "value" with the value and the position after it, or one of
\* the two errors with the position the stream is left at.
Got(v, next) == [kind |-> "value", value |-> v, next |-> next]
Truncated(in) == [kind |-> "truncated", value |-> Nil, next |-> Len(in)]
Malformed(next) == [kind |-> "malformed", value |-> Nil, next |-> next]

Slice(in, p, n) == SubSeq(in, p + 1, p + n)
Has(in, p, n) == n <= Len(in) - p

\* Values that are their first byte.
SingleBytes == (0..127) \union {192, 194, 195} \union (224..255)
Single(b) ==
    CASE b < 128 -> Scalar("UINT8", <<b>>)
      [] b = 192 -> Nil
      [] b = 194 -> Scalar("BOOL", <<0>>)
      [] b = 195 -> Scalar("BOOL", <<1>>)
      [] b > 223 -> Scalar("INT8", <<b>>)

\* What other first bytes announce: a type, how many bytes of length follow, and
\* a number to add to that length, all of it when no length follows.  It counts
\* bytes, elements or members; the type byte of an extension is one of its bytes.
Announced(type, wide, plus) == [type |-> type, wide |-> wide, plus |-> plus]
Wide == <<1, 2, 4>>
Sized == <<1, 2, 4, 8, 16>>
Announces(b) ==
    CASE b \in 128..143 -> Announced("OBJECT", 0, b - 128)
      [] b \in 144..159 -> Announced("ARRAY", 0, b - 144)
      [] b \in 160..191 -> Announced("STRING", 0, b - 160)
      [] b \in 196..198 -> Announced("BINARY", Wide[b - 195], 0)
      [] b \in 199..201 -> Announced("EXTENSION", Wide[b - 198], 1)
      [] b \in 202..203 -> Announced(<<"FLOAT32", "FLOAT64">>[b - 201], 0, Sized[b - 199])
      [] b \in 204..207 ->
            Announced(<<"UINT8", "UINT16", "UINT32", "UINT64">>[b - 203], 0, Sized[b - 203])
      [] b \in 208..211 ->
            Announced(<<"INT8", "INT16", "INT32", "INT64">>[b - 207], 0, Sized[b - 207])
      [] b \in 212..216 -> Announced("EXTENSION", 0, 1 + Sized[b - 211])
      [] b \in 217..219 -> Announced("STRING", Wide[b - 216], 0)
      [] b \in 220..221 -> Announced("ARRAY", Wide[b - 218], 0)
      [] b \in 222..223 -> Announced("OBJECT", Wide[b - 220], 0)

Count(in, p, h) == h.plus + (IF h.wide = 0 THEN 0 ELSE BigEndian(Slice(in, p, h.wide)))

---------------------------------------------------------------------
\* An object, made of keys and mapped values in turn.

Key(members, i) == members[2 * i - 1]
Mapped(members, i) == members[2 * i]
Equivalent(a, b) == ~Less(a, b) /\ ~Less(b, a)

\* Of several members with equivalent keys the first one counts,
Kept(members) ==
    {i \in 1..(Len(members) \div 2) :
        \A j \in 1..(i - 1) : ~Equivalent(Key(members, j), Key(members, i))}

\* and those that count are ordered by their keys.
Sorts(order, members) ==
    /\ \A m, n \in DOMAIN order :
          m < n => Less(Key(members, order[m]), Key(members, order[n]))
    /\ Range(order) = Kept(members)

InOrder(members, order) ==
    Object([n \in DOMAIN order |-> Key(members, order[n])],
           [n \in DOMAIN order |-> Mapped(members, order[n])])

MakeObject(members) ==
    InOrder(members,
            CHOOSE order \in SeqOf(Kept(members), Len(members) \div 2) : Sorts(order, members))

Ordered(members) == StrictWeakOrder({Key(members, i) : i \in 1..(Len(members) \div 2)})

Make(type, values) == IF type = "ARRAY" THEN Array(values) ELSE MakeObject(values)

---------------------------------------------------------------------
\* Values one after the other: x.value has the outcome at every position, and the
\* first value is at x.from.  A "value" outcome has all the values so far.

Nothing(x) == Got(<<>>, x.from)

OneMore(x, before) ==
    IF before.kind # "value" THEN before
    ELSE LET one == x.value[before.next]
         IN  IF one.kind = "value" THEN Got(Append(before.value, one.value), one.next) ELSE one

Turns == INSTANCE Iterate WITH Start <- Nothing, Step <- OneMore

\* The outcome of reading n values from p on.
Values(value, p, n) == Turns!Iterate([value |-> value, from |-> p])[n]

---------------------------------------------------------------------
\* Values in values: the outcomes inside one container less come from those
\* inside one more.

Whole(type, all) == IF all.kind = "value" THEN Got(Make(type, all.value), all.next) ELSE all

\* n bytes, elements or members at p, where "value" is of what a container holds.
Content(in, p, n, type, value) ==
    IF type = "ARRAY" THEN Whole(type, Values(value, p, n))
    ELSE IF type = "OBJECT" THEN Whole(type, Values(value, p, 2 * n))
    ELSE IF Has(in, p, n) THEN Got(Scalar(type, Slice(in, p, n)), p + n)
    ELSE Truncated(in)

\* The value at p, by the ranges of the wire format.
At(in, p, value) ==
    LET b == in[p + 1]
        h == Announces(b)
    IN  IF p >= Len(in) THEN Truncated(in)
        ELSE IF b = 193 THEN Malformed(p + 1)
        ELSE IF b \in SingleBytes THEN Got(Single(b), p + 1)
        ELSE IF ~Has(in, p + 1, h.wide) THEN Truncated(in)
        ELSE Content(in, p + 1 + h.wide, Count(in, p + 1, h), h.type, value)

\* What is inside more than MaxDepth containers is malformed whatever it is.
Innermost(in) == [p \in 0..Len(in) |-> Malformed(p)]
Around(in, value) == [p \in 0..Len(in) |-> At(in, p, value)]

Levels == INSTANCE Iterate WITH Start <- Innermost, Step <- Around

\* The outcomes inside "depth" containers, by position, and the one at p.
Outcomes(in, depth) == Levels!Iterate(in)[MaxDepth + 1 - depth]
Value(in, p, depth) == Outcomes(in, depth)[p]

\* operator< orders the keys of every object that can be read.
ObjectBytes == (128..143) \union {222, 223}
KeysOrdered(in) ==
    \A p \in 0..(Len(in) - 1), depth \in 0..MaxDepth :
        LET h == Announces(in[p + 1])
            members == Values(Outcomes(in, depth + 1), p + 1 + h.wide, 2 * Count(in, p + 1, h))
        IN  in[p + 1] \in ObjectBytes /\ Has(in, p + 1, h.wide) =>
                (members.kind = "value" => Ordered(members.value))
=====================================================================
