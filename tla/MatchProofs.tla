------------------------- MODULE MatchProofs ------------------------
(***************************************************************************)
(* What the parser returns is what Decode says of the bytes, for every     *)
(* max_depth, every set of inputs and every order of the keys that is one. *)
(*                                                                         *)
(* First, what Decode says of an input, as laws that a proof about the     *)
(* parser can use: how the outcomes inside one container come from those   *)
(* inside one more, how one value after the other is read, and that a      *)
(* std::map in which members are inserted one by one is what Decode makes  *)
(* of them.  Then the parser against these laws.                           *)
(***************************************************************************)
EXTENDS ParserProofs

\* The outcomes inside d containers, and that of reading n values there.
Table(in, d) == Reference!Outcomes(in, d)
Run(in, d, p, n) == Reference!Values(Table(in, d), p, n)

\* n values, "all", are read from p on and end at q.
Reads(in, d, p, n, all, q) ==
    /\ Run(in, d, p, n).kind = "value" /\ Run(in, d, p, n).value = all
    /\ Run(in, d, p, n).next = q

\* Inside too many containers everything is malformed,
LEMMA TableInnermost ==
    ASSUME NEW in, NEW p \in 0..Len(in)
    PROVE  Table(in, MaxDepth + 1)[p] = Reference!Malformed(p)
<1>1. Reference!Levels!Iterate(in)[0] = Reference!Innermost(in)
      BY Reference!Levels!Unfolds
<1>2. PICK d : d = MaxDepth + 1
      OBVIOUS
<1>3. Table(in, d) = Reference!Innermost(in)
      <2>1. MaxDepth + 1 - d = 0
            BY <1>2, MaxDepthAssumption
      <2>2. QED BY <1>1, <2>1 DEF Table, Reference!Outcomes
<1>4. QED BY <1>2, <1>3 DEF Reference!Innermost

\* and otherwise it is what the first byte says, with what is inside one more.
LEMMA TableAround ==
    ASSUME NEW in, NEW d \in 0..MaxDepth, NEW p \in 0..Len(in)
    PROVE  Table(in, d)[p] = Reference!At(in, p, Table(in, d + 1))
<1> DEFINE n == MaxDepth - d
<1>1. n \in Nat /\ MaxDepth + 1 - d = n + 1 /\ MaxDepth + 1 - (d + 1) = n
      BY MaxDepthAssumption
<1> HIDE DEF n
<1>2. Reference!Levels!Iterate(in)[n + 1] =
         Reference!Around(in, Reference!Levels!Iterate(in)[n])
      BY <1>1, Reference!Levels!Unfolds
<1>3. Table(in, d) = Reference!Around(in, Table(in, d + 1))
      BY <1>1, <1>2 DEF Table, Reference!Outcomes
<1>4. QED BY <1>3 DEF Reference!Around
---------------------------------------------------------------------
\* One value after the other.

LEMMA RunStart ==
    ASSUME NEW in, NEW d, NEW p
    PROVE  Run(in, d, p, 0) = Reference!Got(<<>>, p)
<1> DEFINE x == [value |-> Table(in, d), from |-> p]
<1>1. Reference!Turns!Iterate(x)[0] = Reference!Nothing(x)
      BY Reference!Turns!Unfolds
<1>2. QED BY <1>1 DEF Run, Reference!Values, Reference!Nothing

LEMMA RunMore ==
    ASSUME NEW in, NEW d, NEW p, NEW n \in Nat
    PROVE  LET before == Run(in, d, p, n)
               one == Table(in, d)[before.next]
           IN  Run(in, d, p, n + 1) =
                  IF before.kind # "value" THEN before
                  ELSE IF one.kind = "value"
                       THEN Reference!Got(Append(before.value, one.value), one.next) ELSE one
<1> DEFINE x == [value |-> Table(in, d), from |-> p]
<1>1. Reference!Turns!Iterate(x)[n + 1] = Reference!OneMore(x, Reference!Turns!Iterate(x)[n])
      BY Reference!Turns!Unfolds
<1>2. Run(in, d, p, n + 1) = Reference!OneMore(x, Run(in, d, p, n))
      BY <1>1 DEF Run, Reference!Values
<1>3. x.value = Table(in, d)
      OBVIOUS
<1> HIDE DEF x
<1>4. QED BY <1>2, <1>3 DEF Reference!OneMore

\* Another value is read where the last one ended,
LEMMA RunGoesOn ==
    ASSUME NEW in, NEW d, NEW p, NEW n \in Nat, NEW q, NEW v,
           Run(in, d, p, n).kind = "value", Run(in, d, p, n).next = q,
           Table(in, d)[q] = Reference!Got(v, Table(in, d)[q].next)
    PROVE  Run(in, d, p, n + 1) =
              Reference!Got(Append(Run(in, d, p, n).value, v), Table(in, d)[q].next)
<1>1. Table(in, d)[q].kind = "value" /\ Table(in, d)[q].value = v
      BY DEF Reference!Got
<1>2. QED BY <1>1, RunMore

\* and the first error is that of whatever is read from there on.
LEMMA ErrorStays ==
    ASSUME NEW in, NEW d, NEW p, NEW n \in Nat, NEW m \in Nat, n + 1 <= m,
           Run(in, d, p, n).kind = "value",
           Table(in, d)[Run(in, d, p, n).next].kind # "value"
    PROVE  Run(in, d, p, m) = Table(in, d)[Run(in, d, p, n).next]
<1> DEFINE E == Table(in, d)[Run(in, d, p, n).next]
           S == {i \in Nat : Run(in, d, p, n + 1 + i) = E}
<1>1. Run(in, d, p, n + 1) = E
      BY RunMore
<1>2. 0 \in S
      BY <1>1
<1>3. ASSUME NEW i \in Nat, i \in S PROVE i + 1 \in S
      <2>1. Run(in, d, p, (n + 1 + i) + 1) = Run(in, d, p, n + 1 + i)
            BY <1>3, RunMore
      <2>2. (n + 1 + i) + 1 = n + 1 + (i + 1)
            OBVIOUS
      <2>3. QED BY <1>3, <2>1, <2>2
<1> HIDE DEF S
<1>4. Nat \subseteq S
      BY <1>2, <1>3, Reference!Turns!Induction
<1>5. m - (n + 1) \in S
      BY <1>4
<1>6. n + 1 + (m - (n + 1)) = m
      OBVIOUS
<1>7. QED BY <1>5, <1>6 DEF S

\* What is read are values that are somewhere in the table, n of them.
ValuesAt(in, d, p) == {Table(in, d)[Run(in, d, p, m).next].value : m \in Nat}

LEMMA RunValues ==
    ASSUME NEW in, NEW d, NEW p
    PROVE  \A n \in Nat : Run(in, d, p, n).kind = "value" =>
              /\ Run(in, d, p, n).value \in Seq(ValuesAt(in, d, p))
              /\ Len(Run(in, d, p, n).value) = n
<1> DEFINE V == ValuesAt(in, d, p)
           R(n) == Run(in, d, p, n)
           Right(n) == R(n).kind = "value" => R(n).value \in Seq(V) /\ Len(R(n).value) = n
           S == {n \in Nat : Right(n)}
<1>1. Right(0)
      <2>1. R(0).value = <<>>
            BY RunStart DEF Reference!Got
      <2> HIDE DEF R, V
      <2>2. QED BY <2>1, EmptySeq
<1>2. ASSUME NEW n \in Nat, Right(n) PROVE Right(n + 1)
      <2>1. SUFFICES ASSUME R(n + 1).kind = "value"
                     PROVE  R(n + 1).value \in Seq(V) /\ Len(R(n + 1).value) = n + 1
            OBVIOUS
      <2> DEFINE one == Table(in, d)[R(n).next]
      <2>2. R(n).kind = "value" /\ R(n + 1).value = Append(R(n).value, one.value)
            <3> DEFINE before == R(n)
            <3>1. R(n + 1) = IF before.kind # "value" THEN before
                             ELSE IF one.kind = "value"
                                  THEN Reference!Got(Append(before.value, one.value), one.next)
                                  ELSE one
                  BY RunMore
            <3> HIDE DEF R, one, before
            <3>2. before.kind = "value" /\ one.kind = "value"
                  BY <2>1, <3>1
            <3>3. R(n + 1).value = Append(before.value, one.value)
                  BY <3>1, <3>2 DEF Reference!Got
            <3>4. QED BY <3>2, <3>3 DEF before
      <2>3. one.value \in V
            BY DEF ValuesAt
      <2> HIDE DEF V, R, one
      <2>4. R(n).value \in Seq(V) /\ Len(R(n).value) = n
            BY <1>2, <2>2
      <2>5. \A all \in Seq(V) : \A v \in V :
                Append(all, v) \in Seq(V) /\ Len(Append(all, v)) = Len(all) + 1
            BY AppendProperties
      <2>6. /\ Append(R(n).value, one.value) \in Seq(V)
            /\ Len(Append(R(n).value, one.value)) = n + 1
            BY <2>3, <2>4, <2>5
      <2>7. QED BY <2>2, <2>6
<1> HIDE DEF Right
<1>3. 0 \in S /\ \A n \in Nat : n \in S => n + 1 \in S
      BY <1>1, <1>2
<1> HIDE DEF S
<1>4. Nat \subseteq S
      BY <1>3, Reference!Turns!Induction
<1>5. QED BY <1>4 DEF S, Right
---------------------------------------------------------------------
\* The members of an object.

IsOrder(o, ms) ==
    o \in Reference!SeqOf(Reference!Kept(ms), Len(ms) \div 2) /\ Reference!Sorts(o, ms)

LEMMA OrderParts ==
    ASSUME NEW ms, Len(ms) \in Nat, NEW o, IsOrder(o, ms)
    PROVE  /\ o \in Seq(Reference!Kept(ms)) /\ Len(o) <= Len(ms) \div 2
           /\ Reference!Kept(ms) \subseteq 1..(Len(ms) \div 2)
           /\ \A n \in 1..Len(o) : o[n] \in Reference!Kept(ms)
           /\ \A i \in Reference!Kept(ms) : \E n \in 1..Len(o) : o[n] = i
           /\ \A m, n \in 1..Len(o) : m < n =>
                 Less(Reference!Key(ms, o[m]), Reference!Key(ms, o[n]))
<1>1. PICK k \in 0..(Len(ms) \div 2) : o \in [1..k -> Reference!Kept(ms)]
      BY DEF IsOrder, Reference!SeqOf
<1>2. k \in Nat
      OBVIOUS
<1>3. o \in Seq(Reference!Kept(ms)) /\ Len(o) = k
      BY <1>1, <1>2
<1>4. DOMAIN o = 1..Len(o)
      BY <1>1, <1>3
<1>5. Reference!Sorts(o, ms) /\ Reference!Range(o) = Reference!Kept(ms)
      BY DEF IsOrder, Reference!Sorts
<1>6. \A i \in Reference!Kept(ms) : \E n \in 1..Len(o) : o[n] = i
      BY <1>4, <1>5 DEF Reference!Range
<1>7. Reference!Kept(ms) \subseteq 1..(Len(ms) \div 2)
      BY DEF Reference!Kept
<1>8. QED BY <1>1, <1>3, <1>4, <1>5, <1>6, <1>7 DEF Reference!Sorts

\* There is one way to sort keys that are in order.
LEMMA OneOrder ==
    ASSUME NEW ms, Len(ms) \in Nat, Reference!Ordered(ms),
           NEW f, NEW g, IsOrder(f, ms), IsOrder(g, ms)
    PROVE  f = g
<1> DEFINE K == Reference!Kept(ms)
           lt(i, j) == Less(Reference!Key(ms, i), Reference!Key(ms, j))
           k == Len(f)
           l == Len(g)
<1>1. \A i, j \in K : lt(i, j) => ~lt(j, i)
      BY DEF Reference!Ordered, Reference!StrictWeakOrder, Reference!Kept
<1>2. /\ f \in Seq(K) /\ k \in Nat /\ \A n \in 1..k : f[n] \in K
      /\ \A i \in K : \E n \in 1..k : f[n] = i
      /\ \A m, n \in 1..k : m < n => lt(f[m], f[n])
      BY OrderParts, LenProperties
<1>3. /\ g \in Seq(K) /\ l \in Nat /\ \A n \in 1..l : g[n] \in K
      /\ \A i \in K : \E n \in 1..l : g[n] = i
      /\ \A m, n \in 1..l : m < n => lt(g[m], g[n])
      BY OrderParts, LenProperties
<1> HIDE DEF K, lt, k, l
<1> DEFINE Agree(n) == \A i \in 1..n : /\ i <= k => i <= l
                                       /\ i <= l => i <= k
                                       /\ i <= k => f[i] = g[i]
           S == {n \in Nat : Agree(n)}
<1>4. Agree(0)
      OBVIOUS
<1>5. ASSUME NEW n \in Nat, Agree(n) PROVE Agree(n + 1)
      <2>1. \A i \in 1..n : (i <= k => i <= l) /\ (i <= l => i <= k) /\ (i <= k => f[i] = g[i])
            BY <1>5
      <2>2. ASSUME n + 1 \in 1..k
            PROVE  n + 1 \in 1..l /\ \E j \in (n + 1)..l : g[j] = f[n + 1]
            <3>1. PICK j \in 1..l : g[j] = f[n + 1]
                  BY <1>2, <1>3, <2>2
            <3>2. ~(j <= n)
                  <4>1. SUFFICES ASSUME j <= n PROVE FALSE
                        OBVIOUS
                  <4>2. j \in 1..k /\ f[j] = f[n + 1] /\ j < n + 1
                        BY <2>1, <2>2, <3>1, <4>1
                  <4>3. QED BY <1>1, <1>2, <2>2, <4>2
            <3>3. QED BY <1>3, <3>1, <3>2
      <2>3. ASSUME n + 1 \in 1..l
            PROVE  n + 1 \in 1..k /\ \E j \in (n + 1)..k : f[j] = g[n + 1]
            <3>1. PICK j \in 1..k : f[j] = g[n + 1]
                  BY <1>2, <1>3, <2>3
            <3>2. ~(j <= n)
                  <4>1. SUFFICES ASSUME j <= n PROVE FALSE
                        OBVIOUS
                  <4>2. j \in 1..l /\ g[j] = g[n + 1] /\ j < n + 1
                        BY <2>1, <2>3, <3>1, <4>1
                  <4>3. QED BY <1>1, <1>3, <2>3, <4>2
            <3>3. QED BY <1>2, <3>1, <3>2
      <2>4. ASSUME n + 1 \in 1..k PROVE f[n + 1] = g[n + 1]
            <3>1. PICK j \in (n + 1)..l : g[j] = f[n + 1]
                  BY <2>2, <2>4
            <3>2. PICK i \in (n + 1)..k : f[i] = g[n + 1]
                  BY <2>2, <2>3, <2>4
            <3>3. SUFFICES ASSUME j # n + 1, i # n + 1 PROVE FALSE
                  BY <3>1, <3>2
            <3>4. lt(g[n + 1], g[j]) /\ lt(f[n + 1], f[i])
                  BY <1>2, <1>3, <2>2, <2>4, <3>1, <3>2, <3>3
            <3>5. g[n + 1] \in K /\ f[n + 1] \in K
                  BY <1>2, <1>3, <2>2, <2>4
            <3>6. QED BY <1>1, <3>1, <3>2, <3>4, <3>5
      <2>5. ASSUME NEW i \in 1..(n + 1)
            PROVE  (i <= k => i <= l) /\ (i <= l => i <= k) /\ (i <= k => f[i] = g[i])
            <3>1. CASE i \in 1..n
                  BY <2>1, <3>1
            <3>2. CASE i = n + 1
                  BY <1>2, <1>3, <2>2, <2>3, <2>4, <3>2
            <3>3. QED BY <3>1, <3>2
      <2>6. QED BY <2>5
<1> HIDE DEF Agree
<1>6. 0 \in S /\ \A n \in Nat : n \in S => n + 1 \in S
      BY <1>4, <1>5
<1> HIDE DEF S
<1>7. Nat \subseteq S
      BY <1>6, Reference!Turns!Induction
<1>8. \A n \in Nat : Agree(n)
      BY <1>7 DEF S
<1>9. k = l
      <2>1. Agree(k) /\ Agree(l)
            BY <1>2, <1>3, <1>8
      <2>2. (k # 0 => k <= l) /\ (l # 0 => l <= k)
            <3>1. k # 0 => k \in 1..k /\ k <= k
                  BY <1>2
            <3>2. l # 0 => l \in 1..l /\ l <= l
                  BY <1>3
            <3>3. QED BY <2>1, <3>1, <3>2 DEF Agree
      <2>3. QED BY <1>2, <1>3, <2>2
<1>10. \A i \in 1..k : f[i] = g[i]
      BY <1>2, <1>8 DEF Agree
<1>11. f \in [1..k -> K] /\ g \in [1..k -> K]
      <2>1. f \in [1..Len(f) -> K] /\ g \in [1..Len(g) -> K]
            BY <1>2, <1>3
      <2>2. QED BY <1>9, <2>1 DEF k, l
<1>12. f = [i \in 1..k |-> f[i]] /\ g = [i \in 1..k |-> g[i]]
      BY <1>11
<1>13. [i \in 1..k |-> f[i]] = [i \in 1..k |-> g[i]]
      BY <1>10
<1>14. QED BY <1>12, <1>13

\* b holds the members ms in this order.
Holds(b, ms, o) ==
    /\ IsOrder(o, ms)
    /\ b.keys = [n \in 1..Len(o) |-> Reference!Key(ms, o[n])]
    /\ b.items = [n \in 1..Len(o) |-> Reference!Mapped(ms, o[n])]

\* b holds what Decode makes of the members ms.
Made(b, ms) == \E o : Holds(b, ms, o)

LEMMA MadeNothing ==
    ASSUME NEW b, b.keys = <<>>, b.items = <<>>
    PROVE  Made(b, <<>>)
<1>1. Len(<<>>) \div 2 = 0
      OBVIOUS
<1>2. Reference!Kept(<<>>) = {}
      BY <1>1 DEF Reference!Kept
<1>3. <<>> \in [1..0 -> Reference!Kept(<<>>)]
      BY <1>2
<1>4. Reference!Range(<<>>) = {} /\ DOMAIN <<>> = {}
      BY DEF Reference!Range
<1>5. IsOrder(<<>>, <<>>)
      <2>1. <<>> \in Reference!SeqOf(Reference!Kept(<<>>), Len(<<>>) \div 2)
            BY <1>1, <1>3 DEF Reference!SeqOf
      <2>2. Reference!Sorts(<<>>, <<>>)
            BY <1>2, <1>4 DEF Reference!Sorts
      <2>3. QED BY <2>1, <2>2 DEF IsOrder
<1>6. <<>> = [n \in 1..Len(<<>>) |-> Reference!Key(<<>>, <<>>[n])]
      OBVIOUS
<1>7. <<>> = [n \in 1..Len(<<>>) |-> Reference!Mapped(<<>>, <<>>[n])]
      OBVIOUS
<1>8. QED BY <1>5, <1>6, <1>7 DEF Made, Holds

\* When the loop over the members is over b is the object.
LEMMA MadeWhole ==
    ASSUME NEW ms, Len(ms) \in Nat, Reference!Ordered(ms), NEW b, Made(b, ms)
    PROVE  Reference!MakeObject(ms) = Object(b.keys, b.items)
<1>p. PICK o : Holds(b, ms, o)
      BY DEF Made
<1>1. /\ IsOrder(o, ms)
      /\ b.keys = [n \in 1..Len(o) |-> Reference!Key(ms, o[n])]
      /\ b.items = [n \in 1..Len(o) |-> Reference!Mapped(ms, o[n])]
      BY <1>p DEF Holds
<1> DEFINE order == CHOOSE order \in Reference!SeqOf(Reference!Kept(ms), Len(ms) \div 2) :
                       Reference!Sorts(order, ms)
<1>2. IsOrder(order, ms)
      BY <1>1 DEF IsOrder
<1>3. order = o
      BY <1>1, <1>2, OneOrder
<1>4. DOMAIN o = 1..Len(o)
      BY <1>1, OrderParts, LenProperties
<1>5. Reference!MakeObject(ms) =
         Reference!Object([n \in DOMAIN order |-> Reference!Key(ms, order[n])],
                          [n \in DOMAIN order |-> Reference!Mapped(ms, order[n])])
      BY DEF Reference!MakeObject, Reference!InOrder
<1> HIDE DEF order
<1>6. QED BY <1>1, <1>3, <1>4, <1>5 DEF Reference!Object, Object

\* Each member has a key that is equivalent to one that counts.
LEMMA KeptStandsFor ==
    ASSUME NEW ms, Len(ms) \in Nat, Reference!Ordered(ms)
    PROVE  \A j \in 1..(Len(ms) \div 2) : \E i \in Reference!Kept(ms) :
              Reference!Equivalent(Reference!Key(ms, i), Reference!Key(ms, j))
<1> DEFINE m == Len(ms) \div 2
           eq(i, j) == Reference!Equivalent(Reference!Key(ms, i), Reference!Key(ms, j))
           Stands(n) == \A j \in 1..m : j <= n => \E i \in Reference!Kept(ms) : eq(i, j)
           S == {n \in Nat : Stands(n)}
<1>1. \A i \in 1..m : eq(i, i)
      BY DEF Reference!Ordered, Reference!StrictWeakOrder, Reference!Equivalent
<1>2. \A h, i, j \in 1..m : eq(h, i) /\ eq(i, j) => eq(h, j)
      BY DEF Reference!Ordered, Reference!StrictWeakOrder, Reference!Equivalent
<1>3. /\ Reference!Kept(ms) \subseteq 1..m
      /\ \A j \in 1..m : j \in Reference!Kept(ms) \/ \E i \in 1..(j - 1) : eq(i, j)
      BY DEF Reference!Kept
<1>4. m \in Nat
      OBVIOUS
<1> HIDE DEF m, eq
<1>5. Stands(0)
      OBVIOUS
<1>6. ASSUME NEW n \in Nat, Stands(n) PROVE Stands(n + 1)
      <2> SUFFICES ASSUME NEW j \in 1..m, j <= n + 1
                   PROVE  \E i \in Reference!Kept(ms) : eq(i, j)
          OBVIOUS
      <2>1. CASE j \in Reference!Kept(ms)
            BY <1>1, <2>1
      <2>2. CASE j \notin Reference!Kept(ms)
            <3>1. PICK i \in 1..(j - 1) : eq(i, j)
                  BY <1>3, <2>2
            <3>2. i \in 1..m /\ i <= n
                  BY <1>4, <3>1
            <3>3. PICK h \in Reference!Kept(ms) : eq(h, i)
                  BY <1>6, <3>2
            <3>4. QED BY <1>2, <1>3, <3>1, <3>2, <3>3
      <2>3. QED BY <2>1, <2>2
<1> HIDE DEF Stands
<1>7. 0 \in S /\ \A n \in Nat : n \in S => n + 1 \in S
      BY <1>5, <1>6
<1> HIDE DEF S
<1>8. Nat \subseteq S
      BY <1>7, Reference!Turns!Induction
<1>9. Stands(m)
      BY <1>4, <1>8 DEF S
<1>10. QED BY <1>4, <1>9 DEF Stands, m, eq

\* ms are the keys and the mapped values of m members.
InPairs(ms, m) == Len(ms) = 2 * m

\* ms with one more member: the key k and the value v.
Longer(ms, k, v) == Append(Append(ms, k), v)

LEMMA LongerSeq ==
    ASSUME NEW V, NEW ms \in Seq(V), NEW k \in V, NEW v \in V
    PROVE  /\ Longer(ms, k, v) \in Seq(V) /\ Len(Longer(ms, k, v)) = Len(ms) + 2
           /\ \A i \in 1..Len(ms) : Longer(ms, k, v)[i] = ms[i]
           /\ Longer(ms, k, v)[Len(ms) + 1] = k /\ Longer(ms, k, v)[Len(ms) + 2] = v
<1> DEFINE one == Append(ms, k)
           more == Append(one, v)
           n == Len(ms)
<1>1. n \in Nat
      BY LenProperties
<1>2. /\ one \in Seq(V) /\ Len(one) = n + 1 /\ one[n + 1] = k
      /\ \A i \in 1..n : one[i] = ms[i]
      BY AppendProperties
<1> HIDE DEF one, n
<1>3. /\ more \in Seq(V) /\ Len(more) = n + 2 /\ more[n + 2] = v
      /\ \A i \in 1..(n + 1) : more[i] = one[i]
      BY <1>1, <1>2, AppendProperties
<1> HIDE DEF more
<1>4. n + 1 \in 1..(n + 1) /\ \A i \in 1..n : i \in 1..(n + 1)
      BY <1>1
<1>5. /\ more \in Seq(V) /\ Len(more) = n + 2
      /\ \A i \in 1..n : more[i] = ms[i]
      /\ more[n + 1] = k /\ more[n + 2] = v
      BY <1>2, <1>3, <1>4
<1>6. QED BY <1>5 DEF more, one, Longer, n

\* How many members there are before and then, and what they are.
LEMMA LongerHalves ==
    ASSUME NEW V, NEW ms \in Seq(V), NEW m \in Nat, InPairs(ms, m), NEW k \in V, NEW v \in V
    PROVE  Len(ms) \div 2 = m /\ Len(Longer(ms, k, v)) \div 2 = m + 1
<1>1. Len(Longer(ms, k, v)) = 2 * m + 2
      BY LongerSeq DEF InPairs
<1>2. QED BY <1>1 DEF InPairs

LEMMA LongerKeys ==
    ASSUME NEW V, NEW ms \in Seq(V), NEW m \in Nat, InPairs(ms, m), NEW k \in V, NEW v \in V
    PROVE  /\ \A i \in 1..m :
                 /\ Reference!Key(Longer(ms, k, v), i) = Reference!Key(ms, i)
                 /\ Reference!Mapped(Longer(ms, k, v), i) = Reference!Mapped(ms, i)
           /\ Reference!Key(Longer(ms, k, v), m + 1) = k
           /\ Reference!Mapped(Longer(ms, k, v), m + 1) = v
<1> DEFINE more == Longer(ms, k, v)
<1>1. /\ \A i \in 1..Len(ms) : more[i] = ms[i]
      /\ more[Len(ms) + 1] = k /\ more[Len(ms) + 2] = v
      BY LongerSeq DEF more
<1> HIDE DEF more
<1>2. \A i \in 1..m : more[2 * i - 1] = ms[2 * i - 1] /\ more[2 * i] = ms[2 * i]
      <2> TAKE i \in 1..m
      <2>1. 2 * i - 1 \in 1..Len(ms) /\ 2 * i \in 1..Len(ms)
            BY DEF InPairs
      <2>2. QED BY <1>1, <2>1
<1>3. more[2 * (m + 1) - 1] = k /\ more[2 * (m + 1)] = v
      <2>1. 2 * (m + 1) - 1 = Len(ms) + 1 /\ 2 * (m + 1) = Len(ms) + 2
            BY DEF InPairs
      <2>2. QED BY <1>1, <2>1
<1>4. QED BY <1>2, <1>3 DEF Reference!Key, Reference!Mapped, more

\* The new member counts unless its key is equivalent to one that is there.
LEMMA KeptMore ==
    ASSUME NEW V, NEW ms \in Seq(V), NEW m \in Nat, InPairs(ms, m), NEW k \in V, NEW v \in V
    PROVE  Reference!Kept(Longer(ms, k, v)) =
              Reference!Kept(ms) \union
              IF \E j \in 1..m : Reference!Equivalent(Reference!Key(ms, j), k) THEN {} ELSE {m + 1}
<1> DEFINE more == Longer(ms, k, v)
<1>h. Len(ms) \div 2 = m /\ Len(more) \div 2 = m + 1
      BY LongerHalves
<1>k. /\ \A i \in 1..m : Reference!Key(more, i) = Reference!Key(ms, i)
      /\ Reference!Key(more, m + 1) = k
      BY LongerKeys
<1> HIDE DEF more
<1>1. /\ Len(ms) \div 2 = m /\ Len(more) \div 2 = m + 1
      /\ \A i \in 1..m : Reference!Key(more, i) = Reference!Key(ms, i)
      /\ Reference!Key(more, m + 1) = k
      BY <1>h, <1>k
<1>2. ASSUME NEW i \in 1..m
      PROVE  i \in Reference!Kept(more) <=> i \in Reference!Kept(ms)
      <2>1. \A j \in 1..(i - 1) : j \in 1..m
            OBVIOUS
      <2>2. i \in 1..(m + 1)
            OBVIOUS
      <2>3. QED BY <1>1, <2>1, <2>2 DEF Reference!Kept
<1>3. m + 1 \in Reference!Kept(more) <=>
         ~\E j \in 1..m : Reference!Equivalent(Reference!Key(ms, j), k)
      <2>1. m + 1 \in 1..(m + 1) /\ (m + 1) - 1 = m
            OBVIOUS
      <2>2. QED BY <1>1, <2>1 DEF Reference!Kept
<1>4. Reference!Kept(more) \subseteq 1..(m + 1) /\ Reference!Kept(ms) \subseteq 1..m
      BY <1>1 DEF Reference!Kept
<1>5. ASSUME NEW i PROVE i \in 1..(m + 1) <=> (i \in 1..m \/ i = m + 1)
      OBVIOUS
<1>6. m + 1 \notin 1..m
      OBVIOUS
<1>7. QED BY <1>2, <1>3, <1>4, <1>5, <1>6 DEF more

\* The keys of the m members ms, and k.
KeysAnd(ms, m, k) == {Reference!Key(ms, i) : i \in 1..m} \union {k}

LEMMA KeysInOrder ==
    ASSUME NEW V, NEW ms \in Seq(V), NEW m \in Nat, InPairs(ms, m), NEW k \in V, NEW v \in V,
           Reference!Ordered(Longer(ms, k, v))
    PROVE  \A a, b, c \in KeysAnd(ms, m, k) :
              Less(a, b) => ~Less(b, a) /\ (Less(a, c) \/ Less(c, b))
<1> DEFINE more == Longer(ms, k, v)
<1>1. Len(more) \div 2 = m + 1
      BY LongerHalves
<1>2. /\ \A i \in 1..m : Reference!Key(more, i) = Reference!Key(ms, i)
      /\ Reference!Key(more, m + 1) = k
      BY LongerKeys
<1> HIDE DEF more
<1>3. KeysAnd(ms, m, k) \subseteq {Reference!Key(more, i) : i \in 1..(m + 1)}
      <2>1. m + 1 \in 1..(m + 1) /\ \A i \in 1..m : i \in 1..(m + 1)
            OBVIOUS
      <2>2. QED BY <1>2, <2>1 DEF KeysAnd
<1>4. QED BY <1>1, <1>3 DEF Reference!Ordered, Reference!StrictWeakOrder, more

\* Where the search for k ends its neighbours tell whether there is an equivalent.
LEMMA EndsTells ==
    ASSUME NEW V, NEW ms \in Seq(V), NEW m \in Nat, InPairs(ms, m), NEW k \in V, NEW v \in V,
           Reference!Ordered(Longer(ms, k, v)),
           NEW o, IsOrder(o, ms), NEW p \in 0..Len(o),
           p > 0 => ~Less(k, Reference!Key(ms, o[p])),
           p < Len(o) => Less(k, Reference!Key(ms, o[p + 1]))
    PROVE  (\E j \in 1..m : Reference!Equivalent(Reference!Key(ms, j), k)) <=>
              p > 0 /\ ~Less(Reference!Key(ms, o[p]), k)
<1> DEFINE K == {Reference!Key(ms, i) : i \in 1..m} \union {k}
<1>1. Len(ms) \in Nat /\ Len(ms) \div 2 = m
      BY LenProperties, LongerHalves
<1>2. \A a, b, c \in K : Less(a, b) => ~Less(b, a) /\ (Less(a, c) \/ Less(c, b))
      BY KeysInOrder DEF KeysAnd
<1>3. Reference!Ordered(ms)
      BY <1>1, <1>2 DEF Reference!Ordered, Reference!StrictWeakOrder
<1>4. /\ Len(o) \in Nat /\ Reference!Kept(ms) \subseteq 1..m
      /\ \A n \in 1..Len(o) : o[n] \in Reference!Kept(ms)
      /\ \A i \in Reference!Kept(ms) : \E n \in 1..Len(o) : o[n] = i
      /\ \A i, n \in 1..Len(o) : i < n => Less(Reference!Key(ms, o[i]), Reference!Key(ms, o[n]))
      BY <1>1, OrderParts, LenProperties
<1>5. \A n \in 1..Len(o) : Reference!Key(ms, o[n]) \in K /\ o[n] \in 1..m
      BY <1>4
<1>6. k \in K
      OBVIOUS
<1>7. ASSUME p > 0, ~Less(Reference!Key(ms, o[p]), k)
      PROVE  \E j \in 1..m : Reference!Equivalent(Reference!Key(ms, j), k)
      <2>1. p \in 1..Len(o)
            BY <1>4, <1>7
      <2>2. Reference!Equivalent(Reference!Key(ms, o[p]), k)
            BY <1>7 DEF Reference!Equivalent
      <2>3. QED BY <1>5, <2>1, <2>2
<1>8. ASSUME NEW j \in 1..m, Reference!Equivalent(Reference!Key(ms, j), k)
      PROVE  p > 0 /\ ~Less(Reference!Key(ms, o[p]), k)
      <2>1. PICK i \in Reference!Kept(ms) :
               Reference!Equivalent(Reference!Key(ms, i), Reference!Key(ms, j))
            BY <1>1, <1>3, KeptStandsFor
      <2>2. PICK n \in 1..Len(o) : o[n] = i
            BY <1>4
      <2> DEFINE key(x) == Reference!Key(ms, o[x])
      <2>3. ~Less(key(n), k) /\ ~Less(k, key(n))
            <3>1. Reference!Key(ms, j) \in K /\ key(n) \in K
                  BY <1>5
            <3> HIDE DEF K
            <3>2. QED BY <1>2, <1>6, <1>8, <2>1, <2>2, <3>1 DEF Reference!Equivalent
      <2>4. ~(n > p)
            <3>1. SUFFICES ASSUME n > p PROVE FALSE
                  OBVIOUS
            <3>2. Less(k, key(p + 1)) /\ p + 1 \in 1..Len(o) /\ (p + 1 = n \/ p + 1 < n)
                  BY <1>4, <3>1
            <3>3. p + 1 < n => Less(key(p + 1), key(n))
                  BY <1>4, <3>2
            <3>4. key(p + 1) \in K /\ key(n) \in K
                  BY <1>5, <3>2
            <3> HIDE DEF K
            <3>5. p + 1 = n => key(p + 1) = key(n)
                  OBVIOUS
            <3> HIDE DEF key
            <3>6. QED BY <1>2, <1>6, <2>3, <3>2, <3>3, <3>4, <3>5
      <2>5. p > 0 /\ p \in 1..Len(o) /\ (n = p \/ n < p)
            BY <1>4, <2>4
      <2>6. ~Less(key(p), k)
            <3>1. n < p => Less(key(n), key(p))
                  BY <1>4, <2>5
            <3>2. key(p) \in K /\ key(n) \in K /\ (n = p => key(n) = key(p))
                  BY <1>5, <2>5
            <3>3. ~Less(k, key(p))
                  BY <2>5
            <3> HIDE DEF K, key
            <3>4. QED BY <1>2, <1>6, <2>3, <2>5, <3>1, <3>2, <3>3
      <2>7. QED BY <2>5, <2>6
<1>9. QED BY <1>7, <1>8

\* b after a member with a new key was inserted where the search for it ended.
LEMMA InsertedIsMade ==
    ASSUME NEW V, NEW ms \in Seq(V), NEW m \in Nat, InPairs(ms, m), NEW k \in V, NEW v \in V,
           Reference!Ordered(Longer(ms, k, v)),
           NEW o, IsOrder(o, ms), NEW p \in 0..Len(o),
           p > 0 => Less(Reference!Key(ms, o[p]), k),
           p < Len(o) => Less(k, Reference!Key(ms, o[p + 1])),
           Reference!Kept(Longer(ms, k, v)) = Reference!Kept(ms) \union {m + 1},
           NEW o2, WithBehind(o2, o, p, m + 1), o2 \in Seq(1..(m + 1))
    PROVE  IsOrder(o2, Longer(ms, k, v))
<1> DEFINE more == Longer(ms, k, v)
           l == Len(o)
           key(i) == Reference!Key(ms, o[i])
           key2(i) == Reference!Key(more, o2[i])
<1>1. Len(ms) \in Nat /\ Len(ms) \div 2 = m /\ Len(more) \div 2 = m + 1
      BY LenProperties, LongerHalves
<1>2. /\ \A i \in 1..m : Reference!Key(more, i) = Reference!Key(ms, i)
      /\ Reference!Key(more, m + 1) = k
      BY LongerKeys
<1>3. /\ l \in Nat /\ l <= m /\ Reference!Kept(ms) \subseteq 1..m
      /\ \A n \in 1..l : o[n] \in Reference!Kept(ms)
      /\ \A i \in Reference!Kept(ms) : \E n \in 1..l : o[n] = i
      /\ \A i, n \in 1..l : i < n => Less(key(i), key(n))
      BY <1>1, OrderParts, LenProperties
<1>4. /\ Len(o2) = l + 1
      /\ \A i \in 1..(l + 1) :
            o2[i] = IF i <= p THEN o[i] ELSE IF i = p + 1 THEN m + 1 ELSE o[i - 1]
      BY DEF WithBehind
<1>5. \A a, b, c \in KeysAnd(ms, m, k) : Less(a, b) => ~Less(b, a) /\ (Less(a, c) \/ Less(c, b))
      BY KeysInOrder
<1>6. k \in KeysAnd(ms, m, k) /\ \A i \in 1..l : key(i) \in KeysAnd(ms, m, k)
      BY <1>3 DEF KeysAnd
<1>p. p \in Nat /\ p <= l
      BY <1>3
<1>o. Reference!Kept(more) = Reference!Kept(ms) \union {m + 1}
      OBVIOUS
<1>b. /\ p > 0 => Less(key(p), k)
      /\ p < l => Less(k, key(p + 1))
      OBVIOUS
<1>7. ASSUME NEW i \in 1..(l + 1)
      PROVE  /\ i <= p => i \in 1..l /\ o2[i] = o[i] /\ key2(i) = key(i)
             /\ i = p + 1 => o2[i] = m + 1 /\ key2(i) = k
             /\ i > p + 1 => i - 1 \in 1..l /\ o2[i] = o[i - 1] /\ key2(i) = key(i - 1)
      <2>1. CASE i <= p
            <3>1. i \in 1..l /\ o2[i] = o[i]
                  BY <1>3, <1>4, <1>p, <2>1
            <3>2. o[i] \in 1..m
                  BY <1>3, <3>1
            <3>3. QED BY <1>2, <1>p, <2>1, <3>1, <3>2
      <2>2. CASE i = p + 1
            BY <1>2, <1>4, <1>p, <2>2
      <2>3. CASE i > p + 1
            <3>1. i - 1 \in 1..l /\ o2[i] = o[i - 1]
                  BY <1>3, <1>4, <1>p, <2>3
            <3>2. o[i - 1] \in 1..m
                  BY <1>3, <3>1
            <3>3. QED BY <1>2, <1>p, <2>3, <3>1, <3>2
      <2>4. QED BY <1>p, <2>1, <2>2, <2>3
<1> HIDE DEF more, l, key, key2
<1>8. ASSUME NEW i \in 1..l
      PROVE  (i <= p => Less(key(i), k)) /\ (i > p => Less(k, key(i)))
      <2>1. CASE i < p
            <3>1. p \in 1..l /\ Less(key(i), key(p)) /\ Less(key(p), k)
                  BY <1>3, <1>b, <1>p, <2>1
            <3>2. QED BY <1>5, <1>6, <1>p, <2>1, <3>1
      <2>2. CASE i = p
            BY <1>b, <1>p, <2>2
      <2>3. CASE i = p + 1
            <3>1. key(i) = key(p + 1)
                  BY <2>3
            <3>2. p < l /\ ~(i <= p) /\ i > p
                  BY <1>3, <1>p, <2>3
            <3>3. QED BY <1>b, <3>1, <3>2
      <2>4. CASE i > p + 1
            <3>1. p + 1 \in 1..l /\ Less(key(p + 1), key(i)) /\ Less(k, key(p + 1))
                  BY <1>3, <1>b, <1>p, <2>4
            <3>2. QED BY <1>5, <1>6, <1>p, <2>4, <3>1
      <2>5. QED BY <1>p, <2>1, <2>2, <2>3, <2>4
<1>9. ASSUME NEW i \in 1..(l + 1), NEW n \in 1..(l + 1), i < n
      PROVE  Less(key2(i), key2(n))
      <2>1. CASE n <= p
            <3>1. i <= p
                  BY <1>p, <1>9, <2>1
            <3>2. QED BY <1>3, <1>7, <1>9, <2>1, <3>1
      <2>2. CASE n = p + 1
            <3>1. i <= p
                  BY <1>p, <1>9, <2>2
            <3>2. key2(n) = k /\ key2(i) = key(i) /\ i \in 1..l
                  BY <1>7, <2>2, <3>1
            <3>3. QED BY <1>8, <3>1, <3>2
      <2>3. CASE n > p + 1 /\ i <= p
            <3>1. /\ n - 1 \in 1..l /\ i \in 1..l /\ i < n - 1
                  /\ key2(n) = key(n - 1) /\ key2(i) = key(i)
                  BY <1>7, <1>p, <2>3
            <3>2. QED BY <1>3, <3>1
      <2>4. CASE n > p + 1 /\ i = p + 1
            <3>1. n - 1 \in 1..l /\ n - 1 > p /\ key2(n) = key(n - 1) /\ key2(i) = k
                  BY <1>7, <1>p, <2>4
            <3>2. QED BY <1>8, <3>1
      <2>5. CASE n > p + 1 /\ i > p + 1
            <3>1. /\ n - 1 \in 1..l /\ i - 1 \in 1..l /\ i - 1 < n - 1
                  /\ key2(n) = key(n - 1) /\ key2(i) = key(i - 1)
                  BY <1>7, <1>9, <2>5
            <3>2. QED BY <1>3, <3>1
      <2>6. QED BY <1>p, <2>1, <2>2, <2>3, <2>4, <2>5
<1>10. \A i \in 1..(l + 1) : o2[i] \in Reference!Kept(more)
      <2> TAKE i \in 1..(l + 1)
      <2>1. CASE i <= p
            BY <1>3, <1>7, <1>o, <2>1
      <2>2. CASE i = p + 1
            BY <1>7, <1>o, <2>2
      <2>3. CASE i > p + 1
            BY <1>3, <1>7, <1>o, <2>3
      <2>4. QED BY <1>p, <2>1, <2>2, <2>3
<1>11. ASSUME NEW x \in Reference!Kept(more)
       PROVE  \E i \in 1..(l + 1) : o2[i] = x
      <2>1. CASE x = m + 1
            <3>1. p + 1 \in 1..(l + 1)
                  BY <1>3, <1>p
            <3>2. QED BY <1>7, <2>1, <3>1
      <2>2. CASE x \in Reference!Kept(ms)
            <3>1. PICK n \in 1..l : o[n] = x
                  BY <1>3, <2>2
            <3>2. CASE n <= p
                  <4>1. n \in 1..(l + 1)
                        BY <1>3
                  <4>2. QED BY <1>7, <3>1, <3>2, <4>1
            <3>3. CASE n > p
                  <4>1. n + 1 \in 1..(l + 1) /\ n + 1 > p + 1 /\ (n + 1) - 1 = n
                        BY <1>3, <1>p, <3>3
                  <4>2. QED BY <1>7, <3>1, <4>1
            <3>4. QED BY <1>p, <3>2, <3>3
      <2>3. QED BY <1>11, <1>o, <2>1, <2>2
<1>12. DOMAIN o2 = 1..(l + 1) /\ o2 = [i \in 1..(l + 1) |-> o2[i]]
      BY <1>4, LenProperties
<1>13. o2 \in Reference!SeqOf(Reference!Kept(more), Len(more) \div 2)
      <2>1. o2 \in [1..(l + 1) -> Reference!Kept(more)]
            BY <1>10, <1>12
      <2>2. l + 1 \in 0..(m + 1)
            BY <1>3
      <2>3. QED BY <1>1, <2>1, <2>2 DEF Reference!SeqOf
<1>14. Reference!Range(o2) = Reference!Kept(more)
      BY <1>10, <1>11, <1>12 DEF Reference!Range
<1>15. \A i, n \in DOMAIN o2 : i < n => Less(Reference!Key(more, o2[i]), Reference!Key(more, o2[n]))
      BY <1>9, <1>12 DEF key2
<1>16. QED BY <1>13, <1>14, <1>15 DEF IsOrder, Reference!Sorts, more

\* Members that are in order are in order without the last one.
LEMMA OrderedBefore ==
    ASSUME NEW V, NEW ms \in Seq(V), NEW m \in Nat, InPairs(ms, m), NEW k \in V, NEW v \in V,
           Reference!Ordered(Longer(ms, k, v))
    PROVE  Reference!Ordered(ms)
<1>1. Len(ms) \div 2 = m
      BY LongerHalves
<1>2. {Reference!Key(ms, i) : i \in 1..m} \subseteq KeysAnd(ms, m, k)
      BY DEF KeysAnd
<1>3. \A a, b, c \in KeysAnd(ms, m, k) : Less(a, b) => ~Less(b, a) /\ (Less(a, c) \/ Less(c, b))
      BY KeysInOrder
<1>4. QED BY <1>1, <1>2, <1>3 DEF Reference!Ordered, Reference!StrictWeakOrder

LEMMA HoldsParts ==
    ASSUME NEW V, NEW b \in Gathered(V), NEW ms, NEW o, Holds(b, ms, o), Len(o) \in Nat
    PROVE  /\ Len(b.keys) = Len(o) /\ Len(b.items) = Len(o)
           /\ \A i \in 1..Len(o) : /\ b.keys[i] = Reference!Key(ms, o[i])
                                   /\ b.items[i] = Reference!Mapped(ms, o[i])
<1> DEFINE n == Len(o)
<1>1. b.keys \in Seq(V) /\ b.items \in Seq(V)
      BY DEF Gathered
<1>2. DOMAIN b.keys = 1..n /\ DOMAIN b.items = 1..n
      BY DEF Holds
<1>3. Len(b.keys) \in Nat /\ 1..Len(b.keys) = 1..n /\ Len(b.items) \in Nat /\ 1..Len(b.items) = 1..n
      BY <1>1, <1>2, LenProperties
<1>4. ASSUME NEW l \in Nat, 1..l = 1..n PROVE l = n
      <2>1. (l > 0 => l \in 1..n) /\ (n > 0 => n \in 1..l)
            BY <1>4
      <2>2. QED BY <2>1
<1>5. QED BY <1>3, <1>4 DEF Holds

\* A member whose key is there already changes nothing,
LEMMA HoldsStill ==
    ASSUME NEW V, NEW ms \in Seq(V), NEW m \in Nat, InPairs(ms, m), NEW k \in V, NEW v \in V,
           NEW b, NEW o, Holds(b, ms, o),
           \E j \in 1..m : Reference!Equivalent(Reference!Key(ms, j), k)
    PROVE  Holds(b, Longer(ms, k, v), o)
<1> DEFINE more == Longer(ms, k, v)
<1>1. Len(ms) \in Nat /\ Len(ms) \div 2 = m /\ Len(more) \div 2 = m + 1
      BY LenProperties, LongerHalves
<1>2. \A i \in 1..m : /\ Reference!Key(more, i) = Reference!Key(ms, i)
                      /\ Reference!Mapped(more, i) = Reference!Mapped(ms, i)
      BY LongerKeys
<1>k. Reference!Kept(more) =
         Reference!Kept(ms) \union
         IF \E j \in 1..m : Reference!Equivalent(Reference!Key(ms, j), k) THEN {} ELSE {m + 1}
      BY KeptMore
<1> HIDE DEF more
<1>3. Reference!Kept(more) = Reference!Kept(ms)
      BY <1>k
<1>4. IsOrder(o, ms)
      BY DEF Holds
<1>5. \A n \in 1..Len(o) : o[n] \in 1..m
      BY <1>1, <1>4, OrderParts
<1>6. o \in Seq(Reference!Kept(ms)) /\ DOMAIN o = 1..Len(o)
      BY <1>1, <1>4, OrderParts, LenProperties
<1>7. IsOrder(o, more)
      <2>1. o \in Reference!SeqOf(Reference!Kept(more), Len(more) \div 2)
            <3>1. PICK n \in 0..m : o \in [1..n -> Reference!Kept(ms)]
                  BY <1>1, <1>4 DEF IsOrder, Reference!SeqOf
            <3>2. n \in 0..(m + 1)
                  OBVIOUS
            <3>3. QED BY <1>1, <1>3, <3>1, <3>2 DEF Reference!SeqOf
      <2>2. Reference!Sorts(o, more)
            BY <1>2, <1>3, <1>4, <1>5, <1>6 DEF IsOrder, Reference!Sorts
      <2>3. QED BY <2>1, <2>2 DEF IsOrder
<1>8. /\ b.keys = [n \in 1..Len(o) |-> Reference!Key(more, o[n])]
      /\ b.items = [n \in 1..Len(o) |-> Reference!Mapped(more, o[n])]
      BY <1>2, <1>5 DEF Holds
<1>9. QED BY <1>7, <1>8 DEF Holds, more

LEMMA Behind ==
    \A i, l, p \in Nat :
        i <= l + 1 /\ i > p + 1 => i - 1 \in 1..l /\ ~(i <= p) /\ i # p + 1
OBVIOUS

\* and one with a new key goes where the search for it ended.
LEMMA HoldsMore ==
    ASSUME NEW V, NEW ms \in Seq(V), NEW m \in Nat, InPairs(ms, m), NEW k \in V, NEW v \in V,
           NEW b \in Gathered(V), NEW o, Holds(b, ms, o), NEW p \in 0..Len(o),
           NEW o2, WithBehind(o2, o, p, m + 1), IsOrder(o2, Longer(ms, k, v)),
           NEW c, c.keys = InsertAt(b.keys, p + 1, k), c.items = InsertAt(b.items, p + 1, v)
    PROVE  Holds(c, Longer(ms, k, v), o2)
<1> DEFINE more == Longer(ms, k, v)
           l == Len(o)
<1>1. Len(ms) \in Nat /\ Len(ms) \div 2 = m
      BY LenProperties, LongerHalves
<1>2. /\ \A i \in 1..m : /\ Reference!Key(more, i) = Reference!Key(ms, i)
                         /\ Reference!Mapped(more, i) = Reference!Mapped(ms, i)
      /\ Reference!Key(more, m + 1) = k /\ Reference!Mapped(more, m + 1) = v
      BY LongerKeys
<1> HIDE DEF more
<1>3. l \in Nat /\ \A n \in 1..l : o[n] \in 1..m
      BY <1>1, OrderParts, LenProperties DEF Holds
<1>4. /\ Len(b.keys) = l /\ Len(b.items) = l
      /\ \A i \in 1..l : /\ b.keys[i] = Reference!Key(ms, o[i])
                         /\ b.items[i] = Reference!Mapped(ms, o[i])
      <2> HIDE DEF l
      <2>1. Len(o) = l
            BY DEF l
      <2>2. Len(o) \in Nat
            BY <1>3, <2>1
      <2>3. /\ Len(b.keys) = Len(o) /\ Len(b.items) = Len(o)
            /\ \A i \in 1..Len(o) : /\ b.keys[i] = Reference!Key(ms, o[i])
                                    /\ b.items[i] = Reference!Mapped(ms, o[i])
            BY <2>2, HoldsParts
      <2>4. QED BY <2>1, <2>3
<1>5. /\ c.keys \in Seq(V) /\ WithBehind(c.keys, b.keys, p, k)
      /\ c.items \in Seq(V) /\ WithBehind(c.items, b.items, p, v)
      <2>1. b.keys \in Seq(V) /\ b.items \in Seq(V)
            BY DEF Gathered
      <2>2. p \in 0..Len(b.keys) /\ p \in 0..Len(b.items)
            BY <1>4
      <2>3. QED BY <2>1, <2>2, Inserted
<1>6. /\ Len(o2) = l + 1
      /\ \A i \in 1..(l + 1) :
            o2[i] = IF i <= p THEN o[i] ELSE IF i = p + 1 THEN m + 1 ELSE o[i - 1]
      BY DEF WithBehind
<1>7. /\ Len(c.keys) = l + 1
      /\ \A i \in 1..(l + 1) :
            c.keys[i] = IF i <= p THEN b.keys[i] ELSE IF i = p + 1 THEN k ELSE b.keys[i - 1]
      /\ Len(c.items) = l + 1
      /\ \A i \in 1..(l + 1) :
            c.items[i] = IF i <= p THEN b.items[i] ELSE IF i = p + 1 THEN v ELSE b.items[i - 1]
      BY <1>4, <1>5 DEF WithBehind
<1>p. p \in Nat /\ p <= l
      BY <1>3
<1> HIDE DEF l
<1>8. ASSUME NEW i \in 1..(l + 1)
      PROVE  c.keys[i] = Reference!Key(more, o2[i]) /\ c.items[i] = Reference!Mapped(more, o2[i])
      <2>1. CASE i <= p
            <3>1. i \in 1..l /\ o2[i] = o[i]
                  BY <1>3, <1>6, <1>p, <2>1
            <3>2. o[i] \in 1..m
                  BY <1>3, <3>1
            <3>3. c.keys[i] = b.keys[i] /\ c.items[i] = b.items[i]
                  BY <1>7, <2>1
            <3>4. QED BY <1>2, <1>4, <3>1, <3>2, <3>3
      <2>2. CASE i = p + 1
            <3>1. ~(i <= p)
                  BY <1>p, <2>2
            <3>2. QED BY <1>2, <1>6, <1>7, <2>2, <3>1
      <2>3. CASE i > p + 1
            <3>1. i - 1 \in 1..l /\ ~(i <= p) /\ i # p + 1
                  <4>1. l \in Nat /\ i \in Nat /\ i <= l + 1 /\ i > p + 1
                        BY <1>3, <2>3
                  <4>2. QED BY <4>1, <1>p, Behind
            <3>j. PICK j : j = i - 1
                  OBVIOUS
            <3>2. o2[i] = o[i - 1] /\ o[i - 1] \in 1..m
                  <4>1. o2[i] = o[j]
                        BY <1>6, <3>1, <3>j
                  <4>2. j \in 1..l
                        BY <3>1, <3>j
                  <4>3. o[j] \in 1..m
                        BY <1>3, <4>2
                  <4>4. QED BY <3>j, <4>1, <4>3
            <3>3. c.keys[i] = b.keys[i - 1] /\ c.items[i] = b.items[i - 1]
                  BY <1>7, <3>1
            <3>4. QED BY <1>2, <1>4, <3>1, <3>2, <3>3
      <2>4. QED BY <1>p, <2>1, <2>2, <2>3
<1>9. /\ c.keys = [i \in 1..(l + 1) |-> c.keys[i]]
      /\ c.items = [i \in 1..(l + 1) |-> c.items[i]]
      BY <1>5, <1>7, LenProperties
<1>10. /\ [i \in 1..(l + 1) |-> c.keys[i]] = [i \in 1..(l + 1) |-> Reference!Key(more, o2[i])]
       /\ [i \in 1..(l + 1) |-> c.items[i]] = [i \in 1..(l + 1) |-> Reference!Mapped(more, o2[i])]
      BY <1>8
<1>11. IsOrder(o2, more)
       BY DEF more
<1>12. /\ c.keys = [i \in 1..Len(o2) |-> Reference!Key(more, o2[i])]
       /\ c.items = [i \in 1..Len(o2) |-> Reference!Mapped(more, o2[i])]
       BY <1>6, <1>9, <1>10
<1>13. QED BY <1>11, <1>12 DEF Holds, more

\* std::map::insert where the search for the key ended makes of b what Decode makes
\* of one member more.
LEMMA MadeMore ==
    ASSUME NEW V, NEW ms \in Seq(V), NEW m \in Nat, InPairs(ms, m), NEW v \in V,
           NEW b \in Gathered(V), Made(b, ms), Reference!Ordered(Longer(ms, b.key, v)),
           NEW p \in 0..Len(b.keys), Ends(b.keys, b.key, p)
    PROVE  Made(Insert(b, p, v), Longer(ms, b.key, v))
<1>k. PICK k : k = b.key
      OBVIOUS
<1>v. k \in V /\ Reference!Ordered(Longer(ms, k, v))
      BY <1>k DEF Gathered
<1>1. PICK o : Holds(b, ms, o)
      BY DEF Made
<1>2. IsOrder(o, ms)
      BY <1>1 DEF Holds
<1>m. Len(ms) \in Nat /\ Len(ms) \div 2 = m
      <2>1. Len(ms) \div 2 = m
            BY <1>v, LongerHalves
      <2>2. QED BY <2>1, LenProperties
<1>3. Len(o) \in Nat /\ Len(o) <= m /\ \A n \in 1..Len(o) : o[n] \in 1..m
      BY <1>2, <1>m, OrderParts, LenProperties
<1>4. /\ Len(b.keys) = Len(o) /\ Len(b.items) = Len(o)
      /\ \A i \in 1..Len(o) : b.keys[i] = Reference!Key(ms, o[i])
      BY <1>1, <1>3, HoldsParts
<1>5. p \in 0..Len(o) /\ (p > 0 => p \in 1..Len(o)) /\ (p < Len(o) => p + 1 \in 1..Len(o))
      BY <1>3, <1>4
<1>6. /\ p > 0 => b.keys[p] = Reference!Key(ms, o[p])
      /\ p < Len(o) => b.keys[p + 1] = Reference!Key(ms, o[p + 1])
      BY <1>4, <1>5
<1>7. /\ p > 0 => ~Less(k, Reference!Key(ms, o[p]))
      /\ p < Len(o) => Less(k, Reference!Key(ms, o[p + 1]))
      BY <1>4, <1>6, <1>k DEF Ends
<1>8. (\E j \in 1..m : Reference!Equivalent(Reference!Key(ms, j), k)) <=>
         p > 0 /\ ~Less(Reference!Key(ms, o[p]), k)
      BY <1>2, <1>5, <1>7, <1>v, EndsTells
<1>9. CASE p = 0 \/ Less(b.keys[p], k)
      <2>1. ~\E j \in 1..m : Reference!Equivalent(Reference!Key(ms, j), k)
            BY <1>5, <1>6, <1>8, <1>9
      <2>2. Reference!Kept(Longer(ms, k, v)) =
               Reference!Kept(ms) \union
               IF \E j \in 1..m : Reference!Equivalent(Reference!Key(ms, j), k) THEN {} ELSE {m + 1}
            BY <1>v, KeptMore
      <2>3. Reference!Kept(Longer(ms, k, v)) = Reference!Kept(ms) \union {m + 1}
            BY <2>1, <2>2
      <2> DEFINE o2 == InsertAt(o, p + 1, m + 1)
      <2>4. o2 \in Seq(1..(m + 1)) /\ WithBehind(o2, o, p, m + 1)
            <3> DEFINE W == 1..(m + 1)
            <3>1. Reference!Kept(ms) \subseteq W /\ o \in Seq(Reference!Kept(ms))
                  <4>1. Reference!Kept(ms) \subseteq 1..(Len(ms) \div 2) /\ o \in Seq(Reference!Kept(ms))
                        BY <1>2, <1>m, OrderParts
                  <4>2. QED BY <1>m, <4>1
            <3>2. o \in Seq(W) /\ m + 1 \in W
                  BY <3>1, SeqMonotonic
            <3> HIDE DEF W
            <3>3. QED BY <1>5, <3>2, Inserted DEF W
      <2> HIDE DEF o2
      <2>5. /\ p > 0 => Less(Reference!Key(ms, o[p]), k)
            /\ p < Len(o) => Less(k, Reference!Key(ms, o[p + 1]))
            BY <1>5, <1>6, <1>7, <1>9
      <2>6. IsOrder(o2, Longer(ms, k, v))
            BY <1>2, <1>5, <1>v, <2>3, <2>4, <2>5, InsertedIsMade
      <2> DEFINE c == Insert(b, p, v)
      <2>7. c.keys = InsertAt(b.keys, p + 1, k) /\ c.items = InsertAt(b.items, p + 1, v)
            BY <1>9, <1>k DEF Insert, Gathered
      <2> HIDE DEF c
      <2>8. Holds(c, Longer(ms, k, v), o2)
            BY <1>1, <1>5, <1>v, <2>4, <2>6, <2>7, HoldsMore
      <2>9. QED BY <1>k, <2>8 DEF Made, c
<1>10. CASE ~(p = 0 \/ Less(b.keys[p], k))
      <2>1. \E j \in 1..m : Reference!Equivalent(Reference!Key(ms, j), k)
            BY <1>5, <1>6, <1>8, <1>10
      <2>2. Holds(b, Longer(ms, k, v), o)
            BY <1>1, <1>v, <2>1, HoldsStill
      <2>3. Insert(b, p, v) = b
            BY <1>10, <1>k DEF Insert
      <2>4. QED BY <1>k, <2>2, <2>3 DEF Made
<1>11. QED BY <1>9, <1>10
---------------------------------------------------------------------
\* The bytes.

\* It is a value, or it announces one.
IsSingle(b, v) == b # 193 /\ b \in Reference!SingleBytes /\ Reference!Single(b) = v
Heads(b, type, wide, plus) ==
    /\ b # 193 /\ b \notin Reference!SingleBytes
    /\ Reference!Announces(b) = [type |-> type, wide |-> wide, plus |-> plus]

LEMMA SinglesTell ==
    ASSUME NEW b \in Byte
    PROVE  /\ b <= 127 => IsSingle(b, Scalar("UINT8", <<b>>))
           /\ b = 192 => IsSingle(b, Nil)
           /\ b \in 194..195 => IsSingle(b, Scalar("BOOL", <<IF b = 195 THEN 1 ELSE 0>>))
           /\ b >= 224 => IsSingle(b, Scalar("INT8", <<b>>))
<1>1. b \in 0..255
      BY DEF Byte
<1>s. \A t, bytes : Reference!Scalar(t, bytes) = Scalar(t, bytes)
      BY DEF Reference!Scalar, Scalar
<1>2. b <= 127 => IsSingle(b, Scalar("UINT8", <<b>>))
      <2>1. b <= 127 => Reference!Single(b) = Reference!Scalar("UINT8", <<b>>)
            BY <1>1 DEF Reference!Single
      <2>2. b <= 127 => b \in Reference!SingleBytes /\ b # 193
            BY <1>1 DEF Reference!SingleBytes
      <2>3. QED BY <1>s, <2>1, <2>2 DEF IsSingle
<1>3. b = 192 => IsSingle(b, Nil)
      BY <1>1 DEF IsSingle, Reference!SingleBytes, Reference!Single, Reference!Nil, Nil,
         Reference!Scalar, Scalar
<1>4. b \in 194..195 => IsSingle(b, Scalar("BOOL", <<IF b = 195 THEN 1 ELSE 0>>))
      BY <1>1 DEF IsSingle, Reference!SingleBytes, Reference!Single, Reference!Scalar, Scalar
<1>5. b >= 224 => IsSingle(b, Scalar("INT8", <<b>>))
      <2>1. b >= 224 => Reference!Single(b) = Reference!Scalar("INT8", <<b>>)
            BY <1>1 DEF Reference!Single
      <2>2. b >= 224 => b \in Reference!SingleBytes /\ b # 193
            BY <1>1 DEF Reference!SingleBytes
      <2>3. QED BY <1>s, <2>1, <2>2 DEF IsSingle
<1>6. QED BY <1>2, <1>3, <1>4, <1>5

LEMMA HeadsTell ==
    ASSUME NEW b \in Byte
    PROVE  /\ b \in 128..143 => Heads(b, "OBJECT", 0, b % 16)
           /\ b \in 144..159 => Heads(b, "ARRAY", 0, b % 16)
           /\ b \in 160..191 => Heads(b, "STRING", 0, b % 32)
           /\ b = 196 => Heads(b, "BINARY", 1, 0)
           /\ b = 197 => Heads(b, "BINARY", 2, 0)
           /\ b = 198 => Heads(b, "BINARY", 4, 0)
           /\ b = 199 => Heads(b, "EXTENSION", 1, 1)
           /\ b = 200 => Heads(b, "EXTENSION", 2, 1)
           /\ b = 201 => Heads(b, "EXTENSION", 4, 1)
           /\ b = 202 => Heads(b, "FLOAT32", 0, 4)
           /\ b = 203 => Heads(b, "FLOAT64", 0, 8)
           /\ b = 204 => Heads(b, "UINT8", 0, 1)
           /\ b = 205 => Heads(b, "UINT16", 0, 2)
           /\ b = 206 => Heads(b, "UINT32", 0, 4)
           /\ b = 207 => Heads(b, "UINT64", 0, 8)
           /\ b = 208 => Heads(b, "INT8", 0, 1)
           /\ b = 209 => Heads(b, "INT16", 0, 2)
           /\ b = 210 => Heads(b, "INT32", 0, 4)
           /\ b = 211 => Heads(b, "INT64", 0, 8)
           /\ b \in 212..216 => Heads(b, "EXTENSION", 0, 1 + <<1, 2, 4, 8, 16>>[b - 211])
           /\ b = 217 => Heads(b, "STRING", 1, 0)
           /\ b = 218 => Heads(b, "STRING", 2, 0)
           /\ b = 219 => Heads(b, "STRING", 4, 0)
           /\ b = 220 => Heads(b, "ARRAY", 2, 0)
           /\ b = 221 => Heads(b, "ARRAY", 4, 0)
           /\ b = 222 => Heads(b, "OBJECT", 2, 0)
           /\ b = 223 => Heads(b, "OBJECT", 4, 0)
<1>1. b \in 0..255
      BY DEF Byte
<1>2. b \in 128..143 => Heads(b, "OBJECT", 0, b % 16)
      BY <1>1 DEF Heads, Reference!SingleBytes, Reference!Announces, Reference!Announced
<1>3. b \in 144..159 => Heads(b, "ARRAY", 0, b % 16)
      BY <1>1 DEF Heads, Reference!SingleBytes, Reference!Announces, Reference!Announced
<1>4. b \in 160..191 => Heads(b, "STRING", 0, b % 32)
      BY <1>1 DEF Heads, Reference!SingleBytes, Reference!Announces, Reference!Announced
<1>5. b = 196 => Heads(b, "BINARY", 1, 0)
      BY <1>1 DEF Heads, Reference!SingleBytes, Reference!Announces, Reference!Announced, Reference!Wide
<1>6. b = 197 => Heads(b, "BINARY", 2, 0)
      BY <1>1 DEF Heads, Reference!SingleBytes, Reference!Announces, Reference!Announced, Reference!Wide
<1>7. b = 198 => Heads(b, "BINARY", 4, 0)
      BY <1>1 DEF Heads, Reference!SingleBytes, Reference!Announces, Reference!Announced, Reference!Wide
<1>8. b = 199 => Heads(b, "EXTENSION", 1, 1)
      BY <1>1 DEF Heads, Reference!SingleBytes, Reference!Announces, Reference!Announced, Reference!Wide
<1>9. b = 200 => Heads(b, "EXTENSION", 2, 1)
      BY <1>1 DEF Heads, Reference!SingleBytes, Reference!Announces, Reference!Announced, Reference!Wide
<1>10. b = 201 => Heads(b, "EXTENSION", 4, 1)
      BY <1>1 DEF Heads, Reference!SingleBytes, Reference!Announces, Reference!Announced, Reference!Wide
<1>11. b = 202 => Heads(b, "FLOAT32", 0, 4)
      BY <1>1 DEF Heads, Reference!SingleBytes, Reference!Announces, Reference!Announced, Reference!Sized
<1>12. b = 203 => Heads(b, "FLOAT64", 0, 8)
      BY <1>1 DEF Heads, Reference!SingleBytes, Reference!Announces, Reference!Announced, Reference!Sized
<1>13. b = 204 => Heads(b, "UINT8", 0, 1)
      BY <1>1 DEF Heads, Reference!SingleBytes, Reference!Announces, Reference!Announced, Reference!Sized
<1>14. b = 205 => Heads(b, "UINT16", 0, 2)
      BY <1>1 DEF Heads, Reference!SingleBytes, Reference!Announces, Reference!Announced, Reference!Sized
<1>15. b = 206 => Heads(b, "UINT32", 0, 4)
      BY <1>1 DEF Heads, Reference!SingleBytes, Reference!Announces, Reference!Announced, Reference!Sized
<1>16. b = 207 => Heads(b, "UINT64", 0, 8)
      BY <1>1 DEF Heads, Reference!SingleBytes, Reference!Announces, Reference!Announced, Reference!Sized
<1>17. b = 208 => Heads(b, "INT8", 0, 1)
      BY <1>1 DEF Heads, Reference!SingleBytes, Reference!Announces, Reference!Announced, Reference!Sized
<1>18. b = 209 => Heads(b, "INT16", 0, 2)
      BY <1>1 DEF Heads, Reference!SingleBytes, Reference!Announces, Reference!Announced, Reference!Sized
<1>19. b = 210 => Heads(b, "INT32", 0, 4)
      BY <1>1 DEF Heads, Reference!SingleBytes, Reference!Announces, Reference!Announced, Reference!Sized
<1>20. b = 211 => Heads(b, "INT64", 0, 8)
      BY <1>1 DEF Heads, Reference!SingleBytes, Reference!Announces, Reference!Announced, Reference!Sized
<1>21. b \in 212..216 => Heads(b, "EXTENSION", 0, 1 + <<1, 2, 4, 8, 16>>[b - 211])
      BY <1>1 DEF Heads, Reference!SingleBytes, Reference!Announces, Reference!Announced, Reference!Sized
<1>22. b = 217 => Heads(b, "STRING", 1, 0)
      BY <1>1 DEF Heads, Reference!SingleBytes, Reference!Announces, Reference!Announced, Reference!Wide
<1>23. b = 218 => Heads(b, "STRING", 2, 0)
      BY <1>1 DEF Heads, Reference!SingleBytes, Reference!Announces, Reference!Announced, Reference!Wide
<1>24. b = 219 => Heads(b, "STRING", 4, 0)
      BY <1>1 DEF Heads, Reference!SingleBytes, Reference!Announces, Reference!Announced, Reference!Wide
<1>25. b = 220 => Heads(b, "ARRAY", 2, 0)
      BY <1>1 DEF Heads, Reference!SingleBytes, Reference!Announces, Reference!Announced, Reference!Wide
<1>26. b = 221 => Heads(b, "ARRAY", 4, 0)
      BY <1>1 DEF Heads, Reference!SingleBytes, Reference!Announces, Reference!Announced, Reference!Wide
<1>27. b = 222 => Heads(b, "OBJECT", 2, 0)
      BY <1>1 DEF Heads, Reference!SingleBytes, Reference!Announces, Reference!Announced, Reference!Wide
<1>28. b = 223 => Heads(b, "OBJECT", 4, 0)
      BY <1>1 DEF Heads, Reference!SingleBytes, Reference!Announces, Reference!Announced, Reference!Wide
<1>29. QED BY <1>2, <1>3, <1>4, <1>5, <1>6, <1>7, <1>8, <1>9, <1>10, <1>11, <1>12, <1>13,
          <1>14, <1>15, <1>16, <1>17, <1>18, <1>19, <1>20, <1>21, <1>22, <1>23, <1>24,
          <1>25, <1>26, <1>27, <1>28

\* n bytes behind p.
LEMMA SliceSeq ==
    ASSUME NEW in \in Seq(Byte), NEW p \in 0..Len(in), NEW n \in Nat, Reference!Has(in, p, n)
    PROVE  /\ Reference!Slice(in, p, n) \in Seq(Byte)
           /\ Len(Reference!Slice(in, p, n)) = n
           /\ Reference!Slice(in, p, n) = [i \in 1..n |-> in[p + i]]
<1>1. Len(in) \in Nat /\ p \in Nat /\ p + n <= Len(in)
      BY LenProperties DEF Reference!Has
<1>2. \A i \in (p + 1)..(p + n) : in[i] \in Byte
      <2> TAKE i \in (p + 1)..(p + n)
      <2>1. i \in 1..Len(in)
            BY <1>1
      <2>2. QED BY <2>1, ElementOfSeq
<1> DEFINE t == SubSeq(in, p + 1, p + n)
<1>3. /\ t \in Seq(Byte)
      /\ Len(t) = IF p + 1 <= p + n THEN (p + n) - (p + 1) + 1 ELSE 0
      /\ \A i \in 1..((p + n) - (p + 1) + 1) : t[i] = in[(p + 1) + i - 1]
      <2> DEFINE l == p + 1
                 r == p + n
      <2>1. l \in Int /\ r \in Int /\ \A i \in l..r : in[i] \in Byte
            BY <1>1, <1>2
      <2> HIDE DEF l, r
      <2>2. /\ SubSeq(in, l, r) \in Seq(Byte)
            /\ Len(SubSeq(in, l, r)) = IF l <= r THEN r - l + 1 ELSE 0
            /\ \A i \in 1..(r - l + 1) : SubSeq(in, l, r)[i] = in[l + i - 1]
            BY <2>1, SubSeqProperties
      <2>3. QED BY <2>2 DEF l, r
<1> HIDE DEF t
<1>4. Len(t) = n /\ \A i \in 1..n : t[i] = in[p + i]
      BY <1>1, <1>3
<1>5. t = [i \in 1..Len(t) |-> t[i]]
      BY <1>3, LenProperties
<1>6. t = [i \in 1..n |-> in[p + i]]
      BY <1>4, <1>5
<1>7. QED BY <1>3, <1>4, <1>6 DEF t, Reference!Slice

\* What a first byte that is no value announces is a size: no length, or one of 1, 2
\* or 4 bytes.
LEMMA HeadIsNat ==
    ASSUME NEW b \in Byte, b # 193, b \notin Reference!SingleBytes
    PROVE  \E type : \E wide \in {0, 1, 2, 4} : \E plus \in Nat : Heads(b, type, wide, plus)
<1>1. b \in 0..255 /\ ~(b \in 0..127) /\ b \notin {192, 193, 194, 195} /\ ~(b \in 224..255)
      BY DEF Byte, Reference!SingleBytes
<1>2. b % 16 \in Nat /\ b % 32 \in Nat
      BY <1>1
<1>3. CASE b \in 128..191
      BY <1>1, <1>2, <1>3, HeadsTell
<1>4. CASE b \in 196..201
      BY <1>1, <1>4, HeadsTell
<1>5. CASE b \in 202..211
      <2>1. \/ b = 202 \/ b = 203 \/ b = 204 \/ b = 205 \/ b = 206
            \/ b = 207 \/ b = 208 \/ b = 209 \/ b = 210 \/ b = 211
            BY <1>1, <1>5
      <2>2. \E type : \E plus \in Nat : Heads(b, type, 0, plus)
            BY <2>1, HeadsTell
      <2>3. QED BY <2>2
<1>6. CASE b \in 212..216
      <2>1. 1 + <<1, 2, 4, 8, 16>>[b - 211] \in Nat
            BY <1>6
      <2>2. QED BY <1>1, <1>6, <2>1, HeadsTell
<1>7. CASE b \in 217..223
      BY <1>1, <1>7, HeadsTell
<1>8. QED BY <1>1, <1>3, <1>4, <1>5, <1>6, <1>7

Joined(i, j, k, l) == i * 16777216 + j * 65536 + k * 256 + l

LEMMA JoinedIsNat == \A i, j, k, l \in Nat : Joined(i, j, k, l) \in Nat
BY SMT DEF Joined

LEMMA CountIsNat ==
    ASSUME NEW in \in Seq(Byte), NEW p \in 0..Len(in), NEW type, NEW wide \in {0, 1, 2, 4},
           NEW plus \in Nat, Reference!Has(in, p, wide)
    PROVE  Reference!Count(in, p, [type |-> type, wide |-> wide, plus |-> plus]) \in Nat
<1>b. \A byte \in Byte : byte \in Nat
      BY DEF Byte
<1> DEFINE t == Reference!Slice(in, p, wide)
<1>1. t \in Seq(Byte) /\ Len(t) = wide
      BY SliceSeq
<1> HIDE DEF t
<1>2. \A i \in 1..wide : t[i] \in Nat
      <2>1. \A i \in 1..Len(t) : t[i] \in Byte
            BY <1>1, ElementOfSeq
      <2>2. ASSUME NEW i \in 1..wide PROVE t[i] \in Nat
            <3>1. i \in 1..Len(t)
                  BY <1>1
            <3>2. t[i] \in Byte
                  BY <2>1, <3>1
            <3>3. QED BY <1>b, <3>2
      <2>3. QED BY <2>2
<1>3. wide # 0 => Reference!BigEndian(t) \in Nat
      <2>1. CASE wide = 1
            <3>1. t[1] \in Nat
                  BY <1>2, <2>1
            <3>2. QED BY <1>1, <2>1, <3>1, SMT DEF Reference!BigEndian
      <2>2. CASE wide = 2
            <3>1. t[1] \in Nat /\ t[2] \in Nat
                  BY <1>2, <2>2
            <3>2. QED BY <1>1, <2>2, <3>1, SMT DEF Reference!BigEndian
      <2>3. CASE wide = 4
            <3>1. t[1] \in Nat /\ t[2] \in Nat /\ t[3] \in Nat /\ t[4] \in Nat
                  BY <1>2, <2>3
            <3>2. Joined(t[1], t[2], t[3], t[4]) \in Nat
                  BY <3>1, JoinedIsNat
            <3>3. Reference!BigEndian(t) = Joined(t[1], t[2], t[3], t[4])
                  <4>1. Len(t) = 4
                        BY <1>1, <2>3
                  <4>2. QED BY <4>1, SMT DEF Reference!BigEndian, Joined
            <3>4. QED BY <3>2, <3>3
      <2>4. QED BY <2>1, <2>2, <2>3
<1>4. QED BY <1>3 DEF t, Reference!Count

---------------------------------------------------------------------
\* Values are read forwards, within the input.

Outcome(in, p, o) ==
    /\ o.kind \in {"value", "truncated", "malformed"}
    /\ o.next \in p..Len(in)
    /\ o.kind = "truncated" => o = Reference!Truncated(in)

AllOutcomes(in, V) == \A p \in 0..Len(in) : Outcome(in, p, V[p])

LEMMA ValuesStart ==
    ASSUME NEW V, NEW p
    PROVE  Reference!Values(V, p, 0) = Reference!Got(<<>>, p)
<1> DEFINE x == [value |-> V, from |-> p]
<1>1. Reference!Turns!Iterate(x)[0] = Reference!Nothing(x)
      BY Reference!Turns!Unfolds
<1>2. QED BY <1>1 DEF Reference!Values, Reference!Nothing

LEMMA ValuesMore ==
    ASSUME NEW V, NEW p, NEW n \in Nat, NEW before, before = Reference!Values(V, p, n),
           NEW one, one = V[before.next]
    PROVE  Reference!Values(V, p, n + 1) =
              IF before.kind # "value" THEN before
              ELSE IF one.kind = "value"
                   THEN Reference!Got(Append(before.value, one.value), one.next) ELSE one
<1> DEFINE x == [value |-> V, from |-> p]
<1>1. Reference!Turns!Iterate(x)[n + 1] = Reference!OneMore(x, Reference!Turns!Iterate(x)[n])
      BY Reference!Turns!Unfolds
<1>2. Reference!Values(V, p, n + 1) = Reference!OneMore(x, before)
      BY <1>1 DEF Reference!Values
<1>3. x.value = V
      OBVIOUS
<1> HIDE DEF x
<1>4. QED BY <1>2, <1>3 DEF Reference!OneMore

LEMMA ValuesForward ==
    ASSUME NEW in \in Seq(Byte), NEW V, AllOutcomes(in, V), NEW p \in 0..Len(in)
    PROVE  \A n \in Nat : Outcome(in, p, Reference!Values(V, p, n))
<1> DEFINE P(n) == Outcome(in, p, Reference!Values(V, p, n))
           S == {n \in Nat : P(n)}
<1>1. Len(in) \in Nat
      BY LenProperties
<1>2. P(0)
      <2>1. Reference!Values(V, p, 0).kind = "value" /\ Reference!Values(V, p, 0).next = p
            BY ValuesStart DEF Reference!Got
      <2>2. QED BY <1>1, <2>1 DEF Outcome
<1>3. ASSUME NEW n \in Nat, P(n) PROVE P(n + 1)
      <2>1. PICK before : before = Reference!Values(V, p, n)
            OBVIOUS
      <2>2. PICK one : one = V[before.next]
            OBVIOUS
      <2>3. PICK after : after = Reference!Values(V, p, n + 1)
            OBVIOUS
      <2>4. after = IF before.kind # "value" THEN before
                    ELSE IF one.kind = "value"
                         THEN Reference!Got(Append(before.value, one.value), one.next) ELSE one
            BY <2>1, <2>2, <2>3, ValuesMore
      <2>5. Outcome(in, p, before)
            BY <1>3, <2>1
      <2>6. before.next \in 0..Len(in) /\ before.next >= p
            BY <1>1, <2>5 DEF Outcome
      <2>7. Outcome(in, before.next, one)
            BY <2>2, <2>6 DEF AllOutcomes
      <2>8. one.kind \in {"value", "truncated", "malformed"} /\ one.next \in p..Len(in)
            BY <1>1, <2>6, <2>7 DEF Outcome
      <2>t. one.kind = "truncated" => one = Reference!Truncated(in)
            BY <2>7 DEF Outcome
      <2>9. CASE before.kind # "value"
            BY <2>3, <2>4, <2>5, <2>9
      <2>10. CASE before.kind = "value" /\ one.kind # "value"
            BY <2>3, <2>4, <2>8, <2>t, <2>10 DEF Outcome
      <2>11. CASE before.kind = "value" /\ one.kind = "value"
            <3>1. after.kind = "value" /\ after.next = one.next
                  BY <2>4, <2>11 DEF Reference!Got
            <3>2. QED BY <2>3, <2>8, <3>1 DEF Outcome
      <2>12. QED BY <2>9, <2>10, <2>11
<1> HIDE DEF P
<1>4. 0 \in S /\ \A n \in Nat : n \in S => n + 1 \in S
      BY <1>2, <1>3
<1> HIDE DEF S
<1>5. Nat \subseteq S
      BY <1>4, Reference!Turns!Induction
<1>6. QED BY <1>5 DEF S, P

LEMMA ContentForward ==
    ASSUME NEW in \in Seq(Byte), NEW V, AllOutcomes(in, V), NEW p \in 0..Len(in),
           NEW n \in Nat, NEW type
    PROVE  Outcome(in, p, Reference!Content(in, p, n, type, V))
<1>1. Len(in) \in Nat
      BY LenProperties
<1>2. \A all : Outcome(in, p, all) => Outcome(in, p, Reference!Whole(type, all))
      BY DEF Reference!Whole, Reference!Got, Outcome
<1>3. CASE type = "ARRAY"
      BY <1>2, <1>3, ValuesForward DEF Reference!Content
<1>4. CASE type = "OBJECT"
      <2>1. PICK m : m = 2 * n
            OBVIOUS
      <2>2. m \in Nat
            BY <2>1
      <2>3. Outcome(in, p, Reference!Values(V, p, m))
            BY <2>2, ValuesForward
      <2>4. QED BY <1>2, <1>4, <2>1, <2>3 DEF Reference!Content
<1>5. CASE type \notin {"ARRAY", "OBJECT"} /\ Reference!Has(in, p, n)
      <2>1. p + n \in p..Len(in)
            BY <1>1, <1>5 DEF Reference!Has
      <2>2. QED BY <1>5, <2>1 DEF Reference!Content, Reference!Got, Outcome
<1>6. CASE type \notin {"ARRAY", "OBJECT"} /\ ~Reference!Has(in, p, n)
      BY <1>1, <1>6 DEF Reference!Content, Reference!Truncated, Outcome
<1>7. QED BY <1>3, <1>4, <1>5, <1>6

\* A value takes a byte at least.
LEMMA AtForward ==
    ASSUME NEW in \in Seq(Byte), NEW V, AllOutcomes(in, V), NEW p \in 0..Len(in)
    PROVE  /\ Outcome(in, p, Reference!At(in, p, V))
           /\ Reference!At(in, p, V).kind # "truncated" => Reference!At(in, p, V).next > p
<1>1. Len(in) \in Nat
      BY LenProperties
<1>2. PICK o : o = Reference!At(in, p, V)
      OBVIOUS
<1>3. SUFFICES /\ o.kind \in {"value", "truncated", "malformed"} /\ o.next \in p..Len(in)
               /\ o.kind # "truncated" => o.next > p
               /\ o.kind = "truncated" => o = Reference!Truncated(in)
      BY <1>2 DEF Outcome
<1>4. CASE p = Len(in)
      <2>1. o = Reference!Truncated(in)
            BY <1>1, <1>2, <1>4 DEF Reference!At
      <2>2. QED BY <1>1, <2>1 DEF Reference!Truncated
<1>5. CASE p < Len(in) /\ (in[p + 1] = 193 \/ in[p + 1] \in Reference!SingleBytes)
      <2>1. p + 1 \in 1..Len(in) /\ ~(p >= Len(in))
            BY <1>1, <1>5
      <2>2. o = Reference!Malformed(p + 1) \/ o = Reference!Got(Reference!Single(in[p + 1]), p + 1)
            BY <1>2, <1>5, <2>1 DEF Reference!At
      <2>3. o.kind \in {"malformed", "value"} /\ o.next = p + 1
            BY <2>2 DEF Reference!Malformed, Reference!Got
      <2>4. QED BY <1>1, <2>1, <2>3
<1>6. CASE p < Len(in) /\ in[p + 1] # 193 /\ in[p + 1] \notin Reference!SingleBytes
      <2>1. in[p + 1] \in Byte /\ ~(p >= Len(in)) /\ p + 1 \in 0..Len(in)
            BY <1>1, <1>6, ElementOfSeq
      <2>b. PICK b : b = in[p + 1]
            OBVIOUS
      <2>a. \E type : \E wide \in {0, 1, 2, 4} : \E plus \in Nat : Heads(b, type, wide, plus)
            BY <1>6, <2>1, <2>b, HeadIsNat
      <2>t. PICK type : \E wide \in {0, 1, 2, 4} : \E plus \in Nat : Heads(b, type, wide, plus)
            BY <2>a
      <2>2. PICK wide \in {0, 1, 2, 4}, plus \in Nat : Heads(in[p + 1], type, wide, plus)
            BY <2>b, <2>t
      <2>3. PICK h : h = [type |-> type, wide |-> wide, plus |-> plus]
            OBVIOUS
      <2>4. h = Reference!Announces(in[p + 1]) /\ h.wide = wide /\ h.type = type
            BY <2>2, <2>3 DEF Heads
      <2>5. o = IF ~Reference!Has(in, p + 1, wide) THEN Reference!Truncated(in)
                ELSE Reference!Content(in, p + 1 + wide, Reference!Count(in, p + 1, h), type, V)
            BY <1>2, <1>6, <2>1, <2>4 DEF Reference!At
      <2>6. CASE ~Reference!Has(in, p + 1, wide)
            BY <1>1, <2>5, <2>6 DEF Reference!Truncated
      <2>7. CASE Reference!Has(in, p + 1, wide)
            <3>1. PICK q : q = p + 1 + wide
                  OBVIOUS
            <3>2. PICK n : n = Reference!Count(in, p + 1, h)
                  OBVIOUS
            <3>3. PICK r : r = p + 1
                  OBVIOUS
            <3>4. q \in 0..Len(in) /\ q > p
                  BY <1>1, <2>7, <3>1 DEF Reference!Has
            <3>5. n \in Nat
                  <4>1. r \in 0..Len(in) /\ Reference!Has(in, r, wide)
                        BY <2>1, <2>7, <3>3
                  <4>2. Reference!Count(in, r, [type |-> type, wide |-> wide, plus |-> plus]) \in Nat
                        BY <4>1, CountIsNat
                  <4>3. QED BY <2>3, <3>2, <3>3, <4>2
            <3>6. Outcome(in, q, Reference!Content(in, q, n, type, V))
                  BY <3>4, <3>5, ContentForward
            <3>7. Outcome(in, q, o)
                  BY <2>5, <2>7, <3>1, <3>2, <3>6
            <3>8. QED BY <1>1, <3>4, <3>7 DEF Outcome
      <2>8. QED BY <2>6, <2>7
<1>7. QED BY <1>1, <1>4, <1>5, <1>6

LEMMA TableForward ==
    ASSUME NEW in \in Seq(Byte)
    PROVE  \A d \in 0..(MaxDepth + 1) : AllOutcomes(in, Table(in, d))
<1> DEFINE P(n) == n <= MaxDepth + 1 => AllOutcomes(in, Table(in, (MaxDepth + 1) - n))
           S == {n \in Nat : P(n)}
<1>1. MaxDepth \in Nat /\ Len(in) \in Nat
      BY LenProperties, MaxDepthAssumption
<1>2. P(0)
      <2>1. PICK d : d = MaxDepth + 1
            OBVIOUS
      <2>2. \A p \in 0..Len(in) : Table(in, d)[p] = Reference!Malformed(p)
            BY <2>1, TableInnermost
      <2>3. AllOutcomes(in, Table(in, d))
            <3>1. SUFFICES ASSUME NEW p \in 0..Len(in) PROVE Outcome(in, p, Table(in, d)[p])
                  BY DEF AllOutcomes
            <3>o. PICK o : o = Table(in, d)[p]
                  OBVIOUS
            <3>m. o = Reference!Malformed(p)
                  BY <2>2, <3>o
            <3>2. o.kind = "malformed" /\ o.next = p
                  BY <3>m DEF Reference!Malformed
            <3>3. QED BY <1>1, <3>o, <3>2 DEF Outcome
      <2>4. (MaxDepth + 1) - 0 = d
            BY <1>1, <2>1
      <2>5. QED BY <2>3, <2>4
<1>3. ASSUME NEW n \in Nat, P(n) PROVE P(n + 1)
      <2>1. SUFFICES ASSUME n + 1 <= MaxDepth + 1
                     PROVE  AllOutcomes(in, Table(in, (MaxDepth + 1) - (n + 1)))
            OBVIOUS
      <2>2. PICK d : d = (MaxDepth + 1) - (n + 1)
            OBVIOUS
      <2>3. PICK e : e = d + 1
            OBVIOUS
      <2>4. d \in 0..MaxDepth /\ e = (MaxDepth + 1) - n /\ n <= MaxDepth + 1
            BY <1>1, <2>1, <2>2, <2>3
      <2>5. AllOutcomes(in, Table(in, e))
            BY <1>3, <2>4
      <2>6. \A p \in 0..Len(in) : Table(in, d)[p] = Reference!At(in, p, Table(in, e))
            BY <2>3, <2>4, TableAround
      <2>7. \A p \in 0..Len(in) : Outcome(in, p, Reference!At(in, p, Table(in, e)))
            BY <2>5, AtForward
      <2>8. AllOutcomes(in, Table(in, d))
            BY <2>6, <2>7 DEF AllOutcomes
      <2>9. QED BY <2>2, <2>8
<1> HIDE DEF P
<1>4. 0 \in S /\ \A n \in Nat : n \in S => n + 1 \in S
      BY <1>2, <1>3
<1> HIDE DEF S
<1>5. Nat \subseteq S
      BY <1>4, Reference!Turns!Induction
<1>6. ASSUME NEW d \in 0..(MaxDepth + 1) PROVE AllOutcomes(in, Table(in, d))
      <2>1. PICK n : n = (MaxDepth + 1) - d
            OBVIOUS
      <2>2. n \in Nat /\ n <= MaxDepth + 1 /\ (MaxDepth + 1) - n = d
            BY <1>1, <2>1
      <2>3. P(n)
            BY <1>5, <2>2 DEF S
      <2>4. QED BY <2>2, <2>3 DEF P
<1>7. QED BY <1>6

---------------------------------------------------------------------
\* A value is the same wherever its bytes stand, and whatever follows them.

\* The bytes of a stand in b, behind s others.
Stands(a, b, s) ==
    /\ a \in Seq(Byte) /\ b \in Seq(Byte) /\ s \in Nat /\ s + Len(a) <= Len(b)
    /\ \A i \in 1..Len(a) : b[s + i] = a[i]

\* What is read in a is read in b; where a ends too early, b may go on.
Agree(a, s, o1, o2) ==
    IF o1.kind = "truncated" THEN o2.kind = "truncated" \/ o2.next > s + Len(a)
    ELSE o2.kind = o1.kind /\ o2.value = o1.value /\ o2.next = s + o1.next

AllAgree(a, s, V1, V2) == \A p \in 0..Len(a) : Agree(a, s, V1[p], V2[s + p])

LEMMA ValuesAgree ==
    ASSUME NEW a, NEW b, NEW s, Stands(a, b, s),
           NEW V1, NEW V2, AllOutcomes(a, V1), AllOutcomes(b, V2), AllAgree(a, s, V1, V2),
           NEW p \in 0..Len(a), NEW q, q = s + p
    PROVE  \A n \in Nat : Agree(a, s, Reference!Values(V1, p, n), Reference!Values(V2, q, n))
<1> DEFINE P(n) == Agree(a, s, Reference!Values(V1, p, n), Reference!Values(V2, q, n))
           S == {n \in Nat : P(n)}
<1>1. /\ a \in Seq(Byte) /\ b \in Seq(Byte) /\ s \in Nat /\ Len(a) \in Nat /\ Len(b) \in Nat
      /\ s + Len(a) <= Len(b) /\ q \in 0..Len(b)
      BY LenProperties DEF Stands
<1>2. P(0)
      <2>1. /\ Reference!Values(V1, p, 0) = Reference!Got(<<>>, p)
            /\ Reference!Values(V2, q, 0) = Reference!Got(<<>>, q)
            BY ValuesStart
      <2>2. QED BY <2>1 DEF Agree, Reference!Got
<1>3. ASSUME NEW n \in Nat, P(n) PROVE P(n + 1)
      <2>1. PICK o1 : o1 = Reference!Values(V1, p, n)
            OBVIOUS
      <2>2. PICK o2 : o2 = Reference!Values(V2, q, n)
            OBVIOUS
      <2>3. PICK x1 : x1 = V1[o1.next]
            OBVIOUS
      <2>4. PICK x2 : x2 = V2[o2.next]
            OBVIOUS
      <2>5. PICK r1 : r1 = Reference!Values(V1, p, n + 1)
            OBVIOUS
      <2>6. PICK r2 : r2 = Reference!Values(V2, q, n + 1)
            OBVIOUS
      <2>7. r1 = IF o1.kind # "value" THEN o1
                 ELSE IF x1.kind = "value" THEN Reference!Got(Append(o1.value, x1.value), x1.next)
                      ELSE x1
            BY <2>1, <2>3, <2>5, ValuesMore
      <2>8. r2 = IF o2.kind # "value" THEN o2
                 ELSE IF x2.kind = "value" THEN Reference!Got(Append(o2.value, x2.value), x2.next)
                      ELSE x2
            BY <2>2, <2>4, <2>6, ValuesMore
      <2>9. Agree(a, s, o1, o2)
            BY <1>3, <2>1, <2>2
      <2>10. Outcome(a, p, o1) /\ Outcome(b, q, o2)
            BY <1>1, <2>1, <2>2, ValuesForward
      <2>11. SUFFICES Agree(a, s, r1, r2)
            BY <2>5, <2>6
      <2>12. /\ o1.next \in 0..Len(a) /\ o2.next \in 0..Len(b)
             /\ o1.kind \in {"value", "truncated", "malformed"}
            BY <1>1, <2>10 DEF Outcome
      <2>13. Outcome(b, o2.next, x2)
            BY <2>4, <2>12 DEF AllOutcomes
      <2>14. CASE o1.kind = "truncated"
            <3>1. r1 = o1
                  BY <2>7, <2>14
            <3>2. CASE o2.kind = "truncated"
                  BY <2>8, <2>14, <3>1, <3>2 DEF Agree
            <3>3. CASE o2.next > s + Len(a)
                  <4>1. x2.next \in Nat /\ x2.next >= o2.next
                        BY <1>1, <2>12, <2>13 DEF Outcome
                  <4>2. r2.next = o2.next \/ r2.next = x2.next
                        BY <2>8 DEF Reference!Got
                  <4>3. r2.next > s + Len(a)
                        BY <1>1, <2>12, <3>3, <4>1, <4>2
                  <4>4. QED BY <2>14, <3>1, <4>3 DEF Agree
            <3>4. QED BY <2>9, <2>14, <3>2, <3>3 DEF Agree
      <2>15. CASE o1.kind = "malformed"
            BY <2>7, <2>8, <2>9, <2>15 DEF Agree
      <2>16. CASE o1.kind = "value"
            <3>1. o2.kind = "value" /\ o2.value = o1.value /\ o2.next = s + o1.next
                  BY <2>9, <2>16 DEF Agree
            <3>2. Agree(a, s, x1, x2)
                  BY <2>3, <2>4, <2>12, <3>1 DEF AllAgree
            <3>3. CASE x1.kind = "value"
                  <4>1. x2.kind = "value" /\ x2.value = x1.value /\ x2.next = s + x1.next
                        BY <3>2, <3>3 DEF Agree
                  <4>2. /\ r1 = Reference!Got(Append(o1.value, x1.value), x1.next)
                        /\ r2 = Reference!Got(Append(o1.value, x1.value), s + x1.next)
                        BY <2>7, <2>8, <2>16, <3>1, <3>3, <4>1
                  <4>3. QED BY <4>2 DEF Agree, Reference!Got
            <3>4. CASE x1.kind # "value" /\ x1.kind # "truncated"
                  <4>1. x2.kind # "value" /\ r1 = x1
                        BY <2>7, <2>16, <3>2, <3>4 DEF Agree
                  <4>2. r2 = x2
                        BY <2>8, <3>1, <4>1
                  <4>3. QED BY <3>2, <4>1, <4>2
            <3>5. CASE x1.kind = "truncated"
                  <4>1. r1 = x1
                        BY <2>7, <2>16, <3>5
                  <4>2. CASE x2.kind = "truncated"
                        BY <2>8, <3>1, <3>5, <4>1, <4>2 DEF Agree
                  <4>3. CASE x2.next > s + Len(a)
                        <5>1. r2.next = x2.next
                              BY <2>8, <3>1 DEF Reference!Got
                        <5>2. QED BY <3>5, <4>1, <4>3, <5>1 DEF Agree
                  <4>4. QED BY <3>2, <3>5, <4>2, <4>3 DEF Agree
            <3>6. QED BY <3>3, <3>4, <3>5
      <2>17. QED BY <2>12, <2>14, <2>15, <2>16
<1> HIDE DEF P
<1>4. 0 \in S /\ \A n \in Nat : n \in S => n + 1 \in S
      BY <1>2, <1>3
<1> HIDE DEF S
<1>5. Nat \subseteq S
      BY <1>4, Reference!Turns!Induction
<1>6. QED BY <1>5 DEF S, P

LEMMA SlicesAgree ==
    ASSUME NEW a, NEW b, NEW s, Stands(a, b, s), NEW p \in 0..Len(a), NEW q, q = s + p,
           NEW n \in Nat, Reference!Has(a, p, n)
    PROVE  Reference!Has(b, q, n) /\ Reference!Slice(b, q, n) = Reference!Slice(a, p, n)
<1>1. /\ a \in Seq(Byte) /\ b \in Seq(Byte) /\ s \in Nat /\ Len(a) \in Nat /\ Len(b) \in Nat
      /\ s + Len(a) <= Len(b) /\ q \in 0..Len(b)
      BY LenProperties DEF Stands
<1>2. Reference!Has(b, q, n)
      <2>1. PICK m \in Nat : m = Len(a)
            BY <1>1
      <2>2. PICK k \in Nat : k = Len(b)
            BY <1>1
      <2>3. n <= m - p /\ s + m <= k /\ p \in Nat
            BY <1>1, <2>1, <2>2 DEF Reference!Has
      <2>4. n <= k - (s + p)
            BY <1>1, <2>3
      <2>5. QED BY <2>2, <2>4 DEF Reference!Has
<1>3. /\ Reference!Slice(a, p, n) = [i \in 1..n |-> a[p + i]]
      /\ Reference!Slice(b, q, n) = [i \in 1..n |-> b[q + i]]
      <2>1. Reference!Slice(a, p, n) = [i \in 1..n |-> a[p + i]]
            BY <1>1, SliceSeq
      <2>2. PICK r : r = q
            OBVIOUS
      <2>3. r \in 0..Len(b) /\ Reference!Has(b, r, n)
            BY <1>1, <1>2, <2>2
      <2>4. Reference!Slice(b, r, n) = [i \in 1..n |-> b[r + i]]
            BY <1>1, <2>3, SliceSeq
      <2>5. QED BY <2>1, <2>2, <2>4
<1>4. ASSUME NEW i \in 1..n PROVE b[q + i] = a[p + i]
      <2>1. p + i \in 1..Len(a) /\ q + i = s + (p + i)
            BY <1>1 DEF Reference!Has
      <2>2. QED BY <2>1 DEF Stands
<1>5. QED BY <1>2, <1>3, <1>4

LEMMA ContentAgree ==
    ASSUME NEW a, NEW b, NEW s, Stands(a, b, s),
           NEW V1, NEW V2, AllOutcomes(a, V1), AllOutcomes(b, V2), AllAgree(a, s, V1, V2),
           NEW p \in 0..Len(a), NEW q, q = s + p, NEW n \in Nat, NEW type
    PROVE  Agree(a, s, Reference!Content(a, p, n, type, V1), Reference!Content(b, q, n, type, V2))
<1>1. /\ a \in Seq(Byte) /\ b \in Seq(Byte) /\ s \in Nat /\ Len(a) \in Nat /\ Len(b) \in Nat
      /\ s + Len(a) <= Len(b) /\ q \in 0..Len(b)
      BY LenProperties DEF Stands
<1>2. ASSUME NEW o1, NEW o2, Agree(a, s, o1, o2)
      PROVE  Agree(a, s, Reference!Whole(type, o1), Reference!Whole(type, o2))
      <2>1. CASE o1.kind = "value"
            <3>1. o2.kind = "value" /\ o2.value = o1.value /\ o2.next = s + o1.next
                  BY <1>2, <2>1 DEF Agree
            <3>2. /\ Reference!Whole(type, o1) = Reference!Got(Reference!Make(type, o1.value), o1.next)
                  /\ Reference!Whole(type, o2) =
                        Reference!Got(Reference!Make(type, o1.value), s + o1.next)
                  BY <2>1, <3>1 DEF Reference!Whole
            <3>3. QED BY <3>2 DEF Agree, Reference!Got
      <2>2. CASE o1.kind # "value" /\ o1.kind # "truncated"
            <3>1. o2.kind # "value"
                  BY <1>2, <2>2 DEF Agree
            <3>2. QED BY <1>2, <2>2, <3>1 DEF Reference!Whole
      <2>3. CASE o1.kind = "truncated"
            <3>1. Reference!Whole(type, o1) = o1
                  BY <2>3 DEF Reference!Whole
            <3>2. \/ Reference!Whole(type, o2) = o2
                  \/ Reference!Whole(type, o2) = Reference!Got(Reference!Make(type, o2.value), o2.next)
                     /\ o2.kind = "value"
                  BY DEF Reference!Whole
            <3>3. CASE Reference!Whole(type, o2) = o2
                  BY <1>2, <3>1, <3>3
            <3>4. CASE Reference!Whole(type, o2) = Reference!Got(Reference!Make(type, o2.value), o2.next)
                       /\ o2.kind = "value"
                  BY <1>2, <2>3, <3>1, <3>4 DEF Agree, Reference!Got
            <3>5. QED BY <3>2, <3>3, <3>4
      <2>4. QED BY <2>1, <2>2, <2>3
<1>3. CASE type = "ARRAY"
      <2>1. Agree(a, s, Reference!Values(V1, p, n), Reference!Values(V2, q, n))
            BY ValuesAgree
      <2>2. QED BY <1>2, <1>3, <2>1 DEF Reference!Content
<1>4. CASE type = "OBJECT"
      <2>1. PICK m : m = 2 * n
            OBVIOUS
      <2>2. m \in Nat
            BY <2>1
      <2>3. Agree(a, s, Reference!Values(V1, p, m), Reference!Values(V2, q, m))
            BY <2>2, ValuesAgree
      <2>4. QED BY <1>2, <1>4, <2>1, <2>3 DEF Reference!Content
<1>5. CASE type \notin {"ARRAY", "OBJECT"} /\ Reference!Has(a, p, n)
      <2>1. Reference!Has(b, q, n) /\ Reference!Slice(b, q, n) = Reference!Slice(a, p, n)
            BY <1>5, SlicesAgree
      <2>2. PICK v : v = Reference!Scalar(type, Reference!Slice(a, p, n))
            OBVIOUS
      <2>3. /\ Reference!Content(a, p, n, type, V1) = Reference!Got(v, p + n)
            /\ Reference!Content(b, q, n, type, V2) = Reference!Got(v, q + n)
            BY <1>5, <2>1, <2>2 DEF Reference!Content
      <2>4. q + n = s + (p + n)
            BY <1>1
      <2>5. QED BY <2>3, <2>4 DEF Agree, Reference!Got
<1>6. CASE type \notin {"ARRAY", "OBJECT"} /\ ~Reference!Has(a, p, n)
      <2>1. Reference!Content(a, p, n, type, V1).kind = "truncated"
            BY <1>6 DEF Reference!Content, Reference!Truncated
      <2>2. \/ Reference!Content(b, q, n, type, V2).kind = "truncated"
            \/ Reference!Content(b, q, n, type, V2).next = q + n
            BY <1>6 DEF Reference!Content, Reference!Truncated, Reference!Got
      <2>3. q + n > s + Len(a)
            BY <1>1, <1>6 DEF Reference!Has
      <2>4. QED BY <2>1, <2>2, <2>3 DEF Agree
<1>7. QED BY <1>3, <1>4, <1>5, <1>6

LEMMA AtAgree ==
    ASSUME NEW a, NEW b, NEW s, Stands(a, b, s),
           NEW V1, NEW V2, AllOutcomes(a, V1), AllOutcomes(b, V2), AllAgree(a, s, V1, V2),
           NEW p \in 0..Len(a), NEW q, q = s + p
    PROVE  Agree(a, s, Reference!At(a, p, V1), Reference!At(b, q, V2))
<1>1. /\ a \in Seq(Byte) /\ b \in Seq(Byte) /\ s \in Nat /\ Len(a) \in Nat /\ Len(b) \in Nat
      /\ s + Len(a) <= Len(b) /\ q \in 0..Len(b)
      BY LenProperties DEF Stands
<1>2. PICK o1 : o1 = Reference!At(a, p, V1)
      OBVIOUS
<1>3. PICK o2 : o2 = Reference!At(b, q, V2)
      OBVIOUS
<1>4. SUFFICES Agree(a, s, o1, o2)
      BY <1>2, <1>3
<1>5. CASE p = Len(a)
      <2>1. o1 = Reference!Truncated(a)
            BY <1>1, <1>2, <1>5 DEF Reference!At
      <2>2. o2.kind # "truncated" => o2.next > q
            BY <1>1, <1>3, AtForward
      <2>3. q = s + Len(a)
            BY <1>5
      <2>4. QED BY <2>1, <2>2, <2>3 DEF Agree, Reference!Truncated
<1>6. CASE p < Len(a)
      <2>1. /\ ~(p >= Len(a)) /\ ~(q >= Len(b)) /\ p + 1 \in 1..Len(a) /\ q + 1 = s + (p + 1)
            /\ p + 1 \in 0..Len(a)
            BY <1>1, <1>6
      <2>2. PICK byte : byte = a[p + 1]
            OBVIOUS
      <2>3. b[q + 1] = byte /\ byte \in Byte
            BY <1>1, <2>1, <2>2, ElementOfSeq DEF Stands
      <2>4. CASE byte = 193
            <3>1. o1 = Reference!Malformed(p + 1) /\ o2 = Reference!Malformed(q + 1)
                  BY <1>2, <1>3, <2>1, <2>2, <2>3, <2>4 DEF Reference!At
            <3>2. QED BY <2>1, <3>1 DEF Agree, Reference!Malformed
      <2>5. CASE byte # 193 /\ byte \in Reference!SingleBytes
            <3>1. /\ o1 = Reference!Got(Reference!Single(byte), p + 1)
                  /\ o2 = Reference!Got(Reference!Single(byte), q + 1)
                  BY <1>2, <1>3, <2>1, <2>2, <2>3, <2>5 DEF Reference!At
            <3>2. QED BY <2>1, <3>1 DEF Agree, Reference!Got
      <2>6. CASE byte # 193 /\ byte \notin Reference!SingleBytes
            <3>1. \E type : \E wide \in {0, 1, 2, 4} : \E plus \in Nat : Heads(byte, type, wide, plus)
                  BY <2>3, <2>6, HeadIsNat
            <3>2. PICK type :
                     \E wide \in {0, 1, 2, 4} : \E plus \in Nat : Heads(byte, type, wide, plus)
                  BY <3>1
            <3>3. PICK wide \in {0, 1, 2, 4}, plus \in Nat : Heads(byte, type, wide, plus)
                  BY <3>2
            <3>4. PICK h : h = [type |-> type, wide |-> wide, plus |-> plus]
                  OBVIOUS
            <3>5. h = Reference!Announces(byte) /\ h.wide = wide /\ h.type = type /\ h.plus = plus
                  BY <3>3, <3>4 DEF Heads
            <3>6. PICK p1 : p1 = p + 1
                  OBVIOUS
            <3>7. PICK q1 : q1 = q + 1
                  OBVIOUS
            <3>8. p1 \in 0..Len(a) /\ q1 = s + p1 /\ wide \in Nat
                  BY <1>1, <2>1, <3>6, <3>7
            <3>9. /\ o1 = IF ~Reference!Has(a, p1, wide) THEN Reference!Truncated(a)
                          ELSE Reference!Content(a, p1 + wide, Reference!Count(a, p1, h), type, V1)
                  /\ o2 = IF ~Reference!Has(b, q1, wide) THEN Reference!Truncated(b)
                          ELSE Reference!Content(b, q1 + wide, Reference!Count(b, q1, h), type, V2)
                  BY <1>2, <1>3, <2>1, <2>2, <2>3, <2>6, <3>5, <3>6, <3>7 DEF Reference!At
            <3>10. CASE Reference!Has(a, p1, wide)
                  <4>1. /\ Reference!Has(b, q1, wide)
                        /\ Reference!Slice(b, q1, wide) = Reference!Slice(a, p1, wide)
                        BY <3>8, <3>10, SlicesAgree
                  <4>2. PICK n : n = Reference!Count(a, p1, h)
                        OBVIOUS
                  <4>3. n \in Nat
                        BY <1>1, <3>4, <3>8, <3>10, <4>2, CountIsNat
                  <4>4. Reference!Count(b, q1, h) = n
                        BY <3>5, <4>1, <4>2 DEF Reference!Count
                  <4>5. PICK p2 : p2 = p1 + wide
                        OBVIOUS
                  <4>6. PICK q2 : q2 = q1 + wide
                        OBVIOUS
                  <4>7. p2 \in 0..Len(a) /\ q2 = s + p2
                        BY <1>1, <3>8, <3>10, <4>5, <4>6 DEF Reference!Has
                  <4>8. Agree(a, s, Reference!Content(a, p2, n, type, V1),
                              Reference!Content(b, q2, n, type, V2))
                        BY <4>3, <4>7, ContentAgree
                  <4>9. QED BY <3>9, <3>10, <4>1, <4>2, <4>4, <4>5, <4>6, <4>8
            <3>11. CASE ~Reference!Has(a, p1, wide)
                  <4>1. o1.kind = "truncated"
                        BY <3>9, <3>11 DEF Reference!Truncated
                  <4>2. CASE ~Reference!Has(b, q1, wide)
                        <5>1. o2.kind = "truncated"
                              BY <3>9, <4>2 DEF Reference!Truncated
                        <5>2. QED BY <4>1, <5>1 DEF Agree
                  <4>3. CASE Reference!Has(b, q1, wide)
                        <5>1. PICK q2 : q2 = q1 + wide
                              OBVIOUS
                        <5>2. q2 \in 0..Len(b) /\ q2 > s + Len(a) /\ q1 \in 0..Len(b)
                              BY <1>1, <3>8, <3>11, <4>3, <5>1 DEF Reference!Has
                        <5>3. PICK n : n = Reference!Count(b, q1, h)
                              OBVIOUS
                        <5>4. n \in Nat
                              BY <1>1, <3>4, <4>3, <5>2, <5>3, CountIsNat
                        <5>5. Outcome(b, q2, Reference!Content(b, q2, n, type, V2))
                              BY <1>1, <5>2, <5>4, ContentForward
                        <5>6. Outcome(b, q2, o2)
                              BY <3>9, <4>3, <5>1, <5>3, <5>5
                        <5>7. o2.next > s + Len(a)
                              BY <1>1, <5>2, <5>6 DEF Outcome
                        <5>8. QED BY <4>1, <5>7 DEF Agree
                  <4>4. QED BY <4>2, <4>3
            <3>12. QED BY <3>10, <3>11
      <2>7. QED BY <2>4, <2>5, <2>6
<1>7. QED BY <1>1, <1>5, <1>6

LEMMA TableAgree ==
    ASSUME NEW a, NEW b, NEW s, Stands(a, b, s)
    PROVE  \A d \in 0..(MaxDepth + 1) : AllAgree(a, s, Table(a, d), Table(b, d))
<1> DEFINE P(n) == n <= MaxDepth + 1 => AllAgree(a, s, Table(a, (MaxDepth + 1) - n),
                                                       Table(b, (MaxDepth + 1) - n))
           S == {n \in Nat : P(n)}
<1>1. /\ a \in Seq(Byte) /\ b \in Seq(Byte) /\ s \in Nat /\ Len(a) \in Nat /\ Len(b) \in Nat
      /\ s + Len(a) <= Len(b) /\ MaxDepth \in Nat
      /\ \A p \in 0..Len(a) : s + p \in 0..Len(b)
      BY LenProperties, MaxDepthAssumption DEF Stands
<1>2. P(0)
      <2>1. PICK d : d = MaxDepth + 1
            OBVIOUS
      <2>2. /\ \A p \in 0..Len(a) : Table(a, d)[p] = Reference!Malformed(p)
            /\ \A p \in 0..Len(b) : Table(b, d)[p] = Reference!Malformed(p)
            BY <2>1, TableInnermost
      <2>3. ASSUME NEW p \in 0..Len(a) PROVE Agree(a, s, Table(a, d)[p], Table(b, d)[s + p])
            <3>1. PICK q : q = s + p
                  OBVIOUS
            <3>2. q \in 0..Len(b)
                  BY <1>1, <3>1
            <3>3. Table(a, d)[p] = Reference!Malformed(p) /\ Table(b, d)[q] = Reference!Malformed(q)
                  BY <2>2, <3>2
            <3>4. QED BY <3>1, <3>3 DEF Agree, Reference!Malformed
      <2>4. AllAgree(a, s, Table(a, d), Table(b, d))
            BY <2>3 DEF AllAgree
      <2>5. (MaxDepth + 1) - 0 = d
            BY <1>1, <2>1
      <2>6. QED BY <2>4, <2>5
<1>3. ASSUME NEW n \in Nat, P(n) PROVE P(n + 1)
      <2>1. SUFFICES ASSUME n + 1 <= MaxDepth + 1
                     PROVE  AllAgree(a, s, Table(a, (MaxDepth + 1) - (n + 1)),
                                           Table(b, (MaxDepth + 1) - (n + 1)))
            OBVIOUS
      <2>2. PICK d : d = (MaxDepth + 1) - (n + 1)
            OBVIOUS
      <2>3. PICK e : e = d + 1
            OBVIOUS
      <2>4. d \in 0..MaxDepth /\ e = (MaxDepth + 1) - n /\ n <= MaxDepth + 1 /\ e \in 0..(MaxDepth + 1)
            BY <1>1, <2>1, <2>2, <2>3
      <2>5. AllAgree(a, s, Table(a, e), Table(b, e))
            BY <1>3, <2>4
      <2>6. AllOutcomes(a, Table(a, e)) /\ AllOutcomes(b, Table(b, e))
            BY <1>1, <2>4, TableForward
      <2>7. ASSUME NEW p \in 0..Len(a) PROVE Agree(a, s, Table(a, d)[p], Table(b, d)[s + p])
            <3>1. PICK q : q = s + p
                  OBVIOUS
            <3>2. q \in 0..Len(b)
                  BY <1>1, <3>1
            <3>3. /\ Table(a, d)[p] = Reference!At(a, p, Table(a, e))
                  /\ Table(b, d)[q] = Reference!At(b, q, Table(b, e))
                  BY <2>3, <2>4, <3>2, TableAround
            <3>4. Agree(a, s, Reference!At(a, p, Table(a, e)), Reference!At(b, q, Table(b, e)))
                  BY <2>5, <2>6, <3>1, AtAgree
            <3>5. QED BY <3>1, <3>3, <3>4
      <2>8. AllAgree(a, s, Table(a, d), Table(b, d))
            BY <2>7 DEF AllAgree
      <2>9. QED BY <2>2, <2>8
<1> HIDE DEF P
<1>4. 0 \in S /\ \A n \in Nat : n \in S => n + 1 \in S
      BY <1>2, <1>3
<1> HIDE DEF S
<1>5. Nat \subseteq S
      BY <1>4, Reference!Turns!Induction
<1>6. ASSUME NEW d \in 0..(MaxDepth + 1) PROVE AllAgree(a, s, Table(a, d), Table(b, d))
      <2>1. PICK n : n = (MaxDepth + 1) - d
            OBVIOUS
      <2>2. n \in Nat /\ n <= MaxDepth + 1 /\ (MaxDepth + 1) - n = d
            BY <1>1, <2>1
      <2>3. P(n)
            BY <1>5, <2>2 DEF S
      <2>4. QED BY <2>2, <2>3 DEF P
<1>7. QED BY <1>6

\* Values that follow each other are read where they stand,
LEMMA RunsAgree ==
    ASSUME NEW a, NEW b, NEW s, Stands(a, b, s), NEW p \in 0..Len(a), NEW q, q = s + p,
           NEW n \in Nat
    PROVE  Agree(a, s, Run(a, 0, p, n), Run(b, 0, q, n))
<1>1. a \in Seq(Byte) /\ b \in Seq(Byte) /\ 0 \in 0..(MaxDepth + 1)
      BY MaxDepthAssumption DEF Stands
<1>2. /\ AllOutcomes(a, Table(a, 0)) /\ AllOutcomes(b, Table(b, 0))
      /\ AllAgree(a, s, Table(a, 0), Table(b, 0))
      BY <1>1, TableForward, TableAgree
<1>3. QED BY <1>2, ValuesAgree DEF Run

LEMMA RunsForward ==
    ASSUME NEW in \in Seq(Byte), NEW p \in 0..Len(in), NEW n \in Nat
    PROVE  Outcome(in, p, Run(in, 0, p, n))
<1>1. 0 \in 0..(MaxDepth + 1)
      BY MaxDepthAssumption
<1>2. AllOutcomes(in, Table(in, 0))
      BY <1>1, TableForward
<1>3. QED BY <1>2, ValuesForward DEF Run

\* A row joined to another and one more.
LEMMA AppendToJoined ==
    ASSUME NEW A, NEW s \in Seq(A), NEW B, NEW t \in Seq(B), NEW e
    PROVE  Append(s \o t, e) = s \o Append(t, e)
<1>1. PICK W : W = A \union B \union {e}
      OBVIOUS
<1>2. PICK u : u = <<e>>
      OBVIOUS
<1>3. s \in Seq(W) /\ t \in Seq(W) /\ e \in W
      BY <1>1, SeqMonotonic
<1>4. u \in Seq(W) /\ s \o t \in Seq(W)
      BY <1>2, <1>3, ConcatProperties
<1>5. Append(s \o t, e) = (s \o t) \o u /\ Append(t, e) = t \o u
      BY <1>2, <1>3, <1>4, AppendIsConcat
<1>6. (s \o t) \o u = s \o (t \o u)
      BY <1>3, <1>4, ConcatAssociative
<1>7. QED BY <1>5, <1>6

\* Values that follow on others make one row with them.
LEMMA RunsJoin ==
    ASSUME NEW in, NEW d, NEW p, NEW n \in Nat, NEW all, NEW q, Reads(in, d, p, n, all, q),
           NEW k \in Nat, NEW more, NEW r, Reads(in, d, q, k, more, r)
    PROVE  Reads(in, d, p, n + k, all \o more, r)
<1> DEFINE P(m) == Run(in, d, q, m).kind = "value" =>
                      /\ Run(in, d, p, n + m).kind = "value"
                      /\ Run(in, d, p, n + m).value = all \o Run(in, d, q, m).value
                      /\ Run(in, d, p, n + m).next = Run(in, d, q, m).next
           S == {m \in Nat : P(m)}
<1>1. all \in Seq(ValuesAt(in, d, p))
      BY RunValues DEF Reads
<1>2. P(0)
      <2>1. Run(in, d, q, 0).value = <<>> /\ Run(in, d, q, 0).next = q
            BY RunStart DEF Reference!Got
      <2>2. all \o <<>> = all /\ n + 0 = n
            BY <1>1, ConcatEmptySeq
      <2>3. QED BY <2>1, <2>2 DEF Reads
<1>3. ASSUME NEW m \in Nat, P(m) PROVE P(m + 1)
      <2>1. PICK o1 : o1 = Run(in, d, p, n + m)
            OBVIOUS
      <2>2. PICK o2 : o2 = Run(in, d, q, m)
            OBVIOUS
      <2>3. PICK one : one = Table(in, d)[o2.next]
            OBVIOUS
      <2>4. PICK r1 : r1 = Run(in, d, p, n + (m + 1))
            OBVIOUS
      <2>5. PICK r2 : r2 = Run(in, d, q, m + 1)
            OBVIOUS
      <2>6. r2 = IF o2.kind # "value" THEN o2
                 ELSE IF one.kind = "value" THEN Reference!Got(Append(o2.value, one.value), one.next)
                      ELSE one
            BY <2>2, <2>3, <2>5, RunMore
      <2>7. SUFFICES ASSUME r2.kind = "value"
                     PROVE  r1.kind = "value" /\ r1.value = all \o r2.value /\ r1.next = r2.next
            BY <2>4, <2>5
      <2>8. /\ o2.kind = "value" /\ one.kind = "value"
            /\ r2.value = Append(o2.value, one.value) /\ r2.next = one.next
            BY <2>6, <2>7 DEF Reference!Got
      <2>9. o1.kind = "value" /\ o1.value = all \o o2.value /\ o1.next = o2.next
            BY <1>3, <2>1, <2>2, <2>8
      <2>10. r1 = Reference!Got(Append(o1.value, one.value), one.next)
            <3>1. PICK s : s = n + m
                  OBVIOUS
            <3>2. s \in Nat /\ n + (m + 1) = s + 1
                  BY <3>1
            <3>3. Run(in, d, p, s).kind = "value" /\ Run(in, d, p, s) = o1
                  /\ Table(in, d)[Run(in, d, p, s).next] = one
                  BY <2>1, <2>3, <2>9, <3>1
            <3>4. Run(in, d, p, s + 1) = Reference!Got(Append(o1.value, one.value), one.next)
                  BY <2>8, <3>2, <3>3, RunMore
            <3>5. QED BY <2>4, <3>2, <3>4
      <2>11. Append(all \o o2.value, one.value) = all \o Append(o2.value, one.value)
            <3>1. PICK A : A = ValuesAt(in, d, p)
                  OBVIOUS
            <3>2. PICK B : B = ValuesAt(in, d, q)
                  OBVIOUS
            <3>3. PICK t : t = o2.value
                  OBVIOUS
            <3>4. PICK u : u = one.value
                  OBVIOUS
            <3>5. PICK row : row = all
                  OBVIOUS
            <3>6. row \in Seq(A) /\ t \in Seq(B)
                  BY <1>1, <2>2, <2>8, <3>1, <3>2, <3>3, <3>5, RunValues
            <3>7. Append(row \o t, u) = row \o Append(t, u)
                  BY <3>6, AppendToJoined
            <3>8. QED BY <3>3, <3>4, <3>5, <3>7
      <2>12. QED BY <2>8, <2>9, <2>10, <2>11 DEF Reference!Got
<1> HIDE DEF P
<1>4. 0 \in S /\ \A m \in Nat : m \in S => m + 1 \in S
      BY <1>2, <1>3
<1> HIDE DEF S
<1>5. Nat \subseteq S
      BY <1>4, Reference!Turns!Induction
<1>6. P(k)
      BY <1>5 DEF S
<1>7. QED BY <1>6 DEF P, Reads

\* The bytes from one place to another.
LEMMA Piece ==
    ASSUME NEW in \in Seq(Byte), NEW upto \in 0..Len(in), NEW from \in 0..upto
    PROVE  /\ SubSeq(in, from + 1, upto) \in Seq(Byte)
           /\ Len(SubSeq(in, from + 1, upto)) = upto - from
           /\ \A i \in 1..(upto - from) : SubSeq(in, from + 1, upto)[i] = in[from + i]
<1>1. Len(in) \in Nat
      BY LenProperties
<1>2. PICK n : n = upto - from
      OBVIOUS
<1>3. n \in Nat /\ from \in 0..Len(in) /\ from + n = upto /\ Reference!Has(in, from, n)
      BY <1>1, <1>2 DEF Reference!Has
<1>4. PICK t : t = Reference!Slice(in, from, n)
      OBVIOUS
<1>5. t \in Seq(Byte) /\ Len(t) = n /\ t = [i \in 1..n |-> in[from + i]]
      BY <1>3, <1>4, SliceSeq
<1>6. t = SubSeq(in, from + 1, upto)
      BY <1>3, <1>4 DEF Reference!Slice
<1>7. QED BY <1>2, <1>5, <1>6

\* What is cut anywhere before the end of a value is an input that ends too early:
\* the wire format tells by itself where a value ends, so that the parser takes no
\* prefix of an encoding for a value, nor for something malformed.
THEOREM CutsAreTruncated ==
    ASSUME NEW in \in Seq(Byte), NEW n \in 0..Len(in), NEW p \in 0..n,
           Reference!Value(in, p, 0).kind = "value", n < Reference!Value(in, p, 0).next
    PROVE  Reference!Value(SubSeq(in, 1, n), p, 0) = Reference!Truncated(SubSeq(in, 1, n))
<1>1. PICK cut : cut = SubSeq(in, 1, n)
      OBVIOUS
<1>2. PICK zero : zero = 0
      OBVIOUS
<1>3. Len(in) \in Nat /\ n - 0 = n /\ 0 \in 0..n /\ 0 + 1 = 1
      BY LenProperties
<1>4. cut \in Seq(Byte) /\ Len(cut) = n /\ \A i \in 1..n : cut[i] = in[0 + i]
      BY <1>1, <1>3, Piece
<1>5. Stands(cut, in, zero)
      BY <1>2, <1>3, <1>4 DEF Stands
<1>6. 0 \in 0..(MaxDepth + 1)
      BY MaxDepthAssumption
<1>7. AllAgree(cut, zero, Table(cut, 0), Table(in, 0)) /\ AllOutcomes(cut, Table(cut, 0))
      BY <1>4, <1>5, <1>6, TableAgree, TableForward
<1>8. p \in 0..Len(cut) /\ zero + p = p
      BY <1>2, <1>3, <1>4
<1>9. Agree(cut, zero, Table(cut, 0)[p], Table(in, 0)[p]) /\ Outcome(cut, p, Table(cut, 0)[p])
      BY <1>7, <1>8 DEF AllAgree, AllOutcomes
<1>10. Table(cut, 0)[p].kind = "truncated"
      <2>1. Table(in, 0)[p].kind = "value" /\ n < Table(in, 0)[p].next
            BY DEF Table, Reference!Value
      <2>2. SUFFICES ASSUME Table(cut, 0)[p].kind # "truncated" PROVE FALSE
            OBVIOUS
      <2>3. Table(in, 0)[p].next = zero + Table(cut, 0)[p].next
            BY <1>9, <2>2 DEF Agree
      <2>4. Table(cut, 0)[p].next \in Nat /\ Table(cut, 0)[p].next <= n
            BY <1>3, <1>4, <1>9 DEF Outcome
      <2>5. QED BY <1>2, <1>3, <2>1, <2>3, <2>4
<1>11. Table(cut, 0)[p] = Reference!Truncated(cut)
      BY <1>9, <1>10 DEF Outcome
<1>12. QED BY <1>1, <1>11 DEF Table, Reference!Value
---------------------------------------------------------------------
\* The first byte.

\* The handler h with the template argument t is the right one for b.
Tells(b, h, t) ==
    /\ h = "invalid" => b = 193
    /\ h = "nil" => IsSingle(b, Nil)
    /\ h = "bool" => IsSingle(b, Scalar("BOOL", <<IF b = 195 THEN 1 ELSE 0>>))
    /\ h = "pos_fixint" => IsSingle(b, Scalar("UINT8", <<b>>))
    /\ h = "neg_fixint" => IsSingle(b, Scalar("INT8", <<b>>))
    /\ h = "arith" => t \in DOMAIN SizeOf /\ Heads(b, t, 0, SizeOf[t])
    /\ h = "fixstring" => Heads(b, "STRING", 0, b % 32)
    /\ h = "fixext" => b \in 212..216 /\ Heads(b, "EXTENSION", 0, 1 + <<1, 2, 4, 8, 16>>[b - 211])
    /\ h = "fixarray" => Heads(b, "ARRAY", 0, b % 16)
    /\ h = "fixobject" => Heads(b, "OBJECT", 0, b % 16)
    /\ h \in {"fixobject", "object"} => b \in Reference!ObjectBytes
    /\ h \in {"string", "binary", "extension", "array", "object"} => t \in LengthTypes
    /\ h = "string" => Heads(b, "STRING", SizeOf[t], 0)
    /\ h = "binary" => Heads(b, "BINARY", SizeOf[t], 0)
    /\ h = "extension" => Heads(b, "EXTENSION", SizeOf[t], 1)
    /\ h = "array" => Heads(b, "ARRAY", SizeOf[t], 0)
    /\ h = "object" => Heads(b, "OBJECT", SizeOf[t], 0)

\* The row that takes a first byte sends it to the right handler.
LEMMA RowsTell ==
    ASSUME NEW b \in Byte, NEW k \in 1..32, Takes(k, b)
    PROVE  Tells(b, parser_template[k].parser, parser_template[k].T)
<1>1. b \in 0..255
      BY DEF Byte
<1>2. b <= parser_template[k].upto /\ (k > 1 => b > parser_template[k - 1].upto)
      BY DEF Takes
<1>3. /\ (k = 1 => b \in 0..127) /\ (k = 2 => b \in 128..143) /\ (k = 3 => b \in 144..159)
      /\ (k = 4 => b \in 160..191) /\ (k = 5 => b = 192) /\ (k = 6 => b = 193)
      /\ (k = 7 => b \in 194..195) /\ (k = 8 => b = 196) /\ (k = 9 => b = 197)
      /\ (k = 10 => b = 198) /\ (k = 11 => b = 199) /\ (k = 12 => b = 200)
      /\ (k = 13 => b = 201) /\ (k = 14 => b = 202) /\ (k = 15 => b = 203)
      /\ (k = 16 => b = 204) /\ (k = 17 => b = 205) /\ (k = 18 => b = 206)
      /\ (k = 19 => b = 207) /\ (k = 20 => b = 208) /\ (k = 21 => b = 209)
      /\ (k = 22 => b = 210) /\ (k = 23 => b = 211) /\ (k = 24 => b \in 212..216)
      /\ (k = 25 => b = 217) /\ (k = 26 => b = 218) /\ (k = 27 => b = 219)
      /\ (k = 28 => b = 220) /\ (k = 29 => b = 221) /\ (k = 30 => b = 222)
      /\ (k = 31 => b = 223) /\ (k = 32 => b \in 224..255)
      BY <1>1, <1>2, Uptos
<1>4. CASE k \in {1, 5, 7, 32}
      <2>1. \/ b <= 127 /\ parser_template[k].parser = "pos_fixint"
            \/ b = 192 /\ parser_template[k].parser = "nil"
            \/ b \in 194..195 /\ parser_template[k].parser = "bool"
            \/ b >= 224 /\ parser_template[k].parser = "neg_fixint"
            BY <1>1, <1>3, <1>4, Handlers
      <2>2. \/ IsSingle(b, Scalar("UINT8", <<b>>)) /\ parser_template[k].parser = "pos_fixint"
            \/ IsSingle(b, Nil) /\ parser_template[k].parser = "nil"
            \/ /\ IsSingle(b, Scalar("BOOL", <<IF b = 195 THEN 1 ELSE 0>>))
               /\ parser_template[k].parser = "bool"
            \/ IsSingle(b, Scalar("INT8", <<b>>)) /\ parser_template[k].parser = "neg_fixint"
            BY <2>1, SinglesTell, Zenon
      <2>3. QED BY <2>2 DEF Tells
<1>5. CASE k = 6
      BY <1>3, <1>5, Handlers DEF Tells
<1>6. CASE k \in {2, 3, 4, 24}
      BY <1>3, <1>6, Handlers, HeadsTell DEF Tells, Reference!ObjectBytes
<1>7. CASE k \in 8..13
      <2>1. k \in 8..10 => Tells(b, parser_template[k].parser, parser_template[k].T)
            BY <1>3, Handlers, Arguments, HeadsTell DEF Tells, SizeOf, LengthTypes
      <2>2. k \in 11..13 => Tells(b, parser_template[k].parser, parser_template[k].T)
            BY <1>3, Handlers, Arguments, HeadsTell DEF Tells, SizeOf, LengthTypes
      <2>3. QED BY <1>7, <2>1, <2>2
<1>8. CASE k \in 14..23
      <2>1. k \in 14..18 => Tells(b, parser_template[k].parser, parser_template[k].T)
            BY <1>3, Handlers, Arguments, HeadsTell DEF Tells, SizeOf
      <2>2. k \in 19..23 => Tells(b, parser_template[k].parser, parser_template[k].T)
            BY <1>3, Handlers, Arguments, HeadsTell DEF Tells, SizeOf
      <2>3. QED BY <1>8, <2>1, <2>2
<1>9. CASE k \in 25..31
      BY <1>3, <1>9, Handlers, Arguments, HeadsTell
         DEF Tells, SizeOf, LengthTypes, Reference!ObjectBytes
<1>10. QED BY <1>4, <1>5, <1>6, <1>7, <1>8, <1>9

\* So does the entry of the table that dispatch looks up.
LEMMA DispatchTells ==
    ASSUME NEW b \in Byte
    PROVE  Tells(b, parsers[b].parser, parsers[b].T)
BY RowOf, RowsTell

---------------------------------------------------------------------
\* Reading.

\* How a call that leaves the stream s bad has failed.
Failure(s) == [kind |-> IF s.eof THEN "truncated" ELSE "malformed", value |-> Nil, next |-> s.pos]

\* A handler that returns v and leaves the stream s has done what E says.
Says(E, s, v) == E = IF Good(s) THEN Reference!Got(v, s.pos) ELSE Failure(s)

\* n bytes at s, or an error at the end of the input.
LEMMA ReadsOrRunsOut ==
    ASSUME input \in Seq(Byte), NEW s \in Stream, Good(s), NEW n \in Nat
    PROVE  IF Reference!Has(input, s.pos, n)
           THEN /\ Good(Consume(s, n)) /\ Consume(s, n) \in Stream
                /\ Consume(s, n).pos = s.pos + n
                /\ Read(s, n) = Reference!Slice(input, s.pos, n)
           ELSE /\ ~Good(Consume(s, n)) /\ Consume(s, n) \in Stream
                /\ Failure(Consume(s, n)) = Reference!Truncated(input)
<1>1. Consume(s, n) \in Stream /\ (Good(Consume(s, n)) => Consume(s, n).pos = s.pos + n)
      BY ConsumeProperties
<1>2. CASE Reference!Has(input, s.pos, n)
      <2>1. Consume(s, n) = [s EXCEPT !.pos = s.pos + n]
            BY <1>2 DEF Reference!Has, Consume
      <2>2. Good(Consume(s, n))
            BY <2>1 DEF Good, Stream
      <2>3. Read(s, n) = [i \in 1..n |-> input[s.pos + i]]
            BY <2>2 DEF Read
      <2>4. s.pos \in 0..Len(input)
            BY DEF Stream
      <2>5. QED BY <1>1, <1>2, <2>2, <2>3, <2>4, SliceSeq
<1>3. CASE ~Reference!Has(input, s.pos, n)
      <2>1. Consume(s, n) = [pos |-> Len(input), eof |-> TRUE, fail |-> TRUE]
            BY <1>3 DEF Reference!Has, Consume
      <2>2. Nil = Reference!Nil
            BY DEF Nil, Reference!Nil, Scalar, Reference!Scalar
      <2>3. QED BY <1>1, <1>3, <2>1, <2>2 DEF Good, Failure, Reference!Truncated
<1>4. QED BY <1>2, <1>3

\* An error stays the first one.
LEMMA BadStaysBad ==
    ASSUME input \in Seq(Byte), NEW s \in Stream, ~Good(s), NEW n \in Nat
    PROVE  ~Good(Consume(s, n)) /\ Consume(s, n) \in Stream /\ Failure(Consume(s, n)) = Failure(s)
<1>1. Consume(s, n) = SetFail(s)
      BY DEF Consume
<1>2. QED BY <1>1, SetFailProperties DEF Failure

\* The payload of a string, a binary or a number.
LEMMA PayloadSays ==
    ASSUME input \in Seq(Byte), NEW s \in Stream, Good(s), NEW n \in Nat, NEW type, NEW X,
           type # "ARRAY", type # "OBJECT"
    PROVE  Says(Reference!Content(input, s.pos, n, type, X), Consume(s, n), Scalar(type, Read(s, n)))
<1>1. Reference!Content(input, s.pos, n, type, X) =
         IF Reference!Has(input, s.pos, n)
         THEN Reference!Got(Reference!Scalar(type, Reference!Slice(input, s.pos, n)), s.pos + n)
         ELSE Reference!Truncated(input)
      BY DEF Reference!Content
<1>2. \A bytes : Reference!Scalar(type, bytes) = Scalar(type, bytes)
      BY DEF Reference!Scalar, Scalar
<1>3. QED BY <1>1, <1>2, ReadsOrRunsOut DEF Says

\* An extension is one byte and then its data.
LEMMA SliceSplits ==
    ASSUME NEW in \in Seq(Byte), NEW p \in 0..Len(in), NEW n \in Nat, Reference!Has(in, p, 1 + n)
    PROVE  Reference!Slice(in, p, 1) \o Reference!Slice(in, p + 1, n) = Reference!Slice(in, p, 1 + n)
<1>1. Len(in) \in Nat /\ p \in Nat /\ p + 1 + n <= Len(in)
      BY LenProperties DEF Reference!Has
<1> DEFINE a == Reference!Slice(in, p, 1)
           b == Reference!Slice(in, p + 1, n)
           c == Reference!Slice(in, p, 1 + n)
<1>2. a \in Seq(Byte) /\ Len(a) = 1 /\ a = [i \in 1..1 |-> in[p + i]]
      <2>1. Reference!Has(in, p, 1)
            BY <1>1 DEF Reference!Has
      <2>2. QED BY <2>1, SliceSeq
<1>3. b \in Seq(Byte) /\ Len(b) = n /\ b = [i \in 1..n |-> in[p + 1 + i]]
      <2> DEFINE q == p + 1
      <2>1. Reference!Has(in, q, n) /\ q \in 0..Len(in)
            BY <1>1 DEF Reference!Has
      <2> HIDE DEF q
      <2>2. /\ Reference!Slice(in, q, n) \in Seq(Byte) /\ Len(Reference!Slice(in, q, n)) = n
            /\ Reference!Slice(in, q, n) = [i \in 1..n |-> in[q + i]]
            BY <2>1, SliceSeq
      <2>3. QED BY <2>2 DEF q
<1>4. c = [i \in 1..(1 + n) |-> in[p + i]]
      <2> DEFINE m == 1 + n
      <2>1. m \in Nat
            OBVIOUS
      <2>2. Reference!Has(in, p, m)
            OBVIOUS
      <2> HIDE DEF m
      <2>3. Reference!Slice(in, p, m) = [i \in 1..m |-> in[p + i]]
            BY <2>1, <2>2, SliceSeq
      <2>4. QED BY <2>3 DEF m
<1> HIDE DEF a, b, c
<1>5. /\ a \o b \in Seq(Byte) /\ Len(a \o b) = 1 + n
      /\ \A i \in 1..(1 + n) : (a \o b)[i] = IF i <= 1 THEN a[i] ELSE b[i - 1]
      BY <1>2, <1>3, ConcatProperties
<1>6. \A i \in 1..(1 + n) : (a \o b)[i] = in[p + i]
      <2> TAKE i \in 1..(1 + n)
      <2>1. CASE i = 1
            BY <1>2, <1>5, <2>1
      <2>2. CASE i # 1
            <3>1. i - 1 \in 1..n /\ p + 1 + (i - 1) = p + i /\ ~(i <= 1)
                  BY <1>1, <2>2
            <3>2. b[i - 1] = in[p + 1 + (i - 1)]
                  BY <1>3, <3>1
            <3>3. QED BY <1>5, <3>1, <3>2
      <2>3. QED BY <2>1, <2>2
<1>7. a \o b = [i \in 1..(1 + n) |-> (a \o b)[i]]
      BY <1>5, LenProperties
<1>8. a \o b = [i \in 1..(1 + n) |-> in[p + i]]
      BY <1>6, <1>7
<1>9. QED BY <1>4, <1>8 DEF a, b, c

LEMMA ExtensionSays ==
    ASSUME input \in Seq(Byte), NEW s \in Stream, Good(s), NEW n \in Nat, NEW X
    PROVE  Says(Reference!Content(input, s.pos, 1 + n, "EXTENSION", X), Consume(Consume(s, 1), n),
                Scalar("EXTENSION", Read(s, 1) \o Read(Consume(s, 1), n)))
<1> DEFINE one == Consume(s, 1)
           all == Consume(one, n)
<1>1. Len(input) \in Nat /\ s.pos \in 0..Len(input)
      BY LenProperties DEF Stream
<1>2. Reference!Content(input, s.pos, 1 + n, "EXTENSION", X) =
         IF Reference!Has(input, s.pos, 1 + n)
         THEN Reference!Got(Reference!Scalar("EXTENSION", Reference!Slice(input, s.pos, 1 + n)),
                            s.pos + (1 + n))
         ELSE Reference!Truncated(input)
      BY DEF Reference!Content
<1>3. IF Reference!Has(input, s.pos, 1)
      THEN /\ Good(one) /\ one \in Stream /\ one.pos = s.pos + 1
           /\ Read(s, 1) = Reference!Slice(input, s.pos, 1)
      ELSE ~Good(one) /\ one \in Stream /\ Failure(one) = Reference!Truncated(input)
      BY ReadsOrRunsOut
<1> HIDE DEF one
<1>4. CASE ~Reference!Has(input, s.pos, 1)
      <2>1. ~Reference!Has(input, s.pos, 1 + n)
            BY <1>1, <1>4 DEF Reference!Has
      <2>2. ~Good(all) /\ Failure(all) = Reference!Truncated(input)
            BY <1>3, <1>4, BadStaysBad
      <2> HIDE DEF all
      <2>3. QED BY <1>2, <2>1, <2>2 DEF Says, all, one
<1>5. CASE Reference!Has(input, s.pos, 1)
      <2>1. IF Reference!Has(input, one.pos, n)
            THEN /\ Good(all) /\ all \in Stream /\ all.pos = one.pos + n
                 /\ Read(one, n) = Reference!Slice(input, one.pos, n)
            ELSE ~Good(all) /\ all \in Stream /\ Failure(all) = Reference!Truncated(input)
            BY <1>3, <1>5, ReadsOrRunsOut
      <2> HIDE DEF all
      <2>2. Reference!Has(input, one.pos, n) <=> Reference!Has(input, s.pos, 1 + n)
            BY <1>1, <1>3, <1>5 DEF Reference!Has
      <2>3. CASE Reference!Has(input, s.pos, 1 + n)
            <3>1. Read(s, 1) \o Read(one, n) = Reference!Slice(input, s.pos, 1 + n)
                  <4>1. Read(one, n) = Reference!Slice(input, s.pos + 1, n)
                        BY <1>3, <1>5, <2>1, <2>2, <2>3
                  <4>2. QED BY <1>1, <1>3, <1>5, <2>3, <4>1, SliceSplits
            <3>2. all.pos = s.pos + (1 + n) /\ Good(all)
                  BY <1>1, <1>3, <1>5, <2>1, <2>2, <2>3
            <3>3. \A bytes : Reference!Scalar("EXTENSION", bytes) = Scalar("EXTENSION", bytes)
                  BY DEF Reference!Scalar, Scalar
            <3>4. QED BY <1>2, <2>3, <3>1, <3>2, <3>3 DEF Says, all, one
      <2>4. CASE ~Reference!Has(input, s.pos, 1 + n)
            BY <1>2, <2>1, <2>2, <2>4 DEF Says, all, one
      <2>5. QED BY <2>3, <2>4
<1>6. QED BY <1>4, <1>5

---------------------------------------------------------------------
\* The value at a position, by its first byte.

\* The byte that dispatch looks up is the one where the stream is.
LEMMA FirstByteIs ==
    ASSUME IInv, Good(Rest)
    PROVE  /\ Good(is) /\ input \in Seq(Byte) /\ is \in Stream /\ is.pos \in 0..Len(input)
           /\ is.pos < Len(input)
           /\ Rest \in Stream /\ Rest.pos = is.pos + 1
           /\ FirstByte = input[is.pos + 1] /\ FirstByte \in Byte
<1>1. input \in Seq(Byte) /\ is \in Stream /\ Len(input) \in Nat
      BY InputBytes, LenProperties DEF IInv, TypeOK
<1>2. Rest \in Stream /\ Good(is) /\ Rest.pos = is.pos + 1
      BY <1>1, ConsumeProperties DEF Rest
<1>3. FirstByte \in Byte
      BY Entering
<1>4. is.pos \in 0..Len(input) /\ Rest.pos \in 0..Len(input)
      BY <1>1, <1>2 DEF Stream
<1>5. Read(is, 1) = [i \in 1..1 |-> input[is.pos + i]]
      BY DEF Read, Rest
<1>6. FirstByte = input[is.pos + 1]
      BY <1>5 DEF FirstByte
<1>7. QED BY <1>1, <1>2, <1>3, <1>4, <1>6

\* What a head says is at p.
HeadMeans(in, p, type, wide, plus, X) ==
    Reference!At(in, p, X) =
        IF ~Reference!Has(in, p + 1, wide) THEN Reference!Truncated(in)
        ELSE Reference!Content(in, p + 1 + wide,
                plus + (IF wide = 0 THEN 0 ELSE BigEndian(Reference!Slice(in, p + 1, wide))), type, X)

LEMMA HeadSays ==
    ASSUME NEW in \in Seq(Byte), NEW p \in 0..Len(in), p < Len(in), NEW X,
           NEW type, NEW wide \in Nat, NEW plus, Heads(in[p + 1], type, wide, plus)
    PROVE  HeadMeans(in, p, type, wide, plus, X)
<1> DEFINE h == Reference!Announces(in[p + 1])
<1>1. /\ in[p + 1] # 193 /\ in[p + 1] \notin Reference!SingleBytes
      /\ h = [type |-> type, wide |-> wide, plus |-> plus]
      BY DEF Heads
<1>2. ~(p >= Len(in))
      BY LenProperties
<1>3. Reference!At(in, p, X) =
         IF ~Reference!Has(in, p + 1, h.wide) THEN Reference!Truncated(in)
         ELSE Reference!Content(in, p + 1 + h.wide, Reference!Count(in, p + 1, h), h.type, X)
      BY <1>1, <1>2 DEF Reference!At
<1> HIDE DEF h
<1>4. h.type = type /\ h.wide = wide /\ h.plus = plus
      BY <1>1
<1>5. \A x : Reference!BigEndian(x) = BigEndian(x)
      BY DEF Reference!BigEndian, BigEndian
<1>6. Reference!Count(in, p + 1, h) =
         plus + (IF wide = 0 THEN 0 ELSE BigEndian(Reference!Slice(in, p + 1, wide)))
      BY <1>4, <1>5 DEF Reference!Count
<1>7. QED BY <1>3, <1>4, <1>6 DEF HeadMeans

\* A head without a length,
LEMMA ShortHeadSays ==
    ASSUME NEW in \in Seq(Byte), NEW p \in 0..Len(in), p < Len(in), NEW X,
           NEW type, NEW plus \in Nat, Heads(in[p + 1], type, 0, plus)
    PROVE  Reference!At(in, p, X) = Reference!Content(in, p + 1, plus, type, X)
<1>1. Reference!Has(in, p + 1, 0) /\ p + 1 + 0 = p + 1 /\ plus + 0 = plus
      BY LenProperties DEF Reference!Has
<1>2. HeadMeans(in, p, type, 0, plus, X)
      BY HeadSays
<1>3. QED BY <1>1, <1>2 DEF HeadMeans

\* and one with a length, which leaves the stream behind it.
LEMMA LongHeadSays ==
    ASSUME IInv, Good(Rest), T \in LengthTypes, NEW X,
           NEW type, NEW plus \in Nat, Heads(FirstByte, type, SizeOf[T], plus)
    PROVE  LET s == Consume(Rest, SizeOf[T]) IN
           /\ s \in Stream /\ Length(Rest, T) \in Nat
           /\ Reference!At(input, is.pos, X) =
                 IF Good(s) THEN Reference!Content(input, s.pos, plus + Length(Rest, T), type, X)
                 ELSE Failure(s)
<1> DEFINE n == SizeOf[T]
           s == Consume(Rest, n)
<1>1. /\ input \in Seq(Byte) /\ is.pos \in 0..Len(input) /\ is.pos < Len(input)
      /\ Rest \in Stream /\ Rest.pos = is.pos + 1 /\ FirstByte = input[is.pos + 1]
      BY FirstByteIs
<1>2. n \in Nat /\ n # 0 /\ Length(Rest, T) \in Nat
      BY <1>1, LengthIsNat DEF LengthTypes, SizeOf
<1>3. Length(Rest, T) = BigEndian(Read(Rest, n))
      BY DEF Length
<1> HIDE DEF n
<1>h. HeadMeans(input, is.pos, type, n, plus, X)
      BY <1>1, <1>2, HeadSays DEF n
<1>4. Reference!At(input, is.pos, X) =
         IF ~Reference!Has(input, is.pos + 1, n) THEN Reference!Truncated(input)
         ELSE Reference!Content(input, is.pos + 1 + n,
                 plus + (IF n = 0 THEN 0 ELSE BigEndian(Reference!Slice(input, is.pos + 1, n))), type, X)
      BY <1>h DEF HeadMeans
<1>5. IF Reference!Has(input, Rest.pos, n)
      THEN Good(s) /\ s \in Stream /\ s.pos = Rest.pos + n /\ Read(Rest, n) = Reference!Slice(input, Rest.pos, n)
      ELSE ~Good(s) /\ s \in Stream /\ Failure(s) = Reference!Truncated(input)
      BY <1>1, <1>2, ReadsOrRunsOut
<1> HIDE DEF s
<1>6. CASE Reference!Has(input, Rest.pos, n)
      BY <1>1, <1>2, <1>3, <1>4, <1>5, <1>6 DEF s, n
<1>7. CASE ~Reference!Has(input, Rest.pos, n)
      BY <1>1, <1>2, <1>4, <1>5, <1>7 DEF s, n
<1>8. QED BY <1>6, <1>7

---------------------------------------------------------------------
\* The handlers that read no container: each does what its first byte says.

\* This handler leaves a stream and returns a value that are right.
Right(X) == \E s \in Stream : \E v : Leaf(s, v) /\ Says(Reference!At(input, is.pos, X), s, v)

LEMMA NilSame == Reference!Nil = Nil
BY DEF Nil, Reference!Nil, Scalar, Reference!Scalar

\* A first byte that is a value.
LEMMA SingleRight ==
    ASSUME IInv, Good(Rest), NEW v, IsSingle(FirstByte, v), Leaf(Rest, v), NEW X
    PROVE  Right(X)
<1>1. /\ is.pos < Len(input) /\ is.pos \in Int /\ Len(input) \in Int /\ Rest \in Stream
      /\ Rest.pos = is.pos + 1 /\ FirstByte = input[is.pos + 1]
      BY FirstByteIs, LenProperties
<1>2. Reference!At(input, is.pos, X) = Reference!Got(v, is.pos + 1)
      BY <1>1 DEF IsSingle, Reference!At
<1>3. Says(Reference!At(input, is.pos, X), Rest, v)
      BY <1>1, <1>2 DEF Says
<1>4. QED BY <1>1, <1>3 DEF Right

LEMMA InvalidRight ==
    ASSUME IInv, ParseInvalid, NEW X
    PROVE  Right(X)
<1>1. Good(Rest) /\ parsers[FirstByte].parser = "invalid" /\ Leaf(SetFail(Rest), Nil)
      BY DEF ParseInvalid, Dispatch
<1>2. /\ is.pos < Len(input) /\ is.pos \in Int /\ Len(input) \in Int /\ Rest \in Stream
      /\ Rest.pos = is.pos + 1 /\ FirstByte = input[is.pos + 1] /\ FirstByte \in Byte
      BY <1>1, FirstByteIs, LenProperties
<1>3. FirstByte = 193
      BY <1>1, <1>2, DispatchTells DEF Tells
<1>4. Reference!At(input, is.pos, X) = Reference!Malformed(is.pos + 1)
      BY <1>2, <1>3 DEF Reference!At
<1>5. /\ SetFail(Rest) \in Stream /\ ~Good(SetFail(Rest)) /\ ~SetFail(Rest).eof
      /\ SetFail(Rest).pos = is.pos + 1
      BY <1>1, <1>2, SetFailProperties DEF Good
<1>6. Says(Reference!At(input, is.pos, X), SetFail(Rest), Nil)
      BY <1>4, <1>5, NilSame DEF Says, Failure, Reference!Malformed
<1>7. QED BY <1>1, <1>5, <1>6 DEF Right

\* A payload behind a first byte without a length, and behind a length.
LEMMA ShortPayloadRight ==
    ASSUME IInv, Good(Rest), NEW type, type # "ARRAY", type # "OBJECT", NEW n \in Nat,
           Heads(FirstByte, type, 0, n), Payload(Rest, n, type), NEW X
    PROVE  Right(X)
<1>1. /\ input \in Seq(Byte) /\ is.pos \in 0..Len(input) /\ is.pos < Len(input)
      /\ Rest \in Stream /\ Rest.pos = is.pos + 1 /\ FirstByte = input[is.pos + 1]
      BY FirstByteIs
<1>2. Reference!At(input, is.pos, X) = Reference!Content(input, Rest.pos, n, type, X)
      BY <1>1, ShortHeadSays
<1>3. Says(Reference!At(input, is.pos, X), Consume(Rest, n), Scalar(type, Read(Rest, n)))
      BY <1>1, <1>2, PayloadSays
<1>4. Consume(Rest, n) \in Stream
      BY <1>1, ConsumeProperties
<1>5. QED BY <1>3, <1>4 DEF Right, Payload

LEMMA LongPayloadRight ==
    ASSUME IInv, Good(Rest), NEW type, type # "ARRAY", type # "OBJECT", T \in LengthTypes,
           Heads(FirstByte, type, SizeOf[T], 0), Counted(type), NEW X
    PROVE  Right(X)
<1> DEFINE s == Consume(Rest, SizeOf[T])
           n == Length(Rest, T)
<1>1. input \in Seq(Byte) /\ s \in Stream /\ n \in Nat
      BY FirstByteIs, LongHeadSays
<1>2. Reference!At(input, is.pos, X) =
         IF Good(s) THEN Reference!Content(input, s.pos, 0 + n, type, X) ELSE Failure(s)
      BY LongHeadSays
<1>3. Payload(s, n, type)
      BY DEF Counted
<1> HIDE DEF s, n
<1>4. 0 + n = n
      BY <1>1
<1>5. Says(Reference!At(input, is.pos, X), Consume(s, n), Scalar(type, Read(s, n)))
      <2>1. CASE Good(s)
            BY <1>1, <1>2, <1>4, <2>1, PayloadSays
      <2>2. CASE ~Good(s)
            BY <1>1, <1>2, <2>2, BadStaysBad DEF Says
      <2>3. QED BY <2>1, <2>2
<1>6. Consume(s, n) \in Stream
      BY <1>1, ConsumeProperties
<1>7. QED BY <1>3, <1>5, <1>6 DEF Right, Payload

\* An extension, behind a first byte without a length and behind a length.
LEMMA ShortExtensionRight ==
    ASSUME IInv, Good(Rest), NEW n \in Nat, Heads(FirstByte, "EXTENSION", 0, 1 + n),
           Extension(Rest, n), NEW X
    PROVE  Right(X)
<1>1. /\ input \in Seq(Byte) /\ is.pos \in 0..Len(input) /\ is.pos < Len(input)
      /\ Rest \in Stream /\ Rest.pos = is.pos + 1 /\ FirstByte = input[is.pos + 1]
      BY FirstByteIs
<1>2. Reference!At(input, is.pos, X) = Reference!Content(input, Rest.pos, 1 + n, "EXTENSION", X)
      <2> DEFINE m == 1 + n
      <2>1. m \in Nat /\ Heads(FirstByte, "EXTENSION", 0, m)
            OBVIOUS
      <2> HIDE DEF m
      <2>2. Reference!At(input, is.pos, X) = Reference!Content(input, is.pos + 1, m, "EXTENSION", X)
            BY <1>1, <2>1, ShortHeadSays
      <2>3. QED BY <1>1, <2>2 DEF m
<1> DEFINE s == Consume(Consume(Rest, 1), n)
           v == Scalar("EXTENSION", Read(Rest, 1) \o Read(Consume(Rest, 1), n))
<1>3. Says(Reference!At(input, is.pos, X), s, v)
      BY <1>1, <1>2, ExtensionSays
<1>4. s \in Stream
      BY <1>1, ConsumeProperties
<1>5. QED BY <1>3, <1>4 DEF Right, Extension

LEMMA LongExtensionRight ==
    ASSUME IInv, Good(Rest), T \in LengthTypes, Heads(FirstByte, "EXTENSION", SizeOf[T], 1),
           Extension(Consume(Rest, SizeOf[T]), Length(Rest, T)), NEW X
    PROVE  Right(X)
<1> DEFINE s == Consume(Rest, SizeOf[T])
           n == Length(Rest, T)
<1>1. input \in Seq(Byte) /\ s \in Stream /\ n \in Nat
      BY FirstByteIs, LongHeadSays
<1>2. Reference!At(input, is.pos, X) =
         IF Good(s) THEN Reference!Content(input, s.pos, 1 + n, "EXTENSION", X) ELSE Failure(s)
      BY LongHeadSays
<1>3. Extension(s, n)
      OBVIOUS
<1> HIDE DEF s, n
<1> DEFINE t == Consume(Consume(s, 1), n)
           v == Scalar("EXTENSION", Read(s, 1) \o Read(Consume(s, 1), n))
<1>4. Consume(s, 1) \in Stream /\ t \in Stream
      BY <1>1, ConsumeProperties
<1>5. Says(Reference!At(input, is.pos, X), t, v)
      <2>1. CASE Good(s)
            BY <1>1, <1>2, <2>1, ExtensionSays
      <2>2. CASE ~Good(s)
            <3>1. ~Good(Consume(s, 1)) /\ Failure(Consume(s, 1)) = Failure(s)
                  BY <1>1, <2>2, BadStaysBad
            <3>2. ~Good(t) /\ Failure(t) = Failure(s)
                  BY <1>1, <1>4, <3>1, BadStaysBad
            <3> HIDE DEF t, v
            <3>3. QED BY <1>2, <2>2, <3>2 DEF Says
      <2>3. QED BY <2>1, <2>2
<1>6. QED BY <1>3, <1>4, <1>5 DEF Right, Extension

LEMMA LeafRight ==
    ASSUME IInv, NEW X,
           \/ ParseInvalid \/ ParseNil \/ ParseBool \/ ParsePosFixint \/ ParseNegFixint
           \/ ParseArith \/ ParseFixString \/ ParseString \/ ParseBinary
           \/ ParseFixExt \/ ParseExtension
    PROVE  Right(X)
<1>1. Good(Rest)
      BY DEF ParseInvalid, ParseNil, ParseBool, ParsePosFixint, ParseNegFixint, ParseArith,
         ParseFixString, ParseString, ParseBinary, ParseFixExt, ParseExtension, Dispatch
<1>2. FirstByte \in Byte /\ T = parsers[FirstByte].T
      BY <1>1, FirstByteIs DEF T
<1>3. Tells(FirstByte, parsers[FirstByte].parser, T)
      BY <1>2, DispatchTells
<1>4. CASE ParseInvalid
      BY <1>4, InvalidRight
<1>5. CASE ParseNil \/ ParseBool \/ ParsePosFixint \/ ParseNegFixint
      <2>1. CASE ParseNil
            BY <1>1, <1>3, <2>1, SingleRight DEF ParseNil, Dispatch, Tells
      <2>2. CASE ParseBool
            BY <1>1, <1>3, <2>2, SingleRight DEF ParseBool, Dispatch, Tells
      <2>3. CASE ParsePosFixint
            BY <1>1, <1>3, <2>3, SingleRight DEF ParsePosFixint, Dispatch, Tells
      <2>4. CASE ParseNegFixint
            BY <1>1, <1>3, <2>4, SingleRight DEF ParseNegFixint, Dispatch, Tells
      <2>5. QED BY <1>5, <2>1, <2>2, <2>3, <2>4
<1>6. CASE ParseArith
      <2>1. T \in DOMAIN SizeOf /\ Heads(FirstByte, T, 0, SizeOf[T]) /\ Payload(Rest, SizeOf[T], T)
            BY <1>3, <1>6 DEF ParseArith, Dispatch, Tells, Payload
      <2>2. T # "ARRAY" /\ T # "OBJECT" /\ SizeOf[T] \in Nat
            BY <2>1, SizeIsNat DEF SizeOf
      <2>3. QED BY <1>1, <2>1, <2>2, ShortPayloadRight
<1>7. CASE ParseFixString
      <2>1. /\ Heads(FirstByte, "STRING", 0, FirstByte % 32)
            /\ Payload(Rest, FirstByte % 32, "STRING")
            BY <1>3, <1>7 DEF ParseFixString, Dispatch, Tells
      <2>2. FirstByte % 32 \in Nat
            BY <1>2 DEF Byte
      <2>3. QED BY <1>1, <2>1, <2>2, ShortPayloadRight
<1>8. CASE ParseString
      <2>1. /\ T \in LengthTypes /\ Heads(FirstByte, "STRING", SizeOf[T], 0)
            /\ Counted("STRING")
            BY <1>3, <1>8 DEF ParseString, Dispatch, Tells
      <2>2. QED BY <1>1, <2>1, LongPayloadRight
<1>9. CASE ParseBinary
      <2>1. /\ T \in LengthTypes /\ Heads(FirstByte, "BINARY", SizeOf[T], 0)
            /\ Counted("BINARY")
            BY <1>3, <1>9 DEF ParseBinary, Dispatch, Tells
      <2>2. QED BY <1>1, <2>1, LongPayloadRight
<1>10. CASE ParseFixExt
      <2> DEFINE n == <<1, 2, 4, 8, 16>>[FirstByte - 211]
      <2>1. FirstByte \in 212..216 /\ Heads(FirstByte, "EXTENSION", 0, 1 + n) /\ Extension(Rest, n)
            BY <1>3, <1>10 DEF ParseFixExt, Dispatch, Tells
      <2>2. n \in Nat
            BY <2>1
      <2> HIDE DEF n
      <2>3. QED BY <1>1, <2>1, <2>2, ShortExtensionRight
<1>11. CASE ParseExtension
      <2>1. /\ T \in LengthTypes /\ Heads(FirstByte, "EXTENSION", SizeOf[T], 1)
            /\ Extension(Consume(Rest, SizeOf[T]), Length(Rest, T))
            BY <1>3, <1>11 DEF ParseExtension, Dispatch, Tells
      <2>2. QED BY <1>1, <2>1, LongExtensionRight
<1>12. QED BY <1>4, <1>5, <1>6, <1>7, <1>8, <1>9, <1>10, <1>11

---------------------------------------------------------------------
\* The containers.

HeadAt(in, q) == Reference!Announces(in[q + 1])

\* Where what a container at q holds begins, and how many elements or members it has.
From(in, q) == q + 1 + HeadAt(in, q).wide
Total(in, q) == Reference!Count(in, q + 1, HeadAt(in, q))

\* A container of this type is at q.
Opens(in, q, type) ==
    /\ q < Len(in) /\ in[q + 1] # 193 /\ in[q + 1] \notin Reference!SingleBytes
    /\ HeadAt(in, q).type = type
    /\ Reference!Has(in, q + 1, HeadAt(in, q).wide)
    /\ Total(in, q) \in Nat
    /\ type = "OBJECT" => in[q + 1] \in Reference!ObjectBytes

LEMMA OpensSays ==
    ASSUME NEW in \in Seq(Byte), NEW q \in 0..Len(in), NEW type, Opens(in, q, type), NEW X
    PROVE  Reference!At(in, q, X) = Reference!Content(in, From(in, q), Total(in, q), type, X)
<1>1. ~(q >= Len(in))
      BY LenProperties DEF Opens
<1>2. QED BY <1>1 DEF Opens, HeadAt, From, Total, Reference!At

Holder(at) == IF at = "item" THEN "ARRAY" ELSE "OBJECT"

\* This handler enters the container at is.pos, or fails as it must.
EntersRight ==
    \E at \in {"item", "key"}, s \in Stream, n \in Nat :
        /\ Open(at, s, n)
        /\ IF Good(s)
           THEN /\ Opens(input, is.pos, Holder(at))
                /\ s.pos = From(input, is.pos) /\ n = Total(input, is.pos)
           ELSE \A X : Reference!At(input, is.pos, X) = Failure(s)

LEMMA ShortContainerRight ==
    ASSUME IInv, Good(Rest), NEW at \in {"item", "key"}, NEW n \in Nat,
           Heads(FirstByte, Holder(at), 0, n), Open(at, Rest, n),
           at = "key" => FirstByte \in Reference!ObjectBytes
    PROVE  EntersRight
<1>1. /\ input \in Seq(Byte) /\ is.pos \in 0..Len(input) /\ is.pos < Len(input)
      /\ Rest \in Stream /\ Rest.pos = is.pos + 1 /\ FirstByte = input[is.pos + 1]
      BY FirstByteIs
<1>2. /\ FirstByte # 193 /\ FirstByte \notin Reference!SingleBytes
      /\ HeadAt(input, is.pos) = [type |-> Holder(at), wide |-> 0, plus |-> n]
      BY <1>1 DEF Heads, HeadAt
<1>3. From(input, is.pos) = Rest.pos /\ Total(input, is.pos) = n
      BY <1>1, <1>2 DEF From, Total, Reference!Count
<1>4. Reference!Has(input, is.pos + 1, 0)
      BY <1>1, LenProperties DEF Reference!Has
<1>5. Opens(input, is.pos, Holder(at))
      BY <1>1, <1>2, <1>3, <1>4 DEF Opens, Holder
<1>6. QED BY <1>1, <1>3, <1>5 DEF EntersRight

LEMMA LongContainerRight ==
    ASSUME IInv, Good(Rest), NEW at \in {"item", "key"}, T \in LengthTypes,
           Heads(FirstByte, Holder(at), SizeOf[T], 0),
           Open(at, Consume(Rest, SizeOf[T]), Length(Rest, T)),
           at = "key" => FirstByte \in Reference!ObjectBytes
    PROVE  EntersRight
<1> DEFINE w == SizeOf[T]
           s == Consume(Rest, w)
           n == Length(Rest, T)
<1>1. /\ input \in Seq(Byte) /\ is.pos \in 0..Len(input) /\ is.pos < Len(input)
      /\ Rest \in Stream /\ Rest.pos = is.pos + 1 /\ FirstByte = input[is.pos + 1]
      BY FirstByteIs
<1>2. s \in Stream /\ n \in Nat /\ w \in Nat /\ w # 0 /\ n = BigEndian(Read(Rest, w))
      <2>1. s \in Stream /\ n \in Nat
            BY LongHeadSays
      <2>2. w \in Nat /\ w # 0
            BY DEF SizeOf, LengthTypes
      <2>3. QED BY <2>1, <2>2 DEF Length
<1>3. ASSUME ~Good(s), NEW X PROVE Reference!At(input, is.pos, X) = Failure(s)
      <2>1. Reference!At(input, is.pos, X) =
               IF Good(s) THEN Reference!Content(input, s.pos, 0 + Length(Rest, T), Holder(at), X)
               ELSE Failure(s)
            BY LongHeadSays
      <2>2. QED BY <1>3, <2>1
<1>4. Open(at, s, n)
      OBVIOUS
<1>5. Heads(FirstByte, Holder(at), w, 0)
      OBVIOUS
<1> HIDE DEF n
<1>6. IF Reference!Has(input, Rest.pos, w)
      THEN Good(s) /\ s \in Stream /\ s.pos = Rest.pos + w /\ Read(Rest, w) = Reference!Slice(input, Rest.pos, w)
      ELSE ~Good(s) /\ s \in Stream /\ Failure(s) = Reference!Truncated(input)
      <2> HIDE DEF w
      <2>1. QED BY <1>1, <1>2, ReadsOrRunsOut
<1> HIDE DEF w, s
<1>7. /\ FirstByte # 193 /\ FirstByte \notin Reference!SingleBytes
      /\ HeadAt(input, is.pos) = [type |-> Holder(at), wide |-> w, plus |-> 0]
      BY <1>1, <1>5 DEF Heads, HeadAt
<1>8. CASE Good(s)
      <2>1. /\ Reference!Has(input, is.pos + 1, w) /\ s.pos = is.pos + 1 + w
            /\ Read(Rest, w) = Reference!Slice(input, is.pos + 1, w)
            BY <1>1, <1>6, <1>8
      <2>2. \A x : Reference!BigEndian(x) = BigEndian(x)
            BY DEF Reference!BigEndian, BigEndian
      <2>3. From(input, is.pos) = s.pos
            BY <1>7, <2>1 DEF From
      <2>4. Total(input, is.pos) = n
            <3>1. Total(input, is.pos) = 0 + BigEndian(Reference!Slice(input, is.pos + 1, w))
                  BY <1>2, <1>7, <2>2 DEF Total, Reference!Count
            <3>2. n = BigEndian(Reference!Slice(input, is.pos + 1, w))
                  BY <1>2, <2>1
            <3>3. QED BY <1>2, <3>1, <3>2
      <2>5. Opens(input, is.pos, Holder(at))
            BY <1>1, <1>2, <1>7, <2>1, <2>4 DEF Opens, Holder
      <2>6. QED BY <1>2, <1>4, <1>8, <2>3, <2>4, <2>5 DEF EntersRight
<1>9. CASE ~Good(s)
      BY <1>2, <1>3, <1>4, <1>9 DEF EntersRight
<1>10. QED BY <1>8, <1>9

LEMMA ContainerRight ==
    ASSUME IInv, ParseFixArray \/ ParseFixObject \/ ParseArray \/ ParseObject
    PROVE  EntersRight
<1>1. Good(Rest)
      BY DEF ParseFixArray, ParseFixObject, ParseArray, ParseObject, Dispatch
<1>2. FirstByte \in Byte /\ T = parsers[FirstByte].T
      BY <1>1, FirstByteIs DEF T
<1>3. Tells(FirstByte, parsers[FirstByte].parser, T)
      BY <1>2, DispatchTells
<1>4. FirstByte % 16 \in Nat
      BY <1>2 DEF Byte
<1>5. CASE ParseFixArray
      <2>1. Heads(FirstByte, Holder("item"), 0, FirstByte % 16) /\ Open("item", Rest, FirstByte % 16)
            BY <1>3, <1>5 DEF ParseFixArray, Dispatch, Tells, Holder
      <2>2. QED BY <1>1, <1>4, <2>1, ShortContainerRight
<1>6. CASE ParseFixObject
      <2>1. /\ Heads(FirstByte, Holder("key"), 0, FirstByte % 16) /\ Open("key", Rest, FirstByte % 16)
            /\ FirstByte \in Reference!ObjectBytes
            BY <1>3, <1>6 DEF ParseFixObject, Dispatch, Tells, Holder
      <2>2. QED BY <1>1, <1>4, <2>1, ShortContainerRight
<1>7. CASE ParseArray
      <2>1. /\ T \in LengthTypes /\ Heads(FirstByte, Holder("item"), SizeOf[T], 0)
            /\ Open("item", Consume(Rest, SizeOf[T]), Length(Rest, T))
            BY <1>3, <1>7 DEF ParseArray, Dispatch, Tells, Holder
      <2>2. QED BY <1>1, <2>1, LongContainerRight
<1>8. CASE ParseObject
      <2>1. /\ T \in LengthTypes /\ Heads(FirstByte, Holder("key"), SizeOf[T], 0)
            /\ Open("key", Consume(Rest, SizeOf[T]), Length(Rest, T))
            /\ FirstByte \in Reference!ObjectBytes
            BY <1>3, <1>8 DEF ParseObject, Dispatch, Tells, Holder
      <2>2. QED BY <1>1, <2>1, LongContainerRight
<1>9. QED BY <1>5, <1>6, <1>7, <1>8

---------------------------------------------------------------------
\* The loops.

\* How many values the loop of a frame has read, of a container at q, and their outcome.
ReadSoFar(in, q, f) ==
    IF f.at = "item" THEN Total(in, q) - f.left ELSE 2 * (Total(in, q) - f.left)
HasRead(in, d, q, f) == Run(in, d, From(in, q), ReadSoFar(in, q, f))

\* The frame f of a container at q, with what it holds inside d containers, has
\* gathered in b what Decode finds there, and goes on at r.
Matches(in, d, q, f, b, r) ==
    /\ Opens(in, q, Holder(f.at))
    /\ f.left <= Total(in, q)
    /\ HasRead(in, d, q, f).kind = "value"
    /\ IF f.at = "item" THEN b.items = HasRead(in, d, q, f).value
       ELSE Reference!Ordered(HasRead(in, d, q, f).value) =>
                Made(b, HasRead(in, d, q, f).value)
    /\ IF f.at = "value" THEN Table(in, d)[HasRead(in, d, q, f).next] = Reference!Got(b.key, r)
       ELSE HasRead(in, d, q, f).next = r

\* What is at q, by what it holds.
LEMMA AroundOpens ==
    ASSUME NEW in \in Seq(Byte), NEW d \in 0..MaxDepth, NEW e, e = d + 1, NEW q \in 0..Len(in),
           NEW type, Opens(in, q, type)
    PROVE  /\ type = "ARRAY" =>
                 Table(in, d)[q] = Reference!Whole(type, Run(in, e, From(in, q), Total(in, q)))
           /\ type = "OBJECT" =>
                 Table(in, d)[q] = Reference!Whole(type, Run(in, e, From(in, q), 2 * Total(in, q)))
<1>1. Table(in, d)[q] = Reference!At(in, q, Table(in, e))
      BY TableAround
<1>2. Table(in, d)[q] = Reference!Content(in, From(in, q), Total(in, q), type, Table(in, e))
      BY <1>1, OpensSays
<1>3. QED BY <1>2 DEF Reference!Content, Run

\* Where a loop reads an error its container is that error.
LEMMA FrameFails ==
    ASSUME NEW in \in Seq(Byte), NEW d \in 0..MaxDepth, NEW e, e = d + 1, NEW q \in 0..Len(in),
           NEW f \in Frame, f.left > 0, NEW b, NEW r, Matches(in, e, q, f, b, r),
           NEW E, E.kind # "value", Table(in, e)[r] = E
    PROVE  Table(in, d)[q] = E
<1> DEFINE p == From(in, q)
           m == Total(in, q)
           n == m - f.left
<1>1. Opens(in, q, Holder(f.at)) /\ m \in Nat /\ f.left \in Nat /\ n \in Nat /\ n + 1 <= m
      BY DEF Matches, Opens, Frame
<1>2. \A type : Reference!Whole(type, E) = E
      BY DEF Reference!Whole
<1> HIDE DEF p, m, n
<1>3. CASE f.at = "item"
      <2>1. Run(in, e, p, n).kind = "value" /\ Run(in, e, p, n).next = r
            BY <1>3 DEF Matches, HasRead, ReadSoFar, p, m, n
      <2>2. Run(in, e, p, m) = E
            BY <1>1, <2>1, ErrorStays
      <2>3. Table(in, d)[q] = Reference!Whole("ARRAY", Run(in, e, p, m))
            BY <1>1, <1>3, AroundOpens DEF Holder, p, m
      <2>4. QED BY <1>2, <2>2, <2>3
<1>4. CASE f.at # "item"
      <2> DEFINE k == 2 * n
                 l == 2 * m
      <2>1. k \in Nat /\ l \in Nat /\ k + 1 \in Nat /\ (k + 1) + 1 <= l /\ k + 1 <= l
            BY <1>1
      <2>2. Table(in, d)[q] = Reference!Whole("OBJECT", Run(in, e, p, l))
            BY <1>1, <1>4, AroundOpens DEF Holder, p, m
      <2>3. Run(in, e, p, k).kind = "value"
            BY <1>4 DEF Matches, HasRead, ReadSoFar, p, m, n
      <2>4. CASE f.at = "key"
            <3>1. Run(in, e, p, k).next = r
                  BY <2>4 DEF Matches, HasRead, ReadSoFar, p, m, n
            <3> HIDE DEF k, l
            <3>2. Run(in, e, p, l) = E
                  BY <2>1, <2>3, <3>1, ErrorStays
            <3>3. QED BY <1>2, <2>2, <3>2
      <2>5. CASE f.at = "value"
            <3>1. Table(in, e)[Run(in, e, p, k).next] = Reference!Got(b.key, r)
                  BY <2>5 DEF Matches, HasRead, ReadSoFar, p, m, n
            <3> HIDE DEF k, l
            <3>2. Table(in, e)[Run(in, e, p, k).next].next = r
                  BY <3>1 DEF Reference!Got
            <3>3. Run(in, e, p, k + 1) = Reference!Got(Append(Run(in, e, p, k).value, b.key), r)
                  <4>1. PICK s : s = Run(in, e, p, k).next
                        OBVIOUS
                  <4>2. Table(in, e)[s] = Reference!Got(b.key, Table(in, e)[s].next)
                        BY <3>1, <3>2, <4>1
                  <4>3. Run(in, e, p, k + 1) =
                           Reference!Got(Append(Run(in, e, p, k).value, b.key), Table(in, e)[s].next)
                        BY <2>1, <2>3, <4>1, <4>2, RunGoesOn
                  <4>4. QED BY <3>2, <4>1, <4>3
            <3>4. Run(in, e, p, k + 1).kind = "value" /\ Run(in, e, p, k + 1).next = r
                  BY <3>3 DEF Reference!Got
            <3>5. Run(in, e, p, l) = E
                  BY <2>1, <3>4, ErrorStays
            <3>6. QED BY <1>2, <2>2, <3>5
      <2>6. QED BY <1>4, <2>4, <2>5 DEF Frame
<1>5. QED BY <1>3, <1>4

\* A loop that is over has read its container.
LEMMA ArrayReturns ==
    ASSUME NEW in \in Seq(Byte), NEW d \in 0..MaxDepth, NEW e, e = d + 1, NEW q \in 0..Len(in),
           NEW f, f.at = "item", f.left = 0, NEW b, NEW r, Matches(in, e, q, f, b, r)
    PROVE  Table(in, d)[q] = Reference!Got(Array(b.items), r)
<1> DEFINE R == Run(in, e, From(in, q), Total(in, q))
<1>1. Opens(in, q, "ARRAY") /\ Total(in, q) - 0 = Total(in, q)
      BY DEF Matches, Opens, Holder
<1>2. R.kind = "value" /\ R.value = b.items /\ R.next = r
      BY <1>1 DEF Matches, HasRead, ReadSoFar
<1>3. Table(in, d)[q] = Reference!Whole("ARRAY", R)
      BY <1>1, AroundOpens
<1> HIDE DEF R
<1>4. QED BY <1>2, <1>3 DEF Reference!Whole, Reference!Make, Reference!Array, Array

LEMMA ObjectReturns ==
    ASSUME NEW in \in Seq(Byte), NEW d \in 0..MaxDepth, NEW e, e = d + 1, NEW q \in 0..Len(in),
           Reference!KeysOrdered(in),
           NEW f, f.at = "key", f.left = 0, NEW b, NEW r, Matches(in, e, q, f, b, r)
    PROVE  Table(in, d)[q] = Reference!Got(Object(b.keys, b.items), r)
<1> DEFINE n == 2 * Total(in, q)
           R == Run(in, e, From(in, q), n)
<1>1. /\ Opens(in, q, "OBJECT") /\ Total(in, q) - 0 = Total(in, q) /\ n \in Nat
      /\ in[q + 1] \in Reference!ObjectBytes /\ q \in 0..(Len(in) - 1)
      /\ Reference!Has(in, q + 1, HeadAt(in, q).wide)
      <2>1. Opens(in, q, "OBJECT")
            BY DEF Matches, Holder
      <2>2. q \in 0..(Len(in) - 1)
            BY <2>1, LenProperties DEF Opens
      <2>3. QED BY <2>1, <2>2 DEF Opens
<1>2. /\ R.kind = "value" /\ R.next = r
      /\ Reference!Ordered(R.value) => Made(b, R.value)
      BY <1>1 DEF Matches, HasRead, ReadSoFar
<1>3. Table(in, d)[q] = Reference!Whole("OBJECT", R)
      BY <1>1, AroundOpens
<1>4. Reference!Ordered(R.value)
      <2> DEFINE h == Reference!Announces(in[q + 1])
                 members == Reference!Values(Reference!Outcomes(in, d + 1), q + 1 + h.wide,
                                             2 * Reference!Count(in, q + 1, h))
      <2>1. in[q + 1] \in Reference!ObjectBytes /\ Reference!Has(in, q + 1, h.wide) =>
               (members.kind = "value" => Reference!Ordered(members.value))
            BY <1>1 DEF Reference!KeysOrdered
      <2>2. members = R
            BY DEF Run, Table, From, Total, HeadAt
      <2>3. h = HeadAt(in, q)
            BY DEF HeadAt
      <2> HIDE DEF members, R, h
      <2>4. QED BY <1>1, <1>2, <2>1, <2>2, <2>3
<1>5. Len(R.value) \in Nat
      <2> HIDE DEF n
      <2>1. Len(R.value) = n
            BY <1>1, <1>2, RunValues
      <2>2. QED BY <1>1, <2>1
<1> HIDE DEF R
<1>6. Reference!MakeObject(R.value) = Object(b.keys, b.items)
      BY <1>2, <1>4, <1>5, MadeWhole
<1>7. QED BY <1>2, <1>3, <1>6 DEF Reference!Whole, Reference!Make

\* One value more is read, and a key and a mapped value, one after the other.
LEMMA RunOne ==
    ASSUME NEW in, NEW d, NEW p, NEW n \in Nat, NEW all, NEW q, Reads(in, d, p, n, all, q),
           NEW v, NEW r, Table(in, d)[q] = Reference!Got(v, r)
    PROVE  Reads(in, d, p, n + 1, Append(all, v), r)
<1>1. Table(in, d)[q].next = r /\ Table(in, d)[q].kind = "value"
      BY DEF Reference!Got
<1>2. Run(in, d, p, n).kind = "value" /\ Run(in, d, p, n).next = q
      BY DEF Reads
<1>3. Run(in, d, p, n + 1) = Reference!Got(Append(Run(in, d, p, n).value, v), r)
      BY <1>1, <1>2, RunGoesOn
<1>4. Run(in, d, p, n).value = all
      BY DEF Reads
<1>5. QED BY <1>3, <1>4 DEF Reads, Reference!Got

LEMMA RunMember ==
    ASSUME NEW in, NEW d, NEW p, NEW n \in Nat, NEW all, NEW q, Reads(in, d, p, n, all, q),
           NEW k, NEW r, Table(in, d)[q] = Reference!Got(k, r),
           NEW v, NEW r2, Table(in, d)[r] = Reference!Got(v, r2)
    PROVE  Reads(in, d, p, (n + 1) + 1, Longer(all, k, v), r2)
<1>1. Reads(in, d, p, n + 1, Append(all, k), r)
      BY RunOne
<1> DEFINE m == n + 1
           more == Append(all, k)
<1>2. m \in Nat /\ Reads(in, d, p, m, more, r)
      BY <1>1
<1> HIDE DEF m, more
<1>3. Reads(in, d, p, m + 1, Append(more, v), r2)
      BY <1>2, RunOne
<1>4. QED BY <1>3 DEF Longer, m, more

\* One turn of a loop: the value at r is one more of an array,
LEMMA ItemMore ==
    ASSUME NEW in, NEW e, NEW q, NEW f \in Frame, f.at = "item", f.left > 0, NEW b, NEW r,
           Matches(in, e, q, f, b, r),
           NEW v, NEW r2, Table(in, e)[r] = Reference!Got(v, r2),
           NEW f2, f2.at = "item", f2.left = f.left - 1, NEW b2, b2.items = Append(b.items, v)
    PROVE  Matches(in, e, q, f2, b2, r2)
<1> DEFINE p == From(in, q)
           m == Total(in, q)
           n == m - f.left
<1>1. Opens(in, q, "ARRAY") /\ m \in Nat /\ f.left \in Nat /\ f.left <= m
      BY DEF Matches, Opens, Frame, Holder
<1>2. n \in Nat /\ m - (f.left - 1) = n + 1 /\ f.left - 1 <= m
      BY <1>1
<1>3. Run(in, e, p, n).kind = "value" /\ Run(in, e, p, n).next = r /\ Run(in, e, p, n).value = b.items
      BY DEF Matches, HasRead, ReadSoFar
<1>5. HasRead(in, e, q, f2) = Run(in, e, p, n + 1)
      BY <1>2 DEF HasRead, ReadSoFar
<1> HIDE DEF p, m, n
<1>6. Reads(in, e, p, n + 1, Append(b.items, v), r2)
      BY <1>2, <1>3, RunOne DEF Reads
<1>7. /\ HasRead(in, e, q, f2).kind = "value" /\ HasRead(in, e, q, f2).next = r2
      /\ HasRead(in, e, q, f2).value = b2.items
      BY <1>5, <1>6 DEF Reads
<1>8. Opens(in, q, Holder(f2.at)) /\ f2.left <= Total(in, q)
      BY <1>1, <1>2 DEF Holder, m
<1>9. QED BY <1>7, <1>8 DEF Matches

\* or the key of a member,
LEMMA KeyMore ==
    ASSUME NEW in, NEW e, NEW q, NEW f \in Frame, f.at = "key", NEW b, NEW r,
           Matches(in, e, q, f, b, r),
           NEW v, NEW r2, Table(in, e)[r] = Reference!Got(v, r2),
           NEW f2, f2.at = "value", f2.left = f.left,
           NEW b2, b2.key = v, b2.items = b.items, b2.keys = b.keys
    PROVE  Matches(in, e, q, f2, b2, r2)
<1>1. HasRead(in, e, q, f2) = HasRead(in, e, q, f) /\ Holder(f2.at) = Holder(f.at)
      BY DEF HasRead, ReadSoFar, Holder
<1>2. \A ms : Made(b, ms) => Made(b2, ms)
      BY DEF Made, Holds
<1>3. HasRead(in, e, q, f).next = r
      BY DEF Matches
<1>4. QED BY <1>1, <1>2, <1>3 DEF Matches

LEMMA TwoMore ==
    \A m, left \in Nat :
        left <= m => /\ m - left \in Nat /\ 2 * (m - left) \in Nat /\ 2 * (m - left) + 1 \in Nat
                     /\ 2 * (m - (left - 1)) = (2 * (m - left) + 1) + 1
                     /\ left - 1 <= m
OBVIOUS

\* or its mapped value, with which the member goes into the std::map.
LEMMA ValueMore ==
    ASSUME NEW in, NEW e, NEW q, NEW f \in Frame, f.at = "value", f.left > 0,
           NEW V, NEW b \in Gathered(V), NEW r, Matches(in, e, q, f, b, r),
           NEW v \in V, NEW r2, Table(in, e)[r] = Reference!Got(v, r2),
           NEW k \in 0..Len(b.keys), Ends(b.keys, b.key, k),
           NEW f2, f2.at = "key", f2.left = f.left - 1
    PROVE  Matches(in, e, q, f2, Insert(b, k, v), r2)
<1> DEFINE p == From(in, q)
           m == Total(in, q)
           n == m - f.left
           l == 2 * n
           ms == Run(in, e, p, l).value
<1>1. Opens(in, q, "OBJECT") /\ m \in Nat /\ f.left \in Nat /\ f.left <= m
      BY DEF Matches, Opens, Frame, Holder
<1>2. /\ n \in Nat /\ l \in Nat /\ l + 1 \in Nat /\ 2 * (m - (f.left - 1)) = (l + 1) + 1
      /\ f.left - 1 <= m
      BY <1>1, TwoMore, Zenon
<1>3. /\ Run(in, e, p, l).kind = "value"
      /\ Table(in, e)[Run(in, e, p, l).next] = Reference!Got(b.key, r)
      /\ Reference!Ordered(ms) => Made(b, ms)
      BY DEF Matches, HasRead, ReadSoFar
<1>4. HasRead(in, e, q, f2) = Run(in, e, p, (l + 1) + 1)
      BY <1>2 DEF HasRead, ReadSoFar
<1> HIDE DEF p, m
<1>5. ms \in Seq(ValuesAt(in, e, p)) /\ InPairs(ms, n)
      <2>1. ms \in Seq(ValuesAt(in, e, p)) /\ Len(ms) = l
            BY <1>2, <1>3, RunValues
      <2>2. QED BY <2>1 DEF InPairs
<1> HIDE DEF l, n
<1>6. Reads(in, e, p, l, ms, Run(in, e, p, l).next)
      BY <1>3 DEF Reads, ms
<1>7. Reads(in, e, p, (l + 1) + 1, Longer(ms, b.key, v), r2)
      <2> HIDE DEF ms
      <2>1. QED BY <1>2, <1>3, <1>6, RunMember
<1> HIDE DEF ms
<1>8. /\ HasRead(in, e, q, f2).kind = "value" /\ HasRead(in, e, q, f2).next = r2
      /\ HasRead(in, e, q, f2).value = Longer(ms, b.key, v)
      BY <1>4, <1>7 DEF Reads
<1>9. ASSUME Reference!Ordered(Longer(ms, b.key, v))
      PROVE  Made(Insert(b, k, v), Longer(ms, b.key, v))
      <2>w. PICK W : W = V \union ValuesAt(in, e, p)
            OBVIOUS
      <2>1. ms \in Seq(W) /\ v \in W /\ Seq(V) \subseteq Seq(W)
            BY <2>w, <1>5, SeqMonotonic
      <2>2. b \in Gathered(W) /\ b.key \in W
            BY <2>w, <2>1 DEF Gathered
      <2>3. Reference!Ordered(ms)
            BY <1>2, <1>5, <1>9, <2>1, <2>2, OrderedBefore
      <2>4. Made(b, ms)
            BY <1>3, <2>3 DEF ms
      <2>5. QED BY <1>2, <1>5, <1>9, <2>1, <2>2, <2>4, MadeMore
<1>10. Opens(in, q, Holder(f2.at)) /\ f2.left <= Total(in, q)
      BY <1>1, <1>2 DEF Holder, m
<1>11. QED BY <1>8, <1>9, <1>10 DEF Matches

\* A loop that begins has read nothing.
LEMMA NothingYet ==
    ASSUME NEW in, NEW e, NEW q, NEW at \in {"item", "key"}, Opens(in, q, Holder(at))
    PROVE  Matches(in, e, q, [at |-> at, left |-> Total(in, q)],
                   [items |-> <<>>, keys |-> <<>>, key |-> Nil], From(in, q))
<1> DEFINE f == [at |-> at, left |-> Total(in, q)]
           b == [items |-> <<>>, keys |-> <<>>, key |-> Nil]
<1>1. Total(in, q) \in Nat
      BY DEF Opens
<1>2. Total(in, q) - Total(in, q) = 0 /\ 2 * 0 = 0 /\ Total(in, q) <= Total(in, q)
      BY <1>1
<1>3. f.at = at /\ f.left = Total(in, q) /\ b.items = <<>> /\ b.keys = <<>>
      OBVIOUS
<1> HIDE DEF f, b
<1>4. HasRead(in, e, q, f) = Run(in, e, From(in, q), 0)
      BY <1>2, <1>3 DEF HasRead, ReadSoFar
<1>5. HasRead(in, e, q, f) = Reference!Got(<<>>, From(in, q))
      BY <1>4, RunStart
<1>6. /\ HasRead(in, e, q, f).kind = "value" /\ HasRead(in, e, q, f).value = <<>>
      /\ HasRead(in, e, q, f).next = From(in, q)
      BY <1>5 DEF Reference!Got
<1>7. Made(b, <<>>)
      BY <1>3, MadeNothing
<1>8. Matches(in, e, q, f, b, From(in, q))
      BY <1>2, <1>3, <1>6, <1>7 DEF Matches
<1>9. QED BY <1>8 DEF f, b

---------------------------------------------------------------------
\* The frames, one around the other.

\* q[1] is where the outermost of n containers begins, q[i] where the i-th one does,
\* and q[n + 1] where the innermost of them goes on.
Chain(in, n, frames, gathered, q) ==
    /\ q \in [1..(n + 1) -> 0..Len(in)]
    /\ \A i \in 1..n : Matches(in, i, q[i], frames[i], gathered[i], q[i + 1])

Trail(q) ==
    /\ Chain(input, depth, stack, built, q)
    /\ q[1] = began.is.pos
    /\ IF pc = "return" THEN Table(input, depth)[q[depth + 1]] = Reference!Got(ret, is.pos)
       ELSE q[depth + 1] = is.pos

\* The current call is reading the value at which it began, or has found the error
\* there: what is left of it cannot change the outcome any more.
OnTrack ==
    IF Good(is) THEN \E q : Trail(q)
    ELSE Table(input, 0)[began.is.pos] = Failure(is)

LEMMA Bounds ==
    ASSUME IInv
    PROVE  /\ depth \in Nat /\ depth <= MaxDepth + 1 /\ Len(stack) = depth
           /\ \A i \in 1..depth : stack[i] \in Frame
           /\ input \in Seq(Byte) /\ Len(input) \in Nat /\ is \in Stream /\ is.pos \in 0..Len(input)
           /\ MaxDepth \in Nat
<1>1. stack \in Seq(Frame) /\ Len(stack) \in Nat /\ is \in Stream
      BY LenProperties DEF IInv, TypeOK
<1>2. input \in Seq(Byte) /\ Len(input) \in Nat
      BY InputBytes, LenProperties
<1>3. \A i \in 1..Len(stack) : stack[i] \in Frame
      BY <1>1, ElementOfSeq
<1>4. depth <= MaxDepth + 1
      BY DEF IInv, RecursionBounded
<1>5. is.pos \in 0..Len(input)
      BY <1>1 DEF Stream
<1>6. QED BY <1>1, <1>2, <1>3, <1>4, <1>5, MaxDepthAssumption DEF depth

\* An error in the innermost loop is one of all of them: each has a turn left that
\* it is an error of.
LEMMA ErrorUnwinds ==
    ASSUME IInv, \A i \in 1..depth : stack[i].left > 0,
           NEW q, Chain(input, depth, stack, built, q),
           NEW E, E.kind # "value", Table(input, depth)[q[depth + 1]] = E
    PROVE  Table(input, 0)[q[1]] = E
<1>1. PICK D : D = depth
      OBVIOUS
<1>2. /\ D \in Nat /\ D <= MaxDepth + 1 /\ MaxDepth \in Nat /\ input \in Seq(Byte)
      /\ \A i \in 1..D : stack[i] \in Frame /\ stack[i].left > 0
      BY <1>1, Bounds
<1>3. /\ q \in [1..(D + 1) -> 0..Len(input)]
      /\ \A i \in 1..D : Matches(input, i, q[i], stack[i], built[i], q[i + 1])
      /\ Table(input, D)[q[D + 1]] = E
      BY <1>1 DEF Chain
<1> DEFINE P(n) == n <= D => Table(input, D - n)[q[(D - n) + 1]] = E
           S == {n \in Nat : P(n)}
<1>4. P(0)
      <2>1. D - 0 = D
            BY <1>2
      <2>2. QED BY <1>3, <2>1
<1>5. ASSUME NEW n \in Nat, P(n) PROVE P(n + 1)
      <2>1. SUFFICES ASSUME n + 1 <= D
                     PROVE  Table(input, D - (n + 1))[q[(D - (n + 1)) + 1]] = E
            OBVIOUS
      <2>2. PICK d : d = D - (n + 1)
            OBVIOUS
      <2>3. PICK e : e = d + 1
            OBVIOUS
      <2>4. /\ d \in 0..MaxDepth /\ e = D - n /\ e \in 1..D /\ e \in 1..(D + 1)
            /\ e + 1 \in 1..(D + 1) /\ n <= D
            BY <1>2, <2>1, <2>2, <2>3
      <2>5. Table(input, e)[q[e + 1]] = E
            BY <1>5, <2>4
      <2>6. Matches(input, e, q[e], stack[e], built[e], q[e + 1])
            BY <1>3, <2>4
      <2>7. q[e] \in 0..Len(input) /\ stack[e] \in Frame /\ stack[e].left > 0
            BY <1>2, <1>3, <2>4
      <2>8. Table(input, d)[q[e]] = E
            BY <1>2, <2>3, <2>4, <2>5, <2>6, <2>7, FrameFails
      <2>9. QED BY <2>2, <2>3, <2>8
<1> HIDE DEF P
<1>6. 0 \in S /\ \A n \in Nat : n \in S => n + 1 \in S
      BY <1>4, <1>5
<1> HIDE DEF S
<1>7. Nat \subseteq S
      BY <1>6, Reference!Turns!Induction
<1>8. P(D)
      BY <1>2, <1>7 DEF S
<1>9. D - D = 0 /\ (D - D) + 1 = 1 /\ D <= D
      BY <1>2
<1>10. QED BY <1>8, <1>9 DEF P

\* parse_msgpack enters, and fails.
LEMMA CallFails ==
    ASSUME IInv, pc = "call", Good(is), OnTrack, NEW s, ~Good(s),
           Table(input, depth)[is.pos] = Failure(s)
    PROVE  Table(input, 0)[began.is.pos] = Failure(s)
<1>1. PICK q : Trail(q)
      BY DEF OnTrack
<1>2. Chain(input, depth, stack, built, q) /\ q[1] = began.is.pos /\ q[depth + 1] = is.pos
      BY <1>1 DEF Trail
<1>3. \A i \in 1..depth : stack[i].left > 0
      BY DEF IInv, TurnsLeft
<1>4. Failure(s).kind # "value"
      BY DEF Failure
<1>5. PICK E : E = Failure(s)
      OBVIOUS
<1>6. QED BY <1>2, <1>3, <1>4, <1>5, ErrorUnwinds

\* A handler that reads no container has read the value at is.pos, or failed as it must.
LEMMA LeafTracks ==
    ASSUME IInv, pc = "call", Good(is), OnTrack, NEW s \in Stream, NEW v, Leaf(s, v),
           Says(Table(input, depth)[is.pos], s, v)
    PROVE  OnTrack'
<1>1. /\ is' = (IF Good(s) THEN s ELSE SetFail(s)) /\ ret' = (IF Good(s) THEN v ELSE Nil)
      /\ pc' = "return" /\ UNCHANGED <<input, stack, built, began>>
      BY DEF Leaf, Finish
<1>2. depth' = depth
      BY <1>1 DEF depth
<1>3. CASE Good(s)
      <2>1. PICK q : Trail(q)
            BY DEF OnTrack
      <2>2. /\ Chain(input, depth, stack, built, q) /\ q[1] = began.is.pos /\ q[depth + 1] = is.pos
            BY <2>1 DEF Trail
      <2>3. Table(input, depth)[q[depth + 1]] = Reference!Got(ret', is'.pos)
            BY <1>1, <1>3, <2>2 DEF Says
      <2>4. Chain(input, depth, stack, built, q)'
            BY <1>1, <1>2, <2>2
      <2>5. Table(input, depth)' = Table(input, depth)
            BY <1>1, <1>2
      <2>6. Trail(q)'
            BY <1>1, <1>2, <2>2, <2>3, <2>4, <2>5 DEF Trail
      <2>7. Good(is')
            BY <1>1, <1>3
      <2>8. QED BY <2>6, <2>7 DEF OnTrack, Good
<1>4. CASE ~Good(s)
      <2>1. Table(input, 0)[began.is.pos] = Failure(s)
            BY <1>4, CallFails DEF Says
      <2>2. ~Good(is') /\ Failure(is') = Failure(s)
            BY <1>1, <1>4, SetFailProperties DEF Failure
      <2>3. QED BY <1>1, <2>1, <2>2 DEF OnTrack, Good, Failure
<1>5. QED BY <1>3, <1>4

LEMMA FailTracks ==
    ASSUME IInv, Good(is), OnTrack, TooDeep \/ NoFirstByte
    PROVE  OnTrack'
<1>1. /\ depth \in Nat /\ depth <= MaxDepth + 1 /\ MaxDepth \in Nat /\ is \in Stream
      /\ input \in Seq(Byte) /\ is.pos \in 0..Len(input)
      BY Bounds
<1>2. CASE TooDeep
      <2>1. depth = MaxDepth + 1 /\ pc = "call" /\ Leaf(SetFail(is), Nil)
            BY <1>1, <1>2 DEF TooDeep, DepthExceeded
      <2>2. Table(input, depth)[is.pos] = Reference!Malformed(is.pos)
            BY <1>1, <2>1, TableInnermost
      <2>3. /\ SetFail(is) \in Stream /\ ~Good(SetFail(is)) /\ ~SetFail(is).eof
            /\ SetFail(is).pos = is.pos
            BY <1>1, SetFailProperties DEF Good
      <2>4. Says(Table(input, depth)[is.pos], SetFail(is), Nil)
            BY <2>2, <2>3, NilSame DEF Says, Failure, Reference!Malformed
      <2>5. QED BY <2>1, <2>3, <2>4, LeafTracks
<1>3. CASE NoFirstByte
      <2>1. /\ depth \in 0..MaxDepth /\ pc = "call" /\ ~Good(Rest) /\ Leaf(Rest, Nil)
            BY <1>1, <1>3 DEF NoFirstByte, Entered, DepthExceeded
      <2>2. ~Reference!Has(input, is.pos, 1) /\ Rest \in Stream /\ Failure(Rest) = Reference!Truncated(input)
            BY <1>1, <2>1, ReadsOrRunsOut DEF Rest
      <2>3. is.pos >= Len(input)
            BY <1>1, <2>2, LenProperties DEF Reference!Has
      <2>4. PICK d : d = depth
            OBVIOUS
      <2>5. Table(input, d)[is.pos] = Reference!At(input, is.pos, Table(input, d + 1))
            BY <1>1, <2>1, <2>4, TableAround
      <2>6. Table(input, d)[is.pos] = Failure(Rest)
            BY <2>2, <2>3, <2>5 DEF Reference!At
      <2>7. QED BY <2>1, <2>2, <2>4, <2>6, LeafTracks DEF Says
<1>4. QED BY <1>2, <1>3

LEMMA LeavesTrack ==
    ASSUME IInv, Good(is), OnTrack,
           \/ ParseInvalid \/ ParseNil \/ ParseBool \/ ParsePosFixint \/ ParseNegFixint
           \/ ParseArith \/ ParseFixString \/ ParseString \/ ParseBinary
           \/ ParseFixExt \/ ParseExtension
    PROVE  OnTrack'
<1>1. Entered
      BY DEF ParseInvalid, ParseNil, ParseBool, ParsePosFixint, ParseNegFixint, ParseArith,
         ParseFixString, ParseString, ParseBinary, ParseFixExt, ParseExtension, Dispatch
<1>2. /\ pc = "call" /\ depth \in 0..MaxDepth /\ is.pos \in 0..Len(input)
      BY <1>1, Bounds DEF Entered, DepthExceeded
<1>3. PICK d : d = depth
      OBVIOUS
<1>4. PICK X : X = Table(input, d + 1)
      OBVIOUS
<1>5. Table(input, d)[is.pos] = Reference!At(input, is.pos, X)
      BY <1>2, <1>3, <1>4, TableAround
<1>6. Right(X)
      BY LeafRight
<1>s. PICK s \in Stream : \E v : Leaf(s, v) /\ Says(Reference!At(input, is.pos, X), s, v)
      BY <1>6 DEF Right
<1>7. PICK v : Leaf(s, v) /\ Says(Reference!At(input, is.pos, X), s, v)
      BY <1>s
<1>8. Says(Table(input, depth)[is.pos], s, v)
      BY <1>3, <1>5, <1>7
<1>9. QED BY <1>2, <1>7, <1>8, LeafTracks

\* A container is entered: its loop begins where the handler left the stream.
LEMMA ContainersTrack ==
    ASSUME IInv, MembersInv, Good(is), OnTrack,
           ParseFixArray \/ ParseFixObject \/ ParseArray \/ ParseObject
    PROVE  OnTrack'
<1>1. /\ depth \in 0..MaxDepth /\ pc = "call" /\ input \in Seq(Byte) /\ stack \in Seq(Frame)
      /\ is.pos \in 0..Len(input) /\ depth \in Nat /\ Len(stack) = depth
      <2>1. Entered
            BY DEF ParseFixArray, ParseFixObject, ParseArray, ParseObject, Dispatch
      <2>2. QED BY <2>1, Bounds DEF Entered, DepthExceeded, IInv, TypeOK
<1>2. PICK at \in {"item", "key"}, s \in Stream, n \in Nat :
         /\ Open(at, s, n)
         /\ IF Good(s)
            THEN /\ Opens(input, is.pos, Holder(at))
                 /\ s.pos = From(input, is.pos) /\ n = Total(input, is.pos)
            ELSE \A X : Reference!At(input, is.pos, X) = Failure(s)
      BY ContainerRight DEF EntersRight
<1> DEFINE f == [at |-> at, left |-> n]
           b == [items |-> <<>>, keys |-> <<>>, key |-> Nil]
<1>3. /\ is' = s /\ stack' = Append(stack, f) /\ built' = Append(built, b) /\ pc' = "loop"
      /\ UNCHANGED <<input, began>>
      BY <1>2 DEF Open
<1>4. CASE Good(s)
      <2>1. PICK q : Trail(q)
            BY DEF OnTrack
      <2>2. /\ Chain(input, depth, stack, built, q) /\ q[1] = began.is.pos /\ q[depth + 1] = is.pos
            BY <1>1, <2>1 DEF Trail
      <2>3. PICK D : D = depth
            OBVIOUS
      <2>4. PICK V : built \in Seq(Gathered(V)) /\ Len(built) = D
            BY <2>3 DEF MembersInv, Typed, Paired
      <2>5. Matches(input, D + 1, is.pos, f, b, s.pos)
            BY <1>2, <1>4, NothingYet
      <2> HIDE DEF f, b
      <2>6. /\ Len(stack') = D + 1 /\ stack'[D + 1] = f
            /\ \A i \in 1..D : stack'[i] = stack[i]
            <3>1. stack \in Seq(Frame \union {f}) /\ f \in Frame \union {f}
                  BY <1>1, SeqMonotonic
            <3>2. QED BY <1>1, <1>3, <2>3, <3>1, AppendProperties
      <2>7. /\ built'[D + 1] = b /\ \A i \in 1..D : built'[i] = built[i]
            <3>1. Gathered(V) \subseteq Gathered(V) \union {b}
                  OBVIOUS
            <3>2. built \in Seq(Gathered(V) \union {b}) /\ b \in Gathered(V) \union {b}
                  BY <2>4, <3>1, SeqMonotonic
            <3>3. QED BY <1>3, <2>4, <3>2, AppendProperties
      <2>8. depth' = D + 1
            BY <2>6 DEF depth
      <2> DEFINE q2 == [i \in 1..((D + 1) + 1) |-> IF i = (D + 1) + 1 THEN s.pos ELSE q[i]]
      <2>9. q \in [1..(D + 1) -> 0..Len(input)] /\ s.pos \in 0..Len(input) /\ D \in Nat
            BY <1>1, <2>2, <2>3 DEF Chain, Stream
      <2>10. /\ q2 \in [1..((D + 1) + 1) -> 0..Len(input)] /\ q2[(D + 1) + 1] = s.pos
             /\ \A i \in 1..(D + 1) : q2[i] = q[i]
            BY <2>9
      <2> HIDE DEF q2
      <2>11. ASSUME NEW i \in 1..(D + 1)
             PROVE  Matches(input, i, q2[i], stack'[i], built'[i], q2[i + 1])
            <3>1. CASE i = D + 1
                  <4>1. q2[i] = is.pos
                        BY <2>2, <2>3, <2>9, <2>10, <3>1
                  <4>2. QED BY <2>5, <2>6, <2>7, <2>10, <3>1, <4>1
            <3>2. CASE i \in 1..D
                  <4>1. i + 1 \in 1..(D + 1) /\ i \in 1..(D + 1)
                        BY <2>9, <3>2
                  <4>2. Matches(input, i, q[i], stack[i], built[i], q[i + 1])
                        BY <2>2, <2>3, <3>2 DEF Chain
                  <4>3. QED BY <2>6, <2>7, <2>10, <3>2, <4>1, <4>2
            <3>3. QED BY <2>9, <3>1, <3>2
      <2>12. Chain(input, D + 1, stack', built', q2)
            BY <2>10, <2>11 DEF Chain
      <2>13. q2[1] = began.is.pos
            <3>1. 1 \in 1..(D + 1)
                  BY <2>9
            <3>2. QED BY <2>2, <2>10, <3>1
      <2>14. Trail(q2)'
            BY <1>3, <2>8, <2>10, <2>12, <2>13 DEF Trail
      <2>15. Good(is')
            BY <1>3, <1>4
      <2>16. QED BY <2>14, <2>15 DEF OnTrack, Good
<1>5. CASE ~Good(s)
      <2>1. PICK d : d = depth
            OBVIOUS
      <2>2. Table(input, d)[is.pos] = Reference!At(input, is.pos, Table(input, d + 1))
            BY <1>1, <2>1, TableAround
      <2>3. Table(input, depth)[is.pos] = Failure(s)
            BY <1>2, <1>5, <2>1, <2>2
      <2>4. Table(input, 0)[began.is.pos] = Failure(s)
            BY <1>1, <1>5, <2>3, CallFails
      <2>5. QED BY <1>3, <1>5, <2>4 DEF OnTrack, Good, Failure
<1>6. QED BY <1>4, <1>5

LEMMA FrontParts ==
    ASSUME NEW S, NEW s \in Seq(S), NEW n \in Nat, NEW m, m = n + 1, Len(s) = m
    PROVE  Len(Front(s)) = n /\ \A i \in 1..n : Front(s)[i] = s[i]
<1>1. n \in Int /\ 1 \in Int /\ \A i \in 1..n : s[i] \in S
      BY ElementOfSeq
<1>2. /\ SubSeq(s, 1, n) \in Seq(S)
      /\ Len(SubSeq(s, 1, n)) = IF 1 <= n THEN n - 1 + 1 ELSE 0
      /\ \A i \in 1..(n - 1 + 1) : SubSeq(s, 1, n)[i] = s[1 + i - 1]
      BY <1>1, SubSeqProperties
<1>3. Front(s) = SubSeq(s, 1, n)
      <2>1. m - 1 = n
            OBVIOUS
      <2>2. QED BY <2>1 DEF Front
<1>4. QED BY <1>2, <1>3

\* The innermost loop is over: what it has gathered is the value that was begun where
\* its container is.
LEMMA CloseTracks ==
    ASSUME IInv, MembersInv, Good(is), pc = "loop", NEW q, Trail(q), NEW v, Close(v),
           NEW d \in Nat, NEW e, e = d + 1, depth = e,
           Table(input, d)[q[e]] = Reference!Got(v, is.pos)
    PROVE  OnTrack'
<1>1. /\ is' = is /\ ret' = v /\ pc' = "return" /\ UNCHANGED <<input, began>>
      /\ stack' = Front(stack) /\ built' = Front(built)
      BY DEF Close, Finish
<1>2. PICK V : built \in Seq(Gathered(V)) /\ Len(built) = e
      BY DEF MembersInv, Typed, Paired
<1>3. stack \in Seq(Frame) /\ Len(stack) = e
      BY Bounds DEF IInv, TypeOK
<1>4. Len(stack') = d /\ \A i \in 1..d : stack'[i] = stack[i]
      BY <1>1, <1>3, FrontParts
<1>5. \A i \in 1..d : built'[i] = built[i]
      BY <1>1, <1>2, FrontParts
<1>6. depth' = d
      BY <1>4 DEF depth
<1>7. /\ q \in [1..(e + 1) -> 0..Len(input)] /\ q[1] = began.is.pos
      /\ \A i \in 1..e : Matches(input, i, q[i], stack[i], built[i], q[i + 1])
      BY DEF Trail, Chain
<1> DEFINE q2 == [i \in 1..(d + 1) |-> q[i]]
<1>8. /\ q2 \in [1..(d + 1) -> 0..Len(input)] /\ q2[1] = q[1] /\ q2[d + 1] = q[e]
      /\ \A i \in 1..d : q2[i] = q[i] /\ q2[i + 1] = q[i + 1]
      BY <1>7
<1> HIDE DEF q2
<1>9. Chain(input, d, stack', built', q2)
      <2>1. ASSUME NEW i \in 1..d
            PROVE  Matches(input, i, q2[i], stack'[i], built'[i], q2[i + 1])
            <3>1. i \in 1..e
                  OBVIOUS
            <3>2. Matches(input, i, q[i], stack[i], built[i], q[i + 1])
                  BY <1>7, <3>1
            <3>3. QED BY <1>4, <1>5, <1>8, <3>2
      <2>2. QED BY <1>8, <2>1 DEF Chain
<1>10. Trail(q2)'
      BY <1>1, <1>6, <1>7, <1>8, <1>9 DEF Trail
<1>11. QED BY <1>1, <1>10 DEF OnTrack, Good

LEMMA DoneTracks ==
    ASSUME IInv, MembersInv, Good(is), OnTrack, Reference!KeysOrdered(input), ArrayDone \/ ObjectDone
    PROVE  OnTrack'
<1>1. PICK q : Trail(q)
      BY DEF OnTrack
<1>2. pc = "loop" /\ depth > 0
      BY DEF ArrayDone, ObjectDone, InLoop
<1>3. PICK d \in 0..MaxDepth : depth = d + 1
      <2>1. depth - 1 \in 0..MaxDepth /\ depth = (depth - 1) + 1
            BY <1>2, Bounds
      <2>2. QED BY <2>1
<1>4. PICK e : e = d + 1
      OBVIOUS
<1>5. /\ input \in Seq(Byte) /\ d \in Nat /\ e \in 1..e /\ depth = e
      BY <1>3, <1>4, Bounds
<1>6. /\ q[e] \in 0..Len(input) /\ q[e + 1] = is.pos
      /\ Matches(input, e, q[e], stack[e], built[e], q[e + 1])
      <2>1. e \in 1..(e + 1)
            BY <1>5
      <2>2. QED BY <1>1, <1>2, <1>5, <2>1 DEF Trail, Chain
<1>7. CASE ArrayDone
      <2>1. stack[e].at = "item" /\ stack[e].left = 0 /\ Close(Array(built[e].items))
            BY <1>5, <1>7 DEF ArrayDone, InLoop, Close
      <2>2. Table(input, d)[q[e]] = Reference!Got(Array(built[e].items), is.pos)
            BY <1>4, <1>5, <1>6, <2>1, ArrayReturns
      <2>3. QED BY <1>1, <1>2, <1>4, <1>5, <2>1, <2>2, CloseTracks
<1>8. CASE ObjectDone
      <2>1. stack[e].at = "key" /\ stack[e].left = 0 /\ Close(Object(built[e].keys, built[e].items))
            BY <1>5, <1>8 DEF ObjectDone, InLoop, Close
      <2>2. Table(input, d)[q[e]] = Reference!Got(Object(built[e].keys, built[e].items), is.pos)
            <3>1. PICK f, b, p : f = stack[e] /\ b = built[e] /\ p = q[e]
                  OBVIOUS
            <3>2. f.at = "key" /\ f.left = 0 /\ p \in 0..Len(input) /\ Matches(input, e, p, f, b, is.pos)
                  BY <1>6, <2>1, <3>1
            <3>3. Table(input, d)[p] = Reference!Got(Object(b.keys, b.items), is.pos)
                  BY <1>4, <1>5, <3>2, ObjectReturns
            <3>4. QED BY <3>1, <3>3
      <2>3. QED BY <1>1, <1>2, <1>4, <1>5, <2>1, <2>2, CloseTracks
<1>9. QED BY <1>7, <1>8

\* A value is returned to the innermost loop, which goes on where the stream is.
LEMMA TurnTracks ==
    ASSUME IInv, MembersInv, Good(is), depth > 0, NEW q, Trail(q), NEW f, NEW b,
           stack' = [stack EXCEPT ![depth] = f], built' = [built EXCEPT ![depth] = b],
           UNCHANGED <<input, is, began>>, pc' # "return",
           Matches(input, depth, q[depth], f, b, is.pos)
    PROVE  OnTrack'
<1>1. PICK V : built \in Seq(Gathered(V)) /\ Len(built) = depth
      BY DEF MembersInv, Typed, Paired
<1>2. PICK e : e = depth
      OBVIOUS
<1>3. /\ stack \in Seq(Frame) /\ Len(stack) = e /\ Len(built) = e /\ e \in Nat /\ e \in 1..e
      /\ is.pos \in 0..Len(input)
      BY <1>1, <1>2, Bounds DEF IInv, TypeOK
<1>4. /\ Len(stack') = e /\ stack'[e] = f /\ \A i \in 1..e : i # e => stack'[i] = stack[i]
      <2>1. stack \in Seq(Frame \union {f}) /\ f \in Frame \union {f}
            BY <1>3, SeqMonotonic
      <2>2. QED BY <1>2, <1>3, <2>1, ExceptSeq
<1>5. /\ built'[e] = b /\ \A i \in 1..e : i # e => built'[i] = built[i]
      <2>1. Gathered(V) \subseteq Gathered(V) \union {b}
            OBVIOUS
      <2>2. built \in Seq(Gathered(V) \union {b}) /\ b \in Gathered(V) \union {b}
            BY <1>1, <2>1, SeqMonotonic
      <2>3. QED BY <1>2, <1>3, <2>2, ExceptSeq
<1>6. depth' = e
      BY <1>4 DEF depth
<1>7. /\ q \in [1..(e + 1) -> 0..Len(input)] /\ q[1] = began.is.pos
      /\ \A i \in 1..e : Matches(input, i, q[i], stack[i], built[i], q[i + 1])
      BY <1>2 DEF Trail, Chain
<1>q. PICK q2 : q2 = [q EXCEPT ![e + 1] = is.pos]
      OBVIOUS
<1>8. /\ q2 \in [1..(e + 1) -> 0..Len(input)] /\ q2[e + 1] = is.pos
      /\ \A i \in 1..e : q2[i] = q[i]
      BY <1>3, <1>7, <1>q
<1>9. ASSUME NEW i \in 1..e
      PROVE  Matches(input, i, q2[i], stack'[i], built'[i], q2[i + 1])
      <2>1. CASE i = e
            BY <1>2, <1>3, <1>4, <1>5, <1>8, <2>1
      <2>2. CASE i # e
            <3>1. i + 1 \in 1..e
                  BY <1>3, <2>2
            <3>2. Matches(input, i, q[i], stack[i], built[i], q[i + 1])
                  BY <1>7
            <3>3. QED BY <1>4, <1>5, <1>8, <2>2, <3>1, <3>2
      <2>3. QED BY <2>1, <2>2
<1>10. Chain(input, e, stack', built', q2)
      BY <1>8, <1>9 DEF Chain
<1>11. q2[1] = began.is.pos
      <2>1. 1 \in 1..e
            BY <1>3
      <2>2. QED BY <1>7, <1>8, <2>1
<1>12. Trail(q2)'
      BY <1>6, <1>8, <1>10, <1>11 DEF Trail
<1>13. QED BY <1>12 DEF OnTrack, Good

\* Where the innermost loop is when a value is returned to it.
LEMMA TopMatches ==
    ASSUME IInv, MembersInv, pc = "return", depth > 0, NEW q, Trail(q)
    PROVE  /\ stack[depth] \in Frame /\ stack[depth].left > 0
           /\ Matches(input, depth, q[depth], stack[depth], built[depth], q[depth + 1])
           /\ Table(input, depth)[q[depth + 1]] = Reference!Got(ret, is.pos)
           /\ \A V : Typed(V) => built[depth] \in Gathered(V)
<1>1. depth \in 1..depth /\ stack[depth] \in Frame
      BY Bounds
<1>2. Matches(input, depth, q[depth], stack[depth], built[depth], q[depth + 1])
      BY <1>1 DEF Trail, Chain
<1>3. stack[depth].left > 0
      BY <1>1 DEF IInv, TurnsLeft
<1>4. \A V : Typed(V) => built[depth] \in Gathered(V)
      BY <1>1, Frames DEF MembersInv
<1>5. QED BY <1>1, <1>2, <1>3, <1>4 DEF Trail

LEMMA ReturnItemTracks ==
    ASSUME IInv, MembersInv, Good(is), OnTrack, ReturnItem
    PROVE  OnTrack'
<1>1. PICK q : Trail(q)
      BY DEF OnTrack
<1>2. PICK e, f, b : e = depth /\ f = stack[depth] /\ b = built[depth]
      OBVIOUS
<1>3. depth > 0 /\ pc = "return" /\ f.at = "item" /\ UNCHANGED <<input, is, began>> /\ pc' = "loop"
      BY <1>2 DEF ReturnItem, InLoop, Turn
<1>4. /\ f \in Frame /\ f.left > 0 /\ Matches(input, e, q[e], f, b, q[e + 1])
      /\ Table(input, e)[q[e + 1]] = Reference!Got(ret, is.pos)
      /\ \A V : Typed(V) => b \in Gathered(V)
      BY <1>1, <1>2, <1>3, TopMatches
<1> DEFINE f2 == [at |-> "item", left |-> f.left - 1]
           b2 == [b EXCEPT !.items = Append(b.items, ret)]
<1>5. stack' = [stack EXCEPT ![depth] = f2] /\ built' = [built EXCEPT ![depth] = b2]
      BY <1>2 DEF ReturnItem, Turn
<1>6. f2.at = "item" /\ f2.left = f.left - 1 /\ b2.items = Append(b.items, ret)
      <2>1. PICK V : b \in Gathered(V)
            BY <1>4 DEF MembersInv
      <2>2. QED BY <2>1 DEF Gathered
<1> HIDE DEF f2, b2
<1>7. Matches(input, e, q[e], f2, b2, is.pos)
      BY <1>3, <1>4, <1>6, ItemMore
<1>8. QED BY <1>1, <1>2, <1>3, <1>5, <1>7, TurnTracks

LEMMA ReturnKeyTracks ==
    ASSUME IInv, MembersInv, Good(is), OnTrack, ReturnKey
    PROVE  OnTrack'
<1>1. PICK q : Trail(q)
      BY DEF OnTrack
<1>2. PICK e, f, b : e = depth /\ f = stack[depth] /\ b = built[depth]
      OBVIOUS
<1>3. depth > 0 /\ pc = "return" /\ f.at = "key" /\ UNCHANGED <<input, is, began>> /\ pc' = "call"
      BY <1>2 DEF ReturnKey, InLoop
<1>4. /\ f \in Frame /\ f.left > 0 /\ Matches(input, e, q[e], f, b, q[e + 1])
      /\ Table(input, e)[q[e + 1]] = Reference!Got(ret, is.pos)
      /\ \A V : Typed(V) => b \in Gathered(V)
      BY <1>1, <1>2, <1>3, TopMatches
<1> DEFINE f2 == [f EXCEPT !.at = "value"]
           b2 == [b EXCEPT !.key = ret]
<1>5. stack' = [stack EXCEPT ![depth] = f2] /\ built' = [built EXCEPT ![depth] = b2]
      BY <1>2 DEF ReturnKey
<1>6. /\ f2.at = "value" /\ f2.left = f.left
      /\ b2.key = ret /\ b2.items = b.items /\ b2.keys = b.keys
      <2>1. PICK V : b \in Gathered(V)
            BY <1>4 DEF MembersInv
      <2>2. QED BY <1>4, <2>1 DEF Gathered, Frame
<1> HIDE DEF f2, b2
<1>7. Matches(input, e, q[e], f2, b2, is.pos)
      BY <1>3, <1>4, <1>6, KeyMore
<1>8. QED BY <1>1, <1>2, <1>3, <1>5, <1>7, TurnTracks

LEMMA ReturnValueTracks ==
    ASSUME IInv, MembersInv, Good(is), OnTrack, ReturnValue
    PROVE  OnTrack'
<1>1. PICK q : Trail(q)
      BY DEF OnTrack
<1>2. PICK e, f, b : e = depth /\ f = stack[depth] /\ b = built[depth]
      OBVIOUS
<1>3. depth > 0 /\ pc = "return" /\ f.at = "value" /\ UNCHANGED <<input, is, began>> /\ pc' = "loop"
      BY <1>2 DEF ReturnValue, InLoop, Turn
<1>4. /\ f \in Frame /\ f.left > 0 /\ Matches(input, e, q[e], f, b, q[e + 1])
      /\ Table(input, e)[q[e + 1]] = Reference!Got(ret, is.pos)
      /\ \A V : Typed(V) => b \in Gathered(V)
      BY <1>1, <1>2, <1>3, TopMatches
<1>5. PICK k \in 0..Len(b.keys) :
         Ends(b.keys, b.key, k) /\ built' = [built EXCEPT ![depth] = Insert(b, k, ret)]
      BY <1>2 DEF ReturnValue
<1> DEFINE f2 == [at |-> "key", left |-> f.left - 1]
           b2 == Insert(b, k, ret)
<1>6. stack' = [stack EXCEPT ![depth] = f2] /\ f2.at = "key" /\ f2.left = f.left - 1
      BY <1>2 DEF ReturnValue, Turn
<1>7. PICK V : b \in Gathered(V) /\ ret \in V
      BY <1>4 DEF MembersInv, Typed
<1> HIDE DEF f2
<1>8. Matches(input, e, q[e], f2, b2, is.pos)
      BY <1>3, <1>4, <1>5, <1>6, <1>7, ValueMore
<1> HIDE DEF b2
<1>9. built' = [built EXCEPT ![depth] = b2]
      BY <1>5 DEF b2
<1>10. QED BY <1>1, <1>2, <1>3, <1>6, <1>8, <1>9, TurnTracks

---------------------------------------------------------------------
\* The call.

\* The call returns what it has read, or the error it has found.
LEMMA CallerTold ==
    ASSUME IInv, Since, Good(began.is) => OnTrack, ReturnToCaller
    PROVE  MatchesReference'
<1>1. /\ pc = "return" /\ depth = 0 /\ pc' = "done"
      /\ err' = (IF is.eof THEN EndOfBuffer ELSE IF is.fail THEN FormatError ELSE err)
      /\ UNCHANGED <<input, is, stack, built, ret, began>>
      BY DEF ReturnToCaller
<1>2. /\ is \in Stream /\ err = began.err /\ (is.eof => is.fail)
      /\ (~Good(is) => ret = Nil /\ is.fail)
      BY <1>1 DEF IInv, TypeOK, Since, FailureMeansNil, Good
<1>3. CASE Good(began.is)
      <2> DEFINE outcome == Table(input, 0)[began.is.pos]
      <2>1. Means(outcome)'
            <3>1. CASE Good(is)
                  <4>1. PICK q : Trail(q)
                        BY <1>3, <3>1 DEF OnTrack
                  <4>2. 0 + 1 = 1
                        OBVIOUS
                  <4>3. outcome = Reference!Got(ret, is.pos)
                        BY <1>1, <4>1, <4>2 DEF Trail
                  <4>4. outcome.kind = "value" /\ outcome.value = ret /\ outcome.next = is.pos
                        BY <4>3 DEF Reference!Got
                  <4> HIDE DEF outcome
                  <4>5. is = [pos |-> is.pos, eof |-> FALSE, fail |-> FALSE] /\ err' = began.err
                        BY <1>1, <1>2, <3>1 DEF Good, Stream
                  <4>6. outcome' = outcome
                        BY <1>1 DEF outcome
                  <4>7. QED BY <1>1, <4>4, <4>5, <4>6 DEF Means
            <3>2. CASE ~Good(is)
                  <4>1. outcome = Failure(is)
                        BY <1>3, <3>2 DEF OnTrack
                  <4>2. /\ outcome.kind = (IF is.eof THEN "truncated" ELSE "malformed")
                        /\ outcome.value = Nil /\ outcome.next = is.pos
                        BY <4>1 DEF Failure
                  <4> HIDE DEF outcome
                  <4>3. is = [pos |-> is.pos, eof |-> is.eof, fail |-> TRUE] /\ is.eof \in BOOLEAN
                        BY <1>2, <3>2 DEF Stream
                  <4>4. outcome' = outcome
                        BY <1>1 DEF outcome
                  <4>5. QED BY <1>1, <1>2, <3>2, <4>2, <4>3, <4>4 DEF Means
            <3>3. QED BY <3>1, <3>2
      <2>3. outcome' = Reference!Value(input, began.is.pos, 0)'
            BY DEF Table, Reference!Value
      <2> HIDE DEF outcome
      <2>4. QED BY <1>1, <1>3, <2>1, <2>3 DEF MatchesReference, Good
<1>4. CASE ~Good(began.is)
      <2>1. is = began.is
            BY <1>4 DEF Since
      <2>2. is = SetFail(is) /\ ret = Nil /\ is.fail
            BY <1>2, <1>4, <2>1 DEF SetFail, Stream
      <2>3. QED BY <1>1, <1>4, <2>1, <2>2 DEF MatchesReference, Good, SetFail
<1>5. QED BY <1>3, <1>4

MatchInv == (pc # "done" /\ Good(began.is) => OnTrack) /\ MatchesReference

\* A call begins with nothing around the value.
Begins == depth = 0 /\ pc = "call" /\ Good(is) /\ began.is = is /\ is.pos \in 0..Len(input)

LEMMA CallBegins == Begins => OnTrack
<1> SUFFICES ASSUME Begins PROVE OnTrack
    OBVIOUS
<1>1. PICK p : p = is.pos
      OBVIOUS
<1> DEFINE q == [i \in 1..1 |-> p]
<1>2. q \in [1..(0 + 1) -> 0..Len(input)] /\ q[1] = is.pos /\ q[0 + 1] = is.pos
      BY <1>1 DEF Begins
<1> HIDE DEF q
<1>3. Chain(input, 0, stack, built, q)
      BY <1>2 DEF Chain
<1>4. Trail(q)
      BY <1>2, <1>3 DEF Trail, Begins
<1>5. QED BY <1>4 DEF OnTrack, Begins

\* What an error was stays what it was.
LEMMA ErrorTracks ==
    ASSUME IInv, ~Good(is), OnTrack, [Next]_vars, UNCHANGED <<input, began>>
    PROVE  OnTrack'
<1>1. is'.pos = is.pos /\ is'.eof = is.eof /\ is'.fail
      BY NextStep
<1>2. Failure(is)' = Failure(is)
      BY <1>1 DEF Failure
<1>3. Table(input, 0)[began.is.pos] = Failure(is)
      BY DEF OnTrack
<1>4. ~Good(is')
      BY <1>1 DEF Good
<1>5. (Table(input, 0)[began.is.pos])' = Failure(is)'
      BY <1>2, <1>3
<1>6. QED BY <1>4, <1>5 DEF OnTrack, Good

LEMMA InsideTracks ==
    ASSUME IInv, MembersInv, Reference!KeysOrdered(input), Good(is), OnTrack,
           TooDeep \/ NoFirstByte \/ Handler \/ Loop \/ ReturnItem \/ ReturnKey \/ ReturnValue
    PROVE  OnTrack'
<1>1. CASE TooDeep \/ NoFirstByte
      BY <1>1, FailTracks
<1>2. CASE Handler
      <2>1. CASE ParseFixArray \/ ParseFixObject \/ ParseArray \/ ParseObject
            BY <2>1, ContainersTrack
      <2>2. CASE \/ ParseInvalid \/ ParseNil \/ ParseBool \/ ParsePosFixint \/ ParseNegFixint
                 \/ ParseArith \/ ParseFixString \/ ParseString \/ ParseBinary
                 \/ ParseFixExt \/ ParseExtension
            BY <2>2, LeavesTrack
      <2>3. QED BY <1>2, <2>1, <2>2 DEF Handler
<1>3. CASE CallNext
      <2>1. /\ pc = "loop" /\ pc' = "call" /\ UNCHANGED <<input, is, stack, built, began>>
            BY <1>3 DEF CallNext
      <2>2. PICK q : Trail(q)
            BY DEF OnTrack
      <2>3. depth' = depth
            BY <2>1 DEF depth
      <2>4. Trail(q)'
            BY <2>1, <2>2, <2>3 DEF Trail
      <2>5. QED BY <2>1, <2>4 DEF OnTrack, Good
<1>4. CASE ArrayDone \/ ObjectDone
      BY <1>4, DoneTracks
<1>5. CASE ReturnItem \/ ReturnKey \/ ReturnValue
      BY <1>5, ReturnItemTracks, ReturnKeyTracks, ReturnValueTracks
<1>6. QED BY <1>1, <1>2, <1>3, <1>4, <1>5 DEF Loop

\* Another call is on track whatever came before.
LEMMA AgainTracks ==
    ASSUME IInv, ParseAgain
    PROVE  MatchInv'
<1>1. /\ pc' = "call" /\ began'.is = is /\ UNCHANGED <<input, is, stack>> /\ pc = "done"
      BY DEF ParseAgain
<1>2. depth' = 0 /\ is.pos \in 0..Len(input)
      BY <1>1, Bounds DEF IInv, TypeOK, depth
<1>3. ASSUME Good(is') PROVE OnTrack'
      <2>1. Begins'
            BY <1>1, <1>2, <1>3 DEF Begins, Good
      <2>2. QED BY <2>1, CallBegins, PTL
<1>4. QED BY <1>1, <1>3 DEF MatchInv, MatchesReference, Good

LEMMA MatchStep ==
    ASSUME IInv, Since, MembersInv, Reference!KeysOrdered(input), MatchInv, [Next]_vars
    PROVE  MatchInv'
<1>1. CASE TooDeep \/ NoFirstByte \/ Handler \/ Loop \/ ReturnItem \/ ReturnKey \/ ReturnValue
      <2>1. UNCHANGED <<input, began>> /\ pc # "done" /\ pc' # "done"
            BY <1>1, CalleeFrame
      <2>2. ASSUME Good(began.is) PROVE OnTrack'
            <3>1. OnTrack
                  BY <2>1, <2>2 DEF MatchInv
            <3>2. CASE Good(is)
                  BY <1>1, <3>1, <3>2, InsideTracks
            <3>3. CASE ~Good(is)
                  BY <2>1, <3>1, <3>3, ErrorTracks
            <3>4. QED BY <3>2, <3>3
      <2>3. QED BY <2>1, <2>2 DEF MatchInv, MatchesReference, Good
<1>2. CASE ReturnToCaller
      <2>1. MatchesReference'
            BY <1>2, CallerTold DEF MatchInv, ReturnToCaller
      <2>2. pc' = "done"
            BY <1>2 DEF ReturnToCaller
      <2>3. QED BY <2>1, <2>2 DEF MatchInv
<1>3. CASE ParseAgain
      BY <1>3, AgainTracks
<1>4. CASE UNCHANGED vars
      <2>1. /\ UNCHANGED <<input, is, stack, built, pc, ret, err, began>> /\ depth' = depth
            BY <1>4 DEF vars, depth
      <2>2. OnTrack => OnTrack'
            <3>1. \A q : Trail(q) => Trail(q)'
                  BY <2>1 DEF Trail
            <3>2. QED BY <2>1, <3>1 DEF OnTrack, Good, Failure
      <2>3. MatchesReference => MatchesReference'
            BY <2>1 DEF MatchesReference, Means, Good, SetFail
      <2>4. QED BY <2>1, <2>2, <2>3 DEF MatchInv, Good
<1>5. QED BY <1>1, <1>2, <1>3, <1>4 DEF Next, Callee, Return

LEMMA MatchInit == Init => MatchInv
<1>1. SUFFICES ASSUME Init PROVE MatchInv
      OBVIOUS
<1>2. IInv
      BY <1>1, InitInv
<1>3. depth = 0 /\ pc = "call" /\ Good(is) /\ began.is = is
      BY <1>1, EmptySeq DEF Init, Fresh, Good, depth
<1>4. OnTrack
      BY <1>2, <1>3, Bounds, CallBegins DEF Begins
<1>5. QED BY <1>3, <1>4 DEF MatchInv, MatchesReference

\* Where operator< orders the keys of what can be read, every call of parse returns
\* what Decode says of the bytes it began at, leaves the stream behind them and sets
\* err and the stream's bits accordingly, whatever came before on that stream.
THEOREM ParserMatchesReference ==
    ASSUME \A in \in Inputs : Reference!KeysOrdered(in)
    PROVE  Spec => []MatchesReference
<1>1. Init => MatchInv
      BY MatchInit
<1>2. IInv => Reference!KeysOrdered(input)
      BY DEF IInv, TypeOK
<1>3. IInv /\ Since /\ MembersInv /\ MatchInv /\ [Next]_vars => MatchInv'
      BY <1>2, MatchStep
<1>4. MatchInv => MatchesReference
      BY DEF MatchInv
<1>5. QED BY <1>1, <1>3, <1>4, Invariance, SinceInvariance, MembersInvariance, PTL DEF Spec
=====================================================================
