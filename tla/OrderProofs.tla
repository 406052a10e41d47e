------------------------ MODULE OrderProofs -------------------------
(***************************************************************************)
(* What a std::map does for a program whose keys operator< orders, with    *)
(* operator== as its equivalence, for every set of keys, however many are  *)
(* inserted and in whatever order.                                         *)
(***************************************************************************)
EXTENDS Order, ParserProofs, FiniteSetTheorems

Alike(a, b) == ~Less(a, b) /\ ~Less(b, a)

\* Each key is less than those behind it.
Sorted(keys) == \A i, j \in 1..Len(keys) : i < j => Less(keys[i], keys[j])

\* For each key that was inserted there is one in the map that is equivalent to it.
Covers(keys, all) == \A key \in all : \E j \in 1..Len(keys) : Alike(keys[j], key)

Shaped ==
    /\ object \in [items : Seq({Nil}), keys : Seq(inserted), key : inserted \union {Nil}]
    /\ Len(object.items) = Len(object.keys)

OrderInv ==
    /\ Shaped
    /\ inserted \subseteq Ordinary => Sorted(object.keys) /\ Covers(object.keys, inserted)
---------------------------------------------------------------------
\* A strict weak order.

LEMMA WeakOrder ==
    ASSUME NEW S, StrictWeakOrder(S), NEW a \in S, NEW b \in S, NEW c \in S
    PROVE  /\ Less(a, b) /\ Less(b, c) => Less(a, c)
           /\ Less(a, b) /\ Alike(b, c) => Less(a, c)
           /\ Less(a, b) /\ Alike(a, c) => Less(c, b)
           /\ Alike(a, b) /\ Alike(b, c) => Alike(a, c)
           /\ ~Less(b, a) /\ Less(b, c) /\ Alike(c, a) => FALSE
           /\ Alike(a, a)
BY DEF StrictWeakOrder, Alike

\* Where the search ends, the keys before are less and those behind are greater.
LEMMA AroundTheEnd ==
    ASSUME NEW S, StrictWeakOrder(S), NEW s \in Seq(S), Sorted(s), NEW k \in S,
           NEW p \in 0..Len(s), Ends(s, k, p), p = 0 \/ Less(s[p], k)
    PROVE  /\ \A i \in 1..p : Less(s[i], k)
           /\ \A i \in (p + 1)..Len(s) : Less(k, s[i])
<1>1. Len(s) \in Nat /\ \A i \in 1..Len(s) : s[i] \in S
      BY LenProperties, ElementOfSeq
<1>2. ASSUME NEW i \in 1..p PROVE Less(s[i], k)
      <2>1. i \in 1..Len(s) /\ p \in 1..Len(s) /\ p # 0
            BY <1>1
      <2>2. CASE i = p
            BY <2>1, <2>2
      <2>3. CASE i < p
            <3>1. Less(s[i], s[p]) /\ Less(s[p], k)
                  BY <2>1, <2>3 DEF Sorted
            <3>2. QED BY <1>1, <2>1, <3>1, WeakOrder
      <2>4. QED BY <1>1, <2>2, <2>3
<1>3. ASSUME NEW i \in (p + 1)..Len(s) PROVE Less(k, s[i])
      <2>1. i \in 1..Len(s) /\ p + 1 \in 1..Len(s) /\ p < Len(s)
            BY <1>1
      <2>2. Less(k, s[p + 1])
            BY <2>1 DEF Ends
      <2>3. CASE i = p + 1
            BY <2>2, <2>3
      <2>4. CASE p + 1 < i
            <3>1. Less(s[p + 1], s[i])
                  BY <2>1, <2>4 DEF Sorted
            <3>2. QED BY <1>1, <2>1, <2>2, <3>1, WeakOrder
      <2>5. QED BY <1>1, <2>3, <2>4
<1>4. QED BY <1>2, <1>3

LEMMA StaysSorted ==
    ASSUME NEW S, StrictWeakOrder(S), NEW s \in Seq(S), Sorted(s), NEW k \in S,
           NEW p \in 0..Len(s), Ends(s, k, p), p = 0 \/ Less(s[p], k),
           NEW t, WithBehind(t, s, p, k)
    PROVE  Sorted(t)
<1>1. PICK n \in Nat : n = Len(s) /\ p \in 0..n
      BY LenProperties
<1>2. /\ \A i \in 1..p : Less(s[i], k)
      /\ \A i \in (p + 1)..n : Less(k, s[i])
      BY <1>1, AroundTheEnd
<1>3. /\ Len(t) = n + 1
      /\ \A i \in 1..(n + 1) :
            t[i] = IF i <= p THEN s[i] ELSE IF i = p + 1 THEN k ELSE s[i - 1]
      BY <1>1 DEF WithBehind
<1>4. \A i, j \in 1..n : i < j => Less(s[i], s[j])
      BY <1>1 DEF Sorted
<1>5. ASSUME NEW i \in 1..(n + 1), NEW j \in 1..(n + 1), i < j
      PROVE  Less(t[i], t[j])
      <2>1. CASE j <= p
            <3>1. t[i] = s[i] /\ t[j] = s[j] /\ i \in 1..n /\ j \in 1..n
                  BY <1>1, <1>3, <1>5, <2>1
            <3>2. QED BY <1>4, <1>5, <3>1
      <2>2. CASE j = p + 1
            <3>1. t[i] = s[i] /\ t[j] = k /\ i \in 1..p
                  BY <1>1, <1>3, <1>5, <2>2
            <3>2. QED BY <1>2, <3>1
      <2>3. CASE j > p + 1 /\ i <= p
            <3>1. t[i] = s[i] /\ t[j] = s[j - 1] /\ i \in 1..n /\ j - 1 \in 1..n /\ i < j - 1
                  BY <1>1, <1>3, <1>5, <2>3
            <3>2. QED BY <1>4, <3>1
      <2>4. CASE j > p + 1 /\ i = p + 1
            <3>1. t[i] = k /\ t[j] = s[j - 1] /\ j - 1 \in (p + 1)..n
                  BY <1>1, <1>3, <1>5, <2>4
            <3>2. QED BY <1>2, <3>1
      <2>5. CASE j > p + 1 /\ i > p + 1
            <3>1. /\ t[i] = s[i - 1] /\ t[j] = s[j - 1]
                  /\ i - 1 \in 1..n /\ j - 1 \in 1..n /\ i - 1 < j - 1
                  BY <1>1, <1>3, <1>5, <2>5
            <3>2. QED BY <1>4, <3>1
      <2>6. QED BY <1>1, <2>1, <2>2, <2>3, <2>4, <2>5
<1>6. QED BY <1>3, <1>5 DEF Sorted

\* Every key is still there, at its place or the next one, and so is the new one.
LEMMA StaysCovered ==
    ASSUME NEW all, NEW s, Len(s) \in Nat, Covers(s, all), NEW k, ~Less(k, k),
           NEW p \in 0..Len(s), NEW t, WithBehind(t, s, p, k)
    PROVE  Covers(t, all \union {k})
<1>1. PICK n \in Nat : n = Len(s) /\ p \in 0..n
      OBVIOUS
<1>2. /\ Len(t) = n + 1
      /\ \A i \in 1..(n + 1) :
            t[i] = IF i <= p THEN s[i] ELSE IF i = p + 1 THEN k ELSE s[i - 1]
      BY <1>1 DEF WithBehind
<1>3. ASSUME NEW j \in 1..n PROVE \E i \in 1..(n + 1) : t[i] = s[j]
      <2>1. CASE j <= p
            <3>1. j \in 1..(n + 1) /\ t[j] = s[j]
                  BY <1>1, <1>2, <2>1
            <3>2. QED BY <3>1
      <2>2. CASE j > p
            <3>1. j + 1 \in 1..(n + 1) /\ (j + 1) - 1 = j /\ ~(j + 1 <= p) /\ j + 1 # p + 1
                  BY <1>1, <2>2
            <3>2. t[j + 1] = s[j]
                  BY <1>2, <3>1
            <3>3. QED BY <3>1, <3>2
      <2>3. QED BY <1>1, <2>1, <2>2
<1>4. p + 1 \in 1..(n + 1) /\ t[p + 1] = k
      BY <1>1, <1>2
<1>5. ASSUME NEW key \in all PROVE \E i \in 1..(n + 1) : Alike(t[i], key)
      <2>1. PICK j \in 1..n : Alike(s[j], key)
            BY <1>1 DEF Covers
      <2>2. PICK i \in 1..(n + 1) : t[i] = s[j]
            BY <1>3
      <2>3. QED BY <2>1, <2>2
<1>6. Alike(t[p + 1], k)
      BY <1>4 DEF Alike
<1>7. QED BY <1>2, <1>4, <1>5, <1>6 DEF Covers
---------------------------------------------------------------------

LEMMA OrderInit == OInit => OrderInv
<1> SUFFICES ASSUME OInit PROVE OrderInv
    OBVIOUS
<1>1. object = [items |-> <<>>, keys |-> <<>>, key |-> Nil] /\ inserted = {}
      BY DEF OInit
<1>2. Shaped
      BY <1>1, EmptySeq DEF Shaped
<1>3. Len(object.keys) = 0
      BY <1>1, EmptySeq
<1>4. QED BY <1>1, <1>2, <1>3 DEF OrderInv, Sorted, Covers

\* What insert does: the key goes where the search ended, or is there already.
LEMMA InsertDoes ==
    ASSUME Shaped, InsertMember
    PROVE  \E k \in Keys : \E p \in 0..Len(object.keys) :
              /\ Ends(object.keys, k, p) /\ inserted' = inserted \union {k} /\ Shaped'
              /\ \/ (p = 0 \/ Less(object.keys[p], k)) /\ WithBehind(object.keys', object.keys, p, k)
                 \/ p # 0 /\ ~Less(object.keys[p], k) /\ object.keys' = object.keys
<1>1. PICK k \in Keys, p \in 0..Len(object.keys) :
         /\ Ends(object.keys, k, p)
         /\ object' = Insert([object EXCEPT !.key = k], p, Nil)
         /\ inserted' = inserted \union {k}
      BY DEF InsertMember
<1>2. PICK keys, items : keys = object.keys /\ items = object.items
      OBVIOUS
<1>3. PICK all : all = inserted \union {k}
      OBVIOUS
<1>4. keys \in Seq(all) /\ items \in Seq({Nil}) /\ k \in all /\ Nil \in {Nil}
      /\ Len(items) = Len(keys)
      <2>1. keys \in Seq(inserted) /\ items \in Seq({Nil}) /\ inserted \subseteq all
            /\ Len(items) = Len(keys)
            BY <1>2, <1>3 DEF Shaped
      <2>2. Seq(inserted) \subseteq Seq(all)
            BY <2>1, SeqMonotonic
      <2>3. QED BY <1>3, <2>1, <2>2
<1>5. PICK b : b = [object EXCEPT !.key = k]
      OBVIOUS
<1>6. /\ b = [items |-> items, keys |-> keys, key |-> k]
      /\ b.keys = keys /\ b.items = items /\ b.key = k
      BY <1>2, <1>5 DEF Shaped
<1>7. CASE p = 0 \/ Less(keys[p], k)
      <2>1. PICK s, t : s = InsertAt(keys, p + 1, k) /\ t = InsertAt(items, p + 1, Nil)
            OBVIOUS
      <2>2. object' = [items |-> t, keys |-> s, key |-> k]
            BY <1>1, <1>5, <1>6, <1>7, <2>1 DEF Insert
      <2>3. s \in Seq(all) /\ WithBehind(s, keys, p, k)
            BY <1>2, <1>4, <2>1, Inserted
      <2>4. t \in Seq({Nil}) /\ Len(t) = Len(s)
            <3>1. t \in Seq({Nil}) /\ WithBehind(t, items, p, Nil)
                  BY <1>2, <1>4, <2>1, Inserted
            <3>2. QED BY <1>4, <2>3, <3>1 DEF WithBehind
      <2>5. Shaped'
            BY <1>1, <1>3, <1>4, <2>2, <2>3, <2>4 DEF Shaped
      <2>6. QED BY <1>1, <1>2, <1>7, <2>2, <2>3, <2>5
<1>8. CASE ~(p = 0 \/ Less(keys[p], k))
      <2>1. object' = [items |-> items, keys |-> keys, key |-> k]
            BY <1>1, <1>5, <1>6, <1>8 DEF Insert
      <2>2. Shaped'
            BY <1>1, <1>3, <1>4, <2>1 DEF Shaped
      <2>3. QED BY <1>1, <1>2, <1>8, <2>1, <2>2
<1>9. QED BY <1>7, <1>8

LEMMA OrderStep ==
    ASSUME OrdersAs(Ordinary, Equal), OrderInv, [ONext]_ovars
    PROVE  OrderInv'
<1>1. CASE UNCHANGED ovars
      BY <1>1 DEF ovars, OrderInv, Shaped, Sorted, Covers
<1>2. CASE InsertMember
      <2>1. PICK k \in Keys, p \in 0..Len(object.keys) :
              /\ Ends(object.keys, k, p) /\ inserted' = inserted \union {k} /\ Shaped'
              /\ \/ (p = 0 \/ Less(object.keys[p], k)) /\ WithBehind(object.keys', object.keys, p, k)
                 \/ p # 0 /\ ~Less(object.keys[p], k) /\ object.keys' = object.keys
            BY <1>2, InsertDoes DEF OrderInv
      <2>2. SUFFICES ASSUME inserted' \subseteq Ordinary
                     PROVE  Sorted(object'.keys) /\ Covers(object'.keys, inserted')
            BY <2>1 DEF OrderInv
      <2>3. StrictWeakOrder(Ordinary) /\ k \in Ordinary /\ inserted \subseteq Ordinary
            BY <2>1, <2>2 DEF OrdersAs
      <2>4. PICK s : s = object.keys
            OBVIOUS
      <2>5. /\ s \in Seq(Ordinary) /\ Len(s) \in Nat /\ Sorted(s) /\ Covers(s, inserted)
            /\ p \in 0..Len(s) /\ Ends(s, k, p)
            <3>1. s \in Seq(inserted)
                  BY <2>4 DEF OrderInv, Shaped
            <3>2. s \in Seq(Ordinary)
                  BY <2>3, <3>1, SeqMonotonic
            <3>3. QED BY <2>1, <2>3, <2>4, <3>2, LenProperties DEF OrderInv
      <2>6. ~Less(k, k)
            BY <2>3, WeakOrder DEF Alike
      <2>7. CASE (p = 0 \/ Less(s[p], k)) /\ WithBehind(object'.keys, s, p, k)
            <3>1. PICK t : t = object'.keys
                  OBVIOUS
            <3>2. Sorted(t)
                  BY <2>3, <2>5, <2>7, <3>1, StaysSorted
            <3>3. Covers(t, inserted \union {k})
                  BY <2>5, <2>6, <2>7, <3>1, StaysCovered
            <3>4. QED BY <2>1, <3>1, <3>2, <3>3
      <2>8. CASE p # 0 /\ ~Less(s[p], k) /\ object'.keys = s
            <3>1. p \in 1..Len(s) /\ Alike(s[p], k)
                  BY <2>5, <2>8 DEF Ends, Alike
            <3>2. Covers(s, inserted \union {k})
                  BY <2>5, <3>1 DEF Covers
            <3>3. QED BY <2>1, <2>5, <2>8, <3>2
      <2>9. QED BY <2>1, <2>4, <2>7, <2>8
<1>3. QED BY <1>1, <1>2 DEF ONext

LEMMA OrderInvariance == ASSUME OrdersAs(Ordinary, Equal) PROVE OSpec => []OrderInv
<1>1. OrderInv /\ [ONext]_ovars => OrderInv'
      BY OrderStep
<1>2. QED BY <1>1, OrderInit, PTL DEF OSpec

\* What is known of the map when all keys are ordinary.
LEMMA OrdinaryMap ==
    ASSUME OrdersAs(Ordinary, Equal), OrderInv, inserted \subseteq Ordinary
    PROVE  /\ StrictWeakOrder(Ordinary) /\ Len(object.keys) \in Nat
           /\ DOMAIN object.keys = 1..Len(object.keys)
           /\ \A j \in 1..Len(object.keys) : object.keys[j] \in inserted
           /\ Sorted(object.keys) /\ Covers(object.keys, inserted)
           /\ \A a, b \in inserted : Equal(a, b) <=> Alike(a, b)
<1>1. object.keys \in Seq(inserted)
      BY DEF OrderInv, Shaped
<1>2. QED BY <1>1, LenProperties, ElementOfSeq DEF OrderInv, OrdersAs, Alike

\* The search for a key ends at the one in the map that is equivalent to it.
LEMMA SearchFinds ==
    ASSUME NEW S, StrictWeakOrder(S), NEW s, Len(s) \in Nat,
           \A i \in 1..Len(s) : s[i] \in S, Sorted(s), NEW k \in S,
           NEW j \in 1..Len(s), Alike(s[j], k),
           NEW p \in 1..(Len(s) + 1), Reaches(s, k, p)
    PROVE  p = j
<1>1. CASE p > j
      <2>1. p - 1 \in 1..Len(s) /\ p > 1 /\ j <= p - 1
            BY <1>1
      <2>2. Less(s[p - 1], k)
            BY <2>1 DEF Reaches
      <2>3. CASE j = p - 1
            BY <2>2, <2>3 DEF Alike
      <2>4. CASE j < p - 1
            <3>1. Less(s[j], s[p - 1])
                  BY <2>1, <2>4 DEF Sorted
            <3>2. s[j] \in S /\ s[p - 1] \in S
                  BY <2>1
            <3>3. Less(s[j], k)
                  BY <2>2, <3>1, <3>2, WeakOrder
            <3>4. QED BY <3>3 DEF Alike
      <2>5. QED BY <2>1, <2>3, <2>4
<1>2. CASE p < j
      <2>1. p \in 1..Len(s) /\ ~Less(s[p], k)
            BY <1>2 DEF Reaches
      <2>2. Less(s[p], s[j]) /\ s[p] \in S /\ s[j] \in S
            BY <1>2, <2>1 DEF Sorted
      <2>3. Less(s[p], k)
            BY <2>2, WeakOrder
      <2>4. QED BY <2>1, <2>3
<1>3. QED BY <1>1, <1>2

LEMMA KeysAreFound ==
    ASSUME OrdersAs(Ordinary, Equal), OrderInv
    PROVE  EveryKeyFound
<1> SUFFICES ASSUME inserted \subseteq Ordinary, NEW key \in inserted,
                    NEW p \in 1..(Len(object.keys) + 1), Reaches(object.keys, key, p)
             PROVE  Finds(object.keys, key, p) /\ Equal(object.keys[p], key)
    BY DEF EveryKeyFound
<1>1. PICK s : s = object.keys
      OBVIOUS
<1>2. /\ StrictWeakOrder(Ordinary) /\ Len(s) \in Nat
      /\ \A i \in 1..Len(s) : s[i] \in inserted
      /\ Sorted(s) /\ Covers(s, inserted)
      /\ \A a, b \in inserted : Equal(a, b) <=> Alike(a, b)
      BY <1>1, OrdinaryMap
<1>3. PICK j \in 1..Len(s) : Alike(s[j], key)
      BY <1>2 DEF Covers
<1>4. p = j
      <2>1. \A i \in 1..Len(s) : s[i] \in Ordinary
            BY <1>2
      <2>2. QED BY <1>1, <1>2, <1>3, <2>1, SearchFinds
<1>5. Equal(s[p], key)
      BY <1>2, <1>3, <1>4
<1>6. Finds(s, key, p)
      BY <1>3, <1>4 DEF Finds, Alike
<1>7. QED BY <1>1, <1>5, <1>6

\* The keys of the map stand for the classes of equal keys, one for each.
LEMMA OneForEach ==
    ASSUME OrdersAs(Ordinary, Equal), OrderInv, inserted \subseteq Ordinary
    PROVE  Len(object.keys) = Cardinality({{k \in inserted : Equal(k, key)} : key \in inserted})
<1>1. PICK s : s = object.keys
      OBVIOUS
<1>2. /\ StrictWeakOrder(Ordinary) /\ Len(s) \in Nat
      /\ \A i \in 1..Len(s) : s[i] \in inserted
      /\ Sorted(s) /\ Covers(s, inserted)
      /\ \A a, b \in inserted : Equal(a, b) <=> Alike(a, b)
      BY <1>1, OrdinaryMap
<1> DEFINE class(key) == {k \in inserted : Equal(k, key)}
           C == {class(key) : key \in inserted}
           f == [j \in 1..Len(s) |-> class(s[j])]
<1>3. \A key \in inserted : Alike(key, key)
      BY <1>2, WeakOrder
<1>4. ASSUME NEW a \in inserted, NEW b \in inserted, class(a) = class(b) PROVE Alike(a, b)
      <2>1. a \in class(a)
            BY <1>2, <1>3
      <2>2. QED BY <1>2, <1>4, <2>1
<1>5. ASSUME NEW a \in inserted, NEW b \in inserted, Alike(a, b) PROVE class(a) = class(b)
      <2>1. \A k \in inserted : Alike(k, a) => Alike(k, b)
            BY <1>2, <1>5, WeakOrder
      <2>2. \A k \in inserted : Alike(k, b) => Alike(k, a)
            <3>1. Alike(b, a)
                  BY <1>5 DEF Alike
            <3>2. QED BY <1>2, <3>1, WeakOrder
      <2>3. QED BY <1>2, <2>1, <2>2
<1> HIDE DEF class
<1>6. f \in [1..Len(s) -> C]
      BY <1>2
<1>7. ASSUME NEW i \in 1..Len(s), NEW j \in 1..Len(s), f[i] = f[j] PROVE i = j
      <2>1. Alike(s[i], s[j])
            BY <1>2, <1>4, <1>7
      <2>2. ~(i < j) /\ ~(j < i)
            BY <2>1, <1>2 DEF Sorted, Alike
      <2>3. QED BY <1>2, <2>2
<1>8. ASSUME NEW c \in C PROVE \E j \in 1..Len(s) : f[j] = c
      <2>1. PICK key \in inserted : c = class(key)
            OBVIOUS
      <2>2. PICK j \in 1..Len(s) : Alike(s[j], key)
            BY <1>2 DEF Covers
      <2>3. f[j] = c
            BY <1>2, <1>5, <2>1, <2>2
      <2>4. QED BY <2>3
<1> HIDE DEF C, f
<1>9. f \in Bijection(1..Len(s), C)
      <2>1. f \in Injection(1..Len(s), C)
            BY <1>6, <1>7 DEF Injection, IsInjective
      <2>2. f \in Surjection(1..Len(s), C)
            BY <1>6, <1>8 DEF Surjection
      <2>3. QED BY <2>1, <2>2 DEF Bijection
<1>10. IsFiniteSet(1..Len(s)) /\ Cardinality(1..Len(s)) = Len(s)
      <2>1. PICK n \in Nat : n = Len(s)
            BY <1>2
      <2>2. IsFiniteSet(1..n) /\ Cardinality(1..n) = IF 1 > n THEN 0 ELSE n - 1 + 1
            BY FS_Interval
      <2>3. QED BY <2>1, <2>2
<1>11. Cardinality(C) = Len(s)
      BY <1>9, <1>10, FS_Bijection DEF ExistsBijection
<1>12. QED BY <1>1, <1>11 DEF C, class

\* For any keys that operator< orders as operator== tells them apart, in any number:
\* a map finds what was put into it, by each spelling of its key.
THEOREM KeysFound == ASSUME OrdersAs(Ordinary, Equal) PROVE OSpec => []EveryKeyFound
<1>1. OrderInv => EveryKeyFound
      BY KeysAreFound
<1>2. QED BY <1>1, OrderInvariance, PTL

\* For such keys, whatever the order of insertion and however often a key comes: the
\* map has one key of each class of equal ones, each less than those behind it.
THEOREM OrderDoesNotMatter == ASSUME OrdersAs(Ordinary, Equal) PROVE OSpec => []SameInAnyOrder
<1>1. OrderInv => SameInAnyOrder
      <2>1. SUFFICES ASSUME OrderInv, inserted \subseteq Ordinary
                     PROVE  /\ \A i, j \in DOMAIN object.keys :
                                  i < j => Less(object.keys[i], object.keys[j])
                            /\ Len(object.keys) =
                                  Cardinality({{k \in inserted : Equal(k, key)} : key \in inserted})
            BY DEF SameInAnyOrder
      <2>2. DOMAIN object.keys = 1..Len(object.keys) /\ Sorted(object.keys)
            BY <2>1, OrdinaryMap
      <2>3. QED BY <2>1, <2>2, OneForEach DEF Sorted
<1>2. QED BY <1>1, OrderInvariance, PTL
=====================================================================
