----------------------- MODULE DumperProofs -------------------------
(***************************************************************************)
(* Theorems about operator<< and dump as they run, for all values, any     *)
(* limit on their lengths and any number of calls.                         *)
(***************************************************************************)
EXTENDS Dumper, EncodeProofs


\* Something in v is too long, or in one of the values of a sequence.
Overlong(v) == \E x \in Inside[v] : TooLong(x)
SomeOverlong(values) == \E i \in 1..Len(values) : Overlong(values[i])

\* What operator<< of v has put, and what its loops have still to dump; "intact" is
\* whether the stream has taken all of it.
Going(v, put, rest, intact) ==
    /\ IF intact THEN put \o Each(Encoded, rest) = Encoded[v] ELSE Torn(put, Encoded[v])
    /\ Overlong(v) <=> SomeOverlong(rest)

\* The invariant: a write that runs has put the beginning of its encoding.
DTypeOK ==
    /\ os \in Seq(Nat) /\ ss \in Seq(Nat)
    /\ bad \subseteq {"os", "ss"}
    /\ to \in {"none", "os", "ss"}
    /\ todo \in Seq(Values)
    /\ writes \in Seq([value : Values, from : Nat, threw : BOOLEAN, good : BOOLEAN])
    /\ \A i \in 1..Len(writes) : writes[i].from <= Len(os)

Running ==
    /\ to = "none" => todo = <<>>
    /\ to # "ss" => ss = <<>> /\ "ss" \notin bad
    /\ to = "os" =>
          /\ writes # <<>>
          /\ Going(writes[Len(writes)].value, Part(Len(writes)), todo, "os" \notin bad)
    /\ to = "ss" => dumped \in Values /\ Going(dumped, ss, todo, "ss" \notin bad)

DInv == DTypeOK /\ Running /\ WholeOrTorn
---------------------------------------------------------------------
\* Values and what they hold.

LEMMA OverlongWithin ==
    ASSUME NEW v \in Values
    PROVE  Overlong(v) <=> TooLong(v) \/ SomeOverlong(Children(v))
<1>1. Inside[v] = {v} \union UNION {Inside[x] : x \in Range(Children(v))}
      BY InsideAssumption DEF Values
<1>2. Range(Children(v)) = {Children(v)[i] : i \in 1..Len(Children(v))}
      BY ChildrenAreValues, LenProperties DEF Range
<1>3. QED BY <1>1, <1>2 DEF Overlong, SomeOverlong

LEMMA SomeOverlongHead ==
    ASSUME NEW s \in Seq(Values), s # <<>>
    PROVE  SomeOverlong(s) <=> Overlong(Head(s)) \/ SomeOverlong(Tail(s))
<1>1. /\ Len(s) \in Nat \ {0} /\ Len(Tail(s)) = Len(s) - 1 /\ Head(s) = s[1]
      /\ \A i \in 1..(Len(s) - 1) : Tail(s)[i] = s[i + 1]
      BY EmptySeq, HeadTailProperties
<1>2. \A i \in 1..Len(s) : i = 1 \/ i - 1 \in 1..(Len(s) - 1)
      BY <1>1
<1>3. ASSUME SomeOverlong(s) PROVE Overlong(Head(s)) \/ SomeOverlong(Tail(s))
      <2>1. PICK i \in 1..Len(s) : Overlong(s[i])
            BY <1>3 DEF SomeOverlong
      <2>2. CASE i # 1
            <3>1. i - 1 \in 1..(Len(s) - 1) /\ Tail(s)[i - 1] = s[(i - 1) + 1] /\ (i - 1) + 1 = i
                  BY <1>1, <2>2
            <3>2. QED BY <1>1, <2>1, <3>1 DEF SomeOverlong
      <2>3. QED BY <1>1, <2>1, <2>2
<1>4. ASSUME SomeOverlong(Tail(s)) PROVE SomeOverlong(s)
      <2>1. PICK i \in 1..(Len(s) - 1) : Overlong(Tail(s)[i])
            BY <1>1, <1>4 DEF SomeOverlong
      <2>2. i + 1 \in 1..Len(s) /\ Overlong(s[i + 1])
            BY <1>1, <2>1
      <2>3. QED BY <2>2 DEF SomeOverlong
<1>5. Overlong(Head(s)) => SomeOverlong(s)
      BY <1>1 DEF SomeOverlong
<1>6. QED BY <1>3, <1>4, <1>5

LEMMA SomeOverlongConcat ==
    ASSUME NEW s \in Seq(Values), NEW t \in Seq(Values)
    PROVE  SomeOverlong(s \o t) <=> SomeOverlong(s) \/ SomeOverlong(t)
<1>1. /\ Len(s) \in Nat /\ Len(t) \in Nat /\ Len(s \o t) = Len(s) + Len(t)
      /\ \A i \in 1..(Len(s) + Len(t)) : (s \o t)[i] = IF i <= Len(s) THEN s[i] ELSE t[i - Len(s)]
      BY LenProperties, ConcatProperties
<1>2. ASSUME SomeOverlong(s \o t) PROVE SomeOverlong(s) \/ SomeOverlong(t)
      <2>1. PICK i \in 1..(Len(s) + Len(t)) : Overlong((s \o t)[i])
            BY <1>1, <1>2 DEF SomeOverlong
      <2>2. CASE i <= Len(s)
            <3>1. i \in 1..Len(s) /\ Overlong(s[i])
                  BY <1>1, <2>1, <2>2
            <3>2. QED BY <3>1 DEF SomeOverlong
      <2>3. CASE ~(i <= Len(s))
            <3>1. i - Len(s) \in 1..Len(t) /\ Overlong(t[i - Len(s)])
                  BY <1>1, <2>1, <2>3
            <3>2. QED BY <3>1 DEF SomeOverlong
      <2>4. QED BY <2>2, <2>3
<1>3. ASSUME SomeOverlong(s) PROVE SomeOverlong(s \o t)
      <2>1. PICK i \in 1..Len(s) : Overlong(s[i])
            BY <1>3 DEF SomeOverlong
      <2>2. i \in 1..(Len(s) + Len(t)) /\ Overlong((s \o t)[i])
            BY <1>1, <2>1
      <2>3. QED BY <1>1, <2>2 DEF SomeOverlong
<1>4. ASSUME SomeOverlong(t) PROVE SomeOverlong(s \o t)
      <2>1. PICK i \in 1..Len(t) : Overlong(t[i])
            BY <1>4 DEF SomeOverlong
      <2>2. PICK j \in 1..(Len(s) + Len(t)) : j = Len(s) + i
            BY <1>1
      <2>3. ~(j <= Len(s)) /\ j - Len(s) = i
            BY <1>1, <2>2
      <2>4. Overlong((s \o t)[j])
            BY <1>1, <2>1, <2>3
      <2>5. QED BY <1>1, <2>4 DEF SomeOverlong
<1>5. QED BY <1>2, <1>3, <1>4
---------------------------------------------------------------------
\* The loops, step by step.

LEMMA GoingBegins ==
    ASSUME NEW v \in Values, NEW intact \in BOOLEAN
    PROVE  Going(v, <<>>, <<v>>, intact)
<1>1. Each(Encoded, <<v>>) = Encoded[v] /\ Encoded[v] \in Seq(Nat)
      BY EncodedBytes, EachOne DEF Values
<1>2. <<>> \o Encoded[v] = Encoded[v]
      BY <1>1, ConcatEmptySeq
<1>3. SomeOverlong(<<v>>) <=> Overlong(v)
      <2>1. Len(<<v>>) = 1 /\ <<v>>[1] = v
            OBVIOUS
      <2>2. QED BY <2>1 DEF SomeOverlong
<1>4. Torn(<<>>, Encoded[v])
      BY DEF Torn
<1>5. QED BY <1>1, <1>2, <1>3, <1>4 DEF Going

LEMMA GoingEnds ==
    ASSUME NEW v \in Values, NEW put \in Seq(Nat), NEW intact \in BOOLEAN,
           Going(v, put, <<>>, intact)
    PROVE  /\ ~Overlong(v)
           /\ IF intact THEN put = Encoded[v] ELSE Torn(put, Encoded[v])
<1>1. put \o <<>> = put
      BY ConcatEmptySeq
<1>2. Len(<<>>) = 0
      OBVIOUS
<1>3. ~SomeOverlong(<<>>)
      BY <1>2 DEF SomeOverlong
<1>4. QED BY <1>1, <1>3, EachNothing DEF Going

\* What is put before a length is not nothing.
LEMMA HeaderNumbers ==
    ASSUME NEW n \in Nat
    PROVE  /\ ArrayHeader(n) \in Seq(Nat) \ {<<>>} /\ ObjectHeader(n) \in Seq(Nat) \ {<<>>}
           /\ StringHeader(n) \in Seq(Nat) \ {<<>>} /\ BinaryHeader(n) \in Seq(Nat) \ {<<>>}
           /\ ExtensionHeader(n) \in Seq(Nat) \ {<<>>}
<1> DEFINE Some == Seq(Nat) \ {<<>>}
<1>1. ASSUME NEW k \in Nat PROVE <<k>> \in Some
      OBVIOUS
<1>2. ASSUME NEW k \in Nat, NEW s \in Seq(Nat) PROVE <<k>> \o s \in Some
      <2>1. PICK h : h = <<k>>
            OBVIOUS
      <2>2. h \in Seq(Nat) /\ h # <<>>
            BY <2>1
      <2>3. h \o s \in Seq(Nat) /\ h \o s # <<>>
            BY <2>2, ConcatProperties, ConcatEqualIffEmpty
      <2>4. QED BY <2>1, <2>3
<1>3. Bytes1(n) \in Seq(Nat) /\ Bytes2(n) \in Seq(Nat) /\ Bytes4(n) \in Seq(Nat)
      <2>1. /\ n \div 256 \in Nat /\ n % 256 \in Nat
            /\ n \div 16777216 \in Nat /\ (n \div 65536) % 256 \in Nat
            /\ (n \div 256) % 256 \in Nat
            <3>1. n \div 256 \in Nat /\ n \div 65536 \in Nat /\ n \div 16777216 \in Nat
                  OBVIOUS
            <3>2. \A k \in Nat : k % 256 \in Nat
                  OBVIOUS
            <3>3. QED BY <3>1, <3>2
      <2>2. QED BY <2>1 DEF Bytes1, Bytes2, Bytes4
<1> HIDE DEF Some
<1>4. ASSUME NEW fix \in Nat, NEW prefix \in Nat PROVE ContainerHeader(n, fix, prefix) \in Some
      <2>1. fix + n \in Nat /\ prefix + 1 \in Nat
            OBVIOUS
      <2>2. <<fix + n>> \in Some /\ <<prefix>> \o Bytes2(n) \in Some
            /\ <<prefix + 1>> \o Bytes4(n) \in Some
            BY <1>1, <1>2, <1>3, <2>1, Zenon
      <2>3. QED BY <2>2 DEF ContainerHeader
<1>5. ArrayHeader(n) \in Some /\ ObjectHeader(n) \in Some
      BY <1>4 DEF ArrayHeader, ObjectHeader
<1>6. StringHeader(n) \in Some /\ BinaryHeader(n) \in Some
      <2>1. 160 + n \in Nat /\ 217 \in Nat /\ 218 \in Nat /\ 219 \in Nat
            /\ 196 \in Nat /\ 197 \in Nat /\ 198 \in Nat
            OBVIOUS
      <2>2. /\ <<160 + n>> \in Some /\ <<217>> \o Bytes1(n) \in Some
            /\ <<218>> \o Bytes2(n) \in Some /\ <<219>> \o Bytes4(n) \in Some
            /\ <<196>> \o Bytes1(n) \in Some /\ <<197>> \o Bytes2(n) \in Some
            /\ <<198>> \o Bytes4(n) \in Some
            BY <1>1, <1>2, <1>3, <2>1, Zenon
      <2>3. QED BY <2>2 DEF StringHeader, BinaryHeader
<1>7. ExtensionHeader(n) \in Some
      <2>1. /\ 212 \in Nat /\ 213 \in Nat /\ 214 \in Nat /\ 215 \in Nat /\ 216 \in Nat
            /\ 199 \in Nat /\ 200 \in Nat /\ 201 \in Nat
            OBVIOUS
      <2>2. /\ <<212>> \in Some /\ <<213>> \in Some /\ <<214>> \in Some
            /\ <<215>> \in Some /\ <<216>> \in Some
            /\ <<199>> \o Bytes1(n) \in Some /\ <<200>> \o Bytes2(n) \in Some
            /\ <<201>> \o Bytes4(n) \in Some
            BY <1>1, <1>2, <1>3, <2>1, Zenon
      <2>3. PICK a, b, c : a = <<199>> \o Bytes1(n) /\ b = <<200>> \o Bytes2(n)
                           /\ c = <<201>> \o Bytes4(n)
            OBVIOUS
      <2>4. CASE n \in {1, 2, 4, 8, 16}
            BY <2>2, <2>4 DEF ExtensionHeader
      <2>5. CASE n \notin {1, 2, 4, 8, 16}
            <3>1. ExtensionHeader(n) = IF n <= 255 THEN a ELSE IF n <= 65535 THEN b ELSE c
                  <4>1. n # 1 /\ n # 2 /\ n # 4 /\ n # 8 /\ n # 16
                        BY <2>5
                  <4>2. QED BY <2>3, <2>5, <4>1 DEF ExtensionHeader
            <3>2. a \in Some /\ b \in Some /\ c \in Some
                  BY <2>2, <2>3, Zenon
            <3>3. QED BY <3>1, <3>2
      <2>6. QED BY <2>4, <2>5
<1>8. QED BY <1>5, <1>6, <1>7 DEF Some

LEMMA HeaderOf ==
    ASSUME NEW v \in Values, IsContainer(v)
    PROVE  Header(v) \in Seq(Nat) \ {<<>>}
BY ValueParts, HeaderNumbers, LenProperties DEF Header, IsContainer

LEMMA BytesAreNumbers ==
    ASSUME NEW s \in Seq(Byte)
    PROVE  s \in Seq(Nat) /\ Len(s) \in Nat
<1>1. /\ Len(s) \in Nat /\ s \in [1..Len(s) -> Byte]
      /\ \A i \in 1..Len(s) : s[i] \in Byte
      BY LenProperties, ElementOfSeq
<1>2. \A i \in 1..Len(s) : s[i] \in Nat
      <2>1. \A b \in Byte : b \in Nat
            BY DEF Byte
      <2>2. QED BY <1>1, <2>1, Zenon
<1>3. s \in [1..Len(s) -> Nat]
      BY <1>1, <1>2
<1>4. QED BY <1>1, <1>3

\* So nothing that is too long is written as no bytes at all.
LEMMA TooLongHasBytes ==
    ASSUME NEW v \in Values, TooLong(v)
    PROVE  Encoded[v] # <<>>
<1>1. \A h \in Seq(Nat) \ {<<>>}, s \in Seq(Nat) : h \o s # <<>>
      BY ConcatEqualIffEmpty
<1>2. CASE IsContainer(v)
      <2>1. Header(v) \in Seq(Nat) \ {<<>>} /\ Encoded[v] = Header(v) \o Each(Encoded, Children(v))
            BY <1>2, HeaderOf, ValueParts
      <2>2. Each(Encoded, Children(v)) \in Seq(Nat)
            BY ChildrenAreValues, EncodedBytes, EachConcat DEF Values
      <2>3. QED BY <1>1, <2>1, <2>2
<1>3. CASE ~IsContainer(v)
      <2>1. v.bytes \in Seq(Nat) /\ Len(v.bytes) \in Nat
            <3>1. v.bytes \in Seq(Byte)
                  BY ValueParts
            <3>2. QED BY <3>1, BytesAreNumbers
      <2>2. Encoded[v] = DumpLeaf(v)
            BY <1>3, ValueParts
      <2>3. /\ v.type \in {"STRING", "BINARY", "EXTENSION"}
            /\ v.type = "EXTENSION" => Len(v.bytes) - 1 \in Nat
            BY <1>3, <2>1, LongestAssumption DEF TooLong, Size, IsContainer
      <2>4. PICK h \in Seq(Nat) \ {<<>>} : Encoded[v] = h \o v.bytes
            BY <2>1, <2>2, <2>3, HeaderNumbers DEF DumpLeaf
      <2>5. QED BY <1>1, <2>1, <2>4
<1>4. QED BY <1>2, <1>3

CutOut(b, w, p, q) == Len(b) = q - p /\ \A i \in 1..(q - p) : b[i] = w[p + i]

LEMMA Between ==
    ASSUME NEW s \in Seq(Nat), NEW p \in Nat, NEW q \in Nat, p <= q, q <= Len(s)
    PROVE  \E b \in Seq(Nat) : b = SubSeq(s, p + 1, q) /\ CutOut(b, s, p, q)
<1>1. p + 1 \in Int /\ q \in Int /\ q - (p + 1) + 1 = q - p
      OBVIOUS
<1>2. \A i \in (p + 1)..q : s[i] \in Nat
      BY LenProperties, ElementOfSeq
<1>3. PICK b : b = SubSeq(s, p + 1, q)
      OBVIOUS
<1>4. /\ b \in Seq(Nat) /\ Len(b) = IF p + 1 <= q THEN q - (p + 1) + 1 ELSE 0
      /\ \A i \in 1..(q - (p + 1) + 1) : b[i] = s[(p + 1) + i - 1]
      BY <1>1, <1>2, <1>3, SubSeqProperties
<1>5. Len(b) = q - p
      BY <1>4
<1>6. \A i \in 1..(q - p) : b[i] = s[p + i]
      <2>1. TAKE i \in 1..(q - p)
      <2>2. (p + 1) + i - 1 = p + i /\ i \in 1..(q - (p + 1) + 1)
            OBVIOUS
      <2>3. b[i] = s[(p + 1) + i - 1]
            BY <1>4, <2>2
      <2>4. QED BY <2>2, <2>3
<1>7. CutOut(b, s, p, q)
      BY <1>5, <1>6 DEF CutOut
<1>8. QED BY <1>3, <1>4, <1>7, Zenon

\* w is s and t one after the other, a and b are s and w from p on: then b is a and t.
Linked(w, s, t, m, n) ==
    /\ Len(s) = m /\ Len(t) = n /\ Len(w) = m + n
    /\ \A i \in 1..(m + n) : w[i] = IF i <= m THEN s[i] ELSE t[i - m]

LEMMA Join ==
    ASSUME NEW s \in Seq(Nat), NEW t \in Seq(Nat)
    PROVE  /\ Len(s) \in Nat /\ Len(t) \in Nat
           /\ \E w \in Seq(Nat) : w = s \o t /\ Linked(w, s, t, Len(s), Len(t))
<1>1. Len(s) \in Nat /\ Len(t) \in Nat
      BY LenProperties
<1>2. PICK w \in Seq(Nat) : w = s \o t
      BY ConcatProperties
<1>3. /\ Len(w) = Len(s) + Len(t)
      /\ \A i \in 1..(Len(s) + Len(t)) : w[i] = IF i <= Len(s) THEN s[i] ELSE t[i - Len(s)]
      BY <1>2, ConcatProperties
<1>4. Linked(w, s, t, Len(s), Len(t))
      BY <1>3 DEF Linked
<1>5. QED BY <1>1, <1>2, <1>4

LEMMA FirstOfTwo ==
    ASSUME NEW put \in Seq(Nat), NEW b \in Seq(Nat), b # <<>>
    PROVE  Torn(put, put \o b)
<1>1. PICK w \in Seq(Nat) : w = put \o b
      BY ConcatProperties
<1>2. /\ Len(w) = Len(put) + Len(b) /\ Len(put) \in Nat /\ Len(b) \in Nat
      /\ \A i \in 1..Len(put) : w[i] = put[i]
      BY <1>1, LenProperties, ConcatProperties
<1>3. w # put
      BY <1>1, ConcatEqualIffEmpty
<1>4. SubSeq(w, 1, Len(put)) = put
      BY <1>2
<1>5. SubSeq(put, 1, Len(put)) = put
      BY SubSeqFull
<1>6. Len(put) <= Len(w)
      BY <1>2
<1>7. Torn(put, w)
      BY <1>3, <1>4, <1>5, <1>6 DEF Torn, IsStrictPrefix, IsPrefix
<1>8. QED BY <1>1, <1>7

\* What a prefix leaves out.
LEMMA PrefixLeaves ==
    ASSUME NEW bytes \in Seq(Nat), NEW taken \in Prefixes(bytes)
    PROVE  /\ taken \in Seq(Nat)
           /\ taken # bytes => \E c \in Seq(Nat) : bytes = taken \o c /\ c # <<>>
<1>1. PICK n \in Nat : n = Len(bytes)
      BY LenProperties
<1>2. PICK l \in 0..n : taken = SubSeq(bytes, 1, l)
      BY <1>1 DEF Prefixes
<1>3. \A i \in 1..n : bytes[i] \in Nat
      BY <1>1, ElementOfSeq
<1>4. /\ taken \in Seq(Nat) /\ Len(taken) = l
      /\ \A i \in 1..l : taken[i] = bytes[i]
      <2>1. /\ SubSeq(bytes, 1, l) \in Seq(Nat)
            /\ Len(SubSeq(bytes, 1, l)) = IF 1 <= l THEN l - 1 + 1 ELSE 0
            /\ \A i \in 1..(l - 1 + 1) : SubSeq(bytes, 1, l)[i] = bytes[1 + i - 1]
            BY <1>1, <1>2, <1>3, SubSeqProperties
      <2>2. \A i \in 1..l : 1 + i - 1 = i /\ i \in 1..(l - 1 + 1)
            OBVIOUS
      <2>3. (IF 1 <= l THEN l - 1 + 1 ELSE 0) = l
            OBVIOUS
      <2>4. QED BY <1>2, <2>1, <2>2, <2>3
<1>5. ASSUME taken # bytes PROVE \E c \in Seq(Nat) : bytes = taken \o c /\ c # <<>>
      <2>1. PICK c \in Seq(Nat) : c = SubSeq(bytes, l + 1, n) /\ CutOut(c, bytes, l, n)
            <3>1. l \in Nat /\ l <= n /\ n <= Len(bytes)
                  BY <1>1
            <3>2. QED BY <1>1, <3>1, Between, Zenon
      <2>2. PICK w \in Seq(Nat) : w = taken \o c /\ Linked(w, taken, c, Len(taken), Len(c))
            BY <1>4, Join
      <2>3. Len(c) = n - l /\ \A i \in 1..(n - l) : c[i] = bytes[l + i]
            BY <2>1 DEF CutOut
      <2>4. Len(w) = l + (n - l) /\ \A i \in 1..(l + (n - l)) :
                w[i] = IF i <= l THEN taken[i] ELSE c[i - l]
            BY <1>4, <2>2, <2>3 DEF Linked
      <2>5. ASSUME NEW i \in 1..n PROVE w[i] = bytes[i]
            <3>1. CASE i <= l
                  BY <1>4, <2>4, <3>1
            <3>2. CASE ~(i <= l)
                  <4>1. i - l \in 1..(n - l) /\ l + (i - l) = i
                        BY <3>2
                  <4>2. i \in 1..(l + (n - l))
                        OBVIOUS
                  <4>3. w[i] = c[i - l]
                        BY <2>4, <3>2, <4>2
                  <4>4. c[i - l] = bytes[l + (i - l)]
                        BY <2>3, <4>1, Zenon
                  <4>5. QED BY <4>1, <4>3, <4>4
            <3>3. QED BY <3>1, <3>2
      <2>6. w = bytes
            <3>1. Len(w) = n /\ Len(bytes) = n
                  BY <1>1, <2>4
            <3>2. QED BY <2>5, <3>1, SeqEqual
      <2>7. c # <<>>
            <3>1. ASSUME c = <<>> PROVE FALSE
                  BY <1>4, <1>5, <2>2, <2>6, <3>1, ConcatEmptySeq
            <3>2. QED BY <3>1
      <2>8. QED BY <2>2, <2>6, <2>7
<1>6. QED BY <1>4, <1>5

LEMMA GoingThrows ==
    ASSUME NEW v \in Values, NEW put \in Seq(Nat), NEW rest \in Seq(Values),
           NEW intact \in BOOLEAN, Going(v, put, rest, intact), rest # <<>>, TooLong(Head(rest))
    PROVE  Overlong(v) /\ Torn(put, Encoded[v])
<1>1. Head(rest) \in Values /\ Tail(rest) \in Seq(Values)
      BY HeadTailProperties
<1>2. Overlong(v)
      BY <1>1, OverlongWithin, SomeOverlongHead DEF Going
<1>3. PICK b \in Seq(Nat) : b = Each(Encoded, rest) /\ b # <<>>
      <2>1. /\ Each(Encoded, rest) = Encoded[Head(rest)] \o Each(Encoded, Tail(rest))
            /\ Encoded[Head(rest)] \in Seq(Nat) /\ Encoded[Head(rest)] # <<>>
            BY <1>1, EncodedBytes, EachHead, TooLongHasBytes DEF Values
      <2>2. Each(Encoded, Tail(rest)) \in Seq(Nat)
            BY <1>1, EncodedBytes, EachConcat DEF Values
      <2>3. \A x, y \in Seq(Nat) : x \o y \in Seq(Nat) /\ (x # <<>> => x \o y # <<>>)
            BY ConcatProperties, ConcatEqualIffEmpty
      <2>4. QED BY <2>1, <2>2, <2>3
<1>4. intact => put \o b = Encoded[v]
      BY <1>3 DEF Going
<1>5. Torn(put, put \o b)
      BY <1>3, FirstOfTwo
<1>6. QED BY <1>2, <1>4, <1>5 DEF Going

\* One turn: bytes are put, and what is left to dump becomes "more" and the rest.
LEMMA GoingOn ==
    ASSUME NEW v \in Values, NEW put \in Seq(Nat), NEW rest \in Seq(Values),
           NEW intact \in BOOLEAN, Going(v, put, rest, intact), rest # <<>>, ~TooLong(Head(rest)),
           NEW bytes \in Seq(Nat), Encoded[Head(rest)] = bytes \o Each(Encoded, Children(Head(rest))),
           NEW taken \in Prefixes(bytes), ~intact => taken = <<>>
    PROVE  Going(v, put \o taken, Children(Head(rest)) \o Tail(rest), intact /\ taken = bytes)
<1> DEFINE more == Children(Head(rest))
<1>1. Head(rest) \in Values /\ Tail(rest) \in Seq(Values) /\ more \in Seq(Values)
      BY HeadTailProperties, ChildrenAreValues
<1>2. Overlong(v) <=> SomeOverlong(more \o Tail(rest))
      BY <1>1, OverlongWithin, SomeOverlongHead, SomeOverlongConcat DEF Going
<1>3. Encoded[Head(rest)] = bytes \o Each(Encoded, more)
      OBVIOUS
<1> HIDE DEF more
<1>4. PICK a \in Seq(Nat), b \in Seq(Nat) :
          a = Each(Encoded, more) /\ b = Each(Encoded, Tail(rest))
      BY <1>1, EncodedBytes, EachConcat DEF Values
<1>5. Each(Encoded, more \o Tail(rest)) = a \o b
      BY <1>1, <1>4, EncodedBytes, EachConcat DEF Values
<1>6. Each(Encoded, rest) = (bytes \o a) \o b
      BY <1>1, <1>3, <1>4, EncodedBytes, EachHead DEF Values
<1>7. Regrouped(put, bytes, a, b)
      BY RegroupFour, Zenon
<1>8. intact => (put \o bytes) \o (a \o b) = Encoded[v]
      BY <1>6, <1>7 DEF Going, Regrouped
<1>9. CASE intact /\ taken = bytes
      BY <1>2, <1>5, <1>8, <1>9 DEF Going, more
<1>10. CASE intact /\ taken # bytes
      <2>1. PICK c \in Seq(Nat) : taken \in Seq(Nat) /\ bytes = taken \o c /\ c # <<>>
            BY <1>10, PrefixLeaves
      <2>2. PICK r \in Seq(Nat) : r = a \o b
            BY ConcatProperties
      <2>3. PICK q \in Seq(Nat) : q = put \o taken
            BY <2>1, ConcatProperties
      <2>4. PICK s \in Seq(Nat) : s = c \o r /\ s # <<>>
            <3>1. \A x, y \in Seq(Nat) : x \o y \in Seq(Nat) /\ (x # <<>> => x \o y # <<>>)
                  BY ConcatProperties, ConcatEqualIffEmpty
            <3>2. c \o r \in Seq(Nat) /\ c \o r # <<>>
                  BY <2>1, <3>1
            <3>3. QED BY <3>2
      <2>5. Apart(put, taken, c, r)
            <3>1. taken \in Seq(Nat)
                  BY <2>1
            <3>2. QED BY <3>1, TakeApart, Zenon
      <2>6. (put \o bytes) \o r = q \o s
            BY <2>1, <2>3, <2>4, <2>5 DEF Apart
      <2>7. Encoded[v] = q \o s
            BY <1>8, <1>10, <2>2, <2>6
      <2>8. Torn(q, q \o s)
            BY <2>4, FirstOfTwo
      <2>9. QED BY <1>2, <1>5, <1>10, <2>3, <2>7, <2>8 DEF Going, more
<1>11. CASE ~intact
      <2>1. put \o taken = put
            BY <1>11, ConcatEmptySeq
      <2>2. QED BY <1>2, <1>11, <2>1 DEF Going, more
<1>12. QED BY <1>9, <1>10, <1>11
---------------------------------------------------------------------
\* The stream of the program.

LEMMA Follow ==
    ASSUME NEW w, NEW s, NEW t, NEW m \in Nat, NEW n \in Nat, NEW p \in Nat, p <= m,
           NEW a \in Seq(Nat), NEW b \in Seq(Nat), NEW c \in Seq(Nat),
           Linked(w, s, t, m, n), CutOut(a, s, p, m), CutOut(b, w, p, m + n),
           Linked(c, a, t, m - p, n)
    PROVE  b = c
<1>1. Len(b) = (m - p) + n /\ Len(c) = (m - p) + n
      BY DEF CutOut, Linked
<1>2. ASSUME NEW i \in 1..((m - p) + n) PROVE b[i] = c[i]
      <2>1. PICK j \in 1..(m + n) : j = p + i
            OBVIOUS
      <2>2. b[i] = w[j]
            BY <2>1 DEF CutOut
      <2>3. w[j] = IF j <= m THEN s[j] ELSE t[j - m]
            BY DEF Linked
      <2>4. c[i] = IF i <= m - p THEN a[i] ELSE t[i - (m - p)]
            BY DEF Linked
      <2>5. CASE i <= m - p
            <3>1. a[i] = s[j] /\ j <= m
                  <4>1. i \in 1..(m - p) /\ j = p + i /\ j <= m
                        BY <2>1, <2>5
                  <4>2. QED BY <4>1, Zenon DEF CutOut
            <3>2. w[j] = s[j] /\ c[i] = a[i]
                  BY <2>3, <2>4, <2>5, <3>1, Zenon
            <3>3. QED BY <2>2, <3>1, <3>2, Zenon
      <2>6. CASE ~(i <= m - p)
            <3>1. j - m = i - (m - p) /\ ~(j <= m)
                  BY <2>1, <2>6
            <3>2. w[j] = t[j - m] /\ c[i] = t[i - (m - p)]
                  BY <2>3, <2>4, <2>6, <3>1, Zenon
            <3>3. QED BY <2>2, <3>1, <3>2, Zenon
      <2>7. QED BY <2>5, <2>6
<1>3. QED BY <1>1, <1>2, SeqEqual

LEMMA SameFrom ==
    ASSUME NEW w, NEW s, NEW p \in Nat, NEW q \in Nat, p <= q,
           \A i \in 1..q : w[i] = s[i],
           NEW a \in Seq(Nat), NEW b \in Seq(Nat), CutOut(a, s, p, q), CutOut(b, w, p, q)
    PROVE  a = b
<1>1. Len(a) = q - p /\ Len(b) = q - p
      BY DEF CutOut
<1>2. ASSUME NEW i \in 1..(q - p) PROVE a[i] = b[i]
      <2>1. PICK j \in 1..q : j = p + i
            OBVIOUS
      <2>2. a[i] = s[j] /\ b[i] = w[j]
            BY <2>1 DEF CutOut
      <2>3. QED BY <2>2
<1>3. QED BY <1>1, <1>2, SeqEqual

LEMMA Grown ==
    ASSUME NEW s \in Seq(Nat), NEW t \in Seq(Nat), NEW p \in Nat, p <= Len(s)
    PROVE  /\ SubSeq(s \o t, p + 1, Len(s \o t)) = SubSeq(s, p + 1, Len(s)) \o t
           /\ \A q \in Nat : q <= Len(s) => SubSeq(s \o t, p + 1, q) = SubSeq(s, p + 1, q)
           /\ Len(s) <= Len(s \o t)
<1>1. PICK w \in Seq(Nat) : w = s \o t /\ Linked(w, s, t, Len(s), Len(t))
      BY Join
<1>2. PICK m \in Nat, n \in Nat : m = Len(s) /\ n = Len(t)
      BY LenProperties
<1>3. Linked(w, s, t, m, n) /\ p <= m
      BY <1>1, <1>2
<1>4. Len(w) = m + n
      BY <1>3 DEF Linked
<1>5. PICK a \in Seq(Nat) : a = SubSeq(s, p + 1, m) /\ CutOut(a, s, p, m)
      <2>1. m <= Len(s)
            BY <1>2
      <2>2. QED BY <1>3, <2>1, Between, Zenon
<1>6. PICK b \in Seq(Nat) : b = SubSeq(w, p + 1, m + n) /\ CutOut(b, w, p, m + n)
      <2>1. m + n \in Nat /\ p <= m + n /\ m + n <= Len(w)
            BY <1>3, <1>4
      <2>2. QED BY <2>1, Between, Zenon
<1>7. b = a \o t
      <2>1. PICK c \in Seq(Nat) : c = a \o t /\ Linked(c, a, t, Len(a), Len(t))
            BY Join
      <2>2. Len(a) = m - p
            BY <1>5 DEF CutOut
      <2>3. Linked(c, a, t, m - p, n)
            BY <1>2, <2>1, <2>2
      <2>4. b = c
            BY <1>3, <1>5, <1>6, <2>3, Follow
      <2>5. QED BY <2>1, <2>4
<1>8. ASSUME NEW q \in Nat, q <= m PROVE SubSeq(w, p + 1, q) = SubSeq(s, p + 1, q)
      <2>1. CASE p <= q
            <3>1. PICK c \in Seq(Nat) : c = SubSeq(s, p + 1, q) /\ CutOut(c, s, p, q)
                  <4>1. q <= Len(s)
                        BY <1>2, <1>8
                  <4>2. QED BY <2>1, <4>1, Between, Zenon
            <3>2. PICK d \in Seq(Nat) : d = SubSeq(w, p + 1, q) /\ CutOut(d, w, p, q)
                  <4>1. q <= Len(w)
                        BY <1>4, <1>8
                  <4>2. QED BY <2>1, <4>1, Between, Zenon
            <3>3. \A i \in 1..q : w[i] = s[i]
                  BY <1>3, <1>8 DEF Linked
            <3>4. c = d
                  BY <2>1, <3>1, <3>2, <3>3, SameFrom
            <3>5. QED BY <3>1, <3>2, <3>4
      <2>2. CASE ~(p <= q)
            BY <2>2, SubSeqEmpty
      <2>3. QED BY <2>1, <2>2
<1>9. QED
      <2>1. SubSeq(w, p + 1, Len(w)) = SubSeq(s, p + 1, Len(s)) \o t
            BY <1>2, <1>4, <1>5, <1>6, <1>7
      <2>2. \A q \in Nat : q <= Len(s) => SubSeq(w, p + 1, q) = SubSeq(s, p + 1, q)
            BY <1>2, <1>8
      <2>3. Len(s) <= Len(w)
            BY <1>2, <1>4
      <2>4. QED BY <1>1, <2>1, <2>2, <2>3

\* A write that is over, and what it has put.
Settled(w, put) ==
    /\ w.threw <=> Overlong(w.value)
    /\ IF w.good /\ ~w.threw THEN put = Encoded[w.value] ELSE Torn(put, Encoded[w.value])

LEMMA WritesSettled ==
    ASSUME DTypeOK
    PROVE  WholeOrTorn <=> \A i \in 1..Len(writes) : Ended(i) => Settled(writes[i], Part(i))
<1>1. DOMAIN writes = 1..Len(writes)
      BY LenProperties DEF DTypeOK
<1>2. QED BY <1>1 DEF WholeOrTorn, Settled, Overlong

LEMMA Writes ==
    ASSUME DTypeOK, NEW i \in 1..Len(writes)
    PROVE  /\ Len(writes) \in Nat /\ Len(os) \in Nat
           /\ writes[i].value \in Values /\ writes[i].from \in Nat /\ writes[i].from <= Len(os)
           /\ writes[i].threw \in BOOLEAN /\ writes[i].good \in BOOLEAN
           /\ Part(i) \in Seq(Nat)
<1>1. /\ writes[i] \in [value : Values, from : Nat, threw : BOOLEAN, good : BOOLEAN]
      /\ writes[i].from <= Len(os) /\ Len(writes) \in Nat /\ Len(os) \in Nat
      BY ElementOfSeq, LenProperties DEF DTypeOK
<1>2. PICK q \in Nat : q <= Len(os) /\ Part(i) = SubSeq(os, writes[i].from + 1, q)
      <2>1. CASE i = Len(writes)
            <3>1. Part(i) = SubSeq(os, writes[i].from + 1, Len(os))
                  BY <2>1 DEF Part
            <3>2. Len(os) \in Nat /\ Len(os) <= Len(os)
                  BY <1>1
            <3>3. QED BY <3>1, <3>2, Zenon
      <2>2. CASE i # Len(writes)
            <3>1. i + 1 \in 1..Len(writes)
                  BY <1>1, <2>2
            <3>2. writes[i + 1] \in [value : Values, from : Nat, threw : BOOLEAN, good : BOOLEAN]
                  /\ writes[i + 1].from <= Len(os)
                  BY <3>1, ElementOfSeq DEF DTypeOK
            <3>3. QED BY <2>2, <3>2 DEF Part
      <2>3. QED BY <2>1, <2>2
<1>3. Part(i) \in Seq(Nat)
      <2>1. os \in Seq(Nat)
            BY DEF DTypeOK
      <2>2. \A j \in (writes[i].from + 1)..q : os[j] \in Nat
            BY <1>1, <1>2, <2>1, ElementOfSeq
      <2>3. writes[i].from + 1 \in Int /\ q \in Int
            BY <1>1
      <2>4. SubSeq(os, writes[i].from + 1, q) \in Seq(Nat)
            BY <2>2, <2>3, SubSeqProperties
      <2>5. QED BY <1>2, <2>4
<1>4. QED BY <1>1, <1>3

\* More bytes on the stream change the part of the last write only.
LEMMA PartsGrow ==
    ASSUME DTypeOK, NEW b \in Seq(Nat), os' = os \o b, writes' = writes
    PROVE  \A i \in 1..Len(writes) :
               /\ i # Len(writes) => Part(i)' = Part(i)
               /\ i = Len(writes) => Part(i)' = Part(i) \o b
<1>1. TAKE i \in 1..Len(writes)
<1>2. /\ writes[i].from \in Nat /\ writes[i].from <= Len(os) /\ Len(os) \in Nat
      /\ os \in Seq(Nat) /\ Len(writes) \in Nat
      BY Writes DEF DTypeOK
<1>3. PICK p \in Nat : p = writes[i].from
      BY <1>2
<1>4. /\ SubSeq(os \o b, p + 1, Len(os \o b)) = SubSeq(os, p + 1, Len(os)) \o b
      /\ \A q \in Nat : q <= Len(os) => SubSeq(os \o b, p + 1, q) = SubSeq(os, p + 1, q)
      BY <1>2, <1>3, Grown
<1>5. CASE i = Len(writes)
      BY <1>3, <1>4, <1>5 DEF Part
<1>6. CASE i # Len(writes)
      <2>1. i + 1 \in 1..Len(writes)
            BY <1>2, <1>6
      <2>2. writes[i + 1].from \in Nat /\ writes[i + 1].from <= Len(os)
            BY <2>1, Writes
      <2>3. SubSeq(os \o b, p + 1, writes[i + 1].from) = SubSeq(os, p + 1, writes[i + 1].from)
            BY <1>4, <2>2
      <2>4. Part(i)' = SubSeq(os \o b, p + 1, writes[i + 1].from)
            BY <1>3, <1>6 DEF Part
      <2>5. Part(i) = SubSeq(os, p + 1, writes[i + 1].from)
            BY <1>3, <1>6 DEF Part
      <2>6. QED BY <1>6, <2>3, <2>4, <2>5
<1>7. QED BY <1>5, <1>6
---------------------------------------------------------------------
\* The actions.

LEMMA WriteStep ==
    ASSUME DInv, NEW v \in Held, Write(v)
    PROVE  DInv'
<1> DEFINE w == [value |-> v, from |-> Len(os), threw |-> FALSE, good |-> TRUE]
<1>n. PICK n \in Nat : n = Len(writes)
      BY LenProperties DEF DInv, DTypeOK
<1>1. /\ v \in Values /\ to = "none" /\ to' = "os" /\ todo' = <<v>> /\ writes' = Append(writes, w)
      /\ os' = os /\ ss' = <<>> /\ bad' = bad /\ "ss" \notin bad /\ Len(os) \in Nat
      BY EncodedAssumption, HeldAssumption, LenProperties DEF Write, Values, DInv, Running, DTypeOK
<1>2. w \in [value : Values, from : Nat, threw : BOOLEAN, good : BOOLEAN]
      BY <1>1
<1>3. w.value = v /\ w.from = Len(os)
      OBVIOUS
<1>4. /\ writes' \in Seq([value : Values, from : Nat, threw : BOOLEAN, good : BOOLEAN])
      /\ Len(writes') = n + 1 /\ writes' # <<>> /\ writes'[n + 1] = w
      /\ \A i \in 1..n : writes'[i] = writes[i]
      <2>1. writes \in Seq([value : Values, from : Nat, threw : BOOLEAN, good : BOOLEAN])
            BY DEF DInv, DTypeOK
      <2>2. PICK all : all = [value : Values, from : Nat, threw : BOOLEAN, good : BOOLEAN]
            OBVIOUS
      <2> HIDE DEF w
      <2>3. \A s \in Seq(all) : \A x \in all :
                /\ Append(s, x) \in Seq(all) /\ Append(s, x) # <<>>
                /\ Len(Append(s, x)) = Len(s) + 1 /\ Append(s, x)[Len(s) + 1] = x
                /\ \A i \in 1..Len(s) : Append(s, x)[i] = s[i]
            BY AppendProperties
      <2>4. writes \in Seq(all) /\ w \in all
            BY <1>2, <2>1, <2>2, Zenon
      <2>5. /\ Append(writes, w) \in Seq(all) /\ Append(writes, w) # <<>>
            /\ Len(Append(writes, w)) = Len(writes) + 1
            /\ Append(writes, w)[Len(writes) + 1] = w
            /\ \A i \in 1..Len(writes) : Append(writes, w)[i] = writes[i]
            BY <2>3, <2>4, Zenon
      <2>6. writes' = Append(writes, w) /\ n = Len(writes)
            BY <1>1, <1>n, Zenon
      <2>7. QED BY <2>2, <2>5, <2>6, Zenon
<1> HIDE DEF w
<1>5. DTypeOK'
      <2>1. \A i \in 1..(n + 1) : writes'[i].from <= Len(os)
            <3>1. TAKE i \in 1..(n + 1)
            <3>2. CASE i = n + 1
                  BY <1>1, <1>3, <1>4, <3>2
            <3>3. CASE i # n + 1
                  <4>1. i \in 1..n
                        BY <1>1, <3>3
                  <4>2. QED BY <1>4, <1>n, <4>1 DEF DInv, DTypeOK
            <3>4. QED BY <3>2, <3>3
      <2>2. <<v>> \in Seq(Values) /\ <<>> \in Seq(Nat)
            BY <1>1
      <2>3. QED BY <1>1, <1>4, <2>1, <2>2 DEF DInv, DTypeOK
<1>6. Running'
      <2>1. Part(n + 1)' = <<>>
            <3>1. SubSeq(os, Len(os) + 1, Len(os)) = <<>>
                  BY <1>1, SubSeqEmpty
            <3>2. Part(n + 1)' = SubSeq(os', writes'[n + 1].from + 1, Len(os'))
                  BY <1>4 DEF Part
            <3>3. writes'[n + 1].from = Len(os)
                  BY <1>3, <1>4
            <3>4. QED BY <1>1, <3>1, <3>2, <3>3, Zenon
      <2>2. Going(v, <<>>, <<v>>, "os" \notin bad)
            BY <1>1, GoingBegins
      <2>3. Part(Len(writes))' = <<>> /\ writes'[Len(writes')] = w
            BY <1>4, <2>1
      <2>4. QED BY <1>1, <1>3, <1>4, <2>2, <2>3 DEF Running, Going, Overlong, SomeOverlong
<1>7. \A i \in 1..n : Part(i)' = Part(i)
      <2>1. TAKE i \in 1..n
      <2>2. CASE i = n
            <3>1. writes'[i + 1].from = Len(os) /\ i # n + 1
                  BY <1>1, <1>3, <1>4, <2>2
            <3>2. QED BY <1>1, <1>4, <1>n, <2>2, <3>1 DEF Part
      <2>3. CASE i # n
            <3>1. i + 1 \in 1..n /\ i # n + 1
                  BY <1>1, <2>3
            <3>2. writes'[i + 1] = writes[i + 1] /\ writes'[i] = writes[i]
                  BY <1>4, <3>1
            <3>3. QED BY <1>1, <1>4, <2>3, <3>1, <3>2, <1>n DEF Part
      <2>4. QED BY <2>2, <2>3
<1>8. \A i \in 1..n : Settled(writes[i], Part(i))
      BY <1>1, <1>n, WritesSettled DEF DInv, Ended
<1>9. ASSUME NEW i \in 1..(n + 1), Ended(i)' PROVE Settled(writes[i], Part(i))'
      <2>1. i \in 1..n
            BY <1>1, <1>4, <1>9 DEF Ended
      <2>2. writes'[i] = writes[i] /\ Part(i)' = Part(i)
            BY <1>4, <1>7, <2>1
      <2>3. QED BY <1>8, <2>1, <2>2 DEF Settled, Overlong
<1>10. WholeOrTorn'
      <2>1. \A i \in 1..Len(writes') : Ended(i)' => Settled(writes[i], Part(i))'
            BY <1>4, <1>9
      <2>2. DOMAIN writes' = 1..Len(writes')
            BY <1>5, LenProperties DEF DTypeOK
      <2>3. QED BY <2>1, <2>2 DEF WholeOrTorn, Settled, Overlong
<1>11. QED BY <1>5, <1>6, <1>10 DEF DInv

LEMMA DumpToStringStep ==
    ASSUME DInv, NEW v \in Held, DumpToString(v)
    PROVE  DInv'
<1>1. /\ v \in Values /\ to = "none" /\ to' = "ss" /\ todo' = <<v>> /\ dumped' = v
      /\ os' = os /\ ss' = <<>> /\ bad' = bad /\ writes' = writes
      BY EncodedAssumption, HeldAssumption DEF DumpToString, Values, DInv, Running
<1>2. <<v>> \in Seq(Values) /\ <<>> \in Seq(Nat)
      BY <1>1
<1>3. DTypeOK'
      BY <1>1, <1>2 DEF DInv, DTypeOK
<1>4. Running'
      <2>1. Going(v, <<>>, <<v>>, "ss" \notin bad)
            BY <1>1, GoingBegins
      <2>2. QED BY <1>1, <2>1 DEF Running, Going, Overlong, SomeOverlong
<1>5. WholeOrTorn'
      BY <1>1 DEF DInv, WholeOrTorn, Ended, Part
<1>6. QED BY <1>3, <1>4, <1>5 DEF DInv

LEMMA ClearStep ==
    ASSUME DInv, Clear
    PROVE  DInv'
<1>1. /\ to = "none" /\ bad' = bad \ {"os"}
      /\ UNCHANGED <<os, ss, out, to, todo, dumped, writes>>
      BY DEF Clear
<1>2. DTypeOK'
      BY <1>1 DEF DInv, DTypeOK
<1>3. Running'
      BY <1>1 DEF DInv, Running
<1>4. WholeOrTorn'
      BY <1>1 DEF DInv, WholeOrTorn, Ended, Part
<1>5. QED BY <1>2, <1>3, <1>4 DEF DInv

\* A turn of the loops: the header of a container, or all of what is none.
Round(v, bytes) ==
    /\ Put(bytes)
    /\ todo' = Children(v) \o Tail(todo)
    /\ UNCHANGED <<out, to, dumped, writes, calls>>

LEMMA RoundIs ==
    ASSUME DInv, DumpLeafNext \/ DumpContainerNext
    PROVE  /\ todo # <<>> /\ to # "none" /\ Head(todo) \in Values /\ ~TooLong(Head(todo))
           /\ \E bytes \in Seq(Nat) :
                  /\ Encoded[Head(todo)] = bytes \o Each(Encoded, Children(Head(todo)))
                  /\ Round(Head(todo), bytes)
<1>1. todo # <<>> /\ todo \in Seq(Values) /\ ~TooLong(Head(todo)) /\ to # "none"
      BY DEF DInv, DTypeOK, Running, DumpLeafNext, DumpContainerNext
<1>2. Head(todo) \in Values /\ Tail(todo) \in Seq(Values)
      BY <1>1, HeadTailProperties
<1>3. CASE DumpContainerNext
      <2>1. IsContainer(Head(todo)) /\ Round(Head(todo), Header(Head(todo)))
            BY <1>3 DEF DumpContainerNext, Round
      <2>2. Header(Head(todo)) \in Seq(Nat)
            BY <1>2, <2>1, HeaderOf
      <2>3. Encoded[Head(todo)] = Header(Head(todo)) \o Each(Encoded, Children(Head(todo)))
            BY <1>2, <2>1, ValueParts
      <2>4. QED BY <1>1, <1>2, <2>1, <2>2, <2>3, Zenon
<1>4. CASE DumpLeafNext
      <2>1. ~IsContainer(Head(todo)) /\ Put(DumpLeaf(Head(todo))) /\ todo' = Tail(todo)
            /\ UNCHANGED <<out, to, dumped, writes, calls>>
            BY <1>4 DEF DumpLeafNext
      <2>2. Children(Head(todo)) = <<>> /\ Encoded[Head(todo)] = DumpLeaf(Head(todo))
            /\ Encoded[Head(todo)] \in Seq(Nat)
            BY <1>2, <2>1, ChildrenAreValues, ValueParts
      <2>3. <<>> \o Tail(todo) = Tail(todo)
            BY <1>2, ConcatEmptySeq
      <2>4. DumpLeaf(Head(todo)) \o <<>> = DumpLeaf(Head(todo))
            BY <2>2, ConcatEmptySeq
      <2>5. Round(Head(todo), DumpLeaf(Head(todo)))
            BY <2>1, <2>2, <2>3 DEF Round
      <2>6. Encoded[Head(todo)] = DumpLeaf(Head(todo)) \o Each(Encoded, Children(Head(todo)))
            BY <2>2, <2>4, EachNothing
      <2>7. DumpLeaf(Head(todo)) \in Seq(Nat)
            BY <2>2
      <2>8. QED BY <1>1, <1>2, <2>5, <2>6, <2>7, Zenon
<1>5. QED BY <1>3, <1>4

LEMMA RoundStep ==
    ASSUME DInv, DumpLeafNext \/ DumpContainerNext
    PROVE  DInv'
<1>1. /\ todo # <<>> /\ to # "none" /\ Head(todo) \in Values /\ ~TooLong(Head(todo))
      /\ todo \in Seq(Values) /\ Tail(todo) \in Seq(Values)
      /\ os \in Seq(Nat) /\ ss \in Seq(Nat) /\ bad \subseteq {"os", "ss"}
      BY RoundIs, HeadTailProperties DEF DInv, DTypeOK
<1>2. PICK bytes \in Seq(Nat) :
          /\ Encoded[Head(todo)] = bytes \o Each(Encoded, Children(Head(todo)))
          /\ Round(Head(todo), bytes)
      BY RoundIs
<1>3. PICK b \in Prefixes(bytes) :
          /\ to \in bad => b = <<>>
          /\ os' = IF to = "os" THEN os \o b ELSE os
          /\ ss' = IF to = "ss" THEN ss \o b ELSE ss
          /\ bad' = IF b = bytes THEN bad ELSE bad \union {to}
      BY <1>2 DEF Round, Put
<1>4. b \in Seq(Nat)
      BY PrefixLeaves
<1>5. PICK more \in Seq(Values) : more = Children(Head(todo)) \o Tail(todo)
      BY <1>1, ChildrenAreValues, ConcatProperties
<1>6. todo' = more /\ to' = to /\ dumped' = dumped /\ writes' = writes
      BY <1>2, <1>5 DEF Round
<1>7. PICK intact \in BOOLEAN, after \in BOOLEAN :
          /\ intact = (to \notin bad) /\ after = (to \notin bad')
          /\ after = (intact /\ b = bytes) /\ (~intact => b = <<>>)
      BY <1>3
<1>8. \A v \in Values : \A put \in Seq(Nat) :
          Going(v, put, todo, intact) => Going(v, put \o b, more, after)
      <2>1. TAKE v \in Values
      <2>2. TAKE put \in Seq(Nat)
      <2>3. HAVE Going(v, put, todo, intact)
      <2>4. Going(v, put \o b, Children(Head(todo)) \o Tail(todo), intact /\ b = bytes)
            BY <1>1, <1>2, <1>7, <2>3, GoingOn
      <2>5. QED BY <1>5, <1>7, <2>4 DEF Going
<1>9. bad' \subseteq {"os", "ss"} /\ (to # "ss" => ("ss" \in bad' <=> "ss" \in bad))
      BY <1>1, <1>3 DEF DInv, DTypeOK
<1>10. CASE to = "os"
      <2>1. os' = os \o b /\ ss' = ss /\ ss = <<>> /\ "ss" \notin bad'
            BY <1>3, <1>9, <1>10 DEF DInv, Running
      <2>2. \A i \in 1..Len(writes) :
                /\ i # Len(writes) => Part(i)' = Part(i)
                /\ i = Len(writes) => Part(i)' = Part(i) \o b
            BY <1>4, <1>6, <2>1, PartsGrow DEF DInv
      <2>3. PICK n \in 1..Len(writes) : n = Len(writes)
            <3>1. writes # <<>>
                  /\ writes \in Seq([value : Values, from : Nat, threw : BOOLEAN, good : BOOLEAN])
                  BY <1>10 DEF DInv, Running, DTypeOK
            <3>2. Len(writes) \in Nat /\ Len(writes) # 0
                  BY <3>1, LenProperties, EmptySeq
            <3>3. QED BY <3>2
      <2>4. DTypeOK'
            <3>1. os \o b \in Seq(Nat) /\ Len(os \o b) = Len(os) + Len(b)
                  /\ Len(os) \in Nat /\ Len(b) \in Nat
                  BY <1>1, <1>4, ConcatProperties, LenProperties
            <3>2. \A i \in 1..Len(writes) : writes[i].from <= Len(os')
                  <4>1. TAKE i \in 1..Len(writes)
                  <4>2. writes[i].from \in Nat /\ writes[i].from <= Len(os)
                        BY Writes DEF DInv
                  <4>3. Len(os') = Len(os) + Len(b)
                        BY <2>1, <3>1
                  <4>4. QED BY <3>1, <4>2, <4>3
            <3>3. os' \in Seq(Nat) /\ ss' \in Seq(Nat)
                  BY <1>1, <2>1, <3>1
            <3>4. QED BY <1>6, <1>9, <3>2, <3>3 DEF DInv, DTypeOK
      <2>5. Running'
            <3>1. Going(writes[n].value, Part(n), todo, intact) /\ writes # <<>>
                  BY <1>7, <1>10, <2>3 DEF DInv, Running
            <3>2. Going(writes[n].value, Part(n) \o b, more, after)
                  <4>1. writes[n].value \in Values /\ Part(n) \in Seq(Nat)
                        BY Writes DEF DInv
                  <4>2. QED BY <1>8, <3>1, <4>1
            <3>3. Part(Len(writes))' = Part(n) \o b
                  <4>1. Part(n)' = Part(n) \o b
                        BY <2>2, <2>3
                  <4>2. QED BY <1>6, <2>3, <4>1
            <3>4. Going(writes[n].value, Part(n) \o b, more, "os" \notin bad')
                  BY <1>7, <1>10, <3>2
            <3>5. QED BY <1>6, <1>10, <2>1, <2>3, <3>1, <3>3, <3>4
                      DEF Running, Going, Overlong, SomeOverlong
      <2>6. WholeOrTorn'
            <3>1. ASSUME NEW i \in 1..Len(writes'), Ended(i)' PROVE Settled(writes[i], Part(i))'
                  <4>1. i \in 1..Len(writes) /\ i # Len(writes) /\ Ended(i)
                        BY <1>6, <1>10, <2>3, <3>1 DEF Ended
                  <4>2. Part(i)' = Part(i) /\ Settled(writes[i], Part(i))
                        BY <2>2, <4>1, WritesSettled DEF DInv
                  <4>3. QED BY <1>6, <4>2 DEF Settled, Overlong
            <3>2. DOMAIN writes' = 1..Len(writes')
                  BY <2>4, LenProperties DEF DTypeOK
            <3>3. QED BY <3>1, <3>2 DEF WholeOrTorn, Settled, Overlong
      <2>7. QED BY <2>4, <2>5, <2>6 DEF DInv
<1>11. CASE to = "ss"
      <2>1. os' = os /\ ss' = ss \o b
            BY <1>3, <1>11
      <2>2. ss \o b \in Seq(Nat)
            BY <1>1, <1>4, ConcatProperties
      <2>3. DTypeOK'
            BY <1>6, <1>9, <2>1, <2>2 DEF DInv, DTypeOK
      <2>4. Running'
            <3>1. dumped \in Values /\ Going(dumped, ss, todo, intact)
                  BY <1>7, <1>11 DEF DInv, Running
            <3>2. Going(dumped, ss \o b, more, "ss" \notin bad')
                  BY <1>1, <1>7, <1>8, <1>11, <3>1
            <3>3. QED BY <1>6, <1>11, <2>1, <3>1, <3>2 DEF Running, Going, Overlong, SomeOverlong
      <2>5. WholeOrTorn'
            BY <1>6, <2>1 DEF DInv, WholeOrTorn, Ended, Part
      <2>6. QED BY <2>3, <2>4, <2>5 DEF DInv
<1>12. QED BY <1>1, <1>10, <1>11 DEF DInv, DTypeOK

\* What the last write comes to, when operator<< is over.
LEMMA OverStep ==
    ASSUME DInv, NEW threw \in BOOLEAN, Over(threw), os' = os,
           to = "os" =>
               LET w == writes[Len(writes)]
               IN  Settled([w EXCEPT !.threw = threw, !.good = "os" \notin bad],
                           Part(Len(writes)))
    PROVE  DInv'
<1>1. /\ os \in Seq(Nat) /\ os' = os /\ bad \subseteq {"os", "ss"}
      /\ todo' = <<>> /\ to' = "none" /\ ss' = <<>> /\ bad' = bad \ {"ss"}
      BY DEF DInv, DTypeOK, Over
<1>2. <<>> \in Seq(Values) /\ <<>> \in Seq(Nat)
      OBVIOUS
<1>3. Running'
      BY <1>1 DEF Running
<1>4. CASE to # "os"
      <2>1. writes' = writes
            BY <1>4 DEF Over
      <2>2. DTypeOK'
            BY <1>1, <1>2, <2>1 DEF DInv, DTypeOK
      <2>3. WholeOrTorn'
            BY <1>1, <1>4, <2>1 DEF DInv, WholeOrTorn, Ended, Part
      <2>4. QED BY <1>3, <2>2, <2>3 DEF DInv
<1>5. CASE to = "os"
      <2> DEFINE All == [value : Values, from : Nat, threw : BOOLEAN, good : BOOLEAN]
      <2>1. PICK n \in Nat : n = Len(writes)
            BY LenProperties DEF DInv, DTypeOK
      <2>2. writes # <<>> /\ writes \in Seq(All)
            BY <1>5, <2>1 DEF DInv, Running, DTypeOK
      <2>3. n \in 1..Len(writes) /\ DOMAIN writes = 1..n /\ \A i \in 1..n : writes[i] \in All
            <3>1. n # 0
                  BY <2>1, <2>2, EmptySeq
            <3>2. n \in 1..Len(writes)
                  BY <2>1, <3>1
            <3>3. DOMAIN writes = 1..n
                  BY <2>1, <2>2, LenProperties
            <3>4. \A i \in 1..n : writes[i] \in All
                  <4>1. \A i \in 1..Len(writes) : writes[i] \in All
                        BY <2>2, ElementOfSeq, Zenon
                  <4>2. QED BY <2>1, <4>1
            <3>5. QED BY <3>2, <3>3, <3>4
      <2>4. PICK w \in All : w = [writes[n] EXCEPT !.threw = threw, !.good = "os" \notin bad]
            <3>1. PICK a \in All : a = writes[n]
                  BY <2>1, <2>3
            <3>2. PICK still \in BOOLEAN : still = ("os" \notin bad)
                  OBVIOUS
            <3>3. [a EXCEPT !.threw = threw, !.good = still] \in All
                  OBVIOUS
            <3>4. QED BY <3>1, <3>2, <3>3
      <2>5. w.value = writes[n].value /\ w.from = writes[n].from
            BY <2>3, <2>4
      <2>6. Settled(w, Part(n))
            BY <1>5, <2>1, <2>4
      <2> HIDE DEF All
      <2>7. writes' = [writes EXCEPT ![n] = w]
            BY <1>5, <2>1, <2>4 DEF Over
      <2>8. /\ writes' \in Seq(All) /\ Len(writes') = n
            /\ \A i \in 1..n : writes'[i] = IF i = n THEN w ELSE writes[i]
            <3>1. \A i \in 1..n : writes'[i] = IF i = n THEN w ELSE writes[i]
                  BY <2>3, <2>7
            <3>2. \A i \in 1..n : writes'[i] \in All
                  BY <2>3, <3>1
            <3>3. writes' \in [1..n -> All]
                  <4>1. writes' = [i \in 1..n |-> writes'[i]]
                        BY <2>3, <2>7
                  <4>2. [i \in 1..n |-> writes'[i]] \in [1..n -> All]
                        BY <3>2
                  <4>3. QED BY <4>1, <4>2, Zenon
            <3>4. \A s \in [1..n -> All] : s \in Seq(All) /\ Len(s) = n
                  OBVIOUS
            <3>5. QED BY <3>1, <3>3, <3>4, Zenon
      <2>9. \A i \in 1..n : /\ writes'[i].value = writes[i].value
                            /\ writes'[i].from = writes[i].from
            BY <2>5, <2>8
      <2>10. DTypeOK'
            <3>1. \A i \in 1..Len(writes') : writes'[i].from <= Len(os')
                  BY <1>1, <2>1, <2>8, <2>9 DEF DInv, DTypeOK
            <3>2. QED BY <1>1, <1>2, <2>8, <3>1 DEF DTypeOK, All
      <2>11. \A i \in 1..n : Part(i)' = Part(i)
            <3>1. TAKE i \in 1..n
            <3>2. CASE i = n
                  BY <1>1, <2>1, <2>8, <2>9, <3>2 DEF Part
            <3>3. CASE i # n
                  <4>1. i + 1 \in 1..n
                        BY <3>3
                  <4>2. QED BY <1>1, <2>1, <2>8, <2>9, <3>3, <4>1 DEF Part
            <3>4. QED BY <3>2, <3>3
      <2>12. ASSUME NEW i \in 1..n PROVE Settled(writes[i], Part(i))'
            <3>1. CASE i = n
                  BY <2>6, <2>8, <2>11, <3>1 DEF Settled, Overlong
            <3>2. CASE i # n
                  <4>1. i \in 1..Len(writes) /\ Ended(i)
                        BY <2>1, <3>2 DEF Ended
                  <4>2. Settled(writes[i], Part(i))
                        BY <4>1, WritesSettled DEF DInv
                  <4>3. QED BY <2>8, <2>11, <3>2, <4>2 DEF Settled, Overlong
            <3>3. QED BY <3>1, <3>2
      <2>13. WholeOrTorn'
            <3>1. DOMAIN writes' = 1..n
                  BY <2>3, <2>7
            <3>2. QED BY <2>12, <3>1 DEF WholeOrTorn, Settled, Overlong
      <2>14. QED BY <1>3, <2>10, <2>13 DEF DInv
<1>6. QED BY <1>4, <1>5

\* The last write, as it runs.
LEMMA LastWrite ==
    ASSUME DInv, to = "os"
    PROVE  LET w == writes[Len(writes)]
           IN  /\ w \in [value : Values, from : Nat, threw : BOOLEAN, good : BOOLEAN]
               /\ Part(Len(writes)) \in Seq(Nat)
               /\ Going(w.value, Part(Len(writes)), todo, "os" \notin bad)
<1>1. writes # <<>> /\ Going(writes[Len(writes)].value, Part(Len(writes)), todo, "os" \notin bad)
      BY DEF DInv, Running
<1>2. writes \in Seq([value : Values, from : Nat, threw : BOOLEAN, good : BOOLEAN])
      BY DEF DInv, DTypeOK
<1>3. Len(writes) \in 1..Len(writes)
      <2>1. Len(writes) \in Nat /\ Len(writes) # 0
            BY <1>1, <1>2, LenProperties, EmptySeq
      <2>2. QED BY <2>1
<1>4. Part(Len(writes)) \in Seq(Nat)
      BY <1>3, Writes DEF DInv
<1>5. QED BY <1>1, <1>2, <1>3, <1>4, ElementOfSeq

LEMMA ThrowStep ==
    ASSUME DInv, Throw
    PROVE  DInv'
<1>1. todo # <<>> /\ TooLong(Head(todo)) /\ todo \in Seq(Values) /\ Over(TRUE) /\ os' = os
      BY DEF DInv, DTypeOK, Throw
<1>2. ASSUME to = "os"
      PROVE  Settled([writes[Len(writes)] EXCEPT !.threw = TRUE, !.good = "os" \notin bad],
                     Part(Len(writes)))
      <2>1. PICK w \in [value : Values, from : Nat, threw : BOOLEAN, good : BOOLEAN],
                 put \in Seq(Nat) :
                w = writes[Len(writes)] /\ put = Part(Len(writes))
                /\ Going(w.value, put, todo, "os" \notin bad)
            BY <1>2, LastWrite
      <2>2. Overlong(w.value) /\ Torn(put, Encoded[w.value])
            BY <1>1, <2>1, GoingThrows
      <2>3. QED BY <2>1, <2>2 DEF Settled
<1>3. QED BY <1>1, <1>2, OverStep

LEMMA DumpReturnsStep ==
    ASSUME DInv, DumpReturns
    PROVE  DInv'
<1>1. todo = <<>> /\ Over(FALSE) /\ os' = os
      BY DEF DumpReturns
<1>2. ASSUME to = "os"
      PROVE  Settled([writes[Len(writes)] EXCEPT !.threw = FALSE, !.good = "os" \notin bad],
                     Part(Len(writes)))
      <2>1. PICK w \in [value : Values, from : Nat, threw : BOOLEAN, good : BOOLEAN],
                 put \in Seq(Nat) :
                w = writes[Len(writes)] /\ put = Part(Len(writes))
                /\ Going(w.value, put, <<>>, "os" \notin bad)
            BY <1>1, <1>2, LastWrite
      <2>2. /\ ~Overlong(w.value)
            /\ IF "os" \notin bad THEN put = Encoded[w.value] ELSE Torn(put, Encoded[w.value])
            BY <2>1, GoingEnds
      <2>3. QED BY <2>1, <2>2 DEF Settled
<1>3. QED BY <1>1, <1>2, OverStep

\* Only what was dumped without an exception is taken.
LEMMA Taken ==
    ASSUME DInv, DNext, out' # out
    PROVE  /\ ~Overlong(dumped)
           /\ IF "ss" \in bad THEN Torn(out', Encoded[dumped]) ELSE out' = Encoded[dumped]
<1>1. DumpReturns /\ to = "ss" /\ todo = <<>> /\ out' = ss
      BY DEF DNext, Write, DumpToString, Clear, DumpLeafNext, DumpContainerNext, Throw, DumpReturns
<1>2. dumped \in Values /\ ss \in Seq(Nat) /\ Going(dumped, ss, <<>>, "ss" \notin bad)
      BY <1>1 DEF DInv, Running, DTypeOK
<1>3. QED BY <1>1, <1>2, GoingEnds

LEMMA DumperInvariance == DSpec => []DInv
<1>1. DInit => DInv
      <2> SUFFICES ASSUME DInit PROVE DInv
          OBVIOUS
      <2>1. <<>> \in Seq(Values) /\ <<>> \in Seq(Nat) /\ Len(<<>>) = 0
            /\ <<>> \in Seq([value : Values, from : Nat, threw : BOOLEAN, good : BOOLEAN])
            /\ DOMAIN <<>> = {}
            OBVIOUS
      <2>2. DTypeOK /\ Running /\ WholeOrTorn
            BY <2>1 DEF DInit, DTypeOK, Running, WholeOrTorn
      <2>3. QED BY <2>2 DEF DInv
<1>2. DInv /\ [DNext]_dvars => DInv'
      <2> SUFFICES ASSUME DInv, [DNext]_dvars PROVE DInv'
          OBVIOUS
      <2>1. CASE \E v \in Held : Write(v) \/ DumpToString(v)
            BY <2>1, WriteStep, DumpToStringStep
      <2>2. CASE Clear \/ DumpLeafNext \/ DumpContainerNext
            BY <2>2, ClearStep, RoundStep
      <2>3. CASE Throw
            BY <2>3, ThrowStep
      <2>4. CASE DumpReturns
            BY <2>4, DumpReturnsStep
      <2>5. CASE UNCHANGED dvars
            BY <2>5 DEF dvars, DInv, DTypeOK, Running, WholeOrTorn, Going, Overlong, SomeOverlong,
                        Ended, Part
      <2>6. QED BY <2>1, <2>2, <2>3, <2>4, <2>5 DEF DNext
<1>3. QED BY <1>1, <1>2, PTL DEF DSpec
---------------------------------------------------------------------
\* The theorems.

\* Whatever a program writes to its stream and dumps to strings, in any order, and
\* whenever one of the streams takes no more: each write that is over has put the
\* whole encoding there, or threw because something in the value is too long, or left
\* the stream bad; and has then put nothing or a proper prefix of it.
THEOREM WritesAreWholeOrTorn == DSpec => []WholeOrTorn
<1>1. DInv => WholeOrTorn
      BY DEF DInv
<1>2. QED BY <1>1, DumperInvariance, PTL

\* MsgPack::dump gives its caller's string the whole encoding of the value, which
\* holds nothing that is too long, unless memory ran out under its string stream; or
\* does not touch the string.
THEOREM StringsAreWholeOrOutOfMemory == DSpec => OutWholeOrOutOfMemory
<1>1. DInv /\ [DNext]_dvars =>
          [out' # out => /\ ~\E x \in Inside[dumped] : TooLong(x)
                         /\ IF "ss" \in bad THEN Torn(out', Encoded[dumped])
                            ELSE out' = Encoded[dumped]]_dvars
      BY Taken DEF Overlong
<1>2. QED BY <1>1, DumperInvariance, PTL DEF DSpec, OutWholeOrOutOfMemory
=====================================================================
