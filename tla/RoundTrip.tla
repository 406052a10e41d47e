------------------------- MODULE RoundTrip --------------------------
(***************************************************************************)
(* operator<< on one side and parse on the other: a sender dumps two       *)
(* values one after the other, the transport delivers the bytes or a       *)
(* prefix of them, and a reader parses value after value from the stream.  *)
(***************************************************************************)
EXTENDS Parser, Encode

CONSTANTS
    Traffic,    \* what may be sent: a set of pairs of values
    Nesting,    \* of each value, how many containers the innermost value is in
    Back        \* what comes back for each value

VARIABLE sent   \* the two values

rtvars == <<vars, sent>>

---------------------------------------------------------------------
\* What may be sent: values that dump writes without throwing.

\* The lengths that 32 bits hold.
Lengths == {n \in Nat : n \div 65536 < 65536}

Bytes(n) == {b \in Seq(Byte) : Len(b) = n}

MayHold(type, b) ==
    \/ type = "NUL" /\ b = <<>>
    \/ type = "BOOL" /\ b \in {<<0>>, <<1>>}
    \/ type \in DOMAIN SizeOf /\ b \in Bytes(SizeOf[type])
    \/ type \in {"STRING", "BINARY"} /\ b \in Seq(Byte) /\ Len(b) \in Lengths
    \/ type = "EXTENSION" /\ b \in Seq(Byte) /\ Len(b) - 1 \in Lengths

MayBeSent(v) ==
    CASE v.type = "ARRAY" -> v = Array(v.items) /\ Len(v.items) \in Lengths
      [] v.type = "OBJECT" -> v = Object(v.keys, v.items) /\ Len(v.keys) \in Lengths
      [] ~IsContainer(v) -> v = Scalar(v.type, v.bytes) /\ MayHold(v.type, v.bytes)

ASSUME TrafficAssumption ==
    /\ Traffic \subseteq (DOMAIN Encoded) \X (DOMAIN Encoded)
    /\ \A v \in DOMAIN Encoded : MayBeSent(v)

ASSUME NestingAssumption ==
    \A v \in DOMAIN Encoded :
        /\ Nesting[v] \in Nat
        /\ \A i \in DOMAIN Children(v) : Nesting[Children(v)[i]] < Nesting[v]
        /\ Nesting[v] = 0 \/ \E i \in DOMAIN Children(v) : Nesting[v] = Nesting[Children(v)[i]] + 1

---------------------------------------------------------------------
\* What comes back: the value, but each integer in the type that its first byte
\* tells, in which dump wrote it.

\* The number that the bytes b of a type stand for: its sign, and its two's
\* complement of 64 bits.
Filled(b, fill) ==
    <<fill, [i \in 1..8 |-> IF i + Len(b) > 8 THEN b[i + Len(b) - 8] ELSE fill]>>
SignFill(b) == IF IsNegative(b) THEN 255 ELSE 0
NumberOf(v) ==
    IF v.type \in SignedTypes THEN Filled(v.bytes, SignFill(v.bytes)) ELSE Filled(v.bytes, 0)

\* w is v, but an integer may have come back in another type, as the same number.
Same(w, v) ==
    IF v.type \in UnsignedTypes \union SignedTypes
    THEN w.type \in UnsignedTypes \union SignedTypes /\ NumberOf(w) = NumberOf(v)
    ELSE w = v

TypeTold(b) ==
    IF b \in Reference!SingleBytes THEN Reference!Single(b).type ELSE Reference!Announces(b).type

\* It is the leaf v that was written as s.
LeafBack(w, v, s) ==
    /\ Same(w, v)
    /\ v.type \in UnsignedTypes \union SignedTypes =>
          w = Scalar(TypeTold(s[1]), w.bytes) /\ w.bytes \in Bytes(SizeOf[w.type])

BackEach(values) == [i \in DOMAIN values |-> Back[values[i]]]

\* The keys of an object are still in order.
ASSUME BackAssumption ==
    \A v \in DOMAIN Encoded :
        CASE v.type = "ARRAY" -> Back[v] = Array(BackEach(v.items))
          [] v.type = "OBJECT" ->
                /\ Back[v] = Object(BackEach(v.keys), BackEach(v.items))
                /\ \A i, j \in DOMAIN v.keys : i < j => Less(Back[v.keys[i]], Back[v.keys[j]])
          [] ~IsContainer(v) -> LeafBack(Back[v], v, Encoded[v])

---------------------------------------------------------------------

\* Where the first and the second value begin, and where the second one ends.
Border(pair, i) ==
    CASE i = 0 -> 0
      [] i = 1 -> Len(Encoded[pair[1]])
      [] i = 2 -> Len(Encoded[pair[1]]) + Len(Encoded[pair[2]])

\* The transport may stop after any byte; of long encodings, at a few places.
Cuts(n) == IF n <= 64 THEN 1..n ELSE {1, 2, 3, 4, 5, 6, n - 1, n}

Both(pair) == Encoded[pair[1]] \o Encoded[pair[2]]
Deliveries(pair) == {SubSeq(Both(pair), 1, n) : n \in Cuts(Len(Both(pair)))}

ASSUME DeliveredAssumption == \A pair \in Traffic : Deliveries(pair) \subseteq Inputs

RTInit ==
    /\ sent \in Traffic
    /\ input \in Deliveries(sent)
    /\ Init

RTNext == Next /\ UNCHANGED sent

RTSpec == RTInit /\ [][RTNext]_rtvars

---------------------------------------------------------------------
\* What must hold.

\* The i-th value was read from the place where it begins, by a call that is over.
CallFor(i) ==
    pc = "done" /\ began.is = [pos |-> Border(sent, i - 1), eof |-> FALSE, fail |-> FALSE]

Arrived(i) == Len(input) >= Border(sent, i)

\* A value that arrived whole is read back: the call consumes its bytes and no
\* byte of the next value, and returns the value sent, whose integers may have come
\* in other types, with err untouched.
ReadBack ==
    \A i \in 1..2 :
        CallFor(i) /\ Arrived(i) /\ Nesting[sent[i]] <= MaxDepth =>
            /\ ret = Back[sent[i]]
            /\ is = [pos |-> Border(sent, i), eof |-> FALSE, fail |-> FALSE]
            /\ err = began.err

\* Every proper prefix of an encoding is an error, and one that says the buffer
\* ended rather than that the format is wrong (test/incomplete_data.cpp).
PrefixRejected ==
    \A i \in 1..2 :
        CallFor(i) /\ ~Arrived(i) /\ Nesting[sent[i]] <= MaxDepth =>
            ret = Nil /\ is.fail /\ err = EndOfBuffer

\* dump has no limit on nesting and parse has one: what is nested too deep is
\* dumped, and rejected as a format error when it is read.
DeepRejected ==
    \A i \in 1..2 :
        CallFor(i) /\ Arrived(i) /\ Nesting[sent[i]] > MaxDepth =>
            ret = Nil /\ is.fail /\ err = FormatError
=====================================================================
