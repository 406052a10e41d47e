-------------------------- MODULE MCDumper --------------------------
(***************************************************************************)
(* The values TLC gives Dumper, and what a reader makes of its stream.     *)
(***************************************************************************)
EXTENDS Dumper, Serialize, Compare

CONSTANTS
    MaxDepth,      \* that of the reader
    Less(_, _)     \* the order of its keys

Reference == INSTANCE Decode

Repeat(n, x) == [i \in 1..n |-> x]
Uint(n) == Scalar("UINT8", <<n>>)
Str(n) == Scalar("STRING", Repeat(n, 97))

\* Values at the limit of 16 and above it.
AtLimit == {Str(16), Array(Repeat(16, Nil))}
Above ==
    {Str(17), Scalar("BINARY", Repeat(17, 7)), Scalar("EXTENSION", Repeat(18, 7)),
     Array(Repeat(17, Nil)), Object([i \in 1..17 |-> Uint(i)], Repeat(17, Nil))}

Simple == {Uint(200), Str(17)}

\* Containers with a value that is too long nowhere, first, last, as a key, as a
\* mapped value, or deep inside.
Holders(inner) ==
    {Array(<<x>>) : x \in inner} \union {Array(<<x, y>>) : x \in inner, y \in Simple}
    \union {Object(<<x>>, <<y>>) : x \in inner, y \in Simple}
    \union {Object(<<Uint(1), x>>, <<y, Nil>>) : x \in inner \ {Uint(200)}, y \in Simple}

MCValues ==
    AtLimit \union Above \union Holders(Simple) \union
    Holders({Array(<<Uint(1), Str(17)>>), Object(<<Str(17)>>, <<Nil>>), Array(<<Nil>>)})

All == AllWithin(MCValues)
MCEncoded == [v \in All |-> Dump(v)]
MCInside == [v \in All |-> Within(v)]

\* Whoever reads where the last write began, if that threw or broke off because the
\* stream took no more, is told that the buffer ended, and is given no value that was
\* not sent: what is left of a torn value is not an encoding of anything.
TornReadsTruncated ==
    \A i \in DOMAIN writes :
        i = Len(writes) /\ Ended(i) /\ (writes[i].threw \/ ~writes[i].good) =>
            Reference!Value(Part(i), 0, 0).kind = "truncated"
=====================================================================
