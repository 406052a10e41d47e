------------------------ MODULE MCParseMulti ------------------------
(***************************************************************************)
(* The inputs TLC gives ParseMulti, and what the header says of some.      *)
(***************************************************************************)
EXTENDS ParseMulti, Compare

---------------------------------------------------------------------
\* Inputs: short ones over a few first bytes, and two or three whole encodings,
\* of which the last may be cut.

FewBytes == {1, 129, 146, 161, 192, 193, 196, 224}
ShortInputs == UNION {[1..n -> FewBytes] : n \in 0..4}

Encodings == { <<1>>, <<205, 1, 2>>, <<161, 97>>, <<146, 192, 1>>, <<130, 1, 2, 1, 195>>,
               <<212, 5, 7>>, <<145, 145, 1>>, <<222, 0, 1, 144, 128>> }

Concatenations == {e \o p : e \in Encodings, p \in UNION {Prefixes(a \o b) : a, b \in Encodings}}

\* Containers in containers that fail at any depth.
NestingBytes == {1, 129, 145, 146, 193}
NestedInputs == UNION {[1..n -> NestingBytes] : n \in 0..5}

MCInputs == ShortInputs \union Concatenations \union NestedInputs
MCErrs == {"stale"}

\* An order of the keys that is cheap to evaluate, for the runs with liveness
\* properties: TLC evaluates ENABLED at every step.
BytesLess(a, b) == LexLess(a.bytes, b.bytes)

\* The hypothesis of MultiReadsAll and FeedLosesNothing: operator< orders the keys
\* that the inputs have.
ASSUME OrderedInputs == \A in \in Inputs : Reference!KeysOrdered(in)

---------------------------------------------------------------------
\* What the header says of the separators.

Objects == { <<128>>, <<129, 1, 2>>, <<129, 161, 97, 128>> }
Whitespace == { <<32>>, <<10>> }
MCSeparatedInputs == {a \o w \o b : a, b \in Objects, w \in Whitespace}

\* "Parse multiple objects, concatenated or separated by whitespace"
\* (msgpack11.hpp:210): whitespace between two objects adds no value of its own.
SeparatedByWhitespace ==
    LET Whole(s) == Reference!Value(s, 0, 0).value
    IN  at = "end" =>
            \A a, b \in Objects, w \in Whitespace :
                input = a \o w \o b => msgpack_vec = <<Whole(a), Whole(b)>>
=====================================================================
