-------------------------- MODULE MCParser --------------------------
(***************************************************************************)
(* The inputs TLC gives Parser.  Its keys are ordered by operator<.        *)
(***************************************************************************)
EXTENDS Parser, Compare

\* First bytes of the handlers, and payload bytes at their boundaries.
Alphabet == {0, 1, 127, 128, 129, 130, 144, 145, 147, 160, 161, 192, 193, 194,
             196, 199, 204, 208, 212, 217, 224, 255}
FewBytes == {1, 129, 130, 145, 146, 161, 193, 196, 212}

ShortInputs ==
    UNION {[1..n -> Alphabet] : n \in 0..2} \union UNION {[1..n -> FewBytes] : n \in 3..4}

Repeat(n, byte) == [i \in 1..n |-> byte]

\* Whole encodings of what short inputs do not reach: wide headers, numbers,
\* extensions, keys that are equal, equivalent or of several types.
Encodings ==
    { <<197, 0, 1, 7>>, <<198, 0, 0, 0, 1, 7>>,
      <<199, 1, 5, 7>>, <<200, 0, 1, 5, 7>>, <<201, 0, 0, 0, 1, 255, 7>>,
      <<202, 63, 128, 0, 0>>, <<203>> \o Repeat(8, 64),
      <<205, 1, 2>>, <<206, 1, 2, 3, 4>>, <<207>> \o Repeat(8, 255),
      <<209, 255, 0>>, <<210, 128, 0, 0, 0>>, <<211>> \o Repeat(8, 128),
      <<212, 5, 7>>, <<213, 5>> \o Repeat(2, 7), <<214, 5>> \o Repeat(4, 7),
      <<215, 5>> \o Repeat(8, 7), <<216, 5>> \o Repeat(16, 7),
      <<218, 0, 1, 97>>, <<219, 0, 0, 0, 1, 97>>,
      <<220, 0, 2, 192, 1>>, <<221, 0, 0, 0, 2, 195, 193>>,
      <<222, 0, 2, 161, 98, 1, 161, 97, 2>>, <<223, 0, 0, 0, 1, 1, 144>>,
      <<146, 146, 1, 2, 129, 3, 4>>, <<129, 1, 146, 145, 2, 3>>,
      \* members out of order, then a repeated key
      <<132, 2, 192, 1, 195, 3, 194, 2, 1>>,
      \* keys of different types, among them 1, 1.0f and 1.0
      <<133, 161, 97, 1, 1, 2, 202, 63, 128, 0, 0, 3, 255, 4,
        203, 63, 240, 0, 0, 0, 0, 0, 0, 5>>,
      \* containers as keys
      <<131, 145, 2, 1, 145, 1, 2, 144, 3>>, <<130, 129, 1, 2, 0, 129, 1, 1, 0>>,
      \* the greatest INT64, and UINT64s that one double stands for
      <<131, 211, 127>> \o Repeat(7, 255) \o <<1, 207, 127>> \o Repeat(7, 255)
          \o <<2, 207, 128>> \o Repeat(7, 0) \o <<3>> }

LongInputs == UNION {Prefixes(s) : s \in Encodings}

MCInputs == ShortInputs \union LongInputs
\* What the theorem about MatchesReference supposes of an input is true of these,
\* none of whose keys is a NaN or holds one.
ASSUME OrderedInputs == \A in \in MCInputs : Reference!KeysOrdered(in)

MCErrs == {"", "stale"}
=====================================================================
