-------------------------- MODULE MCKeys ----------------------------
(***************************************************************************)
(* Keys of objects for TLC: numbers of all kinds around the places where   *)
(* signs, widths and rounding matter, and keys of every other type.        *)
(***************************************************************************)
EXTENDS Compare

Fill(n, byte) == [i \in 1..n |-> byte]
Int64(high, low) == Scalar("INT64", high \o Fill(7 - Len(high), 0) \o <<low>>)
Uint64(high, low) == Scalar("UINT64", high \o Fill(7 - Len(high), 0) \o <<low>>)

SmallNumbers ==
    { Scalar("UINT8", <<1>>), Scalar("INT8", <<255>>), Scalar("UINT8", <<0>>),
      Scalar("FLOAT64", <<128, 0, 0, 0, 0, 0, 0, 0>>),
      Scalar("FLOAT32", <<63, 128, 0, 0>>), Scalar("FLOAT32", <<63, 192, 0, 0>>),
      Scalar("UINT16", <<1, 0>>), Int64(<<>>, 1), Uint64(<<>>, 1),
      Scalar("INT64", Fill(8, 255)), Scalar("INT32", <<128, 0, 0, 0>>) }

\* 2^53 and the next integer, of both types, the ends of both types, and doubles.
GreatNumbers ==
    { Int64(<<0, 32>>, 0), Int64(<<0, 32>>, 1), Uint64(<<0, 32>>, 0), Uint64(<<0, 32>>, 1),
      Int64(<<128>>, 0), Scalar("INT64", <<127>> \o Fill(7, 255)),
      Uint64(<<128>>, 0), Scalar("UINT64", Fill(8, 255)),
      Scalar("FLOAT64", <<67, 64, 0, 0, 0, 0, 0, 0>>),
      Scalar("FLOAT64", <<127, 248, 0, 0, 0, 0, 0, 0>>),
      Scalar("FLOAT32", <<127, 128, 0, 0>>) }

OtherKeys ==
    { Nil, Scalar("BOOL", <<0>>), Scalar("STRING", <<97>>), Scalar("STRING", <<97, 98>>),
      Scalar("STRING", <<200>>), Scalar("BINARY", <<97>>),
      Scalar("EXTENSION", <<200, 1>>), Scalar("EXTENSION", <<5>>),
      Array(<<Scalar("UINT8", <<1>>)>>), Array(<<Int64(<<>>, 1), Nil>>),
      Object(<<Nil>>, <<Nil>>), Object(<<Nil>>, <<Scalar("UINT8", <<1>>)>>) }

MCKeys == SmallNumbers \union GreatNumbers \union OtherKeys

\* A NaN is no ordinary key, nor is a floating-point number so great that several
\* integers are converted to it.
IsOrdinary(key) ==
    key.type \in {"FLOAT32", "FLOAT64"} =>
        LET x == float64_value(key) IN x.kind = "zero" \/ (x.kind = "num" /\ x.exp < 53)
MCOrdinary == {key : key \in {k \in MCKeys : IsOrdinary(k)}}
=====================================================================
