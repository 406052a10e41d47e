------------------------- MODULE MCRoundTrip ------------------------
(***************************************************************************)
(* The values RoundTrip sends under TLC: every type, with numbers and      *)
(* lengths on both sides of each step of the ladders of Encode.            *)
(***************************************************************************)
EXTENDS Example

\* A number of w bytes whose low bytes are "low" and whose other bytes are "fill".
Wide(w, fill, low) == [i \in 1..(w - Len(low)) |-> fill] \o low

Lows == { <<0>>, <<1>>, <<127>>, <<128>>, <<255>>, <<1, 0>>, <<127, 255>>, <<128, 0>>,
          <<255, 255>>, <<1, 0, 0>>, <<127, 255, 255, 255>>, <<128, 0, 0, 0>>,
          <<255, 255, 255, 255>>, <<1, 0, 0, 0, 0>> }

UnsignedValues ==
    UNION {{Scalar(t, Wide(SizeOf[t], 0, low)) : low \in {l \in Lows : Len(l) <= SizeOf[t]}}
           : t \in UnsignedTypes}

\* The least numbers a signed type of one, two and four bytes holds, the ones
\* next to them, -32 and -33, and what positive numbers there are.
NegativeLows == { <<223>>, <<224>>, <<255>>, <<128>>, <<127>>, <<128, 0>>, <<127, 255>>,
                  <<255, 0>>, <<128, 0, 0, 0>>, <<127, 255, 255, 255>> }

SignedValues ==
    UNION {{Scalar(t, Wide(SizeOf[t], fill, low)) :
               low \in {l \in Lows \union NegativeLows : Len(l) <= SizeOf[t]},
               fill \in {0, 255}} : t \in SignedTypes}

Floats ==
    { Scalar("FLOAT32", <<63, 192, 0, 0>>), Scalar("FLOAT32", <<128, 0, 0, 0>>),
      Scalar("FLOAT32", <<127, 192, 0, 0>>), Scalar("FLOAT32", <<0, 0, 0, 1>>),
      Scalar("FLOAT64", <<255, 240, 0, 0, 0, 0, 0, 0>>),
      Scalar("FLOAT64", <<192, 9, 33, 251, 84, 68, 45, 24>>) }

Repeat(n, x) == [i \in 1..n |-> x]
Str(n) == Scalar("STRING", Repeat(n, 97))
Bin(n) == Scalar("BINARY", Repeat(n, 7))
Ext(n) == Scalar("EXTENSION", <<200>> \o Repeat(n, 7))
Uint(n) == Scalar("UINT8", <<n>>)

Sized ==
    {Str(n) : n \in {0, 1, 31, 32, 255, 256, 65535, 65536}}
    \union {Bin(n) : n \in {0, 1, 255, 256, 65535, 65536}}
    \union {Ext(n) : n \in {0, 1, 2, 3, 4, 5, 7, 8, 9, 15, 16, 17, 255, 256, 65535, 65536}}

Containers ==
    { Array(Repeat(n, Nil)) : n \in {0, 1, 15, 16} } \union
    { Object([i \in 1..n |-> Uint(i)], Repeat(n, Str(1))) : n \in {0, 1, 15, 16} } \union
    { Array(<<Uint(200), Array(<<Str(2), Nil>>), Object(<<Nil>>, <<Uint(1)>>)>>),
      Object(<<Uint(1), Str(1), Array(<<Uint(1)>>)>>,
             <<Nil, Array(<<>>), Object(<<Uint(3)>>, <<Str(32)>>)>>),
      \* numbers that dump narrows keep their place among the keys
      Object(<<Scalar("INT64", Wide(8, 255, <<223>>)), Scalar("UINT32", Wide(4, 0, <<7>>)),
               Scalar("FLOAT32", <<65, 0, 0, 0>>), Scalar("UINT64", Wide(8, 0, <<1, 0, 0>>))>>,
             Repeat(4, Nil)),
      \* three and four containers deep
      Array(<<Array(<<Array(<<Nil>>)>>)>>),
      Object(<<Array(<<Array(<<Uint(1)>>)>>)>>, <<Nil>>),
      Array(<<Array(<<Array(<<Array(<<Str(3)>>)>>)>>)>>) }

Messages ==
    UnsignedValues \union SignedValues \union Floats \union Sized \union Containers
    \union {Nil, Scalar("BOOL", <<0>>), Scalar("BOOL", <<1>>)}

MCTraffic == {<<m, Array(<<Nil>>)>> : m \in Messages}

All == AllWithin(Messages \union {Array(<<Nil>>)})
MCEncoded == [v \in All |-> Dump(v)]

RECURSIVE NestingOf(_)
NestingOf(v) ==
    IF Children(v) = <<>> THEN 0 ELSE 1 + Max({NestingOf(x) : x \in Range(Children(v))})
MCNesting == [v \in All |-> NestingOf(v)]

\* What comes back for v by the type that its first byte tells, of which the bytes
\* are the last ones.
RECURSIVE BackOf(_)
BackOf(v) ==
    LET Parts(values) == [i \in DOMAIN values |-> BackOf(values[i])]
        type == TypeTold(Dump(v)[1])
        low == Len(v.bytes) - SizeOf[type]
    IN  CASE v.type \in IntTypes -> Scalar(type, SubSeq(v.bytes, low + 1, Len(v.bytes)))
          [] IsContainer(v) -> [v EXCEPT !.items = Parts(@), !.keys = Parts(@)]
          [] OTHER -> v
MCBack == [v \in All |-> BackOf(v)]

MCInputs ==
    LET both == {Dump(pair[1]) \o Dump(pair[2]) : pair \in MCTraffic}
    IN  UNION {{SubSeq(bytes, 1, n) : n \in Cuts(Len(bytes))} : bytes \in both}
MCErrs == {""}

\* What the theorems about RoundTrip suppose of what is delivered is true of these,
\* where TLC can evaluate it: no byte that could begin an object of more than four
\* members, whose orders are too many, or a length of four bytes.
Evaluated ==
    {in \in MCInputs : /\ Len(in) < 400
                      /\ \A i \in 1..Len(in) :
                            in[i] \notin (133..143) \union {198, 201, 219, 221, 222, 223}}
ASSUME OrderedInputs == \A in \in Evaluated : Reference!KeysOrdered(in)
=====================================================================
