-------------------------- MODULE MCLookup --------------------------
(***************************************************************************)
(* The values, indices, keys and shapes TLC gives Lookup.                  *)
(***************************************************************************)
EXTENDS Lookup, MCKeys

\* The hypothesis of the theorems about Order, of all keys of MCKeys: a run of Order
\* shows what follows from it, and this is the run that evaluates it.
ASSUME OrdinaryOrdered == OrdersAs(MCOrdinary, MsgEqual)

Str(byte) == Scalar("STRING", <<byte>>)
Uint(n) == Scalar("UINT8", <<n>>)
Wide(w, fill, low) == [i \in 1..(w - Len(low)) |-> fill] \o low

\* What an element or a member may be.
Small == Array(<<Uint(1), Nil>>)
Inner == Object(<<Uint(0), Str(97)>>, <<Str(98), Small>>)
Parts == {Nil, Uint(7), Small, Inner}

\* Objects whose members are in order: string keys after keys that are numbers,
\* among them the indices themselves, and keys that sort after strings.
Objects ==
    {Object(<<>>, <<>>)}
    \union {Object(<<Str(97), Str(98)>>, <<x, y>>) : x, y \in Parts}
    \union {Object(<<Nil, Uint(0), Uint(1), Str(98), Small>>, <<Inner, x, Small, y, Nil>>) :
               x, y \in Parts}

Arrays == {Array(<<>>)} \union {Array(<<x, y>>) : x, y \in Parts}

\* Numbers in every type that holds them, at the ends of the types; no integer
\* here takes more than 53 bits.
OneNumber ==
    { \* 1 and 0
      {Uint(1), Scalar("INT8", <<1>>), Scalar("INT64", Wide(8, 0, <<1>>)),
       Scalar("FLOAT32", <<63, 128, 0, 0>>), Scalar("FLOAT64", <<63, 240>> \o Zeros(6))},
      {Uint(0), Scalar("INT16", <<0, 0>>), Scalar("FLOAT64", <<128>> \o Zeros(7))},
      \* -1 and -128
      {Scalar("INT8", <<255>>), Scalar("INT16", <<255, 255>>), Scalar("INT32", Wide(4, 255, <<>>)),
       Scalar("INT64", Wide(8, 255, <<>>)), Scalar("FLOAT32", <<191, 128, 0, 0>>)},
      {Scalar("INT8", <<128>>), Scalar("INT64", Wide(8, 255, <<128>>)),
       Scalar("FLOAT64", <<192, 96>> \o Zeros(6))},
      \* 255, 65535 and -2^31
      {Uint(255), Scalar("INT16", <<0, 255>>), Scalar("UINT64", Wide(8, 0, <<255>>)),
       Scalar("FLOAT32", <<67, 127, 0, 0>>)},
      {Scalar("UINT16", <<255, 255>>), Scalar("INT32", <<0, 0, 255, 255>>),
       Scalar("FLOAT64", <<64, 239, 255, 224>> \o Zeros(4))},
      {Scalar("INT32", <<128, 0, 0, 0>>), Scalar("INT64", Wide(8, 255, <<128, 0, 0, 0>>)),
       Scalar("FLOAT32", <<207, 0, 0, 0>>), Scalar("FLOAT64", <<193, 224>> \o Zeros(6))},
      \* 2^32 - 1 and 2^53 - 1
      {Scalar("UINT32", Wide(4, 255, <<>>)), Scalar("INT64", Wide(8, 0, Wide(4, 255, <<>>))),
       Scalar("FLOAT64", <<65, 239, 255, 255, 255, 224, 0, 0>>)},
      {Scalar("UINT64", <<0, 31>> \o Wide(6, 255, <<>>)),
       Scalar("FLOAT64", <<67, 63>> \o Wide(6, 255, <<>>))},
      \* one and a half, which no integer equals
      {Scalar("FLOAT32", <<63, 192, 0, 0>>), Uint(2)} }

NumberArrays == {Array(SetToSeq(s)) : s \in OneNumber}

MCRoots == Objects \union Arrays \union NumberArrays
MCIndices == 1..2
MCNames == {Str(97), Str(98)}

Item(name, type) == [name |-> name, type |-> type]
Wanted == {Item(name, type) : name \in MCNames,
                              type \in {"NUL", "UINT8", "OBJECT"}}
MCShapes ==
    {<<x>> : x \in Wanted}
    \union {p \in Wanted \X Wanted : p[1].name # p[2].name /\ p[1].type # p[2].type}

\* Shapes that ask for the types NUMBER and INT.
MCNumberShapes == {<<Item(name, type)>> : name \in MCNames, type \in {"NUMBER", "INT"}}
=====================================================================
