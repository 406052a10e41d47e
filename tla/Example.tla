-------------------------- MODULE Example ---------------------------
(***************************************************************************)
(* example.cpp: it shows a value, dumps it, parses what it dumped and      *)
(* shows the result.  show_impl goes through a table of predicates and     *)
(* calls the show function of every predicate that holds.  Spaces and line *)
(* breaks are left out.                                                    *)
(***************************************************************************)
EXTENDS RoundTrip, Accessors, Serialize

\* What std::cout gets: pairs of a kind and what is printed.
Text(s) == <<<<"text", s>>>>

\* The decimal number for the bytes b of a type: its sign and the bits of its magnitude.
Decimal(b, type) ==
    LET neg == type \in SignedTypes /\ IsNegative(b)
        bits == IF neg THEN Negated(Bits(b)) ELSE Bits(b)
        ones == {i \in DOMAIN bits : bits[i] = 1}
    IN  <<<<"decimal", <<neg, {Len(bits) - i : i \in ones}>>>>>>

\* Mutant of func_table: every integer is taken to be signed.
func_tableSigned ==
    <<"NUL", "BOOL", "FLOAT32", "FLOAT64", "INT8", "INT16", "INT32", "INT64",
      "STRING", "ARRAY", "BINARY", "OBJECT", "EXTENSION">>

\* The rows of the table: the predicate is_x and the function show_x, which uses
\* the getter of x.
func_table ==
    <<"NUL", "BOOL", "FLOAT32", "FLOAT64", "INT8", "INT16", "INT32", "INT64",
      "UINT8", "UINT16", "UINT32", "UINT64", "STRING", "ARRAY", "BINARY", "OBJECT",
      "EXTENSION">>

RECURSIVE Show(_)

\* show_array and show_object: each of the values in turn, with what follows it.
ShowEach(values, after) ==
    FlattenSeq([i \in DOMAIN values |-> Show(values[i]) \o Text(after[1 + ((i - 1) % Len(after))])])

\* The show function of a type, of a value of that type.
ShowAs(v, type) ==
    CASE type = "NUL" -> Text("nil")
      [] type = "BOOL" -> Text(IF v.bytes = <<1>> THEN "true" ELSE "false")
      [] type \in {"FLOAT32", "FLOAT64"} -> <<<<type, v.bytes>>>>
      [] type \in IntTypes -> Decimal(CHOOSE b \in Gets(v, type) : TRUE, type)
      [] type \in {"STRING", "BINARY", "EXTENSION"} -> <<<<type, v.bytes>>>>
      [] type = "ARRAY" -> Text("[ ") \o ShowEach(v.items, <<", ">>) \o Text("]")
      [] type = "OBJECT" -> ShowEach(Members(v), <<" : ", "">>)

\* show_impl.
Show(v) ==
    FlattenSeq([k \in DOMAIN func_table |->
                   IF v.type = func_table[k] THEN ShowAs(v, v.type) ELSE <<>>])

---------------------------------------------------------------------
\* What must hold.

\* The i-th value arrived whole and was read.
Came(i) == CallFor(i) /\ Arrived(i) /\ Nesting[sent[i]] <= MaxDepth

RECURSIVE HasNaN(_)
HasNaN(v) ==
    \/ v.type \in {"FLOAT32", "FLOAT64"} /\ float64_value(v) = NaN
    \/ \E x \in Range(Children(v)) : HasNaN(x)

\* What comes back is the value sent for operator==, although the types of its numbers
\* may have changed, and dumping it again gives the same bytes.
EqualAgain ==
    \A i \in 1..2 :
        Came(i) => /\ MsgEqual(ret, sent[i]) \/ HasNaN(sent[i])
                   /\ Dump(ret) = Encoded[sent[i]]

\* dump writes a number in its shortest form, so that it comes back with another
\* type tag: a program does not notice as long as it asks with is_number, is_int
\* and the getter of the type that was written.
SameToGetters ==
    \A i \in 1..2 :
        Came(i) =>
            /\ is_number(ret) = is_number(sent[i]) /\ is_int(ret) = is_int(sent[i])
            /\ sent[i].type \in IntTypes => Gets(ret, sent[i].type) = {sent[i].bytes}

\* What the example shows as "original" and as "ser/des result" is the same, and
\* shows the value: numbers and containers look alike although dump has changed
\* the types of the numbers in them.
ShownAlike == \A i \in 1..2 : Came(i) => Show(ret) = Show(sent[i])
=====================================================================
