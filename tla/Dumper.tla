---------------------------- MODULE Dumper --------------------------
(***************************************************************************)
(* operator<< as it runs: the nested for_each loops of the dump functions  *)
(* put one header or one leaf after the other, and a value whose length    *)
(* does not fit in 32 bits throws in the middle of them.  A stream that    *)
(* takes no more goes bad, and they run on.  A program writes values to a  *)
(* stream of its own and dumps values to a string.                         *)
(***************************************************************************)
EXTENDS Encode

CONSTANTS
    Held,        \* the values of the program
    Inside,      \* the values that each of them holds, directly or not, and itself
    Longest,     \* stands for 0xffffffff
    MaxCalls     \* bound: how many values the program writes or dumps

ASSUME HeldAssumption == Held \subseteq DOMAIN Encoded
ASSUME InsideAssumption ==
    \A v \in DOMAIN Encoded :
        Inside[v] = {v} \union UNION {Inside[x] : x \in Range(Children(v))}
ASSUME LongestAssumption == Longest \in Nat \ (0..15)

VARIABLES
    os,          \* the bytes on the program's stream
    ss,          \* the bytes on the std::stringstream of MsgPack::dump
    out,         \* the string that MsgPack::dump assigns
    bad,         \* those of the two streams whose badbit is set
    to,          \* the stream that operator<< runs on, "os" or "ss", or "none"
    todo,        \* what its loops have still to dump, the next value first
    dumped,      \* the value that MsgPack::dump dumps, or Nil
    writes,      \* the values written to os, with the place where each began,
                 \* whether its dump threw, and whether the stream was good after it
    calls        \* how many values the program has written or dumped

dvars == <<os, ss, out, bad, to, todo, dumped, writes, calls>>

\* value.size() of what the header counts; an extension's type byte is not.
Size(v) ==
    CASE v.type \in {"STRING", "BINARY"} -> Len(v.bytes)
      [] v.type = "EXTENSION" -> Len(v.bytes) - 1
      [] v.type = "ARRAY" -> Len(v.items)
      [] v.type = "OBJECT" -> Len(v.keys)
      [] OTHER -> 0

TooLong(v) == Size(v) > Longest

\* os.put and os.write.  The stream may take less than all of it (the string stream
\* when there is no memory), and then is bad; a bad stream takes nothing.
Put(bytes) ==
    \E taken \in Prefixes(bytes) :
        /\ to \in bad => taken = <<>>
        /\ os' = IF to = "os" THEN os \o taken ELSE os
        /\ ss' = IF to = "ss" THEN ss \o taken ELSE ss
        /\ bad' = IF taken = bytes THEN bad ELSE bad \union {to}

---------------------------------------------------------------------

\* The program writes v to its stream, whatever happened on it before: nothing
\* in dump looks at the stream's state.
Write(v) ==
    /\ to = "none" /\ calls < MaxCalls
    /\ to' = "os" /\ todo' = <<v>>
    /\ writes' = Append(writes, [value |-> v, from |-> Len(os), threw |-> FALSE, good |-> TRUE])
    /\ calls' = calls + 1
    /\ UNCHANGED <<os, ss, out, bad, dumped>>

\* os.clear(): the program goes on behind what is torn.
Clear ==
    /\ to = "none" /\ "os" \in bad
    /\ bad' = bad \ {"os"}
    /\ UNCHANGED <<os, ss, out, to, todo, dumped, writes, calls>>

\* out = v.dump(), or v.dump(out).
DumpToString(v) ==
    /\ to = "none" /\ calls < MaxCalls
    /\ to' = "ss" /\ todo' = <<v>> /\ dumped' = v
    /\ calls' = calls + 1
    /\ UNCHANGED <<os, ss, out, bad, writes>>

DumpLeafNext ==
    /\ todo # <<>> /\ ~IsContainer(Head(todo)) /\ ~TooLong(Head(todo))
    /\ Put(DumpLeaf(Head(todo)))
    /\ todo' = Tail(todo)
    /\ UNCHANGED <<out, to, dumped, writes, calls>>

\* The header first, then one turn of for_each per element or member.
DumpContainerNext ==
    /\ todo # <<>> /\ IsContainer(Head(todo)) /\ ~TooLong(Head(todo))
    /\ Put(Header(Head(todo)))
    /\ todo' = Children(Head(todo)) \o Tail(todo)
    /\ UNCHANGED <<out, to, dumped, writes, calls>>

\* Mutant of Throw: an overlong value is left out instead.
ThrowNothing ==
    /\ todo # <<>> /\ TooLong(Head(todo))
    /\ todo' = Tail(todo)
    /\ UNCHANGED <<os, ss, out, bad, to, dumped, writes, calls>>

\* operator<< is over, by an exception or not.  The program sees the state of its
\* stream; the std::stringstream is gone.
Over(threw) ==
    /\ todo' = <<>> /\ to' = "none" /\ ss' = <<>> /\ dumped' = Nil
    /\ bad' = bad \ {"ss"}
    /\ writes' = IF to = "os"
                  THEN [writes EXCEPT ![Len(writes)].threw = threw,
                                      ![Len(writes)].good = "os" \notin bad]
                  ELSE writes

\* Mutant of Throw: a null takes the place of what is too long.
ThrowAfterNull ==
    /\ todo # <<>> /\ TooLong(Head(todo))
    /\ Over(TRUE)
    /\ os' = IF to = "os" THEN Append(os, 192) ELSE os
    /\ UNCHANGED <<out, calls>>

\* Mutant of Throw: the string is taken all the same.
ThrowTakesString ==
    /\ todo # <<>> /\ TooLong(Head(todo))
    /\ Over(TRUE)
    /\ out' = IF to = "ss" THEN ss ELSE out
    /\ UNCHANGED <<os, calls>>

\* std::runtime_error leaves all the loops, and the program's stream as it is.
Throw ==
    /\ todo # <<>> /\ TooLong(Head(todo))
    /\ Over(TRUE)
    /\ UNCHANGED <<os, out, calls>>

\* operator<< returns; dump takes the string only now, and never asks ss how it is.
DumpReturns ==
    /\ to # "none" /\ todo = <<>>
    /\ Over(FALSE)
    /\ out' = IF to = "ss" THEN ss ELSE out
    /\ UNCHANGED <<os, calls>>

DInit ==
    /\ os = <<>> /\ ss = <<>> /\ out = <<>> /\ bad = {}
    /\ to = "none" /\ todo = <<>>
    /\ dumped = Nil /\ writes = <<>> /\ calls = 0

DNext ==
    \/ \E v \in Held : Write(v) \/ DumpToString(v)
    \/ Clear \/ DumpLeafNext \/ DumpContainerNext \/ Throw \/ DumpReturns

DSpec == DInit /\ [][DNext]_dvars
---------------------------------------------------------------------
\* What must hold.

\* What the i-th write has put on the stream.
Part(i) ==
    SubSeq(os, writes[i].from + 1, IF i = Len(writes) THEN Len(os) ELSE writes[i + 1].from)

Ended(i) == i < Len(writes) \/ to # "os"

\* Nothing, or the beginning of an encoding and not all of it.
Torn(put, whole) == put = <<>> \/ IsStrictPrefix(put, whole)

\* A write that is over has put the whole encoding of its value on the stream if it
\* did not throw and left the stream good, and else a proper prefix of it: no byte
\* follows a gap.  It throws just when something in the value, at any depth, is too
\* long, whatever the stream did.
WholeOrTorn ==
    \A i \in DOMAIN writes : Ended(i) =>
        /\ writes[i].threw <=> \E x \in Inside[writes[i].value] : TooLong(x)
        /\ IF writes[i].good /\ ~writes[i].threw
           THEN Part(i) = Encoded[writes[i].value]
           ELSE Torn(Part(i), Encoded[writes[i].value])

\* The string of a caller only ever becomes the whole encoding of what was dumped,
\* or what the string stream has of it when memory ran out under that, which nobody
\* is told: a dump that throws, however late, leaves the string as it was.
OutWholeOrOutOfMemory ==
    [][out' # out =>
          /\ ~\E x \in Inside[dumped] : TooLong(x)
          /\ IF "ss" \in bad THEN Torn(out', Encoded[dumped])
             ELSE out' = Encoded[dumped]]_dvars
=====================================================================
