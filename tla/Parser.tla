--------------------------- MODULE Parser ---------------------------
(***************************************************************************)
(* MsgPack::parse(std::istream&, std::string&): the recursive-descent      *)
(* parser of msgpack11.cpp (namespace MsgPackParser), called again and     *)
(* again on one stream, as parse_multi and a caller's loop over operator>> *)
(* do.                                                                     *)
(*                                                                         *)
(* The C++ recursion is an explicit stack: one frame for each              *)
(* parse_array_impl or parse_object_impl that is running.  The argument    *)
(* "depth" of parse_msgpack is then the height of the stack.  One action   *)
(* is one call of a handler of the parser table, one turn of a container's *)
(* loop, or one return.                                                    *)
(***************************************************************************)
EXTENDS Wire, StdMap

CONSTANTS
    MaxDepth,      \* max_depth
    Inputs,        \* what the stream may hold: a set of sequences of bytes
    Errs           \* what the caller's err may hold before the first call

ASSUME MaxDepthAssumption == MaxDepth \in Nat
ASSUME InputsAssumption == Inputs \subseteq Seq(Byte)

EndOfBuffer == "end of buffer."
FormatError == "format error."

VARIABLES
    input,     \* the bytes of the stream, from its first one
    is,        \* the stream: bytes consumed, eofbit and failbit
    stack,     \* the loops that are running, the innermost one last
    built,     \* built[i]: what the loop of stack[i] has gathered
    pc,        \* "call": parse_msgpack is entered; "loop": the innermost
               \* loop tests its counter; "return": parse_msgpack returns
               \* ret; "done": the caller has its answer
    ret,       \* the value returned last
    err,       \* the caller's error string
    began      \* the stream and err as the current call found them

vars == <<input, is, stack, built, pc, ret, err, began>>

---------------------------------------------------------------------
\* The stream.

Fresh == [pos |-> 0, eof |-> FALSE, fail |-> FALSE]

Good(s) == ~s.eof /\ ~s.fail
SetFail(s) == [s EXCEPT !.fail = TRUE]

\* Mutant of Consume: the position counts bytes that were not there.
ConsumePastEnd(s, n) ==
    IF ~Good(s) THEN SetFail(s)
    ELSE IF n <= Len(input) - s.pos THEN [s EXCEPT !.pos = @ + n]
    ELSE [pos |-> s.pos + n, eof |-> TRUE, fail |-> TRUE]

\* Mutant of Consume: a stream that went bad is read all the same.
ConsumeWhenBad(s, n) ==
    IF n <= Len(input) - s.pos THEN [s EXCEPT !.pos = @ + n]
    ELSE [pos |-> Len(input), eof |-> TRUE, fail |-> TRUE]

\* read(p, n), or n calls of get().  A stream that is not good only gets its
\* failbit set; one with too few bytes gives what it has and sets both bits.
Consume(s, n) ==
    IF ~Good(s) THEN SetFail(s)
    ELSE IF n <= Len(input) - s.pos THEN [s EXCEPT !.pos = @ + n]
    ELSE [pos |-> Len(input), eof |-> TRUE, fail |-> TRUE]

\* The n bytes that Consume(s, n) stores: read_bytes zeroes what it failed to read.
Read(s, n) == [i \in 1..n |-> IF Good(Consume(s, n)) THEN input[s.pos + i] ELSE 0]

\* The length that read_bytes of a T finds at s.
Length(s, T) == BigEndian(Read(s, SizeOf[T]))

---------------------------------------------------------------------
\* parse_msgpack, before and after the handler.

depth == Len(stack)

\* Mutant of DepthExceeded: one container more.
DepthExceededLate == depth > MaxDepth + 1

DepthExceeded == depth > MaxDepth
Entered == pc = "call" /\ ~DepthExceeded
FirstByte == Read(is, 1)[1]
Rest == Consume(is, 1)        \* the stream once the first byte is read
T == parsers[FirstByte].T     \* the template argument of the handler

\* The handler of the first byte is "parser".
Dispatch(parser) ==
    /\ Entered
    /\ Good(Rest)
    /\ parsers[FirstByte].parser = parser

\* Mutant of Finish: what the handler returned is passed on whatever happened.
FinishUnchecked(s, v) ==
    /\ is' = s
    /\ ret' = v
    /\ pc' = "return"
    /\ UNCHANGED <<input, err, began>>

\* The handler leaves the stream s and returns v: parse_msgpack passes v on
\* unless the stream went bad on the way.
Finish(s, v) ==
    /\ is' = IF Good(s) THEN s ELSE SetFail(s)
    /\ ret' = IF Good(s) THEN v ELSE Nil
    /\ pc' = "return"
    /\ UNCHANGED <<input, err, began>>

Leaf(s, v) == Finish(s, v) /\ UNCHANGED <<stack, built>>

TooDeep ==
    /\ pc = "call" /\ DepthExceeded
    /\ Leaf(SetFail(is), Nil)

NoFirstByte ==
    /\ Entered
    /\ ~Good(Rest)
    /\ Leaf(Rest, Nil)

---------------------------------------------------------------------
\* The handlers that read no container.

ParseInvalid == Dispatch("invalid") /\ Leaf(SetFail(Rest), Nil)
ParseNil == Dispatch("nil") /\ Leaf(Rest, Nil)
ParseBool ==
    /\ Dispatch("bool")
    /\ Leaf(Rest, Scalar("BOOL", <<IF FirstByte = 195 THEN 1 ELSE 0>>))
ParsePosFixint == Dispatch("pos_fixint") /\ Leaf(Rest, Scalar("UINT8", <<FirstByte>>))
ParseNegFixint == Dispatch("neg_fixint") /\ Leaf(Rest, Scalar("INT8", <<FirstByte>>))

ParseArith ==
    /\ Dispatch("arith")
    /\ Leaf(Consume(Rest, SizeOf[T]), Scalar(T, Read(Rest, SizeOf[T])))

\* parse_string_impl and parse_binary_impl: n bytes at s.
Payload(s, n, type) == Leaf(Consume(s, n), Scalar(type, Read(s, n)))

Counted(type) == Payload(Consume(Rest, SizeOf[T]), Length(Rest, T), type)

ParseFixString == Dispatch("fixstring") /\ Payload(Rest, FirstByte % 32, "STRING")
ParseString == Dispatch("string") /\ Counted("STRING")
ParseBinary == Dispatch("binary") /\ Counted("BINARY")

\* An extension: the type byte at s, then n bytes of data.
Extension(s, n) ==
    Leaf(Consume(Consume(s, 1), n),
         Scalar("EXTENSION", Read(s, 1) \o Read(Consume(s, 1), n)))

ParseFixExt == Dispatch("fixext") /\ Extension(Rest, <<1, 2, 4, 8, 16>>[FirstByte - 211])
ParseExtension ==
    /\ Dispatch("extension")
    /\ Extension(Consume(Rest, SizeOf[T]), Length(Rest, T))

---------------------------------------------------------------------
\* The containers.  A frame is a loop that must still make "left" turns; "at"
\* says what the call it makes next returns: an item of an array, or the key or
\* the mapped value of a member of an object.

Open(at, s, n) ==
    /\ is' = s
    /\ stack' = Append(stack, [at |-> at, left |-> n])
    /\ built' = Append(built, [items |-> <<>>, keys |-> <<>>, key |-> Nil])
    /\ pc' = "loop"
    /\ UNCHANGED <<input, ret, err, began>>

ParseFixArray == Dispatch("fixarray") /\ Open("item", Rest, FirstByte % 16)
ParseFixObject == Dispatch("fixobject") /\ Open("key", Rest, FirstByte % 16)
ParseArray ==
    Dispatch("array") /\ Open("item", Consume(Rest, SizeOf[T]), Length(Rest, T))
ParseObject ==
    Dispatch("object") /\ Open("key", Consume(Rest, SizeOf[T]), Length(Rest, T))

InLoop(at) == depth > 0 /\ stack[depth].at = at

\* Mutant of CallNext: the loop makes one turn too many (i <= bytes).
CallNextAtZero ==
    /\ pc = "loop" /\ stack[depth].left >= 0
    /\ pc' = "call"
    /\ UNCHANGED <<input, is, stack, built, ret, err, began>>

CallNext ==
    /\ pc = "loop" /\ stack[depth].left > 0
    /\ pc' = "call"
    /\ UNCHANGED <<input, is, stack, built, ret, err, began>>

\* The loop is over: the handler returns the container to parse_msgpack.
Close(v) ==
    /\ stack[depth].left = 0
    /\ stack' = Front(stack)
    /\ built' = Front(built)
    /\ Finish(is, v)

ArrayDone ==
    pc = "loop" /\ InLoop("item") /\ Close(Array(built[depth].items))
ObjectDone ==
    pc = "loop" /\ InLoop("key") /\ Close(Object(built[depth].keys, built[depth].items))

\* Mutant of Turn: only the turns that read something are counted.
TurnWhenGood(at) ==
    /\ stack' = [stack EXCEPT ![depth] =
                    [at |-> at, left |-> IF Good(is) THEN @.left - 1 ELSE @.left]]
    /\ pc' = "loop"
    /\ UNCHANGED <<input, is, ret, err, began>>

\* One turn of the loop is complete.
Turn(at) ==
    /\ stack' = [stack EXCEPT ![depth] = [at |-> at, left |-> @.left - 1]]
    /\ pc' = "loop"
    /\ UNCHANGED <<input, is, ret, err, began>>

ReturnItem ==
    /\ pc = "return" /\ InLoop("item")
    /\ built' = [built EXCEPT ![depth].items = Append(@, ret)]
    /\ Turn("item")

ReturnKey ==
    /\ pc = "return" /\ InLoop("key")
    /\ built' = [built EXCEPT ![depth].key = ret]
    /\ stack' = [stack EXCEPT ![depth].at = "value"]
    /\ pc' = "call"
    /\ UNCHANGED <<input, is, ret, err, began>>

\* The member goes into the std::map, where the search for its key ends.
ReturnValue ==
    /\ pc = "return" /\ InLoop("value")
    /\ \E p \in 0..Len(built[depth].keys) :
          /\ Ends(built[depth].keys, built[depth].key, p)
          /\ built' = [built EXCEPT ![depth] = Insert(@, p, ret)]
    /\ Turn("key")

---------------------------------------------------------------------
\* The caller.

\* Mutant of ReturnToCaller: failbit, which eofbit implies, is tested first.
ReturnFailFirst ==
    /\ pc = "return" /\ depth = 0
    /\ err' = IF is.fail THEN FormatError ELSE IF is.eof THEN EndOfBuffer ELSE err
    /\ pc' = "done"
    /\ UNCHANGED <<input, is, stack, built, ret, began>>

\* parse(is, err) looks at the stream once the outermost call is back.
ReturnToCaller ==
    /\ pc = "return" /\ depth = 0
    /\ err' = IF is.eof THEN EndOfBuffer ELSE IF is.fail THEN FormatError ELSE err
    /\ pc' = "done"
    /\ UNCHANGED <<input, is, stack, built, ret, began>>

\* The caller parses the next value of the same stream.
ParseAgain ==
    /\ pc = "done"
    /\ pc' = "call"
    /\ began' = [is |-> is, err |-> err]
    /\ UNCHANGED <<input, is, stack, built, ret, err>>

Init ==
    /\ input \in Inputs
    /\ is = Fresh
    /\ stack = <<>>
    /\ built = <<>>
    /\ pc = "call"
    /\ ret = Nil
    /\ err \in Errs
    /\ began = [is |-> is, err |-> err]

Handler ==
    \/ ParseInvalid \/ ParseNil \/ ParseBool \/ ParsePosFixint \/ ParseNegFixint
    \/ ParseArith \/ ParseFixString \/ ParseString \/ ParseBinary
    \/ ParseFixExt \/ ParseExtension
    \/ ParseFixArray \/ ParseArray \/ ParseFixObject \/ ParseObject

Loop == CallNext \/ ArrayDone \/ ObjectDone

Return == ReturnItem \/ ReturnKey \/ ReturnValue \/ ReturnToCaller

Callee == TooDeep \/ NoFirstByte \/ Handler \/ Loop \/ Return

Next == Callee \/ ParseAgain

\* One thread runs a call to its end; nothing makes the caller call again.
Spec == Init /\ [][Next]_vars /\ WF_vars(Callee)
---------------------------------------------------------------------
\* What must hold.

\* eofbit is set where there is nothing left to read.
Stream ==
    {s \in [pos : 0..Len(input), eof : BOOLEAN, fail : BOOLEAN] :
        s.eof => s.pos = Len(input)}
Frame == [at : {"item", "key", "value"}, left : Nat]

\* Type correctness.  The values the parser builds are left untyped.
TypeOK ==
    /\ input \in Inputs
    /\ is \in Stream
    /\ stack \in Seq(Frame)
    /\ pc \in {"call", "loop", "return", "done"}
    /\ err \in Errs \union {EndOfBuffer, FormatError}
    /\ pc = "loop" => depth > 0 /\ stack[depth].at # "value"
    /\ pc = "done" => depth = 0
    /\ began \in [is : Stream, err : Errs \union {EndOfBuffer, FormatError}]

\* "If parse fails, return MsgPack() and sets failbit on stream": no call of
\* parse_msgpack, inner or outermost, hands on a value read from a stream that
\* went bad on the way, and a stream that went bad always has its failbit.
FailureMeansNil ==
    /\ pc \in {"return", "done"} /\ ~Good(is) => ret = Nil
    /\ is.eof => is.fail

\* The C++ recursion is bounded by max_depth and by the input: a nested call is
\* paid for with a byte, however large the lengths that the input declares.
RecursionBounded ==
    /\ depth <= MaxDepth + 1
    /\ depth <= is.pos - began.is.pos

\* A call made from a loop has a turn to come back to: the unsigned counter is
\* never taken below zero.
TurnsLeft ==
    \A i \in 1..depth : (i = depth /\ pc = "loop") \/ stack[i].left > 0

\* While an object is read it has a mapped value for every key, and each key is
\* less than the next one, whatever order and however often the input has them:
\* no two neighbours are equivalent.  That does not need operator< to be an order.
MembersOrdered ==
    \A n \in 1..depth :
        LET keys == built[n].keys
        IN  /\ \A i \in 1..(Len(keys) - 1) : Less(keys[i], keys[i + 1])
            /\ stack[n].at # "item" => Len(built[n].items) = Len(keys)

\* Once the stream is bad the loops still make all the turns the input
\* declared, but they only unwind: no byte is consumed, no container is entered
\* and eofbit keeps the value that tells err the first error.
OnlyUnwindsAfterFailure ==
    [][~Good(is) =>
          /\ is'.pos = is.pos
          /\ is'.eof = is.eof
          /\ depth' <= depth]_vars

\* Seen by its caller, who looks at the stream and at err between calls only,
\* each run of the parser is one answer of those that Contract allows: "If parse
\* fails, return MsgPack(), sets failbit on stream and assign an error message
\* to err" (msgpack11.hpp:196), and if it does not, err is left alone and one
\* byte at least is consumed.
Promise == INSTANCE Contract WITH
    NoValue <- Nil,
    size <- Len(input),
    is <- IF pc = "done" THEN is ELSE began.is,
    err <- IF pc = "done" THEN err ELSE began.err,
    value <- IF pc = "done" THEN ret ELSE Nil,
    busy <- pc # "done"

ImplementsContract == Promise!Spec

\* What the bytes of the input stand for.
Reference == INSTANCE Decode

\* The current call has returned this outcome.
Means(outcome) ==
    /\ ret = outcome.value
    /\ is = [pos |-> outcome.next,
             eof |-> outcome.kind = "truncated",
             fail |-> outcome.kind # "value"]
    /\ err = CASE outcome.kind = "value" -> began.err
               [] outcome.kind = "truncated" -> EndOfBuffer
               [] outcome.kind = "malformed" -> FormatError

\* A call returns what Decode says of the bytes it started at, leaves the stream
\* there and sets err and the stream's bits accordingly; err is untouched on
\* success.  A call on a stream that is already bad fails without reading.
MatchesReference ==
    pc = "done" =>
        IF Good(began.is) THEN \A outcome \in {Reference!Value(input, began.is.pos, 0)} : Means(outcome)
        ELSE /\ ret = Nil /\ is = SetFail(began.is)
             /\ err = IF began.is.eof THEN EndOfBuffer ELSE FormatError

\* Every call comes back, also when the loops run on after a failure.
EveryCallReturns == (pc # "done") ~> (pc = "done")
=====================================================================
