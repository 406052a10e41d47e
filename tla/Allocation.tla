-------------------------- MODULE Allocation ------------------------
(***************************************************************************)
(* Parser with an allocator that may refuse: std::bad_alloc, or            *)
(* std::length_error, leaves all the calls of parse_msgpack and reaches    *)
(* the caller of parse.  The length that the input declares is asked for   *)
(* before any byte of what it counts is read.                              *)
(***************************************************************************)
EXTENDS Parser

VARIABLE threw     \* the current call of parse, or the last one, threw

avars == <<vars, threw>>

---------------------------------------------------------------------
\* What a handler asks for.

Handles(names) == Entered /\ Good(Rest) /\ parsers[FirstByte].parser \in names

\* The stream after the length, and after the type byte of an extension.
AfterLength == IF Handles({"string", "binary", "array", "extension"})
               THEN Consume(Rest, SizeOf[T]) ELSE Rest
BeforePayload == IF Handles({"extension", "fixext"}) THEN Consume(AfterLength, 1)
                 ELSE AfterLength

\* reserve or resize: how many bytes, characters or elements.
Wanted ==
    CASE Handles({"string", "binary", "array", "extension"}) -> Length(Rest, T)
      [] Handles({"fixstring"}) -> FirstByte % 32
      [] Handles({"fixarray"}) -> FirstByte % 16
      [] Handles({"fixext"}) -> <<1, 2, 4, 8, 16>>[FirstByte - 211]
      [] OTHER -> 0

\* make_shared, after the payload of a value that is no container.
Payloads == {"string", "fixstring", "binary", "extension", "fixext"}
AfterPayload ==
    IF Handles({"arith"}) THEN Consume(Rest, SizeOf[T])
    ELSE IF Handles(Payloads) THEN Consume(BeforePayload, Wanted)
    ELSE Rest

---------------------------------------------------------------------
\* The exception: the stream stays where it is, s.

Unwind(s) ==
    /\ is' = s
    /\ stack' = <<>> /\ built' = <<>>
    /\ pc' = "done" /\ threw' = TRUE
    /\ UNCHANGED <<input, ret, err, began>>

RefuseBuffer == Wanted > 0 /\ Unwind(BeforePayload)

RefuseValue ==
    /\ Handles({"arith", "pos_fixint", "neg_fixint"} \union Payloads)
    /\ Unwind(AfterPayload)

\* The container that is complete, or the node of a std::map.
RefuseContainer ==
    \/ pc = "loop" /\ stack[depth].left = 0 /\ Unwind(is)
    \/ pc = "return" /\ InLoop("value") /\ Unwind(is)

Refuse == RefuseBuffer \/ RefuseValue \/ RefuseContainer

AInit == Init /\ threw = FALSE

ANext == Refuse \/ (Next /\ threw' = FALSE)

ASpec == AInit /\ [][ANext]_avars
---------------------------------------------------------------------

\* "If parse fails, return MsgPack(), sets failbit on stream and and assign an
\* error message to err" (msgpack11.hpp:196): a caller that got no value finds
\* the reason in the stream and in err.
FailureIsReported ==
    pc = "done" /\ threw => is.fail /\ err \in {EndOfBuffer, FormatError}
=====================================================================
