------------------------- MODULE ParseMulti -------------------------
(***************************************************************************)
(* MsgPack::parse_multi: one call parses value after value from a stream   *)
(* of its own until the input is used up or a value is bad.  The calls of  *)
(* parse are the steps of Parser; this module adds the loop around them.   *)
(***************************************************************************)
EXTENDS Parser

VARIABLES
    msgpack_vec,       \* the values parsed so far
    parser_stop_pos,   \* the caller's variable of that name, or Unset
    at                 \* "test": the loop tests its condition; "parse": it has
                       \* called parse; "end": parse_multi has returned

mvars == <<vars, msgpack_vec, parser_stop_pos, at>>

\* The caller's parser_stop_pos is not initialised by parse_multi.
Unset == -1

\* tellg of a stream whose failbit is set is -1, which is no size.
tellg == IF is.fail THEN -1 ELSE is.pos

MultiInit ==
    /\ input \in Inputs
    /\ is = Fresh
    /\ stack = <<>>
    /\ built = <<>>
    /\ pc = "done"
    /\ ret = Nil
    /\ err \in Errs
    /\ began = [is |-> is, err |-> err]
    /\ msgpack_vec = <<>>
    /\ parser_stop_pos = Unset
    /\ at = "test"

\* Mutant of More: only the position is looked at.
MoreByPosition == tellg # Len(input)

More == tellg # Len(input) /\ ~is.eof /\ ~is.fail

CallParse ==
    /\ at = "test" /\ More
    /\ at' = "parse"
    /\ ParseAgain
    /\ UNCHANGED <<msgpack_vec, parser_stop_pos>>

Leave ==
    /\ at = "test" /\ ~More
    /\ at' = "end"
    /\ UNCHANGED <<vars, msgpack_vec, parser_stop_pos>>

\* parse runs; it never looks at the variables of parse_multi.
Inside == at = "parse" /\ Callee /\ UNCHANGED <<msgpack_vec, parser_stop_pos, at>>

\* Mutant of Keep: the position is the one from before the call.
KeepOldPosition ==
    /\ at = "parse" /\ pc = "done" /\ ~is.fail
    /\ msgpack_vec' = Append(msgpack_vec, ret)
    /\ parser_stop_pos' = began.is.pos
    /\ at' = "test"
    /\ UNCHANGED vars

\* Mutant of Keep: what a failed call returned is kept too.
KeepAnyway ==
    /\ at = "parse" /\ pc = "done"
    /\ msgpack_vec' = Append(msgpack_vec, ret)
    /\ parser_stop_pos' = IF is.fail THEN parser_stop_pos ELSE tellg
    /\ at' = "test"
    /\ UNCHANGED vars

\* parse is back: what it returned counts unless the stream failed.
Keep ==
    /\ at = "parse" /\ pc = "done" /\ ~is.fail
    /\ msgpack_vec' = Append(msgpack_vec, ret)
    /\ parser_stop_pos' = tellg
    /\ at' = "test"
    /\ UNCHANGED vars

\* Mutant of Drop: the position is taken outside the test for failure.
DropTakesPosition ==
    /\ at = "parse" /\ pc = "done" /\ is.fail
    /\ at' = "test"
    /\ parser_stop_pos' = tellg
    /\ UNCHANGED <<vars, msgpack_vec>>

Drop ==
    /\ at = "parse" /\ pc = "done" /\ is.fail
    /\ at' = "test"
    /\ UNCHANGED <<vars, msgpack_vec, parser_stop_pos>>

Returned == at = "end" /\ UNCHANGED mvars

MultiStep == CallParse \/ Leave \/ Inside \/ Keep \/ Drop

MultiNext == MultiStep \/ Returned

MultiSpec == MultiInit /\ [][MultiNext]_mvars /\ WF_mvars(MultiStep)
---------------------------------------------------------------------
\* What must hold.

\* Every value that is kept was paid for with a byte at least, the caller's
\* position is set by the first one, and it never runs ahead of the stream: the
\* calls of parse make progress, so the loop ends and the caller can go on
\* from parser_stop_pos.
StopPosSound ==
    /\ parser_stop_pos = Unset <=> msgpack_vec = <<>>
    /\ msgpack_vec # <<>> => Len(msgpack_vec) <= parser_stop_pos
    /\ parser_stop_pos <= is.pos

\* The outcome of reading n values that follow each other from the first byte on.
InTurn(in, n) == Reference!Values(Reference!Outcomes(in, 0), 0, n)

\* parse_multi returns the longest run of whole values, in order, with the
\* position where the last of them ends; err says what is wrong with the bytes
\* behind it, and is left alone when there are none.
MultiMatches ==
    at = "end" =>
        \E all \in {InTurn(input, Len(msgpack_vec))},
           more \in {InTurn(input, Len(msgpack_vec) + 1)} :
            /\ all.kind = "value" /\ more.kind # "value"
            /\ msgpack_vec = all.value
            /\ parser_stop_pos = IF msgpack_vec = <<>> THEN Unset ELSE all.next
            /\ IF all.next = Len(input) THEN err \in Errs
               ELSE err = IF more.kind = "truncated" THEN EndOfBuffer ELSE FormatError

\* After a failure nothing is kept and no other call of parse begins: whatever
\* the caller gets was read from a stream that was good.
FailureIsLast ==
    [][is.fail => UNCHANGED <<msgpack_vec, parser_stop_pos, began>>]_mvars

\* parse_multi returns, on every input.
MultiReturns == <>(at = "end")
=====================================================================
