-------------------------- MODULE Contract --------------------------
(***************************************************************************)
(* What msgpack11.hpp promises of parse, call after call on one stream: a  *)
(* call is asked for and answered, and only the answer shows in the        *)
(* stream, in err and in the value.  How the parser gets there is left     *)
(* out, and so is which value the bytes stand for.                         *)
(***************************************************************************)
EXTENDS Integers

CONSTANTS
    Errs,                      \* what err may hold before the first call
    EndOfBuffer, FormatError,  \* the messages of a failed call
    NoValue                    \* MsgPack()

VARIABLES
    size,      \* how many bytes the stream had at first
    is,        \* bytes consumed, eofbit and failbit
    err,       \* the caller's error string
    value,     \* what the call has returned, NoValue while it runs
    busy       \* a call is running

cvars == <<size, is, err, value, busy>>

Init ==
    /\ is = [pos |-> 0, eof |-> FALSE, fail |-> FALSE]
    /\ err \in Errs
    /\ value = NoValue
    /\ busy = TRUE

Call ==
    /\ ~busy /\ busy' = TRUE
    /\ value' = NoValue
    /\ UNCHANGED <<size, is, err>>

Answer == busy /\ busy' = FALSE /\ UNCHANGED size

\* A value was read, of one byte or more; err is as it was.
Succeed ==
    /\ Answer /\ ~is.fail
    /\ \E p \in (is.pos + 1)..size : is' = [is EXCEPT !.pos = p]
    /\ UNCHANGED err

\* The bytes ended within a value: the stream is used up.
RunOut ==
    /\ Answer /\ ~is.fail
    /\ is' = [pos |-> size, eof |-> TRUE, fail |-> TRUE]
    /\ err' = EndOfBuffer /\ value' = NoValue

\* The bytes stand for no value: the stream is left past the first of them.
Reject ==
    /\ Answer /\ ~is.fail
    /\ \E p \in (is.pos + 1)..size : is' = [pos |-> p, eof |-> FALSE, fail |-> TRUE]
    /\ err' = FormatError /\ value' = NoValue

\* The stream had failed before: nothing is read and err says why once more.
Refuse ==
    /\ Answer /\ is.fail
    /\ err' = IF is.eof THEN EndOfBuffer ELSE FormatError
    /\ value' = NoValue
    /\ UNCHANGED is

Next == Call \/ Succeed \/ RunOut \/ Reject \/ Refuse

Spec == Init /\ [][Next]_cvars
=====================================================================
