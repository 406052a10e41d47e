----------------------------- MODULE Feed ---------------------------
(***************************************************************************)
(* A caller of parse_multi whose data comes in pieces and whose memory may *)
(* run out: it parses what it has, takes the values, keeps the bytes from  *)
(* parser_stop_pos on and parses them again with the next piece.  A call   *)
(* that throws takes its vector with it, but not the caller's              *)
(* parser_stop_pos, which may already be set: the caller must not use it.  *)
(***************************************************************************)
EXTENDS ParseMulti, Allocation, SequencesExt

CONSTANTS
    Wholes,        \* all the data the caller will get: a set of sequences of bytes
    MaxRefusals    \* bound: how often memory runs out

\* A call may get any piece of the data.
ASSUME SlicesAssumption ==
    /\ Wholes \subseteq Seq(Byte)
    /\ \A w \in Wholes : \A i \in 1..(Len(w) + 1), j \in 0..Len(w) : SubSeq(w, i, j) \in Inputs

VARIABLES
    whole,         \* all the data
    got,           \* how many bytes of it have come
    base,          \* how many of them the caller is done with
    delivered,     \* the values the caller has taken
    refusals       \* how often memory has run out

caller == <<whole, got, base, delivered, refusals>>
fvars == <<mvars, threw, caller>>

\* Where the current or the last call stopped, as the caller reads it.
Stop == IF parser_stop_pos = Unset THEN 0 ELSE parser_stop_pos

FInit ==
    /\ whole \in Wholes
    /\ input = <<>> /\ is = Fresh /\ stack = <<>> /\ built = <<>>
    /\ pc = "done" /\ ret = Nil /\ err \in Errs /\ began = [is |-> is, err |-> err]
    /\ msgpack_vec = <<>> /\ parser_stop_pos = Unset /\ at = "end"
    /\ threw = FALSE
    /\ got = 0 /\ base = 0 /\ delivered = <<>> /\ refusals = 0

\* parse_multi is called with the bytes from the caller's base on.
CallMulti(from, upto) ==
    /\ input' = SubSeq(whole, from + 1, upto)
    /\ is' = Fresh
    /\ msgpack_vec' = <<>> /\ parser_stop_pos' = Unset /\ at' = "test"
    /\ threw' = FALSE
    /\ began' = [is |-> Fresh, err |-> err]
    /\ UNCHANGED <<stack, built, pc, ret, err, whole, refusals>>

\* More data has come.
Receive ==
    /\ at = "end" /\ ~threw /\ err # FormatError
    /\ got' \in (got + 1)..Len(whole)
    /\ base' = base + Stop
    /\ delivered' = delivered \o msgpack_vec
    /\ CallMulti(base + Stop, got')

\* After an exception the caller tries again from where it was.
Retry ==
    /\ at = "end" /\ threw
    /\ got' \in got..Len(whole)
    /\ CallMulti(base, got')
    /\ UNCHANGED <<base, delivered>>

Step == MultiStep /\ UNCHANGED <<threw, caller>>

\* Memory runs out inside parse, or when the vector grows for what it returned.
RunOut ==
    /\ at = "parse" /\ refusals < MaxRefusals
    /\ \/ Refuse
       \/ /\ pc = "done" /\ ~is.fail /\ threw' = TRUE
          /\ UNCHANGED vars
    /\ at' = "end"
    /\ msgpack_vec' = <<>>
    /\ refusals' = refusals + 1
    /\ UNCHANGED <<parser_stop_pos, whole, got, base, delivered>>

FNext == Receive \/ Retry \/ Step \/ RunOut

\* The data comes in the end, and the caller goes on when it may.
FSpec == FInit /\ [][FNext]_fvars /\ WF_fvars(Receive \/ Retry \/ Step)
---------------------------------------------------------------------
\* What must hold.

\* Once a call is over the caller has every whole value of the data that has
\* come, in order and no value twice, whatever the pieces were and however often
\* a call threw; after an exception it still has those before the call.  err
\* tells it that what follows is malformed just when it is.
NothingLostNorTwice ==
    at = "end" =>
        \E data \in {SubSeq(whole, 1, IF threw THEN base ELSE got)},
           n \in {Len(delivered) + Len(msgpack_vec)} :
            \E all \in {InTurn(data, n)}, more \in {InTurn(data, n + 1)} :
                /\ all.kind = "value" /\ more.kind # "value"
                /\ all.value = delivered \o msgpack_vec
                /\ all.next = IF threw THEN base ELSE base + Stop
                /\ ~threw => (more.kind = "malformed" <=> err = FormatError)
                /\ threw => all.next = Len(data)

\* In the end the caller has all of it, as if the data had come in one piece.
AllDelivered ==
    <>[](/\ at = "end"
         /\ \E n \in {Len(delivered) + Len(msgpack_vec)} :
               /\ InTurn(whole, n).value = delivered \o msgpack_vec
               /\ InTurn(whole, n + 1).kind # "value")
=====================================================================
