------------------------- MODULE FeedProofs -------------------------
(***************************************************************************)
(* Theorems about parse_multi and a caller that feeds it piece by piece,   *)
(* for every max_depth, all inputs, data and pieces, every operator<, and  *)
(* wherever memory runs out.                                               *)
(*                                                                         *)
(* StopPosIsSound and FailureEndsTheLoop use of the calls of parse only    *)
(* what IInv and Since say of them: that a call moves on, or fails.        *)
(* MultiReadsAll uses what MatchProofs says each returns.                  *)
(*                                                                         *)
(* What the caller of FeedLosesNothing has is what Decode reads in all the *)
(* bytes it is done with: what is read in a piece of the data is read      *)
(* there in the data, because a value does not depend on the bytes around  *)
(* it.                                                                     *)
(***************************************************************************)
EXTENDS Feed, MatchProofs

\* The loop: where it is, what the parser is doing then and what the caller has.
\* While a call runs, parser_stop_pos lies before where the call began.
LoopInv ==
    /\ at \in {"test", "parse", "end"}
    /\ at # "parse" => pc = "done"
    /\ \E values : msgpack_vec \in Seq(values)
    /\ parser_stop_pos \in Int
    /\ at = "parse" => parser_stop_pos <= began.is.pos /\ Good(began.is)
    /\ at = "parse" /\ pc = "done" /\ ~is.fail => is.pos > began.is.pos

MInv == IInv /\ Since /\ LoopInv /\ StopPosSound

\* Positions are numbers.
LEMMA Positions ==
  ASSUME IInv
  PROVE  is.pos \in Nat /\ began.is.pos \in Nat /\ is.pos >= began.is.pos
<1>1. is.pos \in Nat /\ began.is.pos \in Nat /\ depth \in Nat
  BY InputBytes, LenProperties DEF IInv, TypeOK, Stream, depth
<1>2. depth <= is.pos - began.is.pos
  BY DEF IInv, RecursionBounded
<1> QED BY <1>1, <1>2

\* Before the first test of the loop nothing is parsed.  A caller that has no data
\* yet does not call parse_multi: it is as if that had returned.
Starts(E) ==
    /\ input \in Inputs /\ is = Fresh /\ stack = <<>> /\ built = <<>>
    /\ pc = "done" /\ err \in E /\ began = [is |-> is, err |-> err]
    /\ msgpack_vec = <<>> /\ parser_stop_pos = Unset
    /\ at = "test" \/ (at = "end" /\ input = <<>>)

LEMMA StartInv ==
  ASSUME NEW E, E \subseteq Errs \union {EndOfBuffer, FormatError}, Starts(E)
  PROVE  MInv
<1>1. input \in Seq(Byte) /\ Len(input) \in Nat
  BY InputsAssumption, LenProperties DEF Starts
<1>2. /\ is \in Stream /\ is.pos = 0 /\ Good(is) /\ ~is.eof /\ began.is = is
      /\ stack = <<>> /\ stack \in Seq(Frame) /\ depth = 0
  BY <1>1, EmptySeq DEF Starts, Fresh, Stream, Good, depth
<1>3. TypeOK
  BY <1>2 DEF Starts, TypeOK
<1>4. FailureMeansNil /\ TurnsLeft /\ RecursionBounded
  BY <1>2, MaxDepthAssumption DEF Starts, FailureMeansNil, TurnsLeft, RecursionBounded
<1>5. Since
  BY <1>2 DEF Starts, Since
<1>6. LoopInv /\ StopPosSound
  BY <1>2, EmptySeq DEF Starts, LoopInv, StopPosSound, Unset
<1> QED BY <1>3, <1>4, <1>5, <1>6 DEF MInv, IInv

LEMMA MultiStarts == MultiInit => Starts(Errs) /\ MInv
<1>1. MultiInit => Starts(Errs)
  BY DEF MultiInit, Starts
<1> QED BY <1>1, StartInv

\* A call of parse begins where the loop is.
LEMMA CallParseStep ==
  ASSUME MInv, CallParse
  PROVE  LoopInv' /\ StopPosSound'
<1>1. /\ at' = "parse" /\ pc' = "call" /\ began'.is = is /\ is' = is
      /\ UNCHANGED <<msgpack_vec, parser_stop_pos>> /\ Good(is)
  BY DEF CallParse, ParseAgain, More, Good
<1> QED BY <1>1 DEF MInv, LoopInv, StopPosSound, Good

\* A step of parse moves the stream on, if at all, and returns past its beginning.
LEMMA InsideStep ==
  ASSUME MInv, Inside
  PROVE  LoopInv' /\ StopPosSound'
<1>1. /\ at = "parse" /\ Callee /\ UNCHANGED <<msgpack_vec, parser_stop_pos, at>>
      /\ [Next]_vars
  BY DEF Inside, Next
<1>2. IInv' /\ Since'
  BY <1>1, NextStep, SinceStep DEF MInv
<1>3. began' = began
  BY <1>1, CalleeFrame DEF Callee, Return, ReturnToCaller
<1>4. /\ is'.pos \in Nat /\ began.is.pos \in Nat /\ is'.pos >= began.is.pos
  <2>1. is.pos \in Nat /\ began.is.pos \in Nat
    BY Positions DEF MInv
  <2>2. is'.pos \in Nat /\ is'.pos >= began'.is.pos
    <3>1. is'.pos \in Nat /\ depth' \in Nat
      <4>1. input' \in Seq(Byte)
        BY <1>2, InputsAssumption DEF IInv, TypeOK
      <4> QED BY <1>2, <4>1, LenProperties DEF IInv, TypeOK, Stream, depth
    <3>2. depth' <= is'.pos - began'.is.pos
      BY <1>2 DEF IInv, RecursionBounded
    <3> QED BY <1>3, <2>1, <3>1, <3>2
  <2> QED BY <1>3, <2>1, <2>2
<1>5. pc' = "done" /\ ~is'.fail => is'.pos > began.is.pos
  <2>1. SUFFICES ASSUME ReturnToCaller, ~is.fail PROVE is.pos > began.is.pos
    BY <1>1, CalleeFrame DEF Callee, Return, ReturnToCaller
  <2>2. pc = "return" /\ Good(began.is) /\ ~is.eof
    BY <1>1, <2>1 DEF MInv, LoopInv, IInv, FailureMeansNil, ReturnToCaller
  <2> QED BY <2>2 DEF MInv, Since
<1> QED BY <1>1, <1>3, <1>4, <1>5 DEF MInv, LoopInv, StopPosSound, Good

\* A value is kept: one more, and the position has moved by one byte at least.
LEMMA KeepStep ==
  ASSUME MInv, Keep
  PROVE  LoopInv' /\ StopPosSound'
<1>1. /\ at = "parse" /\ pc = "done" /\ ~is.fail /\ at' = "test" /\ UNCHANGED vars
      /\ msgpack_vec' = Append(msgpack_vec, ret) /\ parser_stop_pos' = is.pos
  BY DEF Keep, tellg
<1>2. UNCHANGED <<is, pc>>
  BY <1>1 DEF vars
<1>3. is.pos \in Nat /\ began.is.pos \in Nat /\ is.pos > began.is.pos
      /\ parser_stop_pos \in Int /\ parser_stop_pos <= began.is.pos
  BY <1>1, Positions DEF MInv, LoopInv
<1>4. PICK values : msgpack_vec \in Seq(values)
  BY DEF MInv, LoopInv
<1>5. /\ msgpack_vec' \in Seq(values \union {ret})
      /\ Len(msgpack_vec') = Len(msgpack_vec) + 1 /\ Len(msgpack_vec) \in Nat
  <2>1. msgpack_vec \in Seq(values \union {ret})
    BY <1>4
  <2> QED BY <1>1, <2>1, AppendProperties, LenProperties
<1>6. Len(msgpack_vec) <= began.is.pos
  <2>1. msgpack_vec = <<>> => Len(msgpack_vec) = 0
    BY EmptySeq
  <2> QED BY <1>3, <1>5, <2>1 DEF MInv, StopPosSound
<1>7. msgpack_vec' # <<>>
  BY <1>5, EmptySeq
<1>8. StopPosSound'
  BY <1>1, <1>2, <1>3, <1>5, <1>6, <1>7 DEF StopPosSound, Unset
<1>9. LoopInv'
  BY <1>1, <1>2, <1>3, <1>5 DEF LoopInv
<1> QED BY <1>8, <1>9

\* The invariant is kept by every step.
LEMMA MultiStepInv ==
  ASSUME MInv, [MultiNext]_mvars
  PROVE  MInv'
<1>1. [Next]_vars
  BY DEF MultiNext, MultiStep, CallParse, Leave, Inside, Keep, Drop, Returned, Next, mvars
<1>2. IInv' /\ Since'
  BY <1>1, NextStep, SinceStep DEF MInv
<1>3. LoopInv' /\ StopPosSound'
  <2>1. CASE CallParse
    BY <2>1, CallParseStep
  <2>2. CASE Inside
    BY <2>2, InsideStep
  <2>3. CASE Keep
    BY <2>3, KeepStep
  <2>4. CASE Leave \/ Drop
    BY <2>4 DEF Leave, Drop, vars, MInv, LoopInv, StopPosSound
  <2>5. CASE Returned \/ UNCHANGED mvars
    BY <2>5 DEF Returned, mvars, vars, MInv, LoopInv, StopPosSound, Good
  <2> QED BY <2>1, <2>2, <2>3, <2>4, <2>5 DEF MultiNext, MultiStep
<1> QED BY <1>2, <1>3 DEF MInv

---------------------------------------------------------------------
\* The theorems.

LEMMA MultiInvariance == MultiSpec => []MInv
<1>1. MInv /\ [MultiNext]_mvars => MInv'
  BY MultiStepInv
<1>2. MultiInit => MInv
  BY MultiStarts
<1> QED BY <1>1, <1>2, PTL DEF MultiSpec

\* The caller's parser_stop_pos is set by the first value that is kept, lies past
\* at least one byte for each of them and never ahead of the stream.
THEOREM StopPosIsSound == MultiSpec => []StopPosSound
<1>1. MInv => StopPosSound
  BY DEF MInv
<1> QED BY MultiInvariance, <1>1, PTL

\* parse_multi keeps nothing and parses nothing once a call has failed.
THEOREM FailureEndsTheLoop == MultiSpec => FailureIsLast
<1>1. ASSUME [MultiNext]_mvars
      PROVE  [is.fail => UNCHANGED <<msgpack_vec, parser_stop_pos, began>>]_mvars
  <2>1. CASE Inside
    <3>1. began' = began
      BY <2>1, CalleeFrame DEF Inside, Callee, Return, ReturnToCaller
    <3> QED BY <2>1, <3>1 DEF Inside
  <2>2. CASE CallParse \/ Leave \/ Keep \/ Drop
    BY <2>2 DEF CallParse, More, Leave, Keep, Drop, vars
  <2> QED BY <1>1, <2>1, <2>2 DEF MultiNext, MultiStep, Returned
<1> QED BY <1>1, PTL DEF MultiSpec, FailureIsLast

---------------------------------------------------------------------
\* What parse_multi returns.

\* The value at p is bad, and err says why.
BadAt(p) ==
    /\ p # Len(input) /\ Table(input, 0)[p].kind # "value"
    /\ err = IF Table(input, 0)[p].kind = "truncated" THEN EndOfBuffer ELSE FormatError

\* What is kept so far ends at p, and the loop goes on from there.
GoesOn(E, p) ==
    /\ p \in 0..Len(input)
    /\ Reads(input, 0, 0, Len(msgpack_vec), msgpack_vec, p)
    /\ parser_stop_pos = IF msgpack_vec = <<>> THEN Unset ELSE p
    /\ at = "parse" =>
          /\ began.is.pos = p /\ p # Len(input) /\ began.err \in E
          /\ pc = "done" /\ is.fail => err = IF is.eof THEN EndOfBuffer ELSE FormatError
    /\ at # "parse" => IF is.fail THEN BadAt(p) ELSE is.pos = p /\ err \in E
    /\ at = "end" /\ ~is.fail => p = Len(input)

KeptInv(E) == (at = "parse" => MatchInv) /\ \E p : GoesOn(E, p)

AllInv(E) == MInv /\ MembersInv /\ KeptInv(E)

LEMMA StartKept ==
    ASSUME NEW E, Starts(E)
    PROVE  KeptInv(E) /\ MembersInv
<1>1. Len(msgpack_vec) = 0 /\ msgpack_vec = <<>>
      BY EmptySeq DEF Starts
<1>2. Reads(input, 0, 0, 0, <<>>, 0)
      BY RunStart DEF Reads, Reference!Got
<1>3. 0 \in 0..Len(input) /\ (input = <<>> => Len(input) = 0)
      BY InputsAssumption, LenProperties, EmptySeq DEF Starts
<1>4. GoesOn(E, 0)
      BY <1>1, <1>2, <1>3 DEF Starts, GoesOn, Fresh
<1>5. QED BY <1>4, NoMembers DEF KeptInv, Starts

\* A call begins behind what is kept,
LEMMA CallParseKeeps ==
    ASSUME NEW E, IInv, NEW p, GoesOn(E, p), CallParse
    PROVE  KeptInv(E)'
<1>1. /\ ParseAgain /\ at = "test" /\ at' = "parse" /\ pc' = "call" /\ ~is.fail
      /\ began' = [is |-> is, err |-> err] /\ is.pos # Len(input)
      /\ UNCHANGED <<input, is, err, msgpack_vec, parser_stop_pos>>
      BY DEF CallParse, ParseAgain, More, tellg
<1>2. MatchInv'
      BY <1>1, AgainTracks
<1>3. GoesOn(E, p)'
      BY <1>1 DEF GoesOn
<1>4. QED BY <1>2, <1>3 DEF KeptInv

\* and its error is what the stream tells at its end.
LEMMA InsideKeeps ==
    ASSUME NEW E, IInv, Since, MembersInv, Reference!KeysOrdered(input), MatchInv,
           NEW p, GoesOn(E, p), Inside
    PROVE  KeptInv(E)'
<1>1. /\ Callee /\ at = "parse" /\ UNCHANGED <<msgpack_vec, parser_stop_pos, at>>
      /\ [Next]_vars
      BY DEF Inside, Next
<1>2. MatchInv'
      BY <1>1, MatchStep
<1>3. UNCHANGED <<input, began>>
      BY <1>1, CalleeFrame DEF Callee, Return, ReturnToCaller
<1>4. pc' = "done" /\ is'.fail => err' = IF is'.eof THEN EndOfBuffer ELSE FormatError
      BY <1>1, CalleeFrame DEF Callee, Return, ReturnToCaller
<1>5. GoesOn(E, p)'
      BY <1>1, <1>3, <1>4 DEF GoesOn
<1>6. QED BY <1>2, <1>5 DEF KeptInv

\* What the call returned is the value there, if the stream is good,
LEMMA KeepKeeps ==
    ASSUME NEW E, MInv, MatchInv, NEW p, GoesOn(E, p), Keep
    PROVE  KeptInv(E)'
<1>1. /\ at = "parse" /\ pc = "done" /\ ~is.fail /\ at' = "test"
      /\ msgpack_vec' = Append(msgpack_vec, ret) /\ parser_stop_pos' = is.pos
      /\ UNCHANGED <<input, is, stack, built, pc, ret, err, began>>
      BY DEF Keep, tellg, vars
<1>2. PICK n : n = Len(msgpack_vec)
      OBVIOUS
<1>3. PICK one : one = Table(input, 0)[p]
      OBVIOUS
<1>4. n \in Nat /\ Len(msgpack_vec') = n + 1 /\ msgpack_vec' # <<>>
      <2>1. PICK values : msgpack_vec \in Seq(values)
            BY DEF MInv, LoopInv
      <2>2. msgpack_vec \in Seq(values \union {ret}) /\ Len(msgpack_vec) \in Nat
            BY <2>1, LenProperties
      <2>3. Len(msgpack_vec') = n + 1 /\ n \in Nat
            BY <1>1, <1>2, <2>2, AppendProperties
      <2>4. QED BY <2>3, EmptySeq
<1>5. one.kind = "value" /\ one.value = ret /\ one.next = is.pos /\ err \in E
      <2>1. Good(began.is) /\ began.is.pos = p /\ began.err \in E
            BY <1>1 DEF MInv, LoopInv, GoesOn
      <2>2. Means(one)
            BY <1>1, <1>3, <2>1 DEF MatchInv, MatchesReference, Table, Reference!Value
      <2>3. QED BY <1>1, <2>1, <2>2 DEF Means
<1>6. Reads(input, 0, 0, n + 1, Append(msgpack_vec, ret), is.pos)
      <2>1. Run(input, 0, 0, n).kind = "value" /\ Run(input, 0, 0, n).value = msgpack_vec
            /\ Run(input, 0, 0, n).next = p
            BY <1>2 DEF GoesOn, Reads
      <2>2. Run(input, 0, 0, n + 1) = Reference!Got(Append(msgpack_vec, ret), is.pos)
            BY <1>3, <1>4, <1>5, <2>1, RunMore
      <2>3. QED BY <2>2 DEF Reads, Reference!Got
<1>7. is.pos \in 0..Len(input)
      BY Bounds DEF MInv
<1>8. PICK r : r = is.pos
      OBVIOUS
<1>9. Reads(input, 0, 0, Len(msgpack_vec), msgpack_vec, r)'
      BY <1>1, <1>4, <1>6, <1>8 DEF Reads
<1>10. GoesOn(E, r)'
      BY <1>1, <1>4, <1>5, <1>7, <1>8, <1>9 DEF GoesOn
<1>11. QED BY <1>1, <1>10 DEF KeptInv

\* and there is none, for the reason that err gives, if it is not.
LEMMA DropKeeps ==
    ASSUME NEW E, MInv, MatchInv, NEW p, GoesOn(E, p), Drop
    PROVE  KeptInv(E)'
<1>1. /\ at = "parse" /\ pc = "done" /\ is.fail /\ at' = "test"
      /\ UNCHANGED <<input, is, stack, built, pc, ret, err, began, msgpack_vec, parser_stop_pos>>
      BY DEF Drop, vars
<1>2. Good(began.is) /\ began.is.pos = p
      BY <1>1 DEF MInv, LoopInv, GoesOn
<1>3. Means(Table(input, 0)[p])
      BY <1>1, <1>2 DEF MatchInv, MatchesReference, Table, Reference!Value
<1>4. BadAt(p)
      BY <1>1, <1>3 DEF Means, BadAt, GoesOn
<1>5. GoesOn(E, p)'
      BY <1>1, <1>4 DEF GoesOn, BadAt
<1>6. QED BY <1>1, <1>5 DEF KeptInv

LEMMA LeaveKeeps ==
    ASSUME NEW E, IInv, NEW p, GoesOn(E, p), Leave
    PROVE  KeptInv(E)'
<1>1. /\ at = "test" /\ at' = "end"
      /\ UNCHANGED <<input, is, stack, built, pc, ret, err, began, msgpack_vec, parser_stop_pos>>
      BY DEF Leave, vars
<1>2. ~is.fail => is.pos = Len(input)
      BY DEF Leave, More, tellg, IInv, FailureMeansNil
<1>3. GoesOn(E, p)'
      BY <1>1, <1>2 DEF GoesOn, BadAt
<1>4. QED BY <1>1, <1>3 DEF KeptInv

LEMMA KeptStep ==
    ASSUME NEW E, AllInv(E), Reference!KeysOrdered(input), [MultiNext]_mvars
    PROVE  KeptInv(E)'
<1>1. PICK p : GoesOn(E, p)
      BY DEF AllInv, KeptInv
<1>2. IInv /\ Since /\ MInv /\ MembersInv /\ (at = "parse" => MatchInv)
      BY DEF AllInv, MInv, KeptInv
<1>3. CASE CallParse
      BY <1>1, <1>2, <1>3, CallParseKeeps
<1>4. CASE Inside
      BY <1>1, <1>2, <1>4, InsideKeeps DEF Inside
<1>5. CASE Keep
      BY <1>1, <1>2, <1>5, KeepKeeps DEF Keep
<1>6. CASE Drop
      BY <1>1, <1>2, <1>6, DropKeeps DEF Drop
<1>7. CASE Leave
      BY <1>1, <1>2, <1>7, LeaveKeeps
<1>8. CASE UNCHANGED mvars
      <2>1. UNCHANGED vars /\ UNCHANGED <<at, msgpack_vec, parser_stop_pos>>
            BY <1>8 DEF mvars
      <2>2. UNCHANGED <<input, is, stack, built, pc, ret, err, began>>
            BY <2>1 DEF vars
      <2>3. GoesOn(E, p)'
            BY <1>1, <2>1, <2>2 DEF GoesOn, BadAt
      <2>4. at = "parse" => MatchInv'
            BY <1>2, <2>1, MatchStep
      <2>5. QED BY <2>1, <2>3, <2>4 DEF KeptInv
<1>9. QED BY <1>3, <1>4, <1>5, <1>6, <1>7, <1>8 DEF MultiNext, MultiStep, Returned

\* At its end the loop has kept what can be read: the input ends there,
LEMMA NothingAtEnd ==
    ASSUME NEW in \in Seq(Byte)
    PROVE  Table(in, 0)[Len(in)] = Reference!Truncated(in)
<1>1. Len(in) \in Nat
      BY LenProperties
<1>2. PICK p : p = Len(in)
      OBVIOUS
<1>3. p \in 0..Len(in) /\ 0 \in 0..MaxDepth
      BY <1>1, <1>2, MaxDepthAssumption
<1>4. Table(in, 0)[p] = Reference!At(in, p, Table(in, 0 + 1))
      BY <1>3, TableAround
<1>5. Table(in, 0)[p] = Reference!Truncated(in)
      BY <1>1, <1>2, <1>4 DEF Reference!At
<1>6. QED BY <1>2, <1>5

\* or what follows is bad.
LEMMA BehindKept ==
    ASSUME NEW E, MInv, NEW p, GoesOn(E, p), at = "end"
    PROVE  /\ Table(input, 0)[p].kind # "value"
           /\ p = Len(input) => Table(input, 0)[p].kind = "truncated" /\ err \in E
           /\ p # Len(input) => err = IF Table(input, 0)[p].kind = "truncated"
                                     THEN EndOfBuffer ELSE FormatError
<1>1. input \in Seq(Byte)
      BY InputBytes DEF MInv
<1>2. CASE is.fail
      BY <1>2 DEF GoesOn, BadAt
<1>3. CASE ~is.fail
      <2>1. p = Len(input) /\ err \in E
            BY <1>3 DEF GoesOn
      <2>2. Table(input, 0)[p] = Reference!Truncated(input)
            BY <1>1, <2>1, NothingAtEnd
      <2>3. QED BY <2>1, <2>2 DEF Reference!Truncated
<1>4. QED BY <1>2, <1>3

LEMMA KeptIsAll ==
    ASSUME MInv, KeptInv(Errs)
    PROVE  MultiMatches
<1> SUFFICES ASSUME at = "end" PROVE MultiMatches
    BY DEF MultiMatches
<1>1. PICK p : GoesOn(Errs, p)
      BY DEF KeptInv
<1>2. PICK n : n = Len(msgpack_vec)
      OBVIOUS
<1>3. PICK all : all = InTurn(input, n)
      OBVIOUS
<1>4. PICK more : more = InTurn(input, n + 1)
      OBVIOUS
<1>5. all.kind = "value" /\ all.value = msgpack_vec /\ all.next = p
      BY <1>1, <1>2, <1>3 DEF GoesOn, Reads, Run, Table, InTurn
<1>6. PICK one : one = Table(input, 0)[p]
      OBVIOUS
<1>7. /\ one.kind # "value" /\ (p = Len(input) => err \in Errs)
      /\ p # Len(input) => err = IF one.kind = "truncated" THEN EndOfBuffer ELSE FormatError
      BY <1>1, <1>6, BehindKept
<1>8. more = one
      <2>1. n \in Nat
            BY <1>2, LenProperties DEF MInv, LoopInv
      <2>2. all = Run(input, 0, 0, n) /\ more = Run(input, 0, 0, n + 1)
            BY <1>3, <1>4 DEF Run, Table, InTurn
      <2>3. QED BY <1>5, <1>6, <1>7, <2>1, <2>2, RunMore
<1>9. parser_stop_pos = IF msgpack_vec = <<>> THEN Unset ELSE all.next
      BY <1>1, <1>5 DEF GoesOn
<1>10. QED BY <1>2, <1>3, <1>4, <1>5, <1>7, <1>8, <1>9 DEF MultiMatches

\* Where operator< orders the keys of what can be read, parse_multi returns the
\* longest run of whole values, in order, with the position where the last of them
\* ends; err says what is wrong with the bytes behind it, if there are any.
THEOREM MultiReadsAll ==
    ASSUME \A in \in Inputs : Reference!KeysOrdered(in)
    PROVE  MultiSpec => []MultiMatches
<1>1. MultiInit => KeptInv(Errs) /\ MembersInv
      BY MultiStarts, StartKept
<1>2. MInv /\ MembersInv /\ [MultiNext]_mvars => MembersInv'
      <2>1. [MultiNext]_mvars => [Next]_vars
            BY DEF MultiNext, MultiStep, CallParse, Leave, Inside, Keep, Drop, Returned, Next, mvars
      <2>2. QED BY <2>1, MembersStep DEF MInv
<1>3. MInv => Reference!KeysOrdered(input)
      BY DEF MInv, IInv, TypeOK
<1>4. MInv /\ MembersInv /\ KeptInv(Errs) /\ [MultiNext]_mvars => KeptInv(Errs)'
      BY <1>3, KeptStep DEF AllInv
<1>5. MInv /\ KeptInv(Errs) => MultiMatches
      BY KeptIsAll
<1>6. QED BY <1>1, <1>2, <1>4, <1>5, MultiInvariance, PTL DEF MultiSpec
---------------------------------------------------------------------
\* What err is while nothing was malformed: a piece may have ended in a value.
FeedErrs == Errs \union {EndOfBuffer}

FeedStarts == Starts(FeedErrs)
FeedKept == KeptInv(FeedErrs)

\* The bytes that the caller gave to parse_multi, and those that it is done with.
Fed ==
    /\ whole \in Wholes /\ base \in Nat /\ got \in Nat /\ base <= got /\ got <= Len(whole)
    /\ input = SubSeq(whole, base + 1, got)

Done ==
    /\ \E V : delivered \in Seq(V)
    /\ Reads(SubSeq(whole, 1, base), 0, 0, Len(delivered), delivered, base)

\* After an exception the vector is gone, and nothing was found to be malformed.
Thrown ==
    /\ at = "end" /\ pc = "done" /\ stack = <<>> /\ built = <<>>
    /\ msgpack_vec = <<>> /\ err \in FeedErrs

FeedInv ==
    /\ Fed /\ Done
    /\ threw \in BOOLEAN
    /\ threw => Thrown
    /\ ~threw => MInv /\ MembersInv /\ FeedKept

LEMMA FeedStartInv == FeedStarts => MInv /\ MembersInv /\ FeedKept
<1>1. FeedErrs \subseteq Errs \union {EndOfBuffer, FormatError}
      BY DEF FeedErrs
<1>2. FeedStarts => MInv
      BY <1>1, StartInv DEF FeedStarts
<1>3. FeedStarts => FeedKept /\ MembersInv
      BY StartKept DEF FeedStarts, FeedKept
<1>4. QED BY <1>2, <1>3

---------------------------------------------------------------------
\* Reading pieces.

\* A piece stands in the data.
LEMMA PieceStands ==
    ASSUME NEW w \in Seq(Byte), NEW b \in Nat, NEW g \in Nat, b <= g,
           NEW c \in Nat, NEW h \in Nat, c <= b, g <= h, h <= Len(w)
    PROVE  Stands(SubSeq(w, b + 1, g), SubSeq(w, c + 1, h), b - c)
<1>1. Len(w) \in Nat
      BY LenProperties
<1>2. PICK inner : inner = SubSeq(w, b + 1, g)
      OBVIOUS
<1>3. PICK outer : outer = SubSeq(w, c + 1, h)
      OBVIOUS
<1>4. PICK s : s = b - c
      OBVIOUS
<1>5. inner \in Seq(Byte) /\ Len(inner) = g - b /\ \A i \in 1..(g - b) : inner[i] = w[b + i]
      <2>1. g \in 0..Len(w) /\ b \in 0..g
            BY <1>1
      <2>2. QED BY <1>2, <2>1, Piece
<1>6. outer \in Seq(Byte) /\ Len(outer) = h - c /\ \A i \in 1..(h - c) : outer[i] = w[c + i]
      <2>1. h \in 0..Len(w) /\ c \in 0..h
            BY <1>1
      <2>2. QED BY <1>3, <2>1, Piece
<1>7. s \in Nat /\ s + Len(inner) <= Len(outer)
      BY <1>4, <1>5, <1>6
<1>8. ASSUME NEW i \in 1..Len(inner) PROVE outer[s + i] = inner[i]
      <2>1. PICK k : k = s + i
            OBVIOUS
      <2>2. k \in 1..(h - c) /\ c + k = b + i /\ i \in 1..(g - b)
            BY <1>4, <1>5, <1>6, <1>7, <2>1
      <2>3. outer[k] = w[c + k] /\ inner[i] = w[b + i]
            BY <1>5, <1>6, <2>2
      <2>4. QED BY <2>1, <2>2, <2>3
<1>9. Stands(inner, outer, s)
      BY <1>5, <1>6, <1>7, <1>8 DEF Stands
<1>10. QED BY <1>2, <1>3, <1>4, <1>9

\* Values that are read in a piece are read there in what it is a piece of,
LEMMA ReadsIn ==
    ASSUME NEW a, NEW b, NEW s, Stands(a, b, s), NEW n \in Nat, NEW all, NEW p,
           Reads(a, 0, 0, n, all, p)
    PROVE  Reads(b, 0, s, n, all, s + p)
<1>1. 0 \in 0..Len(a) /\ s = s + 0
      BY LenProperties DEF Stands
<1>2. Agree(a, s, Run(a, 0, 0, n), Run(b, 0, s, n))
      BY <1>1, RunsAgree
<1>3. QED BY <1>2 DEF Agree, Reads

\* and values that end within the first bytes are read in those alone.
LEMMA ReadsWithin ==
    ASSUME NEW a, NEW b, Stands(a, b, 0), NEW n \in Nat, NEW all, NEW p,
           Reads(b, 0, 0, n, all, p), p <= Len(a)
    PROVE  Reads(a, 0, 0, n, all, p)
<1>1. 0 \in 0..Len(a) /\ 0 = 0 + 0 /\ Len(a) \in Nat /\ a \in Seq(Byte) /\ b \in Seq(Byte)
      /\ 0 \in 0..Len(b)
      BY LenProperties DEF Stands
<1>2. PICK o1 : o1 = Run(a, 0, 0, n)
      OBVIOUS
<1>3. PICK o2 : o2 = Run(b, 0, 0, n)
      OBVIOUS
<1>z. PICK zero : zero = 0
      OBVIOUS
<1>4. Agree(a, 0, o1, o2)
      <2>1. Stands(a, b, zero) /\ 0 \in 0..Len(a) /\ 0 = zero + 0
            BY <1>1, <1>z
      <2>2. Agree(a, zero, Run(a, 0, 0, n), Run(b, 0, 0, n))
            BY <2>1, RunsAgree
      <2>3. QED BY <1>2, <1>3, <1>z, <2>2
<1>5. o2.kind = "value" /\ o2.value = all /\ o2.next = p
      BY <1>3 DEF Reads
<1>6. o1.next \in Nat
      <2>1. Outcome(a, 0, o1)
            BY <1>1, <1>2, RunsForward
      <2>2. QED BY <1>1, <2>1 DEF Outcome
<1>7. o1.kind # "truncated"
      <2>1. Outcome(b, 0, o2)
            BY <1>1, <1>3, RunsForward
      <2>2. p \in Nat
            BY <1>1, <1>5, <2>1 DEF Outcome
      <2>3. QED BY <1>1, <1>4, <1>5, <2>2 DEF Agree
<1>8. o1.kind = "value" /\ o1.value = all /\ o1.next = p
      BY <1>4, <1>5, <1>6, <1>7 DEF Agree
<1>9. QED BY <1>2, <1>8 DEF Reads

\* The values that the caller is done with, and those of the piece behind them, are
\* the values of both together.
LEMMA Together ==
    ASSUME NEW w \in Seq(Byte), NEW b \in Nat, NEW g \in Nat, b <= g, g <= Len(w),
           NEW n \in Nat, NEW all, Reads(SubSeq(w, 1, b), 0, 0, n, all, b),
           NEW m \in Nat, NEW more, NEW p \in Nat,
           Reads(SubSeq(w, b + 1, g), 0, 0, m, more, p),
           NEW h \in Nat, b + p <= h, h <= g
    PROVE  Reads(SubSeq(w, 1, h), 0, 0, n + m, all \o more, b + p)
<1>1. Len(w) \in Nat
      BY LenProperties
<1>2. PICK A : A = SubSeq(w, 1, b)
      OBVIOUS
<1>3. PICK B : B = SubSeq(w, 1, h)
      OBVIOUS
<1>4. PICK C : C = SubSeq(w, b + 1, g)
      OBVIOUS
<1>5. PICK D : D = SubSeq(w, b + 1, h)
      OBVIOUS
<1>z. PICK zero \in Nat : zero = 0
      OBVIOUS
<1>6. b <= h /\ h <= Len(w) /\ zero <= b /\ zero <= zero /\ h <= h
      /\ zero + 1 = 1 /\ b - zero = b /\ zero - zero = zero /\ b - b = zero
      BY <1>1, <1>z
<1>7. Stands(A, B, zero)
      <2>1. Stands(SubSeq(w, zero + 1, b), SubSeq(w, zero + 1, h), zero - zero)
            BY <1>6, PieceStands
      <2>2. QED BY <1>2, <1>3, <1>6, <2>1
<1>8. Stands(D, C, zero)
      <2>1. PICK c \in Nat : c = b
            OBVIOUS
      <2>2. c <= b /\ h <= g /\ b <= h
            BY <1>6, <2>1
      <2>3. Stands(SubSeq(w, b + 1, h), SubSeq(w, c + 1, g), b - c)
            BY <2>2, PieceStands
      <2>4. QED BY <1>4, <1>5, <1>6, <2>1, <2>3
<1>9. Stands(D, B, b)
      <2>1. Stands(SubSeq(w, b + 1, h), SubSeq(w, zero + 1, h), b - zero)
            BY <1>6, PieceStands
      <2>2. QED BY <1>3, <1>5, <1>6, <2>1
<1>10. Reads(B, 0, 0, n, all, b)
      <2>1. Reads(A, 0, 0, n, all, b)
            BY <1>2
      <2>2. Reads(B, 0, zero, n, all, zero + b)
            BY <1>7, <2>1, ReadsIn
      <2>3. zero + b = b
            BY <1>z
      <2>4. QED BY <1>z, <2>2, <2>3
<1>11. Reads(D, 0, 0, m, more, p)
      <2>1. p <= Len(D)
            <3>1. h \in 0..Len(w) /\ b \in 0..h
                  BY <1>1, <1>6
            <3>2. Len(D) = h - b
                  BY <1>5, <3>1, Piece
            <3>3. QED BY <3>2
      <2>2. Reads(C, 0, 0, m, more, p)
            BY <1>4
      <2>3. Stands(D, C, 0)
            BY <1>8, <1>z
      <2>4. QED BY <2>1, <2>2, <2>3, ReadsWithin
<1>12. Reads(B, 0, b, m, more, b + p)
      BY <1>9, <1>11, ReadsIn
<1>13. Reads(B, 0, 0, n + m, all \o more, b + p)
      <2>1. PICK r : r = b + p
            OBVIOUS
      <2>2. Reads(B, zero, zero, n, all, b) /\ Reads(B, zero, b, m, more, r)
            BY <1>10, <1>12, <1>z, <2>1
      <2>3. Reads(B, zero, zero, n + m, all \o more, r)
            BY <2>2, RunsJoin
      <2>4. QED BY <1>z, <2>1, <2>3
<1>14. QED BY <1>3, <1>13

---------------------------------------------------------------------
\* The steps of the caller.

\* Between two calls of parse no container is open.
LEMMA Quiet ==
    ASSUME IInv, MembersInv, pc = "done"
    PROVE  stack = <<>> /\ built = <<>>
<1>1. stack \in Seq(Frame) /\ Len(stack) = 0
      BY DEF IInv, TypeOK, depth
<1>2. stack = <<>>
      BY <1>1, EmptySeq
<1>3. Len(built) = 0
      BY <1>1 DEF MembersInv, Paired, depth
<1>4. PICK V : built \in Seq(Gathered(V))
      BY DEF MembersInv, Typed
<1>5. QED BY <1>2, <1>3, <1>4, EmptySeq

\* The caller finds where the loop stopped, also if it never set the variable.
LEMMA StopIs ==
    ASSUME NEW E, NEW p, GoesOn(E, p), IInv
    PROVE  Stop = p /\ p \in Nat /\ p <= Len(input)
<1>1. Len(input) \in Nat
      BY InputBytes, LenProperties
<1>2. p \in 0..Len(input) /\ Reads(input, 0, 0, Len(msgpack_vec), msgpack_vec, p)
      /\ parser_stop_pos = IF msgpack_vec = <<>> THEN Unset ELSE p
      BY DEF GoesOn
<1>3. CASE msgpack_vec = <<>>
      <2>1. Len(msgpack_vec) = 0
            BY <1>3, EmptySeq
      <2>2. Run(input, 0, 0, 0).next = p
            BY <1>2, <2>1 DEF Reads
      <2>3. Run(input, 0, 0, 0).next = 0
            BY RunStart DEF Reference!Got
      <2>4. QED BY <1>1, <1>2, <1>3, <2>2, <2>3 DEF Stop
<1>4. CASE msgpack_vec # <<>>
      BY <1>1, <1>2, <1>4 DEF Stop, Unset
<1>5. QED BY <1>3, <1>4

\* What the caller has so far, with what the last call returned, is what Decode reads
\* in the bytes that came before where that call stopped.
LEMMA SoFar ==
    ASSUME Fed, Done, MInv, NEW p \in Nat, p <= Len(input), GoesOn(FeedErrs, p),
           NEW h \in Nat, base + p <= h, h <= got
    PROVE  /\ Len(delivered \o msgpack_vec) = Len(delivered) + Len(msgpack_vec)
           /\ Len(delivered) + Len(msgpack_vec) \in Nat
           /\ \E V : delivered \o msgpack_vec \in Seq(V)
           /\ Reads(SubSeq(whole, 1, h), 0, 0, Len(delivered) + Len(msgpack_vec),
                    delivered \o msgpack_vec, base + p)
<1>1. PICK V : delivered \in Seq(V)
      BY DEF Done
<1>2. PICK W : msgpack_vec \in Seq(W)
      BY DEF MInv, LoopInv
<1>3. PICK n \in Nat : n = Len(delivered)
      BY <1>1, LenProperties
<1>4. PICK m \in Nat : m = Len(msgpack_vec)
      BY <1>2, LenProperties
<1>5. PICK all : all = delivered
      OBVIOUS
<1>6. PICK more : more = msgpack_vec
      OBVIOUS
<1>7. PICK U : U = V \union W
      OBVIOUS
<1>8. all \in Seq(U) /\ more \in Seq(U)
      BY <1>1, <1>2, <1>5, <1>6, <1>7, SeqMonotonic
<1>9. all \o more \in Seq(U) /\ Len(all \o more) = n + m
      BY <1>3, <1>4, <1>5, <1>6, <1>8, ConcatProperties
<1>10. PICK w : w = whole
      OBVIOUS
<1>11. PICK b : b = base
      OBVIOUS
<1>12. PICK g : g = got
      OBVIOUS
<1>13. w \in Seq(Byte) /\ b \in Nat /\ g \in Nat /\ b <= g /\ g <= Len(w)
      BY <1>10, <1>11, <1>12, SlicesAssumption DEF Fed
<1>14. Reads(SubSeq(w, 1, b), 0, 0, n, all, b)
      BY <1>3, <1>5, <1>10, <1>11 DEF Done
<1>15. Reads(SubSeq(w, b + 1, g), 0, 0, m, more, p)
      BY <1>4, <1>6, <1>10, <1>11, <1>12 DEF GoesOn, Fed
<1>16. b + p <= h /\ h <= g
      BY <1>11, <1>12
<1>17. Reads(SubSeq(w, 1, h), 0, 0, n + m, all \o more, b + p)
      BY <1>13, <1>14, <1>15, <1>16, Together
<1>18. QED BY <1>3, <1>4, <1>5, <1>6, <1>9, <1>10, <1>11, <1>17

\* A call gets a piece of the data.
LEMMA PieceIsInput ==
    ASSUME NEW w \in Wholes, NEW from \in Nat, NEW upto \in Nat, from <= upto, upto <= Len(w)
    PROVE  SubSeq(w, from + 1, upto) \in Inputs
<1>1. Len(w) \in Nat
      BY SlicesAssumption, LenProperties
<1>2. PICK i : i = from + 1
      OBVIOUS
<1>3. i \in 1..(Len(w) + 1) /\ upto \in 0..Len(w)
      BY <1>1, <1>2
<1>4. SubSeq(w, i, upto) \in Inputs
      BY <1>3, SlicesAssumption
<1>5. QED BY <1>2, <1>4

\* The next piece begins behind the values that the caller has taken.
LEMMA ReceiveStep ==
    ASSUME FeedInv, Receive
    PROVE  FeedStarts' /\ Fed' /\ Done' /\ threw' = FALSE
<1>1. /\ at = "end" /\ ~threw /\ err # FormatError
      /\ got' \in (got + 1)..Len(whole) /\ base' = base + Stop
      /\ delivered' = delivered \o msgpack_vec
      /\ input' = SubSeq(whole, base + Stop + 1, got')
      /\ is' = Fresh /\ msgpack_vec' = <<>> /\ parser_stop_pos' = Unset /\ at' = "test"
      /\ threw' = FALSE /\ began' = [is |-> Fresh, err |-> err]
      /\ UNCHANGED <<stack, built, pc, err, whole>>
      BY DEF Receive, CallMulti
<1>2. MInv /\ MembersInv /\ FeedKept /\ Fed /\ Done /\ IInv /\ pc = "done"
      BY <1>1 DEF FeedInv, MInv, LoopInv
<1>3. PICK p : GoesOn(FeedErrs, p)
      BY <1>2 DEF FeedKept, KeptInv
<1>4. Stop = p /\ p \in Nat /\ p <= Len(input)
      BY <1>2, <1>3, StopIs
<1>5. err \in FeedErrs
      BY <1>1, <1>3 DEF GoesOn, BadAt, FeedErrs
<1>6. stack = <<>> /\ built = <<>>
      BY <1>2, Quiet
<1>7. whole \in Wholes /\ whole \in Seq(Byte) /\ Len(whole) \in Nat
      /\ base \in Nat /\ got \in Nat /\ base <= got /\ got <= Len(whole)
      BY <1>2, SlicesAssumption, LenProperties DEF Fed
<1>8. Len(input) = got - base
      <2>1. PICK w : w = whole
            OBVIOUS
      <2>2. PICK g : g = got
            OBVIOUS
      <2>3. PICK b : b = base
            OBVIOUS
      <2>4. w \in Seq(Byte) /\ g \in 0..Len(w) /\ b \in 0..g
            BY <1>7, <2>1, <2>2, <2>3
      <2>5. Len(SubSeq(w, b + 1, g)) = g - b
            BY <2>4, Piece
      <2>6. QED BY <1>2, <2>1, <2>2, <2>3, <2>5 DEF Fed
<1>9. PICK h : h = base + p
      OBVIOUS
<1>10. h \in Nat /\ h <= got /\ base + p <= h /\ base' = h
      BY <1>1, <1>4, <1>7, <1>8, <1>9
<1>11. PICK upto : upto = got'
      OBVIOUS
<1>12. upto \in Nat /\ h <= upto /\ upto <= Len(whole)
      BY <1>1, <1>7, <1>10, <1>11
<1>13. Fed'
      BY <1>1, <1>4, <1>7, <1>9, <1>10, <1>11, <1>12 DEF Fed
<1>14. Done'
      <2>1. /\ Len(delivered \o msgpack_vec) = Len(delivered) + Len(msgpack_vec)
            /\ \E V : delivered \o msgpack_vec \in Seq(V)
            /\ Reads(SubSeq(whole, 1, h), 0, 0, Len(delivered) + Len(msgpack_vec),
                     delivered \o msgpack_vec, base + p)
            BY <1>2, <1>3, <1>4, <1>10, SoFar
      <2>2. QED BY <1>1, <1>9, <1>10, <2>1 DEF Done
<1>15. input' \in Inputs
      <2>1. SubSeq(whole, h + 1, upto) \in Inputs
            BY <1>7, <1>10, <1>12, PieceIsInput
      <2>2. QED BY <1>1, <1>4, <1>9, <1>11, <2>1
<1>16. FeedStarts'
      BY <1>1, <1>2, <1>5, <1>6, <1>15 DEF FeedStarts, Starts
<1>17. QED BY <1>1, <1>13, <1>14, <1>16

\* After an exception the caller parses the same bytes again, and perhaps more.
LEMMA RetryStep ==
    ASSUME FeedInv, Retry
    PROVE  FeedStarts' /\ Fed' /\ Done' /\ threw' = FALSE
<1>1. /\ threw /\ got' \in got..Len(whole)
      /\ input' = SubSeq(whole, base + 1, got')
      /\ is' = Fresh /\ msgpack_vec' = <<>> /\ parser_stop_pos' = Unset /\ at' = "test"
      /\ threw' = FALSE /\ began' = [is |-> Fresh, err |-> err]
      /\ UNCHANGED <<stack, built, pc, err, whole, base, delivered>>
      BY DEF Retry, CallMulti
<1>2. Thrown /\ Fed /\ Done
      BY <1>1 DEF FeedInv
<1>3. whole \in Wholes /\ Len(whole) \in Nat
      /\ base \in Nat /\ got \in Nat /\ base <= got /\ got <= Len(whole)
      BY <1>2, SlicesAssumption, LenProperties DEF Fed
<1>4. PICK upto : upto = got'
      OBVIOUS
<1>5. PICK from : from = base
      OBVIOUS
<1>6. from \in Nat /\ upto \in Nat /\ from <= upto /\ upto <= Len(whole)
      BY <1>1, <1>3, <1>4, <1>5
<1>7. Fed'
      BY <1>1, <1>3, <1>4, <1>5, <1>6 DEF Fed
<1>8. Done'
      BY <1>1, <1>2 DEF Done
<1>9. input' \in Inputs
      <2>1. SubSeq(whole, from + 1, upto) \in Inputs
            BY <1>3, <1>6, PieceIsInput
      <2>2. QED BY <1>1, <1>4, <1>5, <2>1
<1>10. FeedStarts'
      BY <1>1, <1>2, <1>9 DEF FeedStarts, Starts, Thrown
<1>11. QED BY <1>1, <1>7, <1>8, <1>10

\* parse_multi leaves the bytes it reads and its caller alone.
LEMMA StepStep ==
    ASSUME FeedInv, Reference!KeysOrdered(input), MultiStep, UNCHANGED <<threw, caller>>
    PROVE  FeedInv'
<1>1. at # "end" /\ UNCHANGED <<threw, whole, got, base, delivered, refusals>>
      BY DEF MultiStep, CallParse, Leave, Inside, Keep, Drop, caller
<1>2. ~threw /\ MInv /\ MembersInv /\ FeedKept /\ Fed /\ Done
      BY <1>1 DEF FeedInv, Thrown
<1>3. [MultiNext]_mvars
      BY DEF MultiNext
<1>4. [Next]_vars
      BY DEF MultiStep, CallParse, Leave, Inside, Keep, Drop, Next
<1>5. MInv' /\ MembersInv'
      BY <1>2, <1>3, <1>4, MultiStepInv, MembersStep DEF MInv
<1>6. FeedKept'
      BY <1>2, <1>3, KeptStep DEF AllInv, FeedKept
<1>7. input' = input
      <2>1. CASE Inside
            BY <2>1, CalleeFrame DEF Inside, Callee, Return, ReturnToCaller
      <2>2. CASE CallParse \/ Leave \/ Keep \/ Drop
            BY <2>2 DEF CallParse, ParseAgain, Leave, Keep, Drop, vars
      <2>3. QED BY <2>1, <2>2 DEF MultiStep
<1>8. Fed' /\ Done'
      BY <1>1, <1>2, <1>7 DEF Fed, Done
<1>9. QED BY <1>1, <1>2, <1>5, <1>6, <1>8 DEF FeedInv

\* A call that memory runs out in, or behind, has found nothing malformed.
LEMMA RunOutStep ==
    ASSUME FeedInv, RunOut
    PROVE  FeedInv'
<1>1. /\ at = "parse" /\ at' = "end" /\ msgpack_vec' = <<>>
      /\ UNCHANGED <<parser_stop_pos, whole, got, base, delivered>>
      BY DEF RunOut
<1>2. ~threw /\ MInv /\ MembersInv /\ FeedKept /\ Fed /\ Done /\ IInv /\ Since
      BY <1>1 DEF FeedInv, Thrown, MInv
<1>3. Good(began.is) /\ began.err \in FeedErrs /\ MatchInv
      BY <1>1, <1>2 DEF MInv, LoopInv, FeedKept, KeptInv, GoesOn
<1>4. /\ threw' = TRUE /\ pc' = "done" /\ stack' = <<>> /\ built' = <<>>
      /\ err' = err /\ input' = input /\ err \in FeedErrs
      <2>1. CASE Refuse
            <3>1. /\ threw' = TRUE /\ pc' = "done" /\ stack' = <<>> /\ built' = <<>>
                  /\ err' = err /\ input' = input
                  BY <2>1 DEF Refuse, RefuseBuffer, RefuseValue, RefuseContainer, Unwind
            <3>2. pc # "done"
                  <4>1. CASE RefuseBuffer
                        BY <4>1 DEF RefuseBuffer, Wanted, Handles, Entered
                  <4>2. CASE RefuseValue
                        BY <4>2 DEF RefuseValue, Handles, Entered
                  <4>3. CASE RefuseContainer
                        BY <4>3 DEF RefuseContainer
                  <4>4. QED BY <2>1, <4>1, <4>2, <4>3 DEF Refuse
            <3>3. QED BY <1>2, <1>3, <3>1, <3>2 DEF Since
      <2>2. CASE pc = "done" /\ ~is.fail /\ threw' = TRUE /\ UNCHANGED vars
            <3>1. stack = <<>> /\ built = <<>>
                  BY <1>2, <2>2, Quiet
            <3>2. err = began.err
                  <4>1. Means(Reference!Value(input, began.is.pos, 0))
                        BY <1>3, <2>2 DEF MatchInv, MatchesReference
                  <4>2. QED BY <2>2, <4>1 DEF Means
            <3>3. QED BY <1>3, <2>2, <3>1, <3>2 DEF vars
      <2>3. QED BY <2>1, <2>2 DEF RunOut
<1>5. Fed' /\ Done'
      BY <1>1, <1>2, <1>4 DEF Fed, Done
<1>6. Thrown'
      BY <1>1, <1>4 DEF Thrown
<1>7. QED BY <1>4, <1>5, <1>6 DEF FeedInv

\* Nothing has come yet.
LEMMA FeedInitInv == FInit => FeedInv
<1> SUFFICES ASSUME FInit PROVE FeedInv
    OBVIOUS
<1>1. /\ whole \in Wholes /\ input = <<>> /\ got = 0 /\ base = 0 /\ delivered = <<>>
      /\ threw = FALSE
      BY DEF FInit
<1>2. whole \in Seq(Byte) /\ Len(whole) \in Nat
      BY <1>1, SlicesAssumption, LenProperties
<1>3. SubSeq(whole, 1, 0) = <<>>
      <2>1. PICK w : w = whole
            OBVIOUS
      <2>2. PICK t : t = SubSeq(w, 0 + 1, 0)
            OBVIOUS
      <2>3. w \in Seq(Byte) /\ 0 \in 0..Len(w) /\ 0 \in 0..0
            BY <1>2, <2>1
      <2>4. t \in Seq(Byte) /\ Len(t) = 0 - 0
            BY <2>2, <2>3, Piece
      <2>5. t = <<>>
            BY <2>4, EmptySeq
      <2>6. QED BY <2>1, <2>2, <2>5
<1>4. Fed
      BY <1>1, <1>2, <1>3 DEF Fed
<1>5. Reads(<<>>, 0, 0, 0, <<>>, 0)
      BY RunStart DEF Reads, Reference!Got
<1>6. Done
      <2>1. Len(delivered) = 0 /\ delivered \in Seq({})
            BY <1>1, EmptySeq
      <2>2. QED BY <1>1, <1>3, <1>5, <2>1 DEF Done
<1>7. input \in Inputs
      <2>1. PICK w : w = whole
            OBVIOUS
      <2>2. 1 \in 1..(Len(w) + 1) /\ 0 \in 0..Len(w) /\ w \in Wholes
            BY <1>1, <1>2, <2>1
      <2>3. SubSeq(w, 1, 0) \in Inputs
            BY <2>2, SlicesAssumption
      <2>4. QED BY <1>1, <1>3, <2>1, <2>3
<1>8. FeedStarts
      BY <1>7 DEF FInit, FeedStarts, Starts, FeedErrs
<1>9. QED BY <1>1, <1>4, <1>6, <1>8, FeedStartInv DEF FeedInv

---------------------------------------------------------------------
\* What the caller has.

LEMMA NothingLost ==
    ASSUME FeedInv, FormatError \notin Errs
    PROVE  NothingLostNorTwice
<1> SUFFICES ASSUME at = "end" PROVE NothingLostNorTwice
    BY DEF NothingLostNorTwice
<1>1. PICK upto : upto = IF threw THEN base ELSE got
      OBVIOUS
<1>2. PICK data : data = SubSeq(whole, 1, upto)
      OBVIOUS
<1>3. PICK n : n = Len(delivered) + Len(msgpack_vec)
      OBVIOUS
<1>4. PICK all : all = InTurn(data, n)
      OBVIOUS
<1>5. PICK more : more = InTurn(data, n + 1)
      OBVIOUS
<1>6. PICK last : last = IF threw THEN base ELSE base + Stop
      OBVIOUS
<1>7. PICK row : row = delivered \o msgpack_vec
      OBVIOUS
<1>8. SUFFICES /\ n \in Nat /\ Reads(data, 0, 0, n, row, last)
               /\ Table(data, 0)[last].kind # "value"
               /\ ~threw => (Table(data, 0)[last].kind = "malformed" <=> err = FormatError)
               /\ threw => last = Len(data)
      <2>1. all.kind = "value" /\ all.value = row /\ all.next = last
            BY <1>4, <1>8 DEF Reads, Run, Table, InTurn
      <2>2. all = Run(data, 0, 0, n) /\ more = Run(data, 0, 0, n + 1)
            BY <1>4, <1>5 DEF Run, Table, InTurn
      <2>3. PICK one : one = Table(data, 0)[last]
            OBVIOUS
      <2>4. more = one
            BY <1>8, <2>1, <2>2, <2>3, RunMore
      <2>5. QED BY <1>1, <1>2, <1>3, <1>4, <1>5, <1>6, <1>7, <1>8, <2>1, <2>3, <2>4
                DEF NothingLostNorTwice
<1>9. /\ whole \in Wholes /\ whole \in Seq(Byte) /\ Len(whole) \in Nat
      /\ base \in Nat /\ got \in Nat /\ base <= got /\ got <= Len(whole) /\ Fed /\ Done
      BY SlicesAssumption, LenProperties DEF FeedInv, Fed
<1>10. upto \in Nat /\ base <= upto /\ upto <= Len(whole)
      BY <1>1, <1>9
<1>11. data \in Seq(Byte) /\ Len(data) = upto
      <2>1. PICK zero : zero = 0
            OBVIOUS
      <2>2. upto \in 0..Len(whole) /\ zero \in 0..upto
            BY <1>9, <1>10, <2>1
      <2>3. SubSeq(whole, zero + 1, upto) \in Seq(Byte) /\ Len(SubSeq(whole, zero + 1, upto)) = upto - zero
            BY <1>9, <2>2, Piece
      <2>4. zero + 1 = 1 /\ upto - zero = upto
            BY <1>10, <2>1
      <2>5. QED BY <1>2, <2>3, <2>4
<1>12. CASE threw
      <2>1. msgpack_vec = <<>>
            BY <1>12 DEF FeedInv, Thrown
      <2>2. PICK V : delivered \in Seq(V)
            BY <1>9 DEF Done
      <2>3. n = Len(delivered) /\ n \in Nat /\ row = delivered
            BY <1>3, <1>7, <2>1, <2>2, LenProperties, EmptySeq, ConcatEmptySeq
      <2>4. upto = base /\ last = base /\ last = Len(data)
            BY <1>1, <1>6, <1>11, <1>12
      <2>5. Reads(data, 0, 0, n, row, last)
            BY <1>2, <1>9, <2>3, <2>4 DEF Done
      <2>6. Table(data, 0)[last] = Reference!Truncated(data)
            BY <1>11, <2>4, NothingAtEnd
      <2>7. Table(data, 0)[last].kind # "value"
            BY <2>6 DEF Reference!Truncated
      <2>8. QED BY <1>12, <2>3, <2>4, <2>5, <2>7
<1>13. CASE ~threw
      <2>1. MInv /\ MembersInv /\ FeedKept /\ IInv
            BY <1>13 DEF FeedInv, MInv
      <2>2. PICK p : GoesOn(FeedErrs, p)
            BY <2>1 DEF FeedKept, KeptInv
      <2>3. Stop = p /\ p \in Nat /\ p <= Len(input)
            BY <2>1, <2>2, StopIs
      <2>4. upto = got /\ last = base + p
            BY <1>1, <1>6, <1>13, <2>3
      <2>5. PICK C : C = input
            OBVIOUS
      <2>6. C = SubSeq(whole, base + 1, got) /\ C \in Seq(Byte)
            BY <1>9, <2>1, <2>5, InputBytes DEF Fed
      <2>7. Len(C) = got - base
            <3>1. PICK b : b = base
                  OBVIOUS
            <3>2. upto \in 0..Len(whole) /\ b \in 0..upto
                  BY <1>9, <1>10, <3>1
            <3>3. Len(SubSeq(whole, b + 1, upto)) = upto - b
                  BY <1>9, <3>2, Piece
            <3>4. QED BY <2>4, <2>6, <3>1, <3>3
      <2>8. base + p <= upto
            BY <1>9, <2>3, <2>4, <2>5, <2>7
      <2>9. n \in Nat /\ Reads(data, 0, 0, n, row, last)
            BY <1>2, <1>3, <1>7, <1>9, <1>10, <2>1, <2>2, <2>3, <2>4, <2>8, SoFar
      <2>10. PICK one : one = Table(C, 0)[p]
            OBVIOUS
      <2>11. /\ one.kind # "value"
             /\ p = Len(C) => one.kind = "truncated" /\ err \in FeedErrs
             /\ p # Len(C) => err = IF one.kind = "truncated" THEN EndOfBuffer ELSE FormatError
            BY <2>1, <2>2, <2>5, <2>10, BehindKept
      <2>12. PICK two : two = Table(data, 0)[last]
            OBVIOUS
      <2>13. Outcome(C, p, one) /\ Outcome(data, last, two) /\ Agree(C, base, one, two)
            <3>1. PICK s : s = base
                  OBVIOUS
            <3>2. Stands(C, data, s)
                  <4>1. PICK zero \in Nat : zero = 0
                        OBVIOUS
                  <4>2. s \in Nat /\ s <= upto /\ zero <= s /\ upto <= upto
                        BY <1>9, <1>10, <3>1, <4>1
                  <4>3. Stands(SubSeq(whole, s + 1, upto), SubSeq(whole, zero + 1, upto), s - zero)
                        BY <1>9, <1>10, <4>2, PieceStands
                  <4>4. s - zero = s /\ zero + 1 = 1
                        BY <4>1, <4>2
                  <4>5. QED BY <1>2, <2>4, <2>6, <3>1, <4>3, <4>4
            <3>3. 0 \in 0..(MaxDepth + 1)
                  BY MaxDepthAssumption
            <3>4. AllAgree(C, s, Table(C, 0), Table(data, 0))
                  BY <3>2, <3>3, TableAgree
            <3>5. AllOutcomes(C, Table(C, 0)) /\ AllOutcomes(data, Table(data, 0))
                  BY <1>11, <2>6, <3>3, TableForward
            <3>6. p \in 0..Len(C) /\ last \in 0..Len(data) /\ last = s + p
                  BY <1>9, <1>11, <2>3, <2>4, <2>5, <2>7, <2>8, <3>1
            <3>7. QED BY <2>10, <2>12, <3>1, <3>4, <3>5, <3>6 DEF AllAgree, AllOutcomes
      <2>14. two.kind = one.kind
            BY <1>9, <1>10, <1>11, <2>4, <2>7, <2>13 DEF Agree, Outcome
      <2>15. one.kind \in {"truncated", "malformed"}
            BY <2>11, <2>13 DEF Outcome
      <2>16. one.kind = "malformed" <=> err = FormatError
            BY <2>11, <2>15 DEF FeedErrs, EndOfBuffer, FormatError
      <2>17. QED BY <1>13, <2>9, <2>11, <2>12, <2>14, <2>16
<1>14. QED BY <1>12, <1>13

LEMMA FeedStep ==
    ASSUME FeedInv, [FNext]_fvars, Reference!KeysOrdered(input),
           FeedStarts' => (MInv /\ MembersInv /\ FeedKept)'
    PROVE  FeedInv'
<1>1. CASE Receive
      BY <1>1, ReceiveStep DEF FeedInv
<1>2. CASE Retry
      BY <1>2, RetryStep DEF FeedInv
<1>3. CASE Step
      BY <1>3, StepStep DEF Step
<1>4. CASE RunOut
      BY <1>4, RunOutStep
<1>5. CASE UNCHANGED fvars
      <2>1. UNCHANGED mvars /\ UNCHANGED <<threw, whole, got, base, delivered>>
            BY <1>5 DEF fvars, caller
      <2>2. UNCHANGED <<input, is, stack, built, pc, ret, err, began, msgpack_vec, at>>
            BY <2>1 DEF mvars, vars
      <2>3. Fed' /\ Done'
            BY <2>1, <2>2 DEF FeedInv, Fed, Done
      <2>4. threw => Thrown'
            BY <2>1, <2>2 DEF FeedInv, Thrown
      <2>5. ~threw => MInv' /\ MembersInv' /\ FeedKept'
            <3>1. SUFFICES ASSUME ~threw PROVE MInv' /\ MembersInv' /\ FeedKept'
                  OBVIOUS
            <3>2. MInv /\ MembersInv /\ FeedKept /\ IInv
                  BY <3>1 DEF FeedInv, MInv
            <3>3. [MultiNext]_mvars /\ [Next]_vars
                  BY <2>1 DEF mvars
            <3>4. QED BY <3>2, <3>3, MultiStepInv, MembersStep, KeptStep DEF AllInv, FeedKept
      <2>6. QED BY <2>1, <2>3, <2>4, <2>5 DEF FeedInv
<1>6. QED BY <1>1, <1>2, <1>3, <1>4, <1>5 DEF FNext

\* Where operator< orders the keys of what can be read, and err does not say at first
\* that something is malformed, a caller that feeds its data piece by piece has after
\* each call every whole value that has come, once and in order, wherever memory ran
\* out; and err tells it that what follows is malformed just when it is.
THEOREM FeedLosesNothing ==
    ASSUME \A in \in Inputs : Reference!KeysOrdered(in), FormatError \notin Errs
    PROVE  FSpec => []NothingLostNorTwice
<1>1. FInit => FeedInv
      BY FeedInitInv
<1>2. FeedInv => Reference!KeysOrdered(input)
      <2>1. ASSUME FeedInv PROVE input \in Inputs
            <3>1. PICK b : b = base
                  OBVIOUS
            <3>2. PICK g : g = got
                  OBVIOUS
            <3>3. whole \in Wholes /\ b \in Nat /\ g \in Nat /\ b <= g /\ g <= Len(whole)
                  BY <2>1, <3>1, <3>2 DEF FeedInv, Fed
            <3>4. SubSeq(whole, b + 1, g) \in Inputs
                  BY <3>3, PieceIsInput
            <3>5. QED BY <2>1, <3>1, <3>2, <3>4 DEF FeedInv, Fed
      <2>2. QED BY <2>1
<1>3. (FeedStarts => MInv /\ MembersInv /\ FeedKept)'
      BY FeedStartInv, PTL
<1>4. FeedInv /\ [FNext]_fvars => FeedInv'
      BY <1>2, <1>3, FeedStep
<1>5. FeedInv => NothingLostNorTwice
      BY NothingLost
<1>6. QED BY <1>1, <1>4, <1>5, PTL DEF FSpec
=====================================================================
