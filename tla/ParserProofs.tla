------------------------ MODULE ParserProofs ------------------------
(***************************************************************************)
(* Theorems about Parser, for every max_depth, every set of inputs and     *)
(* every operator<: its invariants, what happens after a failure, that it  *)
(* implements Contract, and that it keeps the members of objects in order. *)
(***************************************************************************)
EXTENDS Parser, SequenceTheorems, TLAPS

---------------------------------------------------------------------
\* The parser table.

\* The rows, one by one: the bytes they take, the parser and its template argument.
LEMMA Uptos ==
    /\ parser_template[1].upto = 127 /\ parser_template[2].upto = 143
    /\ parser_template[3].upto = 159 /\ parser_template[4].upto = 191
    /\ parser_template[5].upto = 192 /\ parser_template[6].upto = 193
    /\ parser_template[7].upto = 195 /\ parser_template[8].upto = 196
    /\ parser_template[9].upto = 197 /\ parser_template[10].upto = 198
    /\ parser_template[11].upto = 199 /\ parser_template[12].upto = 200
    /\ parser_template[13].upto = 201 /\ parser_template[14].upto = 202
    /\ parser_template[15].upto = 203 /\ parser_template[16].upto = 204
    /\ parser_template[17].upto = 205 /\ parser_template[18].upto = 206
    /\ parser_template[19].upto = 207 /\ parser_template[20].upto = 208
    /\ parser_template[21].upto = 209 /\ parser_template[22].upto = 210
    /\ parser_template[23].upto = 211 /\ parser_template[24].upto = 216
    /\ parser_template[25].upto = 217 /\ parser_template[26].upto = 218
    /\ parser_template[27].upto = 219 /\ parser_template[28].upto = 220
    /\ parser_template[29].upto = 221 /\ parser_template[30].upto = 222
    /\ parser_template[31].upto = 223 /\ parser_template[32].upto = 255
BY DEF parser_template, Row

LEMMA Handlers ==
    /\ parser_template[1].parser = "pos_fixint" /\ parser_template[2].parser = "fixobject"
    /\ parser_template[3].parser = "fixarray" /\ parser_template[4].parser = "fixstring"
    /\ parser_template[5].parser = "nil" /\ parser_template[6].parser = "invalid"
    /\ parser_template[7].parser = "bool" /\ parser_template[8].parser = "binary"
    /\ parser_template[9].parser = "binary" /\ parser_template[10].parser = "binary"
    /\ parser_template[11].parser = "extension" /\ parser_template[12].parser = "extension"
    /\ parser_template[13].parser = "extension" /\ parser_template[14].parser = "arith"
    /\ parser_template[15].parser = "arith" /\ parser_template[16].parser = "arith"
    /\ parser_template[17].parser = "arith" /\ parser_template[18].parser = "arith"
    /\ parser_template[19].parser = "arith" /\ parser_template[20].parser = "arith"
    /\ parser_template[21].parser = "arith" /\ parser_template[22].parser = "arith"
    /\ parser_template[23].parser = "arith" /\ parser_template[24].parser = "fixext"
    /\ parser_template[25].parser = "string" /\ parser_template[26].parser = "string"
    /\ parser_template[27].parser = "string" /\ parser_template[28].parser = "array"
    /\ parser_template[29].parser = "array" /\ parser_template[30].parser = "object"
    /\ parser_template[31].parser = "object" /\ parser_template[32].parser = "neg_fixint"
BY DEF parser_template, Row

LEMMA Arguments ==
    /\ parser_template[8].T = "UINT8" /\ parser_template[9].T = "UINT16"
    /\ parser_template[10].T = "UINT32" /\ parser_template[11].T = "UINT8"
    /\ parser_template[12].T = "UINT16" /\ parser_template[13].T = "UINT32"
    /\ parser_template[14].T = "FLOAT32" /\ parser_template[15].T = "FLOAT64"
    /\ parser_template[16].T = "UINT8" /\ parser_template[17].T = "UINT16"
    /\ parser_template[18].T = "UINT32" /\ parser_template[19].T = "UINT64"
    /\ parser_template[20].T = "INT8" /\ parser_template[21].T = "INT16"
    /\ parser_template[22].T = "INT32" /\ parser_template[23].T = "INT64"
    /\ parser_template[25].T = "UINT8" /\ parser_template[26].T = "UINT16"
    /\ parser_template[27].T = "UINT32" /\ parser_template[28].T = "UINT16"
    /\ parser_template[29].T = "UINT32" /\ parser_template[30].T = "UINT16"
    /\ parser_template[31].T = "UINT32"
BY DEF parser_template, Row

\* The loop that fills the table gives every first byte a row: no entry of the
\* C++ array "parsers" is left unset.
THEOREM TableTotal == \A byte \in Byte : \E k \in 1..32 : Takes(k, byte)
<1> SUFFICES ASSUME NEW byte \in Byte
             PROVE  \E k \in 1..32 : Takes(k, byte)
  OBVIOUS
<1>1.
      \/ Takes(1, byte) \/ Takes(2, byte) \/ Takes(3, byte) \/ Takes(4, byte)
      \/ Takes(5, byte) \/ Takes(6, byte) \/ Takes(7, byte) \/ Takes(8, byte)
      \/ Takes(9, byte) \/ Takes(10, byte) \/ Takes(11, byte) \/ Takes(12, byte)
      \/ Takes(13, byte) \/ Takes(14, byte) \/ Takes(15, byte) \/ Takes(16, byte)
      \/ Takes(17, byte) \/ Takes(18, byte) \/ Takes(19, byte) \/ Takes(20, byte)
      \/ Takes(21, byte) \/ Takes(22, byte) \/ Takes(23, byte) \/ Takes(24, byte)
      \/ Takes(25, byte) \/ Takes(26, byte) \/ Takes(27, byte) \/ Takes(28, byte)
      \/ Takes(29, byte) \/ Takes(30, byte) \/ Takes(31, byte) \/ Takes(32, byte)
  BY Uptos DEF Byte, Takes
<1> QED BY <1>1

\* What a length is read as.
LengthTypes == {"UINT8", "UINT16", "UINT32"}

\* A handler that reads a length reads it as one of the length types; one that
\* reads a number has the type of a number.
LEMMA RowTypes ==
  \A k \in 1..32 :
     /\ parser_template[k].parser \in {"binary", "extension", "string", "array", "object"}
           => parser_template[k].T \in LengthTypes
     /\ parser_template[k].parser = "arith" => parser_template[k].T \in DOMAIN SizeOf
     /\ parser_template[k].parser = "fixext" => k = 24
<1>1. \A k \in (8..13) \union (25..31) :
         parser_template[k].T \in LengthTypes /\ parser_template[k].parser \notin {"arith", "fixext"}
  BY Handlers, Arguments DEF LengthTypes
<1>2. \A k \in 14..23 : parser_template[k].T \in DOMAIN SizeOf /\ parser_template[k].parser = "arith"
  BY Handlers, Arguments DEF SizeOf
<1>3. \A k \in (1..7) \union {32} :
         parser_template[k].parser \notin
            {"binary", "extension", "string", "array", "object", "arith", "fixext"}
  BY Handlers
<1>4. parser_template[24].parser = "fixext"
  BY Handlers
<1>5. 1..32 = (1..7) \union ((8..13) \union (25..31)) \union (14..23) \union {24, 32}
  OBVIOUS
<1> QED BY <1>1, <1>2, <1>3, <1>4, <1>5

\* The entry that dispatch finds for a byte is one of the rows of the table.
LEMMA RowOf ==
  ASSUME NEW byte \in Byte
  PROVE  \E k \in 1..32 : Takes(k, byte) /\ parsers[byte] = parser_template[k]
<1> DEFINE k == CHOOSE k \in DOMAIN parser_template : Takes(k, byte)
<1>1. DOMAIN parser_template = 1..32
  BY DEF parser_template
<1>2. k \in 1..32 /\ Takes(k, byte)
  BY <1>1, TableTotal
<1>3. parsers[byte] = parser_template[k]
  BY DEF parsers
<1> QED BY <1>2, <1>3

\* What a handler reads with its template argument, by the row of its first byte.
LEMMA HandlerTypes ==
  ASSUME NEW byte \in Byte
  PROVE  /\ parsers[byte].parser \in {"binary", "extension", "string", "array", "object"}
               => parsers[byte].T \in LengthTypes
         /\ parsers[byte].parser = "arith" => parsers[byte].T \in DOMAIN SizeOf
         /\ parsers[byte].parser = "fixext" => byte \in 212..216
<1> PICK k \in 1..32 : Takes(k, byte) /\ parsers[byte] = parser_template[k]
  BY RowOf
<1>1. parser_template[24].upto = 216 /\ parser_template[23].upto = 211
  BY Uptos
<1>2. k = 24 => byte \in 212..216
  BY <1>1 DEF Takes, Byte
<1> QED BY <1>2, RowTypes

---------------------------------------------------------------------
\* The stream.

\* setstate(failbit) makes a stream bad and moves nothing.
LEMMA SetFailProperties ==
  ASSUME NEW s \in Stream
  PROVE  /\ SetFail(s) \in Stream /\ SetFail(s).fail
         /\ SetFail(s).pos = s.pos /\ SetFail(s).eof = s.eof
         /\ ~Good(SetFail(s))
  BY DEF SetFail, Stream, Good

\* Reading never moves back, moves on by exactly n when it succeeds, and leaves
\* a bad stream where it is.
LEMMA ConsumeProperties ==
  ASSUME input \in Seq(Byte), NEW s \in Stream, NEW n \in Nat
  PROVE  /\ Consume(s, n) \in Stream
         /\ Consume(s, n).pos >= s.pos
         /\ Good(Consume(s, n)) => Good(s) /\ Consume(s, n).pos = s.pos + n
         /\ Consume(s, n).eof /\ ~s.eof => Consume(s, n).fail
         /\ s.fail => Consume(s, n).fail
         /\ ~Good(s) => Consume(s, n) = SetFail(s)
         /\ ~Good(Consume(s, n)) => Consume(s, n).fail
<1>1. Len(input) \in Nat
  BY LenProperties
<1>2. s \in [pos : 0..Len(input), eof : BOOLEAN, fail : BOOLEAN]
  BY DEF Stream
<1>3. CASE ~Good(s)
  <2>1. Consume(s, n) = SetFail(s)
    BY <1>3 DEF Consume
  <2>2. s.pos \in Nat
    BY <1>1, <1>2
  <2> QED BY <1>3, <2>1, <2>2, SetFailProperties
<1>4. CASE Good(s) /\ n <= Len(input) - s.pos
  <2>1. Consume(s, n) = [s EXCEPT !.pos = s.pos + n]
    BY <1>4 DEF Consume
  <2>2. s.pos + n \in 0..Len(input) /\ s.pos + n >= s.pos
    BY <1>1, <1>2, <1>4
  <2> QED BY <1>2, <1>4, <2>1, <2>2 DEF Good, Stream
<1>5. CASE Good(s) /\ ~(n <= Len(input) - s.pos)
  <2>1. Consume(s, n) = [pos |-> Len(input), eof |-> TRUE, fail |-> TRUE]
    BY <1>5 DEF Consume
  <2> QED BY <1>1, <1>2, <1>5, <2>1 DEF Good, Stream
<1> QED BY <1>3, <1>4, <1>5

\* What read_bytes stores are n bytes, also when the stream is bad.
LEMMA ReadBytes ==
  ASSUME input \in Seq(Byte), NEW s \in Stream, NEW n \in Nat
  PROVE  Read(s, n) \in [1..n -> Byte]
<1>1. ASSUME NEW i \in 1..n, Good(Consume(s, n))
      PROVE  input[s.pos + i] \in Byte
  <2>1. Consume(s, n).pos = s.pos + n /\ Consume(s, n) \in Stream
    BY <1>1, ConsumeProperties
  <2>2. s.pos + i \in 1..Len(input)
    BY <2>1, LenProperties DEF Stream
  <2> QED BY <2>2, ElementOfSeq
<1>2. CASE Good(Consume(s, n))
  <2>1. Read(s, n) = [i \in 1..n |-> input[s.pos + i]]
    BY <1>2 DEF Read
  <2> QED BY <1>1, <1>2, <2>1
<1>3. CASE ~Good(Consume(s, n))
  <2>1. Read(s, n) = [i \in 1..n |-> 0]
    BY <1>3 DEF Read
  <2> QED BY <2>1 DEF Byte
<1> QED BY <1>2, <1>3

\* What BigEndian is applied to: one, two or four bytes.
LEMMA SeqOfBytes ==
  ASSUME NEW n \in {1, 2, 4}, NEW b \in [1..n -> Byte]
  PROVE  Len(b) = n /\ \A i \in 1..n : b[i] \in Byte
<1>1. b \in Seq(Byte)
  <2>1. n \in Nat
    OBVIOUS
  <2>2. b \in UNION {[1..m -> Byte] : m \in Nat}
    BY <2>1
  <2> QED BY <2>2, SeqDef
<1>2. Len(b) \in Nat /\ DOMAIN b = 1..Len(b)
  BY <1>1, LenProperties
<1>3. 1..Len(b) = 1..n
  BY <1>2
<1>4. n \in 1..Len(b) /\ (Len(b) >= 1 => Len(b) \in 1..n)
  BY <1>2, <1>3
<1> QED BY <1>2, <1>4

\* One, two or four bytes stand for a natural number.
LEMMA BigEndianIsNat ==
  ASSUME NEW b, Len(b) \in {1, 2, 4}, \A i \in 1..Len(b) : b[i] \in Byte
  PROVE  BigEndian(b) \in Nat
<1>1. \A i \in 1..Len(b) : b[i] \in Nat
  <2>1. Byte \subseteq Nat
    BY DEF Byte
  <2> QED BY <2>1
<1>2. CASE Len(b) = 1
  <2>1. b[1] \in Nat
    BY <1>1, <1>2
  <2> QED BY <1>2, <2>1 DEF BigEndian
<1>3. CASE Len(b) = 2
  <2>1. b[1] \in Nat /\ b[2] \in Nat
    BY <1>1, <1>3
  <2> QED BY <1>3, <2>1 DEF BigEndian
<1>4. CASE Len(b) = 4
  <2>1. b[1] \in Nat /\ b[2] \in Nat /\ b[3] \in Nat /\ b[4] \in Nat
    BY <1>1, <1>4
  <2> QED BY <1>4, <2>1 DEF BigEndian
<1> QED BY <1>2, <1>3, <1>4

\* The length in front of a string, a binary, an extension or a container.
LEMMA LengthIsNat ==
  ASSUME input \in Seq(Byte), NEW s \in Stream, NEW type \in LengthTypes
  PROVE  Length(s, type) \in Nat /\ SizeOf[type] \in Nat
<1>1. SizeOf[type] \in {1, 2, 4}
  BY DEF SizeOf, LengthTypes
<1> DEFINE n == SizeOf[type]
           b == Read(s, n)
<1>2. n \in {1, 2, 4} /\ b \in [1..n -> Byte] /\ Length(s, type) = BigEndian(b)
  BY <1>1, ReadBytes DEF Length
<1> HIDE DEF b, n
<1>3. Len(b) = n /\ \A i \in 1..n : b[i] \in Byte
  BY <1>2, SeqOfBytes
<1>4. Len(b) \in {1, 2, 4} /\ \A i \in 1..Len(b) : b[i] \in Byte
  BY <1>2, <1>3
<1>5. BigEndian(b) \in Nat
  BY <1>4, BigEndianIsNat
<1> QED BY <1>1, <1>2, <1>5

\* Every type of the table has a size.
LEMMA SizeIsNat == \A type \in DOMAIN SizeOf : SizeOf[type] \in Nat
  BY DEF SizeOf

---------------------------------------------------------------------
\* The inductive invariant.

IInv == TypeOK /\ FailureMeansNil /\ RecursionBounded /\ TurnsLeft

\* A stream that a handler of the current call may leave.
Sound(s) == s \in Stream /\ s.pos >= is.pos /\ (~Good(s) => s.fail)

\* The stream holds bytes.
LEMMA InputBytes == ASSUME IInv PROVE input \in Seq(Byte)
  BY InputsAssumption DEF IInv, TypeOK

\* Reading leaves a stream that the current call may leave.
LEMMA ConsumeSound ==
  ASSUME IInv, NEW s, Sound(s), NEW n \in Nat
  PROVE  /\ Sound(Consume(s, n))
         /\ Consume(s, n).pos >= s.pos
<1>1. input \in Seq(Byte) /\ s \in Stream /\ is \in Stream
  BY InputBytes DEF IInv, TypeOK, Sound
<1>2. Consume(s, n) \in Stream /\ Consume(s, n).pos >= s.pos
  BY <1>1, ConsumeProperties
<1>3. ~Good(Consume(s, n)) => Consume(s, n).fail
  BY <1>1, ConsumeProperties
<1> QED BY <1>1, <1>2, <1>3 DEF Sound, Stream

\* The first byte, when there is one, is consumed by this very call.
LEMMA Entering ==
  ASSUME IInv, Good(Rest)
  PROVE  /\ Sound(Rest)
         /\ Rest.pos = is.pos + 1
         /\ FirstByte \in Byte
<1>1. is \in Stream
  BY DEF IInv, TypeOK
<1>2. Sound(Rest) /\ Rest.pos = is.pos + 1
  BY <1>1, InputBytes, ConsumeProperties DEF Rest, Sound, Stream
<1>3. Read(is, 1) \in [1..1 -> Byte]
  BY <1>1, InputBytes, ReadBytes
<1> QED BY <1>2, <1>3 DEF FirstByte

---------------------------------------------------------------------
\* The invariant and the kinds of steps.

\* parse_msgpack returns with the loops as they were.
LEMMA LeafStep ==
  ASSUME IInv, pc = "call", NEW s, Sound(s), NEW v, Leaf(s, v)
  PROVE  IInv' /\ is'.pos = s.pos
<1>1. is' \in Stream /\ is'.pos = s.pos /\ (~Good(is') => is'.fail /\ ret' = Nil)
  BY SetFailProperties DEF Leaf, Finish, Sound, Good, SetFail, Stream
<1>2. /\ pc' = "return"
      /\ UNCHANGED <<input, err, began, stack>>
  BY DEF Leaf, Finish
<1>3. TypeOK'
  BY <1>1, <1>2 DEF IInv, TypeOK, Stream
<1>4. FailureMeansNil'
  BY <1>1, <1>2 DEF FailureMeansNil, Good
<1>5. RecursionBounded'
  BY <1>1, <1>2 DEF IInv, TypeOK, RecursionBounded, Sound, Stream, depth
<1>6. TurnsLeft'
  BY <1>2 DEF IInv, TurnsLeft, depth
<1> QED BY <1>1, <1>3, <1>4, <1>5, <1>6 DEF IInv

\* A container is entered: the byte that announced it pays for the new frame.
LEMMA OpenStep ==
  ASSUME IInv, Entered, NEW s, Sound(s), s.pos >= is.pos + 1,
         NEW at \in {"item", "key"}, NEW n \in Nat, Open(at, s, n)
  PROVE  IInv' /\ is'.pos = s.pos
<1> DEFINE frame == [at |-> at, left |-> n]
<1>1. frame \in Frame
  BY DEF Frame
<1>2. /\ is' = s /\ pc' = "loop"
      /\ stack' = Append(stack, frame)
      /\ UNCHANGED <<input, ret, err, began>>
  BY DEF Open
<1>3. stack \in Seq(Frame) /\ Len(stack) \in Nat
  BY LenProperties DEF IInv, TypeOK
<1>4. /\ stack' \in Seq(Frame)
      /\ depth' = depth + 1
      /\ stack'[depth + 1] = frame
      /\ \A i \in 1..depth : stack'[i] = stack[i]
  BY <1>1, <1>2, <1>3, AppendProperties DEF depth
<1>5. TypeOK'
  BY <1>2, <1>3, <1>4 DEF IInv, TypeOK, Sound, Stream, depth
<1>6. FailureMeansNil'
  BY <1>2 DEF FailureMeansNil, Sound, Good
<1>7. RecursionBounded'
  BY <1>2, <1>3, <1>4, MaxDepthAssumption
     DEF IInv, TypeOK, RecursionBounded, Sound, Stream, Entered, DepthExceeded, depth
<1>8. TurnsLeft'
  BY <1>2, <1>3, <1>4 DEF IInv, TurnsLeft, Entered, DepthExceeded, depth
<1> QED BY <1>2, <1>5, <1>6, <1>7, <1>8 DEF IInv

\* A container is complete: the call it was read for returns.
LEMMA CloseStep ==
  ASSUME IInv, pc = "loop", NEW v, Close(v)
  PROVE  IInv' /\ depth' <= depth
<1>1. is' \in Stream /\ is'.pos = is.pos /\ (~Good(is') => is'.fail /\ ret' = Nil)
  BY SetFailProperties DEF IInv, TypeOK, Close, Finish, Good, SetFail, Stream
<1>2. /\ pc' = "return" /\ stack' = Front(stack)
      /\ UNCHANGED <<input, err, began>>
  BY DEF Close, Finish
<1>3. stack \in Seq(Frame) /\ Len(stack) \in Nat /\ Len(stack) > 0
  BY LenProperties DEF IInv, TypeOK, depth
<1>4. \A i \in 1..(Len(stack) - 1) : stack[i] \in Frame
  BY <1>3, ElementOfSeq
<1>5. /\ stack' \in Seq(Frame)
      /\ depth' = depth - 1
      /\ \A i \in 1..(depth - 1) : stack'[i] = stack[i]
  <2> DEFINE n == Len(stack) - 1
  <2>1. n \in Nat /\ 1 \in Int /\ n \in Int
    BY <1>3
  <2> HIDE DEF n
  <2>2. \A i \in 1..n : stack[i] \in Frame
    BY <1>4 DEF n
  <2>3. /\ SubSeq(stack, 1, n) \in Seq(Frame)
        /\ Len(SubSeq(stack, 1, n)) = IF 1 <= n THEN n - 1 + 1 ELSE 0
        /\ \A i \in 1..(n - 1 + 1) : SubSeq(stack, 1, n)[i] = stack[1 + i - 1]
    BY <2>1, <2>2, SubSeqProperties
  <2>4. stack' = SubSeq(stack, 1, n)
    BY <1>2 DEF Front, n
  <2>5. /\ n - 1 + 1 = n /\ (IF 1 <= n THEN n - 1 + 1 ELSE 0) = n
        /\ \A i \in 1..n : 1 + i - 1 = i
    BY <2>1
  <2>6. /\ stack' \in Seq(Frame)
        /\ Len(stack') = n
        /\ \A i \in 1..n : stack'[i] = stack[i]
    BY <2>3, <2>4, <2>5
  <2>7. depth' = Len(stack') /\ n = depth - 1
    BY DEF depth, n
  <2> QED BY <2>6, <2>7
<1>6. TypeOK'
  BY <1>1, <1>2, <1>3, <1>5 DEF IInv, TypeOK, Stream, depth
<1>7. FailureMeansNil'
  BY <1>1, <1>2 DEF FailureMeansNil, Good
<1>8. RecursionBounded'
  BY <1>1, <1>2, <1>3, <1>5, MaxDepthAssumption
     DEF IInv, TypeOK, RecursionBounded, Stream, depth
<1>9. TurnsLeft'
  BY <1>2, <1>3, <1>5 DEF IInv, TurnsLeft, depth
<1> QED BY <1>3, <1>5, <1>6, <1>7, <1>8, <1>9 DEF IInv, depth

\* A loop makes a turn: there was one left to make.
LEMMA TurnStep ==
  ASSUME IInv, pc = "return", depth > 0, NEW at \in {"item", "key"}, Turn(at)
  PROVE  IInv' /\ depth' = depth
<1> DEFINE frame == [at |-> at, left |-> stack[depth].left - 1]
<1>1. stack \in Seq(Frame) /\ depth \in Nat /\ depth \in 1..Len(stack)
  BY LenProperties DEF IInv, TypeOK, depth
<1>2. stack[depth] \in Frame /\ stack[depth].left > 0
  BY <1>1, ElementOfSeq DEF IInv, TurnsLeft
<1>3. frame \in Frame
  BY <1>2 DEF Frame
<1>4. /\ stack' = [stack EXCEPT ![depth] = frame]
      /\ pc' = "loop"
      /\ UNCHANGED <<input, is, ret, err, began>>
  BY DEF Turn
<1>5. /\ stack' \in Seq(Frame)
      /\ depth' = depth
      /\ stack'[depth] = frame
      /\ \A i \in 1..depth : i # depth => stack'[i] = stack[i]
  BY <1>1, <1>3, <1>4, ExceptSeq DEF depth
<1>6. TypeOK'
  BY <1>1, <1>4, <1>5 DEF IInv, TypeOK, Stream
<1>7. FailureMeansNil'
  BY <1>4 DEF IInv, FailureMeansNil, Good
<1>8. RecursionBounded'
  BY <1>4, <1>5 DEF IInv, RecursionBounded
<1>9. TurnsLeft'
  BY <1>4, <1>5 DEF IInv, TurnsLeft
<1> QED BY <1>5, <1>6, <1>7, <1>8, <1>9 DEF IInv

---------------------------------------------------------------------
\* The invariant and the actions.

\* Each of the handlers of the table keeps the invariant.
LEMMA HandlerStep ==
  ASSUME IInv, Handler
  PROVE  IInv' /\ Good(is) /\ is'.pos >= is.pos + 1
<1>1. Entered /\ Good(Rest) /\ pc = "call"
  BY DEF Handler, ParseInvalid, ParseNil, ParseBool, ParsePosFixint, ParseNegFixint,
         ParseArith, ParseFixString, ParseString, ParseBinary, ParseFixExt,
         ParseExtension, ParseFixArray, ParseArray, ParseFixObject, ParseObject,
         Dispatch, Entered
<1>2. Sound(Rest) /\ Rest.pos = is.pos + 1 /\ FirstByte \in Byte
  BY <1>1, Entering
<1>3. Good(is)
  <2>1. is \in Stream /\ input \in Seq(Byte)
    BY InputBytes DEF IInv, TypeOK
  <2> QED BY <1>1, <2>1, ConsumeProperties DEF Rest
<1>4. FirstByte % 16 \in Nat /\ FirstByte % 32 \in Nat
  BY <1>2 DEF Byte
<1>5. ASSUME NEW w \in Nat PROVE Sound(Consume(Rest, w)) /\ Consume(Rest, w).pos >= is.pos + 1
  <2>1. Sound(Consume(Rest, w)) /\ Consume(Rest, w).pos >= Rest.pos
    BY <1>2, ConsumeSound
  <2>2. Consume(Rest, w).pos \in Int /\ is.pos \in Int
    BY <2>1 DEF Sound, Stream, IInv, TypeOK
  <2> QED BY <1>2, <2>1, <2>2
<1>c. ASSUME NEW s, Sound(s), s.pos >= is.pos + 1, NEW w \in Nat
      PROVE  Sound(Consume(s, w)) /\ Consume(s, w).pos >= is.pos + 1
  <2>1. Sound(Consume(s, w)) /\ Consume(s, w).pos >= s.pos
    BY <1>c, ConsumeSound
  <2>2. Consume(s, w).pos \in Int /\ s.pos \in Int /\ is.pos \in Int
    BY <1>c, <2>1 DEF Sound, Stream, IInv, TypeOK
  <2> QED BY <1>c, <2>1, <2>2
<1>6. ASSUME T \in LengthTypes PROVE Length(Rest, T) \in Nat /\ SizeOf[T] \in Nat
  <2>1. Rest \in Stream /\ input \in Seq(Byte)
    BY <1>2, InputBytes DEF Sound
  <2> QED BY <1>6, <2>1, LengthIsNat
<1>p. Rest.pos >= is.pos + 1
  BY <1>2 DEF IInv, TypeOK, Stream
\* Each handler of a scalar leaves a sound stream.
<1>7. CASE ParseInvalid
  <2>1. Sound(SetFail(Rest)) /\ SetFail(Rest).pos >= is.pos + 1
    BY <1>2, <1>p, SetFailProperties DEF Sound, Stream
  <2> QED BY <1>1, <1>3, <1>7, <2>1, LeafStep DEF ParseInvalid
<1>8. CASE ParseNil \/ ParseBool \/ ParsePosFixint \/ ParseNegFixint
  BY <1>1, <1>2, <1>3, <1>8, <1>p, LeafStep
     DEF ParseNil, ParseBool, ParsePosFixint, ParseNegFixint
<1>9. CASE ParseArith
  <2>1. T \in DOMAIN SizeOf
    BY <1>2, <1>9, HandlerTypes DEF ParseArith, Dispatch, T
  <2>2. Sound(Consume(Rest, SizeOf[T])) /\ Consume(Rest, SizeOf[T]).pos >= is.pos + 1
    BY <1>5, <2>1, SizeIsNat
  <2> QED BY <1>1, <1>3, <1>9, <2>2, LeafStep DEF ParseArith
<1>10. CASE ParseFixString
  <2>1. /\ Sound(Consume(Rest, FirstByte % 32))
        /\ Consume(Rest, FirstByte % 32).pos >= is.pos + 1
    BY <1>4, <1>5
  <2> QED BY <1>1, <1>3, <1>10, <2>1, LeafStep DEF ParseFixString, Payload
<1>11. CASE ParseString \/ ParseBinary
  <2>1. T \in LengthTypes
    BY <1>2, <1>11, HandlerTypes DEF ParseString, ParseBinary, Dispatch, T
  <2>2. /\ Sound(Consume(Consume(Rest, SizeOf[T]), Length(Rest, T)))
        /\ Consume(Consume(Rest, SizeOf[T]), Length(Rest, T)).pos >= is.pos + 1
    BY <1>5, <1>6, <1>c, <2>1
  <2> QED BY <1>1, <1>3, <1>11, <2>2, LeafStep DEF ParseString, ParseBinary, Counted, Payload
<1>12. ASSUME NEW s, Sound(s), s.pos >= is.pos + 1, NEW n \in Nat, Extension(s, n)
       PROVE  IInv' /\ is'.pos >= is.pos + 1
  <2>1. Sound(Consume(Consume(s, 1), n)) /\ Consume(Consume(s, 1), n).pos >= is.pos + 1
    BY <1>12, <1>c
  <2> QED BY <1>1, <1>12, <2>1, LeafStep DEF Extension
<1>13. CASE ParseFixExt
  <2>1. FirstByte \in 212..216
    BY <1>2, <1>13, HandlerTypes DEF ParseFixExt, Dispatch
  <2>2. <<1, 2, 4, 8, 16>>[FirstByte - 211] \in Nat
    BY <2>1
  <2> QED BY <1>2, <1>3, <1>12, <1>13, <1>p, <2>2 DEF ParseFixExt
<1>14. CASE ParseExtension
  <2>1. T \in LengthTypes
    BY <1>2, <1>14, HandlerTypes DEF ParseExtension, Dispatch, T
  <2> QED BY <1>3, <1>5, <1>6, <1>12, <1>14, <2>1 DEF ParseExtension
\* Each handler of a container opens it past the first byte.
<1>15. CASE ParseFixArray \/ ParseFixObject
  BY <1>1, <1>2, <1>3, <1>4, <1>15, <1>p, OpenStep DEF ParseFixArray, ParseFixObject
<1>16. CASE ParseArray \/ ParseObject
  <2>1. T \in LengthTypes
    BY <1>2, <1>16, HandlerTypes DEF ParseArray, ParseObject, Dispatch, T
  <2> QED BY <1>1, <1>3, <1>5, <1>6, <1>16, <2>1, OpenStep DEF ParseArray, ParseObject
<1> QED BY <1>7, <1>8, <1>9, <1>10, <1>11, <1>13, <1>14, <1>15, <1>16 DEF Handler

\* The calls that read no first byte.
LEMMA FailStep ==
  ASSUME IInv, TooDeep \/ NoFirstByte
  PROVE  IInv' /\ (~Good(is) => is'.pos = is.pos /\ is'.eof = is.eof /\ is'.fail) /\ depth' = depth
<1>1. is \in Stream /\ input \in Seq(Byte) /\ pc = "call"
  BY InputBytes DEF IInv, TypeOK, TooDeep, NoFirstByte, Entered
<1>2. Sound(SetFail(is)) /\ Sound(Rest)
  <2>1. is.pos \in Int
    BY <1>1 DEF Stream
  <2>2. Sound(SetFail(is))
    BY <1>1, <2>1, SetFailProperties DEF Sound
  <2>3. Sound(Rest)
    BY <1>1, ConsumeProperties DEF Sound, Rest
  <2> QED BY <2>2, <2>3
<1>3. IInv'
  BY <1>1, <1>2, LeafStep DEF TooDeep, NoFirstByte
<1>4. ASSUME ~Good(is) PROVE Rest = SetFail(is)
  BY <1>1, <1>4, ConsumeProperties DEF Rest
<1>5. CASE TooDeep
  <2>1. is' = SetFail(SetFail(is)) /\ stack' = stack
    BY <1>1, <1>5, SetFailProperties DEF TooDeep, DepthExceeded, Leaf, Finish
  <2> QED BY <1>1, <1>3, <2>1, SetFailProperties DEF depth
<1>6. CASE NoFirstByte
  <2>1. is' = SetFail(Rest) /\ stack' = stack
    BY <1>6 DEF NoFirstByte, Leaf, Finish
  <2> QED BY <1>1, <1>3, <1>4, <2>1, SetFailProperties DEF depth
<1> QED BY <1>5, <1>6

\* The turns of a loop.
LEMMA LoopStep ==
  ASSUME IInv, Loop
  PROVE  IInv' /\ (~Good(is) => is'.pos = is.pos /\ is'.eof = is.eof /\ is'.fail) /\ depth' <= depth
<1>1. pc = "loop" /\ is \in Stream /\ depth \in Nat
  BY LenProperties DEF Loop, CallNext, ArrayDone, ObjectDone, IInv, TypeOK, depth
<1>2. CASE CallNext
  <2>1. /\ stack[depth].left > 0 /\ pc' = "call"
        /\ UNCHANGED <<input, is, stack, built, ret, err, began>>
    BY <1>2 DEF CallNext
  <2>2. TypeOK'
    BY <2>1 DEF IInv, TypeOK, Stream, depth
  <2>3. FailureMeansNil'
    BY <2>1 DEF IInv, FailureMeansNil, Good
  <2>4. RecursionBounded' /\ depth' = depth
    BY <2>1 DEF IInv, RecursionBounded, depth
  <2>5. TurnsLeft'
    BY <1>1, <2>1 DEF IInv, TurnsLeft, depth
  <2> QED BY <1>1, <2>1, <2>2, <2>3, <2>4, <2>5 DEF IInv, FailureMeansNil, Good
<1>3. ASSUME NEW v, Close(v)
      PROVE  IInv' /\ (~Good(is) => is'.pos = is.pos /\ is'.eof = is.eof /\ is'.fail) /\ depth' <= depth
  <2>1. IInv' /\ depth' <= depth
    BY <1>1, <1>3, CloseStep
  <2>2. ~Good(is) => is' = SetFail(is)
    BY <1>3 DEF Close, Finish
  <2> QED BY <1>1, <2>1, <2>2, SetFailProperties
<1>4. CASE ArrayDone \/ ObjectDone
  BY <1>3, <1>4 DEF ArrayDone, ObjectDone
<1> QED BY <1>2, <1>4 DEF Loop

\* The returns.
LEMMA ReturnStep ==
  ASSUME IInv, Return
  PROVE  IInv' /\ is' = is /\ depth' = depth
<1>1. pc = "return" /\ is' = is
  BY DEF Return, ReturnItem, ReturnKey, ReturnValue, ReturnToCaller, Turn
<1>2. ASSUME NEW at \in {"item", "key"}, depth > 0, Turn(at)
      PROVE  IInv' /\ is' = is /\ depth' = depth
  BY <1>1, <1>2, TurnStep
<1>3. CASE ReturnItem \/ ReturnValue
  BY <1>2, <1>3 DEF ReturnItem, ReturnValue, InLoop
<1>4. CASE ReturnKey
  <2>1. stack \in Seq(Frame) /\ depth \in Nat /\ depth \in 1..Len(stack)
    BY <1>4, LenProperties DEF IInv, TypeOK, depth, ReturnKey, InLoop
  <2> DEFINE frame == [stack[depth] EXCEPT !.at = "value"]
  <2>2. stack[depth] \in Frame /\ stack[depth].left > 0
    BY <1>1, <2>1, ElementOfSeq DEF IInv, TurnsLeft
  <2>3. frame \in Frame /\ frame.left = stack[depth].left
    BY <2>2 DEF Frame
  <2>4. /\ stack' = [stack EXCEPT ![depth] = frame]
        /\ pc' = "call"
        /\ UNCHANGED <<input, is, ret, err, began>>
    BY <1>4 DEF ReturnKey
  <2> HIDE DEF frame
  <2>5. /\ stack' \in Seq(Frame)
        /\ depth' = depth
        /\ stack'[depth] = frame
        /\ \A i \in 1..depth : i # depth => stack'[i] = stack[i]
    BY <2>1, <2>3, <2>4, ExceptSeq DEF depth
  <2>6. TypeOK'
    BY <2>1, <2>4, <2>5 DEF IInv, TypeOK, Stream
  <2>7. FailureMeansNil'
    BY <2>4 DEF IInv, FailureMeansNil, Good
  <2>8. RecursionBounded'
    BY <2>4, <2>5 DEF IInv, RecursionBounded
  <2>9. TurnsLeft'
    BY <1>1, <2>2, <2>3, <2>4, <2>5 DEF IInv, TurnsLeft
  <2> QED BY <1>1, <2>5, <2>6, <2>7, <2>8, <2>9 DEF IInv
<1>5. CASE ReturnToCaller
  <2>1. /\ pc' = "done" /\ depth = 0
        /\ err' \in {EndOfBuffer, FormatError, err}
        /\ UNCHANGED <<input, is, stack, built, ret, began>>
    BY <1>5 DEF ReturnToCaller
  <2>2. TypeOK'
    BY <2>1 DEF IInv, TypeOK, Stream, depth
  <2>3. FailureMeansNil'
    BY <1>1, <2>1 DEF IInv, FailureMeansNil, Good
  <2>4. RecursionBounded' /\ depth' = depth
    BY <2>1 DEF IInv, RecursionBounded, depth
  <2>5. TurnsLeft'
    BY <2>1 DEF TurnsLeft, depth
  <2> QED BY <1>1, <2>2, <2>3, <2>4, <2>5 DEF IInv
<1> QED BY <1>3, <1>4, <1>5 DEF Return

\* The caller's next call starts from what the last one left.
LEMMA ParseAgainStep ==
  ASSUME IInv, ParseAgain
  PROVE  IInv' /\ is' = is /\ depth' = depth
<1>1. /\ pc = "done" /\ pc' = "call" /\ began' = [is |-> is, err |-> err]
      /\ UNCHANGED <<input, is, stack, built, ret, err>>
  BY DEF ParseAgain
<1>2. depth = 0 /\ depth' = depth
  BY <1>1 DEF IInv, TypeOK, depth
<1>3. TypeOK'
  BY <1>1, <1>2 DEF IInv, TypeOK, Stream
<1>4. FailureMeansNil'
  BY <1>1 DEF IInv, FailureMeansNil, Good
<1>5. RecursionBounded'
  <2>1. is.pos \in Int
    BY DEF IInv, TypeOK, Stream
  <2> QED BY <1>1, <1>2, <2>1, MaxDepthAssumption DEF RecursionBounded
<1>6. TurnsLeft'
  BY <1>2 DEF TurnsLeft
<1> QED BY <1>1, <1>2, <1>3, <1>4, <1>5, <1>6 DEF IInv

---------------------------------------------------------------------
\* The theorems.

\* The invariant holds before the first call.
LEMMA InitInv == Init => IInv
<1> SUFFICES ASSUME Init PROVE IInv
  OBVIOUS
<1>1. input \in Seq(Byte)
  BY InputsAssumption DEF Init
<1>2. Len(input) \in Nat
  BY <1>1, LenProperties
<1>3. is \in Stream /\ is.pos = 0 /\ Good(is) /\ ~is.eof
  BY <1>2 DEF Init, Fresh, Stream, Good
<1>4. stack = <<>> /\ stack \in Seq(Frame) /\ depth = 0
  BY EmptySeq DEF Init, depth
<1>5. TypeOK
  BY <1>3, <1>4 DEF Init, TypeOK
<1>6. FailureMeansNil /\ TurnsLeft
  BY <1>3, <1>4 DEF Init, FailureMeansNil, TurnsLeft
<1>7. RecursionBounded
  BY <1>3, <1>4, MaxDepthAssumption DEF Init, RecursionBounded
<1> QED BY <1>5, <1>6, <1>7 DEF IInv

\* Every step keeps the invariant and, on a bad stream, only unwinds.
LEMMA NextStep ==
  ASSUME IInv, [Next]_vars
  PROVE  IInv' /\ (~Good(is) => is'.pos = is.pos /\ is'.eof = is.eof /\ is'.fail /\ depth' <= depth)
<1>1. depth \in Nat /\ (~Good(is) => is.fail)
  BY LenProperties DEF IInv, TypeOK, FailureMeansNil, Good, depth
<1>2. CASE TooDeep \/ NoFirstByte
  BY <1>1, <1>2, FailStep
<1>3. CASE Handler
  BY <1>3, HandlerStep
<1>4. CASE Loop
  BY <1>4, LoopStep
<1>5. CASE Return
  BY <1>1, <1>5, ReturnStep
<1>6. CASE ParseAgain
  BY <1>1, <1>6, ParseAgainStep
<1>7. CASE UNCHANGED vars
  <2>1. UNCHANGED <<input, is, stack, pc, ret, err, began>> /\ depth' = depth
    BY <1>7 DEF vars, depth
  <2>2. TypeOK' /\ FailureMeansNil' /\ RecursionBounded' /\ TurnsLeft'
    BY <2>1 DEF IInv, TypeOK, Stream, FailureMeansNil, Good, RecursionBounded, TurnsLeft
  <2> QED BY <1>1, <2>1, <2>2 DEF IInv
<1> QED BY <1>2, <1>3, <1>4, <1>5, <1>6, <1>7 DEF Next, Callee

\* The invariant holds of every behaviour of the parser.
THEOREM Invariance == Spec => []IInv
<1>1. IInv /\ [Next]_vars => IInv'
  BY NextStep
<1> QED BY InitInv, <1>1, PTL DEF Spec

\* The parser's state keeps its types: no stream position runs past the input
\* and no frame is malformed.
THEOREM TypeCorrect == Spec => []TypeOK
<1>1. IInv => TypeOK
  BY DEF IInv
<1> QED BY Invariance, <1>1, PTL

\* No loop calls parse_msgpack without a turn to count down when it is back, also
\* after a failure: the unsigned counters of the containers never wrap.
THEOREM CountersNeverWrap == Spec => []TurnsLeft
<1>1. IInv => TurnsLeft
  BY DEF IInv
<1> QED BY Invariance, <1>1, PTL

\* Whatever the input, a failed parse returns the null value and marks the stream.
THEOREM FailureReturnsNull == Spec => []FailureMeansNil
<1>1. IInv => FailureMeansNil
  BY DEF IInv
<1> QED BY Invariance, <1>1, PTL

\* Whatever the input, the recursion is no deeper than max_depth allows, nor than
\* the number of bytes consumed.
THEOREM RecursionIsBounded == Spec => []RecursionBounded
<1>1. IInv => RecursionBounded
  BY DEF IInv
<1> QED BY Invariance, <1>1, PTL

\* Whatever lengths the input declares, the loops that go on after a failure
\* consume nothing, enter nothing and leave the kind of the error alone.
THEOREM FailureOnlyUnwinds == Spec => OnlyUnwindsAfterFailure
<1>1. IInv /\ [Next]_vars =>
        [~Good(is) => is'.pos = is.pos /\ is'.eof = is.eof /\ depth' <= depth]_vars
  BY NextStep
<1> QED BY Invariance, <1>1, PTL DEF Spec, OnlyUnwindsAfterFailure

---------------------------------------------------------------------
(***************************************************************************)
(* The parser implements Contract: what the current call has done to the   *)
(* stream since it began is, once it returns, one of the contract's        *)
(* answers.                                                                *)
(***************************************************************************)

\* What the current call has done since it began.  Nothing, when the stream
\* was bad or no byte was asked for; the byte that each call takes is what
\* makes a returned call one that moved on, unless the stream ran out.
Since ==
    /\ began.is.eof => began.is.fail
    /\ pc # "done" => err = began.err
    /\ ~Good(began.is) => is = began.is
    /\ pc = "call" /\ depth = 0 => is = began.is
    /\ pc = "return" /\ Good(began.is) => is.pos > began.is.pos \/ is.eof

\* Two streams with the same position and bits are the same.
LEMMA SameStream ==
  ASSUME NEW s \in Stream, NEW t \in Stream, s.pos = t.pos, s.eof = t.eof, s.fail = t.fail
  PROVE  s = t
  BY DEF Stream

\* A read that a good stream cannot serve sets its eofbit.
LEMMA RunsOut ==
  ASSUME NEW s, NEW n, Good(s), ~Good(Consume(s, n))
  PROVE  Consume(s, n).eof
  BY DEF Consume, Good

\* A stream that was bad when the call began stays as it was.
LEMMA BadStays ==
  ASSUME IInv, Since, [Next]_vars, ~Good(began.is)
  PROVE  is' = is
<1>1. is = began.is /\ ~Good(is)
  BY DEF Since
<1>2. is.fail
  BY <1>1 DEF IInv, FailureMeansNil, Good
<1>3. IInv' /\ is'.pos = is.pos /\ is'.eof = is.eof /\ is'.fail
  BY <1>1, NextStep
<1>4. input' = input
  BY DEF Next, Callee, TooDeep, NoFirstByte, Handler, Loop, Return, ParseAgain, vars,
         ParseInvalid, ParseNil, ParseBool, ParsePosFixint, ParseNegFixint, ParseArith,
         ParseFixString, ParseString, ParseBinary, ParseFixExt, ParseExtension, Payload,
         Counted, Extension, ParseFixArray, ParseArray, ParseFixObject, ParseObject, Open,
         CallNext, ArrayDone, ObjectDone, Close, ReturnItem, ReturnKey, ReturnValue, Turn,
         ReturnToCaller, Leaf, Finish
<1>5. is \in Stream /\ is' \in Stream
  BY <1>3, <1>4 DEF IInv, TypeOK, Stream
<1>6. is'.fail = is.fail
  BY <1>2, <1>3, <1>5 DEF Stream
<1> QED BY <1>3, <1>5, <1>6, SameStream

\* What every step inside a call leaves alone.
LEMMA CalleeFrame ==
  ASSUME TooDeep \/ NoFirstByte \/ Handler \/ Loop \/ ReturnItem \/ ReturnKey \/ ReturnValue
  PROVE  /\ UNCHANGED <<input, err, began>>
         /\ pc # "done" /\ pc' # "done"
  BY DEF TooDeep, NoFirstByte, Handler, Loop, Dispatch, Entered,
         ParseInvalid, ParseNil, ParseBool, ParsePosFixint, ParseNegFixint, ParseArith,
         ParseFixString, ParseString, ParseBinary, ParseFixExt, ParseExtension, Payload,
         Counted, Extension, ParseFixArray, ParseArray, ParseFixObject, ParseObject, Open,
         CallNext, ArrayDone, ObjectDone, Close, ReturnItem, ReturnKey, ReturnValue, Turn,
         Leaf, Finish

\* A call that returns has moved on from where the stream was when it began.
LEMMA ReturnsMovedOn ==
  ASSUME IInv, Since, TooDeep \/ NoFirstByte \/ Handler \/ Loop, IInv',
         pc' = "return", Good(began.is)
  PROVE  is'.pos > began.is.pos \/ is'.eof
<1>1. /\ is.pos \in Int /\ began.is.pos \in Int /\ is'.pos \in Int
      /\ depth \in Nat /\ depth' \in Nat /\ UNCHANGED began
  BY CalleeFrame, LenProperties DEF IInv, TypeOK, Stream, depth
<1>2. depth <= is.pos - began.is.pos
  BY DEF IInv, RecursionBounded
<1>3. CASE Handler
  <2>1. is'.pos >= is.pos + 1
    BY <1>3, HandlerStep
  <2> QED BY <1>1, <1>2, <2>1
<1>4. CASE Loop
  <2>1. depth > 0 /\ is'.pos = is.pos
    <3>1. ASSUME NEW v, Close(v) PROVE is'.pos = is.pos
      BY <3>1, SetFailProperties DEF Close, Finish, IInv, TypeOK
    <3>2. pc = "loop" /\ ~CallNext
      BY <1>4 DEF Loop, CallNext, ArrayDone, ObjectDone
    <3> QED BY <1>4, <3>1, <3>2 DEF Loop, ArrayDone, ObjectDone, IInv, TypeOK
  <2> QED BY <1>1, <1>2, <2>1
<1>5. CASE TooDeep \/ NoFirstByte
  <2>1. depth' = depth /\ pc = "call"
    BY <1>5, FailStep DEF TooDeep, NoFirstByte, Entered
  <2>2. CASE depth > 0
    <3>1. depth' <= is'.pos - began'.is.pos
      BY DEF IInv, RecursionBounded
    <3> QED BY <1>1, <2>1, <2>2, <3>1
  <2>3. CASE depth = 0
    <3>1. is = began.is /\ Good(is)
      BY <2>1, <2>3 DEF Since
    <3>2. ~Good(Rest) /\ is' = SetFail(Rest)
      BY <1>5, <2>3, MaxDepthAssumption
         DEF TooDeep, NoFirstByte, DepthExceeded, Leaf, Finish
    <3>3. Rest.eof
      BY <3>1, <3>2, RunsOut DEF Rest
    <3>4. Rest \in Stream
      BY InputBytes, ConsumeProperties DEF Rest, IInv, TypeOK
    <3> QED BY <3>2, <3>3, <3>4, SetFailProperties
  <2> QED BY <1>1, <2>2, <2>3
<1> QED BY <1>3, <1>4, <1>5

\* The invariant of the current call is kept by every step.
LEMMA SinceStep ==
  ASSUME IInv, Since, [Next]_vars
  PROVE  Since'
<1>1. IInv'
  BY NextStep
<1>2. CASE TooDeep \/ NoFirstByte \/ Handler \/ Loop
  <2>1. UNCHANGED <<err, began>> /\ pc # "done" /\ pc' # "done"
    BY <1>2, CalleeFrame
  <2>2. ~Good(began.is) => is' = is
    BY BadStays
  <2>3. ~(pc' = "call" /\ depth' = 0)
    BY <1>2 DEF TooDeep, NoFirstByte, Handler, Loop, depth,
         ParseInvalid, ParseNil, ParseBool, ParsePosFixint, ParseNegFixint, ParseArith,
         ParseFixString, ParseString, ParseBinary, ParseFixExt, ParseExtension, Payload,
         Counted, Extension, ParseFixArray, ParseArray, ParseFixObject, ParseObject, Open,
         CallNext, ArrayDone, ObjectDone, Close, Leaf, Finish, IInv, TypeOK
  <2>4. pc' = "return" /\ Good(began.is) => is'.pos > began.is.pos \/ is'.eof
    BY <1>1, <1>2, ReturnsMovedOn
  <2> QED BY <2>1, <2>2, <2>3, <2>4 DEF Since, Good
<1>3. CASE ReturnItem \/ ReturnKey \/ ReturnValue
  <2>1. /\ UNCHANGED <<is, err, began>> /\ pc' \in {"loop", "call"} /\ pc = "return"
        /\ depth > 0
    BY <1>3 DEF ReturnItem, ReturnKey, ReturnValue, Turn, InLoop
  <2>2. depth' = depth
    BY <1>3, ReturnStep DEF Return
  <2> QED BY <2>1, <2>2 DEF Since, Good
<1>4. CASE ReturnToCaller
  <2>1. UNCHANGED <<is, began>> /\ pc' = "done"
    BY <1>4 DEF ReturnToCaller
  <2> QED BY <2>1 DEF Since, Good
<1>5. CASE ParseAgain
  <2>1. /\ UNCHANGED <<is, err>> /\ pc' = "call"
        /\ began'.is = is /\ began'.err = err
    BY <1>5 DEF ParseAgain
  <2>2. is.eof => is.fail
    BY DEF IInv, FailureMeansNil
  <2> QED BY <2>1, <2>2 DEF Since, Good
<1>6. CASE UNCHANGED vars
  BY <1>6 DEF Since, Good, vars, depth
<1> QED BY <1>2, <1>3, <1>4, <1>5, <1>6 DEF Next, Callee, Return

---------------------------------------------------------------------
\* The refinement.

\* The last step of a call is one of the contract's answers.
LEMMA ReturnIsAnswer ==
  ASSUME IInv, Since, ReturnToCaller
  PROVE  Promise!Next
<1>1. /\ pc = "return" /\ pc' = "done" /\ depth = 0
      /\ err' = IF is.eof THEN EndOfBuffer ELSE IF is.fail THEN FormatError ELSE err
      /\ UNCHANGED <<input, is, stack, built, ret, began>>
  BY DEF ReturnToCaller
<1>2. /\ is \in Stream /\ began.is \in Stream /\ (is.eof => is.fail)
      /\ Len(input) \in Nat
      /\ (~Good(is) => ret = Nil) /\ err = began.err
      /\ (began.is.eof => began.is.fail)
      /\ began.is.pos \in Int /\ is.pos \in 0..Len(input)
  <2>1. Len(input) \in Nat
    BY InputBytes, LenProperties
  <2> QED BY <1>1, <2>1 DEF IInv, TypeOK, FailureMeansNil, Since, Stream
<1>3. Promise!Answer
  BY <1>1 DEF Promise!Answer
<1>4. CASE began.is.fail
  <2>1. is = began.is /\ ~Good(is)
    BY <1>4 DEF Since, Good
  <2> QED BY <1>1, <1>2, <1>3, <1>4, <2>1 DEF Promise!Next, Promise!Refuse
<1>5. CASE ~began.is.fail /\ is.eof
  <2>1. is = [pos |-> Len(input), eof |-> TRUE, fail |-> TRUE] /\ ~Good(is)
    BY <1>2, <1>5 DEF Stream, Good
  <2> QED BY <1>1, <1>2, <1>3, <1>5, <2>1 DEF Promise!Next, Promise!RunOut
<1>6. CASE ~began.is.fail /\ ~is.eof
  <2>1. Good(began.is) /\ is.pos \in (began.is.pos + 1)..Len(input)
    <3>1. Good(began.is) /\ is.pos > began.is.pos
      BY <1>1, <1>2, <1>6 DEF Since, Good
    <3> QED BY <1>2, <3>1
  <2>2. CASE is.fail
    <3>1. is = [pos |-> is.pos, eof |-> FALSE, fail |-> TRUE] /\ ~Good(is)
      BY <1>2, <1>6, <2>2 DEF Stream, Good
    <3> QED BY <1>1, <1>2, <1>3, <1>6, <2>1, <2>2, <3>1 DEF Promise!Next, Promise!Reject
  <2>3. CASE ~is.fail
    <3>1. is = [began.is EXCEPT !.pos = is.pos]
      BY <1>2, <1>6, <2>1, <2>3 DEF Stream, Good
    <3> QED BY <1>1, <1>2, <1>3, <1>6, <2>1, <2>3, <3>1 DEF Promise!Next, Promise!Succeed
  <2> QED BY <2>2, <2>3
<1> QED BY <1>4, <1>5, <1>6

\* Every other step of the parser is the contract's next call, or does not show.
LEMMA StepRefines ==
  ASSUME IInv, Since, [Next]_vars
  PROVE  [Promise!Next]_(Promise!cvars)
<1>1. CASE TooDeep \/ NoFirstByte \/ Handler \/ Loop \/ ReturnItem \/ ReturnKey \/ ReturnValue
  BY <1>1, CalleeFrame DEF Promise!cvars
<1>2. CASE ReturnToCaller
  BY <1>2, ReturnIsAnswer
<1>3. CASE ParseAgain
  BY <1>3 DEF ParseAgain, Promise!Next, Promise!Call
<1>4. CASE UNCHANGED vars
  BY <1>4 DEF vars, Promise!cvars
<1> QED BY <1>1, <1>2, <1>3, <1>4 DEF Next, Callee, Return

LEMMA SinceInvariance == Spec => []Since
<1>1. Init => Since
  BY EmptySeq DEF Init, Since, Fresh, Good, depth
<1>2. IInv /\ Since /\ [Next]_vars => Since'
  BY SinceStep
<1> QED BY <1>1, <1>2, Invariance, PTL DEF Spec

\* Seen from outside, parse does what msgpack11.hpp promises of it: each call is
\* answered by a value and an untouched err, or by a null value with the
\* failbit and the error of the first thing that went wrong.
THEOREM ParserImplementsContract == Spec => ImplementsContract
<1>1. Init => IInv /\ Since /\ Promise!Init
  <2>1. Init => IInv
    BY InitInv
  <2>2. Init => Since
    BY EmptySeq DEF Init, Since, Fresh, Good
  <2>3. Init => Promise!Init
    BY DEF Init, Promise!Init, Fresh
  <2> QED BY <2>1, <2>2, <2>3
<1>2. IInv /\ Since /\ [Next]_vars => IInv' /\ Since' /\ [Promise!Next]_(Promise!cvars)
  BY NextStep, SinceStep, StepRefines
<1> QED BY <1>1, <1>2, PTL DEF Spec, ImplementsContract, Promise!Spec

---------------------------------------------------------------------
\* The members of an object that is being read stay in order.  "built" is parallel
\* to "stack".  What the values in it are does not matter: they belong to some set
\* V, which has the next value as well after the next step.

\* What a loop may have gathered, of values in V.
Gathered(V) == [items : Seq(V), keys : Seq(V), key : V]

InOrder(keys) == \A i \in 1..(Len(keys) - 1) : Less(keys[i], keys[i + 1])

Typed(V) == ret \in V /\ built \in Seq(Gathered(V))

\* The frame of a loop over members has a key for every mapped value, in order,
\* and that of a loop over items has no keys.
Fits(b, at) ==
    /\ InOrder(b.keys)
    /\ IF at = "item" THEN b.keys = <<>> ELSE Len(b.items) = Len(b.keys)

Paired == Len(built) = depth /\ \A n \in 1..depth : Fits(built[n], stack[n].at)

MembersInv == Paired /\ \E V : Typed(V)
---------------------------------------------------------------------
\* Sequences.

LEMMA SeqWider ==
    ASSUME NEW V, NEW W, V \subseteq W
    PROVE  Seq(Gathered(V)) \subseteq Seq(Gathered(W))
<1>1. Seq(V) \subseteq Seq(W)
      BY SeqMonotonic
<1>2. Gathered(V) \subseteq Gathered(W)
      BY <1>1 DEF Gathered
<1>3. QED BY <1>2, SeqMonotonic

LEMMA InsertAtParts ==
    ASSUME NEW s, NEW q, NEW v
    PROVE  InsertAt(s, q, v) = (SubSeq(s, 1, q - 1) \o <<v>>) \o SubSeq(s, q, Len(s))
BY DEF InsertAt

\* t is s with v behind the p-th one.
WithBehind(t, s, p, v) ==
    /\ Len(t) = Len(s) + 1
    /\ \A i \in 1..(Len(s) + 1) :
          t[i] = IF i <= p THEN s[i] ELSE IF i = p + 1 THEN v ELSE s[i - 1]

LEMMA Inserted ==
    ASSUME NEW V, NEW s \in Seq(V), NEW v \in V, NEW p \in 0..Len(s)
    PROVE  /\ InsertAt(s, p + 1, v) \in Seq(V)
           /\ WithBehind(InsertAt(s, p + 1, v), s, p, v)
<1> DEFINE n == Len(s)
           L == SubSeq(s, 1, p)
           R == SubSeq(s, p + 1, n)
<1>1. n \in Nat /\ p \in Nat /\ p <= n /\ p \in Int /\ n \in Int /\ p + 1 \in Int
      BY LenProperties
<1>2. \A i \in 1..n : s[i] \in V
      BY ElementOfSeq
<1>3. /\ L \in Seq(V) /\ Len(L) = p
      /\ \A i \in 1..p : L[i] = s[i]
      <2>1. \A i \in 1..p : s[i] \in V
            BY <1>1, <1>2
      <2>2. /\ L \in Seq(V)
            /\ Len(L) = IF 1 <= p THEN p - 1 + 1 ELSE 0
            /\ \A i \in 1..(p - 1 + 1) : L[i] = s[1 + i - 1]
            BY <1>1, <2>1, SubSeqProperties
      <2>3. QED BY <1>1, <2>2
<1>4. /\ R \in Seq(V) /\ Len(R) = n - p
      /\ \A i \in 1..(n - p) : R[i] = s[p + i]
      <2>1. \A i \in (p + 1)..n : s[i] \in V
            BY <1>1, <1>2
      <2>2. /\ R \in Seq(V)
            /\ Len(R) = IF p + 1 <= n THEN n - (p + 1) + 1 ELSE 0
            /\ \A i \in 1..(n - (p + 1) + 1) : R[i] = s[p + 1 + i - 1]
            BY <1>1, <2>1, SubSeqProperties
      <2>3. QED BY <1>1, <2>2
<1>5. <<v>> \in Seq(V) /\ Len(<<v>>) = 1 /\ <<v>>[1] = v
      OBVIOUS
<1>6. /\ L \o <<v>> \in Seq(V) /\ Len(L \o <<v>>) = p + 1
      /\ \A i \in 1..(p + 1) : (L \o <<v>>)[i] = IF i <= p THEN s[i] ELSE v
      <2>1. /\ L \o <<v>> \in Seq(V) /\ Len(L \o <<v>>) = Len(L) + Len(<<v>>)
            /\ \A i \in 1..(Len(L) + Len(<<v>>)) :
                  (L \o <<v>>)[i] = IF i <= Len(L) THEN L[i] ELSE <<v>>[i - Len(L)]
            BY <1>3, <1>5, ConcatProperties
      <2>2. QED BY <1>1, <1>3, <1>5, <2>1
<1> HIDE DEF L, R
<1>7. LET C == (L \o <<v>>) \o R IN
      /\ C \in Seq(V) /\ Len(C) = n + 1
      /\ \A i \in 1..(n + 1) : C[i] = IF i <= p + 1 THEN (L \o <<v>>)[i] ELSE R[i - (p + 1)]
      <2> DEFINE A == L \o <<v>>
      <2>1. A \in Seq(V) /\ Len(A) = p + 1
            BY <1>6
      <2> HIDE DEF A
      <2>2. /\ A \o R \in Seq(V) /\ Len(A \o R) = Len(A) + Len(R)
            /\ \A i \in 1..(Len(A) + Len(R)) :
                  (A \o R)[i] = IF i <= Len(A) THEN A[i] ELSE R[i - Len(A)]
            BY <2>1, <1>4, ConcatProperties
      <2>3. Len(A) + Len(R) = n + 1
            BY <1>1, <1>4, <2>1
      <2>4. /\ A \o R \in Seq(V) /\ Len(A \o R) = n + 1
            /\ \A i \in 1..(n + 1) : (A \o R)[i] = IF i <= p + 1 THEN A[i] ELSE R[i - (p + 1)]
            BY <2>1, <2>2, <2>3
      <2>5. QED BY <2>4 DEF A
<1>8. InsertAt(s, p + 1, v) = (L \o <<v>>) \o R
      <2>1. (p + 1) - 1 = p
            BY <1>1
      <2>2. SubSeq(s, 1, (p + 1) - 1) = L /\ SubSeq(s, p + 1, Len(s)) = R
            BY <2>1 DEF L, R
      <2>3. InsertAt(s, p + 1, v) = (SubSeq(s, 1, (p + 1) - 1) \o <<v>>) \o SubSeq(s, p + 1, Len(s))
            BY InsertAtParts
      <2>4. QED BY <2>2, <2>3
<1>9. QED
      <2>1. ASSUME NEW i \in 1..(n + 1)
            PROVE  InsertAt(s, p + 1, v)[i] =
                      IF i <= p THEN s[i] ELSE IF i = p + 1 THEN v ELSE s[i - 1]
            <3>1. CASE i <= p + 1
                  BY <1>1, <1>6, <1>7, <1>8, <2>1, <3>1
            <3>2. CASE i > p + 1
                  <4>1. i - (p + 1) \in 1..(n - p) /\ p + (i - (p + 1)) = i - 1
                        BY <1>1, <2>1, <3>2
                  <4>2. ((L \o <<v>>) \o R)[i] = R[i - (p + 1)]
                        BY <1>1, <1>7, <2>1, <3>2
                  <4>3. R[i - (p + 1)] = s[i - 1]
                        BY <1>4, <4>1
                  <4>4. InsertAt(s, p + 1, v)[i] = s[i - 1]
                        BY <1>8, <4>2, <4>3
                  <4>5. QED BY <1>1, <2>1, <3>2, <4>4
            <3>3. QED BY <1>1, <2>1, <3>1, <3>2
      <2>2. QED BY <1>7, <1>8, <2>1 DEF WithBehind

---------------------------------------------------------------------
\* What a step may do to the frames.

LEMMA Frames ==
    ASSUME IInv, NEW V, Typed(V), Paired
    PROVE  /\ stack \in Seq(Frame) /\ built \in Seq(Gathered(V))
           /\ depth \in Nat /\ Len(stack) = depth /\ Len(built) = depth
           /\ \A n \in 1..depth : built[n] \in Gathered(V)
<1>1. stack \in Seq(Frame) /\ built \in Seq(Gathered(V)) /\ Len(stack) = depth
      BY DEF IInv, TypeOK, Typed, depth
<1>2. Len(stack) \in Nat
      BY <1>1, LenProperties
<1>3. \A n \in 1..Len(built) : built[n] \in Gathered(V)
      BY <1>1, ElementOfSeq
<1>4. QED BY <1>1, <1>2, <1>3 DEF Paired

\* No frame changes; the value that is returned may.
LEMMA SameFrames ==
    ASSUME IInv, MembersInv, UNCHANGED <<stack, built>>
    PROVE  MembersInv'
<1>1. PICK V : Typed(V)
      BY DEF MembersInv
<1>w. PICK W : W = V \union {ret'}
      OBVIOUS
<1>2. Seq(Gathered(V)) \subseteq Seq(Gathered(W))
      BY <1>w, SeqWider
<1>3. Typed(W)'
      BY <1>w, <1>1, <1>2 DEF Typed
<1>4. Paired'
      BY DEF MembersInv, Paired, depth
<1>5. QED BY <1>3, <1>4 DEF MembersInv

\* A loop begins: it has gathered nothing.
LEMMA NewFrame ==
    ASSUME IInv, MembersInv, NEW at \in {"item", "key"}, NEW s, NEW n, Open(at, s, n)
    PROVE  MembersInv'
<1> DEFINE f == [at |-> at, left |-> n]
           b == [items |-> <<>>, keys |-> <<>>, key |-> Nil]
<1>1. stack' = Append(stack, f) /\ built' = Append(built, b) /\ ret' = ret
      BY DEF Open
<1>2. PICK V : Typed(V)
      BY DEF MembersInv
<1> DEFINE W == V \union {Nil}
<1>3. Seq(Gathered(V)) \subseteq Seq(Gathered(W)) /\ b \in Gathered(W)
      <2>1. <<>> \in Seq(W)
            BY EmptySeq
      <2>2. QED BY <2>1, SeqWider DEF Gathered
<1>4. /\ stack \in Seq(Frame) /\ built \in Seq(Gathered(V))
      /\ depth \in Nat /\ Len(stack) = depth /\ Len(built) = depth
      BY <1>2, Frames DEF MembersInv
<1>5. stack \in Seq(Frame \union {f}) /\ built \in Seq(Gathered(W))
      BY <1>3, <1>4, SeqMonotonic
<1> HIDE DEF b, f, W
<1>6. /\ Len(stack') = depth + 1 /\ stack'[depth + 1] = f
      /\ \A i \in 1..depth : stack'[i] = stack[i]
      BY <1>1, <1>4, <1>5, AppendProperties DEF f
<1>7. /\ built' \in Seq(Gathered(W)) /\ Len(built') = depth + 1 /\ built'[depth + 1] = b
      /\ \A i \in 1..depth : built'[i] = built[i]
      BY <1>1, <1>3, <1>4, <1>5, AppendProperties
<1>8. Fits(b, f.at)
      BY DEF Fits, InOrder, b, f
<1>9. depth' = depth + 1
      BY <1>6 DEF depth
<1>10. \A m \in 1..(depth + 1) : Fits(built'[m], stack'[m].at)
      <2>1. \A m \in 1..depth : Fits(built[m], stack[m].at)
            BY DEF MembersInv, Paired
      <2>2. QED BY <1>4, <1>6, <1>7, <1>8, <2>1
<1>11. Paired'
      BY <1>7, <1>9, <1>10 DEF Paired, Fits, InOrder
<1>12. Typed(W)'
      BY <1>1, <1>2, <1>7 DEF Typed, W
<1>13. QED BY <1>11, <1>12 DEF MembersInv

\* The innermost loop is over.
LEMMA FrameGone ==
    ASSUME IInv, MembersInv, pc = "loop", NEW v, Close(v)
    PROVE  MembersInv'
<1>1. stack' = Front(stack) /\ built' = Front(built)
      BY DEF Close
<1>2. PICK V : Typed(V)
      BY DEF MembersInv
<1>w. PICK W : W = V \union {ret'}
      OBVIOUS
<1>3. /\ stack \in Seq(Frame) /\ built \in Seq(Gathered(V))
      /\ depth \in Nat /\ depth > 0 /\ Len(stack) = depth /\ Len(built) = depth
      BY <1>2, Frames DEF MembersInv, IInv, TypeOK
<1>4. ASSUME NEW S, NEW s \in Seq(S), Len(s) = depth
      PROVE  /\ Front(s) \in Seq(S) /\ Len(Front(s)) = depth - 1
             /\ \A i \in 1..(depth - 1) : Front(s)[i] = s[i]
      <2>1. \A i \in 1..(depth - 1) : s[i] \in S
            BY <1>3, <1>4, ElementOfSeq
      <2>2. /\ SubSeq(s, 1, depth - 1) \in Seq(S)
            /\ Len(SubSeq(s, 1, depth - 1)) = IF 1 <= depth - 1 THEN (depth - 1) - 1 + 1 ELSE 0
            /\ \A i \in 1..((depth - 1) - 1 + 1) :
                  SubSeq(s, 1, depth - 1)[i] = s[1 + i - 1]
            <3> DEFINE n == depth - 1
            <3>1. n \in Int /\ 1 \in Int
                  BY <1>3
            <3>2. \A i \in 1..n : s[i] \in S
                  BY <2>1
            <3> HIDE DEF n
            <3>3. /\ SubSeq(s, 1, n) \in Seq(S)
                  /\ Len(SubSeq(s, 1, n)) = IF 1 <= n THEN n - 1 + 1 ELSE 0
                  /\ \A i \in 1..(n - 1 + 1) : SubSeq(s, 1, n)[i] = s[1 + i - 1]
                  BY <3>1, <3>2, SubSeqProperties
            <3>4. QED BY <3>3 DEF n
      <2>3. Front(s) = SubSeq(s, 1, depth - 1)
            BY <1>4 DEF Front
      <2>4. QED BY <1>3, <2>2, <2>3
<1>5. /\ Len(stack') = depth - 1
      /\ \A i \in 1..(depth - 1) : stack'[i] = stack[i]
      BY <1>1, <1>3, <1>4
<1>6. /\ built' \in Seq(Gathered(V)) /\ Len(built') = depth - 1
      /\ \A i \in 1..(depth - 1) : built'[i] = built[i]
      BY <1>1, <1>3, <1>4
<1>7. depth' = depth - 1
      BY <1>5 DEF depth
<1>8. \A m \in 1..(depth - 1) : Fits(built'[m], stack'[m].at)
      <2>1. \A m \in 1..depth : Fits(built[m], stack[m].at)
            BY DEF MembersInv, Paired
      <2>2. QED BY <1>3, <1>5, <1>6, <2>1
<1>9. Paired'
      BY <1>6, <1>7, <1>8 DEF Paired, Fits, InOrder
<1>10. Typed(W)'
      <2>1. Seq(Gathered(V)) \subseteq Seq(Gathered(W))
            BY <1>w, SeqWider
      <2>2. QED BY <1>w, <1>6, <2>1 DEF Typed
<1>11. QED BY <1>9, <1>10 DEF MembersInv

\* The innermost frame changes: what it has gathered to b, what it is at to "at".
LEMMA TopFrame ==
    ASSUME IInv, MembersInv, depth > 0, NEW V, Typed(V), NEW b \in Gathered(V), NEW f,
           built' = [built EXCEPT ![depth] = b], stack' = [stack EXCEPT ![depth] = f],
           ret' = ret, Fits(b, f.at)
    PROVE  MembersInv'
<1>1. /\ stack \in Seq(Frame) /\ built \in Seq(Gathered(V))
      /\ depth \in Nat /\ Len(stack) = depth /\ Len(built) = depth
      BY Frames DEF MembersInv
<1>2. depth \in 1..Len(stack) /\ depth \in 1..Len(built)
      BY <1>1
<1>3. stack \in Seq(Frame \union {f})
      BY <1>1, SeqMonotonic
<1>4. /\ Len(stack') = depth /\ stack'[depth] = f
      /\ \A i \in 1..depth : i # depth => stack'[i] = stack[i]
      BY <1>1, <1>2, <1>3, ExceptSeq
<1>5. /\ built' \in Seq(Gathered(V)) /\ Len(built') = depth /\ built'[depth] = b
      /\ \A i \in 1..depth : i # depth => built'[i] = built[i]
      BY <1>1, <1>2, ExceptSeq
<1>6. depth' = depth
      BY <1>4 DEF depth
<1>7. \A m \in 1..depth : Fits(built'[m], stack'[m].at)
      <2>1. \A m \in 1..depth : Fits(built[m], stack[m].at)
            BY DEF MembersInv, Paired
      <2>2. QED BY <1>4, <1>5, <2>1
<1>8. Paired'
      BY <1>5, <1>6, <1>7 DEF Paired, Fits, InOrder
<1>9. Typed(V)'
      BY <1>5 DEF Typed
<1>10. QED BY <1>8, <1>9 DEF MembersInv
---------------------------------------------------------------------
\* The actions that change the innermost frame.

LEMMA ReturnItemKeeps ==
    ASSUME IInv, MembersInv, ReturnItem
    PROVE  MembersInv'
<1>1. PICK V : Typed(V)
      BY DEF MembersInv
<1> DEFINE b == [built[depth] EXCEPT !.items = Append(built[depth].items, ret)]
           f == [at |-> "item", left |-> stack[depth].left - 1]
<1>2. depth > 0 /\ stack[depth].at = "item" /\ depth \in 1..depth /\ built[depth] \in Gathered(V)
      BY <1>1, Frames DEF ReturnItem, InLoop, MembersInv
<1>3. /\ built' = [built EXCEPT ![depth] = b] /\ stack' = [stack EXCEPT ![depth] = f]
      /\ ret' = ret
      BY DEF ReturnItem, Turn
<1>4. b \in Gathered(V) /\ b.keys = built[depth].keys
      <2>1. Append(built[depth].items, ret) \in Seq(V)
            BY <1>1, <1>2, AppendProperties DEF Typed, Gathered
      <2>2. QED BY <1>2, <2>1 DEF Gathered
<1>5. Fits(b, f.at)
      BY <1>2, <1>4 DEF MembersInv, Paired, Fits
<1> HIDE DEF b, f
<1>6. QED BY <1>1, <1>2, <1>3, <1>4, <1>5, TopFrame

LEMMA ReturnKeyKeeps ==
    ASSUME IInv, MembersInv, ReturnKey
    PROVE  MembersInv'
<1>1. PICK V : Typed(V)
      BY DEF MembersInv
<1> DEFINE b == [built[depth] EXCEPT !.key = ret]
           f == [stack[depth] EXCEPT !.at = "value"]
<1>2. /\ depth > 0 /\ stack[depth].at = "key" /\ depth \in 1..depth
      /\ built[depth] \in Gathered(V) /\ stack[depth] \in Frame
      <2>1. depth > 0 /\ depth \in Nat /\ stack \in Seq(Frame) /\ Len(stack) = depth
            BY <1>1, Frames DEF ReturnKey, InLoop, MembersInv
      <2>2. stack[depth] \in Frame
            BY <2>1, ElementOfSeq
      <2>3. QED BY <1>1, <2>1, <2>2, Frames DEF ReturnKey, InLoop, MembersInv
<1>3. /\ built' = [built EXCEPT ![depth] = b] /\ stack' = [stack EXCEPT ![depth] = f]
      /\ ret' = ret
      BY DEF ReturnKey
<1>4. b \in Gathered(V) /\ b.keys = built[depth].keys /\ b.items = built[depth].items
      BY <1>1, <1>2 DEF Typed, Gathered
<1>5. Fits(b, f.at)
      <2>1. f.at = "value"
            BY <1>2 DEF Frame
      <2>2. QED BY <1>2, <1>4, <2>1 DEF MembersInv, Paired, Fits
<1> HIDE DEF b, f
<1>6. QED BY <1>1, <1>2, <1>3, <1>4, <1>5, TopFrame

\* Where the search for a key ends, the key fits between its neighbours.
LEMMA InsertKeepsOrder ==
    ASSUME NEW V, NEW b \in Gathered(V), InOrder(b.keys), Len(b.items) = Len(b.keys),
           NEW v \in V, NEW p \in 0..Len(b.keys), Ends(b.keys, b.key, p)
    PROVE  /\ Insert(b, p, v) \in Gathered(V)
           /\ InOrder(Insert(b, p, v).keys)
           /\ Len(Insert(b, p, v).items) = Len(Insert(b, p, v).keys)
<1> DEFINE keys == InsertAt(b.keys, p + 1, b.key)
           items == InsertAt(b.items, p + 1, v)
           n == Len(b.keys)
<1>1. b.keys \in Seq(V) /\ b.items \in Seq(V) /\ b.key \in V /\ p \in 0..Len(b.items)
      /\ n \in Nat
      BY LenProperties DEF Gathered
<1>i. ASSUME NEW s \in Seq(V), NEW w \in V, Len(s) = n
      PROVE  InsertAt(s, p + 1, w) \in Seq(V) /\ WithBehind(InsertAt(s, p + 1, w), s, p, w)
      <2>1. p \in 0..Len(s)
            BY <1>1, <1>i
      <2>2. QED BY <1>i, <2>1, Inserted
<1>2. /\ keys \in Seq(V) /\ Len(keys) = n + 1
      /\ \A i \in 1..(n + 1) : keys[i] =
            IF i <= p THEN b.keys[i] ELSE IF i = p + 1 THEN b.key ELSE b.keys[i - 1]
      <2> HIDE DEF n
      <2>1. Len(b.keys) = n
            BY DEF n
      <2>2. keys \in Seq(V) /\ WithBehind(keys, b.keys, p, b.key)
            BY <1>1, <1>i, <2>1
      <2> HIDE DEF keys
      <2>3. QED BY <2>1, <2>2 DEF WithBehind
<1>3. items \in Seq(V) /\ Len(items) = n + 1
      <2> HIDE DEF n
      <2>1. Len(b.items) = n
            BY DEF n
      <2>2. QED BY <1>1, <1>i, <2>1 DEF WithBehind
<1> HIDE DEF keys, items
<1>4. CASE ~(p = 0 \/ Less(b.keys[p], b.key))
      BY <1>4 DEF Insert
<1>5. CASE p = 0 \/ Less(b.keys[p], b.key)
      <2>1. /\ Insert(b, p, v) \in Gathered(V)
            /\ Insert(b, p, v).keys = keys /\ Insert(b, p, v).items = items
            BY <1>1, <1>2, <1>3, <1>5 DEF Insert, Gathered, keys, items
      <2>2. ASSUME NEW i \in 1..n
            PROVE  Less(keys[i], keys[i + 1])
            <3>1. CASE i < p
                  <4>1. keys[i] = b.keys[i] /\ keys[i + 1] = b.keys[i + 1] /\ i \in 1..(n - 1)
                        BY <1>1, <1>2, <2>2, <3>1
                  <4>2. QED BY <4>1 DEF InOrder
            <3>2. CASE i = p
                  <4>1. keys[i] = b.keys[p] /\ keys[i + 1] = b.key /\ p # 0
                        BY <1>1, <1>2, <2>2, <3>2
                  <4>2. QED BY <1>5, <4>1
            <3>3. CASE i = p + 1
                  <4>1. keys[i] = b.key /\ keys[i + 1] = b.keys[p + 1] /\ p < n
                        BY <1>1, <1>2, <2>2, <3>3
                  <4>2. QED BY <4>1 DEF Ends
            <3>4. CASE i > p + 1
                  <4> DEFINE j == i - 1
                  <4>1. /\ i \in 1..(n + 1) /\ ~(i <= p) /\ i # p + 1
                        /\ i + 1 \in 1..(n + 1) /\ ~(i + 1 <= p) /\ i + 1 # p + 1
                        /\ (i + 1) - 1 = j + 1 /\ j \in 1..(n - 1)
                        BY <1>1, <2>2, <3>4
                  <4>2. keys[i] = b.keys[j]
                        BY <1>2, <4>1
                  <4>3. keys[i + 1] = b.keys[(i + 1) - 1]
                        BY <1>2, <4>1
                  <4> HIDE DEF j
                  <4>4. Less(b.keys[j], b.keys[j + 1])
                        BY <4>1 DEF InOrder
                  <4>5. QED BY <4>1, <4>2, <4>3, <4>4
            <3>5. QED BY <1>1, <2>2, <3>1, <3>2, <3>3, <3>4
      <2>3. QED BY <1>1, <1>2, <1>3, <2>1, <2>2 DEF InOrder
<1>6. QED BY <1>4, <1>5

LEMMA ReturnValueKeeps ==
    ASSUME IInv, MembersInv, ReturnValue
    PROVE  MembersInv'
<1>1. PICK V : Typed(V)
      BY DEF MembersInv
<1>2. PICK p \in 0..Len(built[depth].keys) :
         /\ Ends(built[depth].keys, built[depth].key, p)
         /\ built' = [built EXCEPT ![depth] = Insert(@, p, ret)]
      BY DEF ReturnValue
<1> DEFINE b == Insert(built[depth], p, ret)
           f == [at |-> "key", left |-> stack[depth].left - 1]
<1>3. depth > 0 /\ stack[depth].at = "value" /\ depth \in 1..depth /\ built[depth] \in Gathered(V)
      BY <1>1, Frames DEF ReturnValue, InLoop, MembersInv
<1>4. /\ built' = [built EXCEPT ![depth] = b] /\ stack' = [stack EXCEPT ![depth] = f]
      /\ ret' = ret
      BY <1>2 DEF ReturnValue, Turn
<1>5. InOrder(built[depth].keys) /\ Len(built[depth].items) = Len(built[depth].keys)
      BY <1>3 DEF MembersInv, Paired, Fits
<1>6. b \in Gathered(V) /\ InOrder(b.keys) /\ Len(b.items) = Len(b.keys)
      BY <1>1, <1>2, <1>3, <1>5, InsertKeepsOrder DEF Typed
<1>7. Fits(b, f.at)
      BY <1>6 DEF Fits
<1> HIDE DEF b, f
<1>8. QED BY <1>1, <1>3, <1>4, <1>6, <1>7, TopFrame
---------------------------------------------------------------------

LEMMA HandlerKeeps ==
    ASSUME IInv, MembersInv, Handler
    PROVE  MembersInv'
<1>1. CASE \/ ParseInvalid \/ ParseNil \/ ParseBool \/ ParsePosFixint \/ ParseNegFixint
           \/ ParseArith \/ ParseFixString \/ ParseString \/ ParseBinary
           \/ ParseFixExt \/ ParseExtension
      <2>1. UNCHANGED <<stack, built>>
            BY <1>1 DEF ParseInvalid, ParseNil, ParseBool, ParsePosFixint, ParseNegFixint, ParseArith,
               ParseFixString, ParseString, ParseBinary, Counted, Payload, ParseFixExt,
               ParseExtension, Extension, Leaf
      <2>2. QED BY <2>1, SameFrames
<1>2. CASE ParseFixArray \/ ParseFixObject \/ ParseArray \/ ParseObject
      BY <1>2, NewFrame DEF ParseFixArray, ParseFixObject, ParseArray, ParseObject
<1>3. QED BY <1>1, <1>2 DEF Handler

\* Before the first call there are no frames,
LEMMA NoMembers == ASSUME stack = <<>>, built = <<>> PROVE MembersInv
<1>1. depth = 0 /\ Len(built) = 0
      BY EmptySeq DEF depth
<1>2. Typed({ret})
      BY EmptySeq DEF Typed
<1>3. QED BY <1>1, <1>2 DEF MembersInv, Paired

\* and every step keeps them in order.
LEMMA MembersStep ==
    ASSUME IInv, MembersInv, [Next]_vars
    PROVE  MembersInv'
<1>1. CASE UNCHANGED vars \/ TooDeep \/ NoFirstByte \/ CallNext \/ ReturnToCaller \/ ParseAgain
      <2>1. UNCHANGED <<stack, built>>
            BY <1>1 DEF vars, TooDeep, NoFirstByte, Leaf, CallNext, ReturnToCaller, ParseAgain
      <2>2. QED BY <2>1, SameFrames
<1>2. CASE Handler
      BY <1>2, HandlerKeeps
<1>3. CASE ArrayDone \/ ObjectDone
      BY <1>3, FrameGone DEF ArrayDone, ObjectDone
<1>4. CASE ReturnItem \/ ReturnKey \/ ReturnValue
      BY <1>4, ReturnItemKeeps, ReturnKeyKeeps, ReturnValueKeeps
<1>5. QED BY <1>1, <1>2, <1>3, <1>4 DEF Next, Callee, Loop, Return

LEMMA MembersInvariance == Spec => []MembersInv
<1>1. Init => MembersInv
      BY NoMembers DEF Init
<1>2. IInv /\ MembersInv /\ [Next]_vars => MembersInv'
      BY MembersStep
<1>3. QED BY <1>1, <1>2, Invariance, PTL DEF Spec

\* Whatever the input and the order of the keys: every object that is being read
\* has each key less than the next one and a mapped value for each.
THEOREM MembersStayOrdered == Spec => []MembersOrdered
<1>1. IInv /\ MembersInv => MembersOrdered
      <2>1. SUFFICES ASSUME IInv, MembersInv PROVE MembersOrdered
            OBVIOUS
      <2>2. \A n \in 1..depth : Fits(built[n], stack[n].at)
            BY <2>1 DEF MembersInv, Paired
      <2>3. QED BY <2>2 DEF MembersOrdered, Fits, InOrder
<1>2. QED BY <1>1, Invariance, MembersInvariance, PTL
=====================================================================
