------------------------ MODULE EncodeProofs ------------------------
(***************************************************************************)
(* What dump writes is what parse_msgpack reads, for every value and every *)
(* length that 32 bits can hold: the headers, the values that hold no      *)
(* others, then containers, by induction on how deep they are nested.      *)
(* RoundTrip's run sends values whose lengths and numbers are next to the  *)
(* steps of the ladders.                                                   *)
(***************************************************************************)
EXTENDS RoundTrip, MatchProofs

Shorts == {n \in Nat : n < 65536}

\* What parse_msgpack makes of the header h: its first byte is dispatched to "fix",
\* which finds n in it, or to "counted", which reads n as its template argument.
Counts(h, n, counted) ==
    /\ parsers[h[1]].parser = counted
    /\ parsers[h[1]].T \in LengthTypes
    /\ Len(h) = 1 + SizeOf[parsers[h[1]].T]
    /\ BigEndian(SubSeq(h, 2, Len(h))) = n

Fixes(h, n, fix, room) ==
    /\ parsers[h[1]].parser = fix
    /\ Len(h) = 1
    /\ h[1] % room = n

---------------------------------------------------------------------
\* The table.

Upto(k) == parser_template[k].upto

LEMMA Steps ==
    /\ Upto(1) = 127 /\ Upto(2) = 143 /\ Upto(3) = 159 /\ Upto(4) = 191
    /\ Upto(5) = 192 /\ Upto(6) = 193 /\ Upto(7) = 195 /\ Upto(8) = 196
    /\ Upto(9) = 197 /\ Upto(10) = 198 /\ Upto(11) = 199 /\ Upto(12) = 200
    /\ Upto(13) = 201 /\ Upto(14) = 202 /\ Upto(15) = 203 /\ Upto(16) = 204
    /\ Upto(17) = 205 /\ Upto(18) = 206 /\ Upto(19) = 207 /\ Upto(20) = 208
    /\ Upto(21) = 209 /\ Upto(22) = 210 /\ Upto(23) = 211 /\ Upto(24) = 216
    /\ Upto(25) = 217 /\ Upto(26) = 218 /\ Upto(27) = 219 /\ Upto(28) = 220
    /\ Upto(29) = 221 /\ Upto(30) = 222 /\ Upto(31) = 223 /\ Upto(32) = 255
BY DEF Upto, parser_template, Row

\* No byte is taken by two rows.
LEMMA OneRow ==
    ASSUME NEW byte \in Byte, NEW j \in 1..32, NEW k \in 1..32, Takes(j, byte), Takes(k, byte)
    PROVE  j = k
<1>1. ASSUME NEW i \in 1..32
      PROVE  Upto(i) \in Int /\ (i > 1 => Upto(i - 1) \in Int)
      BY Steps
<1>2. ASSUME NEW i \in 1..32, NEW m \in 1..32, i < m
      PROVE  Upto(i) <= Upto(m - 1)
      BY <1>2, Steps
<1>3. /\ byte <= Upto(j) /\ (j > 1 => byte > Upto(j - 1))
      /\ byte <= Upto(k) /\ (k > 1 => byte > Upto(k - 1))
      BY DEF Takes, Upto
<1>4. ~(j < k)
      BY <1>1, <1>2, <1>3 DEF Byte
<1>5. ~(k < j)
      BY <1>1, <1>2, <1>3 DEF Byte
<1>6. QED BY <1>4, <1>5

LEMMA RowFor ==
    ASSUME NEW k \in 1..32, NEW byte \in Byte, Takes(k, byte)
    PROVE  parsers[byte] = parser_template[k]
BY RowOf, OneRow
---------------------------------------------------------------------
\* dump_data, and what a length is read as.

\* Four digits to the base 256 of a length.
LEMMA Digits ==
    ASSUME NEW n \in Lengths
    PROVE  /\ n \div 16777216 \in Byte /\ (n \div 65536) % 256 \in Byte
           /\ (n \div 256) % 256 \in Byte /\ n % 256 \in Byte
           /\ 256 * (256 * (256 * (n \div 16777216) + ((n \div 65536) % 256))
                     + ((n \div 256) % 256)) + (n % 256) = n
<1>1. n \in Nat /\ n < 4294967296
      BY DEF Lengths
<1>2. /\ (n \div 256) \in Nat /\ (n % 256) \in Byte
      /\ n = 256 * (n \div 256) + (n % 256)
      BY <1>1, SMT DEF Byte
<1>3. /\ (n \div 65536) \in Nat /\ ((n \div 256) % 256) \in Byte
      /\ (n \div 256) = 256 * (n \div 65536) + ((n \div 256) % 256)
      BY <1>1, SMT DEF Byte
<1>4. /\ (n \div 16777216) \in Byte /\ ((n \div 65536) % 256) \in Byte
      /\ (n \div 65536) = 256 * (n \div 16777216) + ((n \div 65536) % 256)
      BY <1>1, SMT DEF Byte
<1>5. QED BY <1>2, <1>3, <1>4, SMT

LEMMA Bytes1IsRead ==
    ASSUME NEW n \in Byte
    PROVE  Bytes1(n) \in Seq(Byte) /\ Len(Bytes1(n)) = 1 /\ BigEndian(Bytes1(n)) = n
BY SMT DEF Bytes1, BigEndian, Byte

LEMMA Bytes2IsRead ==
    ASSUME NEW n \in Shorts
    PROVE  Bytes2(n) \in Seq(Byte) /\ Len(Bytes2(n)) = 2 /\ BigEndian(Bytes2(n)) = n
<1>1. n \div 256 \in Byte /\ n % 256 \in Byte /\ (n \div 256) * 256 + (n % 256) = n
      BY SMT DEF Byte, Shorts
<1>2. QED BY <1>1, SMT DEF Bytes2, BigEndian

LEMMA Bytes4IsRead ==
    ASSUME NEW n \in Lengths
    PROVE  Bytes4(n) \in Seq(Byte) /\ Len(Bytes4(n)) = 4 /\ BigEndian(Bytes4(n)) = n
<1> DEFINE a == n \div 16777216
           b == (n \div 65536) % 256
           c == (n \div 256) % 256
           d == n % 256
<1>1. /\ a \in Byte /\ b \in Byte /\ c \in Byte /\ d \in Byte
      /\ 256 * (256 * (256 * a + b) + c) + d = n
      /\ Bytes4(n) = <<a, b, c, d>>
      BY Digits, SMT DEF Bytes4
<1> HIDE DEF a, b, c, d
<1>2. BigEndian(<<a, b, c, d>>) = a * 16777216 + b * 65536 + c * 256 + d
      BY SMT DEF BigEndian
<1>3. a * 16777216 + b * 65536 + c * 256 + d = n
      BY <1>1, SMT DEF Byte
<1>4. QED BY <1>1, <1>2, <1>3, SMT

LEMMA Prefixed ==
    ASSUME NEW b \in Byte, NEW s \in Seq(Byte)
    PROVE  /\ Len(<<b>> \o s) = 1 + Len(s) /\ (<<b>> \o s)[1] = b
           /\ SubSeq(<<b>> \o s, 2, Len(<<b>> \o s)) = s
<1> DEFINE h == <<b>> \o s
           t == SubSeq(h, 2, Len(h))
<1>1. h \in Seq(Byte) /\ Len(h) = 1 + Len(s) /\ h[1] = b
      BY SMT
<1>2. \A i \in 1..Len(s) : h[i + 1] = s[i]
      BY SMT
<1>3. Len(s) \in Nat
      BY LenProperties
<1>4. t \in Seq(Byte) /\ Len(t) = Len(s) /\ \A i \in 1..Len(s) : t[i] = h[i + 1]
      BY <1>1, <1>3, SubSeqProperties, SMT
<1>5. t = s
      BY <1>2, <1>4, SeqEqual
<1>6. QED BY <1>1, <1>5
---------------------------------------------------------------------
\* The headers.

LEMMA CountedHeader ==
    ASSUME NEW k \in 1..32, NEW byte \in Byte, Takes(k, byte),
           NEW s \in Seq(Byte), NEW n,
           parser_template[k].T \in LengthTypes,
           Len(s) = SizeOf[parser_template[k].T], BigEndian(s) = n
    PROVE  Counts(<<byte>> \o s, n, parser_template[k].parser)
<1>1. parsers[byte] = parser_template[k]
      BY RowFor
<1>2. /\ Len(<<byte>> \o s) = 1 + Len(s) /\ (<<byte>> \o s)[1] = byte
      /\ SubSeq(<<byte>> \o s, 2, Len(<<byte>> \o s)) = s
      BY Prefixed
<1>3. QED BY <1>1, <1>2, Zenon DEF Counts

\* The first bytes of the counted headers are taken by rows of the right handler,
\* which read as many bytes as the ladders write.
LEMMA CountedRows ==
    /\ \A j \in {8, 9, 10} : parser_template[j].parser = "binary"
    /\ \A j \in {11, 12, 13} : parser_template[j].parser = "extension"
    /\ \A j \in {25, 26, 27} : parser_template[j].parser = "string"
    /\ \A j \in {28, 29} : parser_template[j].parser = "array"
    /\ \A j \in {30, 31} : parser_template[j].parser = "object"
    /\ \A j \in {8, 11, 25} : parser_template[j].T = "UINT8"
    /\ \A j \in {9, 12, 26, 28, 30} : parser_template[j].T = "UINT16"
    /\ \A j \in {10, 13, 27, 29, 31} : parser_template[j].T = "UINT32"
    /\ Takes(8, 196) /\ Takes(9, 197) /\ Takes(10, 198)
    /\ Takes(11, 199) /\ Takes(12, 200) /\ Takes(13, 201)
    /\ Takes(25, 217) /\ Takes(26, 218) /\ Takes(27, 219)
    /\ Takes(28, 220) /\ Takes(29, 221) /\ Takes(30, 222) /\ Takes(31, 223)
<1>1. /\ \A j \in {8, 9, 10} : parser_template[j].parser = "binary"
      /\ \A j \in {11, 12, 13} : parser_template[j].parser = "extension"
      /\ \A j \in {25, 26, 27} : parser_template[j].parser = "string"
      /\ \A j \in {28, 29} : parser_template[j].parser = "array"
      /\ \A j \in {30, 31} : parser_template[j].parser = "object"
      BY DEF parser_template, Row
<1>2. /\ \A j \in {8, 11, 25} : parser_template[j].T = "UINT8"
      /\ \A j \in {9, 12, 26, 28, 30} : parser_template[j].T = "UINT16"
      /\ \A j \in {10, 13, 27, 29, 31} : parser_template[j].T = "UINT32"
      BY DEF parser_template, Row
<1>3. ASSUME NEW j \in 2..32 PROVE Takes(j, Upto(j)) <=> (Upto(j) <= Upto(j) /\ Upto(j) > Upto(j - 1))
      BY DEF Takes, Upto
<1>4. QED BY <1>1, <1>2, <1>3, Steps

\* One, two or four bytes of length behind the first byte of a row that reads as many.
LEMMA OneByteHeader ==
    ASSUME NEW k \in 1..32, NEW byte \in Byte, Takes(k, byte),
           parser_template[k].T = "UINT8", NEW n \in Byte
    PROVE  Counts(<<byte>> \o Bytes1(n), n, parser_template[k].parser)
<1>1. parser_template[k].T \in LengthTypes /\ SizeOf[parser_template[k].T] = 1
      BY DEF SizeOf, LengthTypes
<1>2. Bytes1(n) \in Seq(Byte) /\ Len(Bytes1(n)) = 1 /\ BigEndian(Bytes1(n)) = n
      BY Bytes1IsRead
<1>3. QED BY <1>1, <1>2, CountedHeader

LEMMA TwoByteHeader ==
    ASSUME NEW k \in 1..32, NEW byte \in Byte, Takes(k, byte),
           parser_template[k].T = "UINT16", NEW n \in Shorts
    PROVE  Counts(<<byte>> \o Bytes2(n), n, parser_template[k].parser)
<1>1. parser_template[k].T \in LengthTypes /\ SizeOf[parser_template[k].T] = 2
      BY DEF SizeOf, LengthTypes
<1>2. Bytes2(n) \in Seq(Byte) /\ Len(Bytes2(n)) = 2 /\ BigEndian(Bytes2(n)) = n
      BY Bytes2IsRead
<1>3. QED BY <1>1, <1>2, CountedHeader

LEMMA FourByteHeader ==
    ASSUME NEW k \in 1..32, NEW byte \in Byte, Takes(k, byte),
           parser_template[k].T = "UINT32", NEW n \in Lengths
    PROVE  Counts(<<byte>> \o Bytes4(n), n, parser_template[k].parser)
<1>1. parser_template[k].T \in LengthTypes /\ SizeOf[parser_template[k].T] = 4
      BY DEF SizeOf, LengthTypes
<1>2. Bytes4(n) \in Seq(Byte) /\ Len(Bytes4(n)) = 4 /\ BigEndian(Bytes4(n)) = n
      BY Bytes4IsRead
<1>3. QED BY <1>1, <1>2, CountedHeader

\* A first byte that holds the length itself.
LEMMA FixHeaders ==
    ASSUME NEW n \in Nat
    PROVE  /\ n <= 31 => Fixes(<<160 + n>>, n, "fixstring", 32)
           /\ n <= 15 => Fixes(<<144 + n>>, n, "fixarray", 16)
           /\ n <= 15 => Fixes(<<128 + n>>, n, "fixobject", 16)
<1>1. /\ parser_template[4].parser = "fixstring" /\ parser_template[3].parser = "fixarray"
      /\ parser_template[2].parser = "fixobject"
      BY DEF parser_template, Row
<1>2. ASSUME n <= 31 PROVE Fixes(<<160 + n>>, n, "fixstring", 32)
  <2>1. 160 + n \in Byte /\ Takes(4, 160 + n)
        BY <1>2, Steps DEF Takes, Upto, Byte
  <2>2. parsers[160 + n].parser = "fixstring"
        BY <2>1, <1>1, RowFor
  <2>3. (160 + n) % 32 = n
        BY <1>2, SMT
  <2>4. QED BY <2>2, <2>3 DEF Fixes
<1>3. ASSUME n <= 15 PROVE Fixes(<<144 + n>>, n, "fixarray", 16)
  <2>1. 144 + n \in Byte /\ Takes(3, 144 + n)
        BY <1>3, Steps DEF Takes, Upto, Byte
  <2>2. parsers[144 + n].parser = "fixarray"
        BY <2>1, <1>1, RowFor
  <2>3. (144 + n) % 16 = n
        BY <1>3, SMT
  <2>4. QED BY <2>2, <2>3 DEF Fixes
<1>4. ASSUME n <= 15 PROVE Fixes(<<128 + n>>, n, "fixobject", 16)
  <2>1. 128 + n \in Byte /\ Takes(2, 128 + n)
        BY <1>4, Steps DEF Takes, Upto, Byte
  <2>2. parsers[128 + n].parser = "fixobject"
        BY <2>1, <1>1, RowFor
  <2>3. (128 + n) % 16 = n
        BY <1>4, SMT
  <2>4. QED BY <2>2, <2>3 DEF Fixes
<1>5. QED BY <1>2, <1>3, <1>4

---------------------------------------------------------------------
\* What every header that dump writes before n bytes, elements or members is read as.

StringIsRead(n) ==
    LET h == StringHeader(n) IN Fixes(h, n, "fixstring", 32) \/ Counts(h, n, "string")
BinaryIsRead(n) == Counts(BinaryHeader(n), n, "binary")
ArrayIsRead(n) ==
    LET h == ArrayHeader(n) IN Fixes(h, n, "fixarray", 16) \/ Counts(h, n, "array")
ObjectIsRead(n) ==
    LET h == ObjectHeader(n) IN Fixes(h, n, "fixobject", 16) \/ Counts(h, n, "object")
ExtensionIsRead(n) ==
    LET h == ExtensionHeader(n)
    IN  \/ /\ Len(h) = 1 /\ parsers[h[1]].parser = "fixext"
           /\ <<1, 2, 4, 8, 16>>[h[1] - 211] = n
        \/ Counts(h, n, "extension")

\* The steps of the ladders.
LEMMA Ladder ==
    ASSUME NEW n \in Lengths
    PROVE  /\ n \in Nat
           /\ n <= 31 => n \in Byte
           /\ n <= 15 => n \in Shorts
           /\ n \in Byte => n \in Shorts
BY SMT DEF Lengths, Byte, Shorts

LEMMA StringHeaders ==
    ASSUME NEW n \in Lengths
    PROVE  /\ n <= 31 => StringHeader(n) = <<160 + n>>
           /\ ~(n <= 31) /\ n \in Byte => StringHeader(n) = <<217>> \o Bytes1(n)
           /\ n \notin Byte /\ n \in Shorts => StringHeader(n) = <<218>> \o Bytes2(n)
           /\ n \notin Shorts => StringHeader(n) = <<219>> \o Bytes4(n)
BY SMT DEF StringHeader, Lengths, Shorts, Byte

LEMMA BinaryHeaders ==
    ASSUME NEW n \in Lengths
    PROVE  /\ n \in Byte => BinaryHeader(n) = <<196>> \o Bytes1(n)
           /\ n \notin Byte /\ n \in Shorts => BinaryHeader(n) = <<197>> \o Bytes2(n)
           /\ n \notin Shorts => BinaryHeader(n) = <<198>> \o Bytes4(n)
BY SMT DEF BinaryHeader, Lengths, Shorts, Byte

LEMMA ArrayHeaders ==
    ASSUME NEW n \in Lengths
    PROVE  /\ n <= 15 => ArrayHeader(n) = <<144 + n>>
           /\ ~(n <= 15) /\ n \in Shorts => ArrayHeader(n) = <<220>> \o Bytes2(n)
           /\ n \notin Shorts => ArrayHeader(n) = <<221>> \o Bytes4(n)
BY SMT DEF ArrayHeader, ContainerHeader, Lengths, Shorts

LEMMA ObjectHeaders ==
    ASSUME NEW n \in Lengths
    PROVE  /\ n <= 15 => ObjectHeader(n) = <<128 + n>>
           /\ ~(n <= 15) /\ n \in Shorts => ObjectHeader(n) = <<222>> \o Bytes2(n)
           /\ n \notin Shorts => ObjectHeader(n) = <<223>> \o Bytes4(n)
BY SMT DEF ObjectHeader, ContainerHeader, Lengths, Shorts

LEMMA ExtensionHeaders ==
    ASSUME NEW n \in Lengths
    PROVE  /\ n = 1 => ExtensionHeader(n) = <<212>>
           /\ n = 2 => ExtensionHeader(n) = <<213>>
           /\ n = 4 => ExtensionHeader(n) = <<214>>
           /\ n = 8 => ExtensionHeader(n) = <<215>>
           /\ n = 16 => ExtensionHeader(n) = <<216>>
           /\ n \notin {1, 2, 4, 8, 16} =>
                /\ n \in Byte => ExtensionHeader(n) = <<199>> \o Bytes1(n)
                /\ n \notin Byte /\ n \in Shorts => ExtensionHeader(n) = <<200>> \o Bytes2(n)
                /\ n \notin Shorts => ExtensionHeader(n) = <<201>> \o Bytes4(n)
<1> DEFINE counted ==
        IF n <= 255 THEN <<199>> \o Bytes1(n)
        ELSE IF n <= 65535 THEN <<200>> \o Bytes2(n)
        ELSE <<201>> \o Bytes4(n)
<1>1. /\ n = 1 => ExtensionHeader(n) = <<212>>
      /\ n = 2 => ExtensionHeader(n) = <<213>>
      /\ n = 4 => ExtensionHeader(n) = <<214>>
      /\ n = 8 => ExtensionHeader(n) = <<215>>
      /\ n = 16 => ExtensionHeader(n) = <<216>>
      /\ n \notin {1, 2, 4, 8, 16} => ExtensionHeader(n) = counted
      BY SMT DEF ExtensionHeader
<1>2. /\ n \in Byte => counted = <<199>> \o Bytes1(n)
      /\ n \notin Byte /\ n \in Shorts => counted = <<200>> \o Bytes2(n)
      /\ n \notin Shorts => counted = <<201>> \o Bytes4(n)
      BY SMT DEF Lengths, Shorts, Byte
<1> HIDE DEF counted
<1>3. QED BY <1>1, <1>2, Ladder

\* The five first bytes that stand for the length of an extension.
LEMMA FixExts ==
    \A byte \in 212..216 : byte \in Byte /\ parsers[byte].parser = "fixext"
<1> TAKE byte \in 212..216
<1>1. byte \in Byte /\ Takes(24, byte)
      BY Steps DEF Takes, Upto, Byte
<1>2. parser_template[24].parser = "fixext"
      BY DEF parser_template, Row
<1>3. QED BY <1>1, <1>2, RowFor

\* Every header of dump is read back as the length it was written for: the ladders
\* of dump_string, dump_array, dump_object and the headers of binaries and
\* extensions agree with the table of the parser and with the lengths its handlers
\* read, from 0 to 2^32 - 1.
THEOREM HeadersAreRead ==
    \A n \in Lengths :
        /\ StringIsRead(n) /\ BinaryIsRead(n) /\ ArrayIsRead(n) /\ ObjectIsRead(n)
        /\ ExtensionIsRead(n)
<1> TAKE n \in Lengths
<1>1. ASSUME n \in Byte
      PROVE  /\ Counts(<<217>> \o Bytes1(n), n, "string")
             /\ Counts(<<196>> \o Bytes1(n), n, "binary")
             /\ Counts(<<199>> \o Bytes1(n), n, "extension")
  <2>1. Counts(<<217>> \o Bytes1(n), n, "string")
    <3>1. 217 \in Byte /\ 25 \in 1..32 /\ Takes(25, 217)
          /\ parser_template[25].T = "UINT8"
          /\ parser_template[25].parser = "string"
          BY CountedRows DEF Byte
    <3>2. QED BY <3>1, <1>1, OneByteHeader
  <2>2. Counts(<<196>> \o Bytes1(n), n, "binary")
    <3>1. 196 \in Byte /\ 8 \in 1..32 /\ Takes(8, 196)
          /\ parser_template[8].T = "UINT8"
          /\ parser_template[8].parser = "binary"
          BY CountedRows DEF Byte
    <3>2. QED BY <3>1, <1>1, OneByteHeader
  <2>3. Counts(<<199>> \o Bytes1(n), n, "extension")
    <3>1. 199 \in Byte /\ 11 \in 1..32 /\ Takes(11, 199)
          /\ parser_template[11].T = "UINT8"
          /\ parser_template[11].parser = "extension"
          BY CountedRows DEF Byte
    <3>2. QED BY <3>1, <1>1, OneByteHeader
  <2> QED BY <2>1, <2>2, <2>3
<1>2. ASSUME n \in Shorts
      PROVE  /\ Counts(<<218>> \o Bytes2(n), n, "string")
             /\ Counts(<<197>> \o Bytes2(n), n, "binary")
             /\ Counts(<<200>> \o Bytes2(n), n, "extension")
             /\ Counts(<<220>> \o Bytes2(n), n, "array")
             /\ Counts(<<222>> \o Bytes2(n), n, "object")
  <2>1. Counts(<<218>> \o Bytes2(n), n, "string")
    <3>1. 218 \in Byte /\ 26 \in 1..32 /\ Takes(26, 218)
          /\ parser_template[26].T = "UINT16"
          /\ parser_template[26].parser = "string"
          BY CountedRows DEF Byte
    <3>2. QED BY <3>1, <1>2, TwoByteHeader
  <2>2. Counts(<<197>> \o Bytes2(n), n, "binary")
    <3>1. 197 \in Byte /\ 9 \in 1..32 /\ Takes(9, 197)
          /\ parser_template[9].T = "UINT16"
          /\ parser_template[9].parser = "binary"
          BY CountedRows DEF Byte
    <3>2. QED BY <3>1, <1>2, TwoByteHeader
  <2>3. Counts(<<200>> \o Bytes2(n), n, "extension")
    <3>1. 200 \in Byte /\ 12 \in 1..32 /\ Takes(12, 200)
          /\ parser_template[12].T = "UINT16"
          /\ parser_template[12].parser = "extension"
          BY CountedRows DEF Byte
    <3>2. QED BY <3>1, <1>2, TwoByteHeader
  <2>4. Counts(<<220>> \o Bytes2(n), n, "array")
    <3>1. 220 \in Byte /\ 28 \in 1..32 /\ Takes(28, 220)
          /\ parser_template[28].T = "UINT16"
          /\ parser_template[28].parser = "array"
          BY CountedRows DEF Byte
    <3>2. QED BY <3>1, <1>2, TwoByteHeader
  <2>5. Counts(<<222>> \o Bytes2(n), n, "object")
    <3>1. 222 \in Byte /\ 30 \in 1..32 /\ Takes(30, 222)
          /\ parser_template[30].T = "UINT16"
          /\ parser_template[30].parser = "object"
          BY CountedRows DEF Byte
    <3>2. QED BY <3>1, <1>2, TwoByteHeader
  <2> QED BY <2>1, <2>2, <2>3, <2>4, <2>5
<1>3. /\ Counts(<<219>> \o Bytes4(n), n, "string")
      /\ Counts(<<198>> \o Bytes4(n), n, "binary")
      /\ Counts(<<201>> \o Bytes4(n), n, "extension")
      /\ Counts(<<221>> \o Bytes4(n), n, "array")
      /\ Counts(<<223>> \o Bytes4(n), n, "object")
  <2>1. Counts(<<219>> \o Bytes4(n), n, "string")
    <3>1. 219 \in Byte /\ 27 \in 1..32 /\ Takes(27, 219)
          /\ parser_template[27].T = "UINT32"
          /\ parser_template[27].parser = "string"
          BY CountedRows DEF Byte
    <3>2. QED BY <3>1, FourByteHeader
  <2>2. Counts(<<198>> \o Bytes4(n), n, "binary")
    <3>1. 198 \in Byte /\ 10 \in 1..32 /\ Takes(10, 198)
          /\ parser_template[10].T = "UINT32"
          /\ parser_template[10].parser = "binary"
          BY CountedRows DEF Byte
    <3>2. QED BY <3>1, FourByteHeader
  <2>3. Counts(<<201>> \o Bytes4(n), n, "extension")
    <3>1. 201 \in Byte /\ 13 \in 1..32 /\ Takes(13, 201)
          /\ parser_template[13].T = "UINT32"
          /\ parser_template[13].parser = "extension"
          BY CountedRows DEF Byte
    <3>2. QED BY <3>1, FourByteHeader
  <2>4. Counts(<<221>> \o Bytes4(n), n, "array")
    <3>1. 221 \in Byte /\ 29 \in 1..32 /\ Takes(29, 221)
          /\ parser_template[29].T = "UINT32"
          /\ parser_template[29].parser = "array"
          BY CountedRows DEF Byte
    <3>2. QED BY <3>1, FourByteHeader
  <2>5. Counts(<<223>> \o Bytes4(n), n, "object")
    <3>1. 223 \in Byte /\ 31 \in 1..32 /\ Takes(31, 223)
          /\ parser_template[31].T = "UINT32"
          /\ parser_template[31].parser = "object"
          BY CountedRows DEF Byte
    <3>2. QED BY <3>1, FourByteHeader
  <2> QED BY <2>1, <2>2, <2>3, <2>4, <2>5
<1>4. StringIsRead(n)
  <2>1. CASE n <= 31
    <3>1. StringHeader(n) = <<160 + n>>
          BY <2>1, StringHeaders, Zenon
    <3>2. Fixes(<<160 + n>>, n, "fixstring", 32)
          BY <2>1, Ladder, FixHeaders, Zenon
    <3>3. QED BY <3>1, <3>2, Zenon DEF StringIsRead
  <2>2. CASE ~(n <= 31) /\ n \in Byte
        BY <2>2, <1>1, StringHeaders, Zenon DEF StringIsRead
  <2>3. CASE n \notin Byte /\ n \in Shorts
        BY <2>3, <1>2, StringHeaders, Zenon DEF StringIsRead
  <2>4. CASE n \notin Shorts
        BY <2>4, <1>3, StringHeaders, Zenon DEF StringIsRead
  <2>5. QED BY <2>1, <2>2, <2>3, <2>4, Ladder
<1>5. BinaryIsRead(n)
  <2>1. CASE n \in Byte
        BY <2>1, <1>1, BinaryHeaders, Zenon DEF BinaryIsRead
  <2>2. CASE n \notin Byte /\ n \in Shorts
        BY <2>2, <1>2, BinaryHeaders, Zenon DEF BinaryIsRead
  <2>3. CASE n \notin Shorts
        BY <2>3, <1>3, BinaryHeaders, Zenon DEF BinaryIsRead
  <2>4. QED BY <2>1, <2>2, <2>3, Ladder
<1>6. ArrayIsRead(n)
  <2>1. CASE n <= 15
    <3>1. ArrayHeader(n) = <<144 + n>>
          BY <2>1, ArrayHeaders, Zenon
    <3>2. Fixes(<<144 + n>>, n, "fixarray", 16)
          BY <2>1, Ladder, FixHeaders, Zenon
    <3>3. QED BY <3>1, <3>2, Zenon DEF ArrayIsRead
  <2>2. CASE ~(n <= 15) /\ n \in Shorts
        BY <2>2, <1>2, ArrayHeaders, Zenon DEF ArrayIsRead
  <2>3. CASE n \notin Shorts
        BY <2>3, <1>3, ArrayHeaders, Zenon DEF ArrayIsRead
  <2>4. QED BY <2>1, <2>2, <2>3
<1>7. ObjectIsRead(n)
  <2>1. CASE n <= 15
    <3>1. ObjectHeader(n) = <<128 + n>>
          BY <2>1, ObjectHeaders, Zenon
    <3>2. Fixes(<<128 + n>>, n, "fixobject", 16)
          BY <2>1, Ladder, FixHeaders, Zenon
    <3>3. QED BY <3>1, <3>2, Zenon DEF ObjectIsRead
  <2>2. CASE ~(n <= 15) /\ n \in Shorts
        BY <2>2, <1>2, ObjectHeaders, Zenon DEF ObjectIsRead
  <2>3. CASE n \notin Shorts
        BY <2>3, <1>3, ObjectHeaders, Zenon DEF ObjectIsRead
  <2>4. QED BY <2>1, <2>2, <2>3
<1>8. ExtensionIsRead(n)
  <2>1. CASE n \in {1, 2, 4, 8, 16}
    <3>1. PICK byte \in 212..216 :
              ExtensionHeader(n) = <<byte>> /\ <<1, 2, 4, 8, 16>>[byte - 211] = n
          BY <2>1, ExtensionHeaders
    <3>2. QED BY <3>1, FixExts DEF ExtensionIsRead
  <2>2. CASE n \notin {1, 2, 4, 8, 16} /\ n \in Byte
    <3>1. ExtensionHeader(n) = <<199>> \o Bytes1(n)
          BY <2>2, ExtensionHeaders, Zenon
    <3>2. QED BY <2>2, <1>1, <3>1, Zenon DEF ExtensionIsRead
  <2>3. CASE n \notin {1, 2, 4, 8, 16} /\ n \notin Byte /\ n \in Shorts
    <3>1. ExtensionHeader(n) = <<200>> \o Bytes2(n)
          BY <2>3, ExtensionHeaders, Zenon
    <3>2. QED BY <2>3, <1>2, <3>1, Zenon DEF ExtensionIsRead
  <2>4. CASE n \notin {1, 2, 4, 8, 16} /\ n \notin Shorts
    <3>1. ExtensionHeader(n) = <<201>> \o Bytes4(n)
          BY <2>4, ExtensionHeaders, Zenon
    <3>2. QED BY <2>4, <1>3, <3>1, Zenon DEF ExtensionIsRead
  <2>5. QED BY <2>1, <2>2, <2>3, <2>4
<1>9. QED BY <1>4, <1>5, <1>6, <1>7, <1>8
---------------------------------------------------------------------
\* Bytes that lie somewhere in the input, and what reading them gives.

\* The bytes s are in the input behind the position p,
Lies(in, p, s) ==
    /\ p \in 0..Len(in)
    /\ Len(s) <= Len(in) - p
    /\ \A i \in 1..Len(s) : in[p + i] = s[i]

\* and wherever they are they are read as v.
ReadAs(s, v) ==
    \A in \in Seq(Byte) : \A p \in Nat : \A X :
        Lies(in, p, s) => Reference!At(in, p, X) = Reference!Got(v, p + Len(s))

LEMMA LiesParts ==
    ASSUME NEW in \in Seq(Byte), NEW p \in Nat, NEW s \in Seq(Byte), NEW t \in Seq(Byte),
           Lies(in, p, s \o t)
    PROVE  Lies(in, p, s) /\ Lies(in, p + Len(s), t)
<1>1. Len(s) \in Nat /\ Len(t) \in Nat /\ Len(in) \in Nat
      BY LenProperties
<1>2. /\ Len(s \o t) = Len(s) + Len(t)
      /\ \A i \in 1..(Len(s) + Len(t)) : (s \o t)[i] = IF i <= Len(s) THEN s[i] ELSE t[i - Len(s)]
      BY ConcatProperties
<1>3. /\ p \in 0..Len(in) /\ Len(s) + Len(t) <= Len(in) - p
      /\ \A i \in 1..(Len(s) + Len(t)) : in[p + i] = (s \o t)[i]
      BY <1>2 DEF Lies
<1>4. \A i \in 1..Len(s) : in[p + i] = s[i]
      BY <1>1, <1>2, <1>3
<1>5. \A i \in 1..Len(t) : in[(p + Len(s)) + i] = t[i]
      <2> TAKE i \in 1..Len(t)
      <2>1. PICK k : k = Len(s) + i
            OBVIOUS
      <2>2. k \in 1..(Len(s) + Len(t)) /\ ~(k <= Len(s)) /\ k - Len(s) = i
            /\ p + k = (p + Len(s)) + i
            BY <1>1, <2>1
      <2>3. QED BY <1>2, <1>3, <2>2
<1>6. p + Len(s) \in 0..Len(in) /\ Len(s) <= Len(in) - p /\ Len(t) <= Len(in) - (p + Len(s))
      BY <1>1, <1>3
<1>7. QED BY <1>3, <1>4, <1>5, <1>6 DEF Lies

LEMMA LiesSlice ==
    ASSUME NEW in \in Seq(Byte), NEW p \in Nat, NEW s \in Seq(Byte), Lies(in, p, s)
    PROVE  Reference!Has(in, p, Len(s)) /\ Reference!Slice(in, p, Len(s)) = s
<1>1. Len(s) \in Nat /\ p \in 0..Len(in) /\ Reference!Has(in, p, Len(s))
      BY LenProperties DEF Lies, Reference!Has
<1> DEFINE t == Reference!Slice(in, p, Len(s))
<1>2. t \in Seq(Byte) /\ Len(t) = Len(s) /\ t = [i \in 1..Len(s) |-> in[p + i]]
      BY <1>1, SliceSeq
<1>3. \A i \in 1..Len(s) : t[i] = s[i]
      BY <1>2 DEF Lies
<1> HIDE DEF t
<1>4. t = s
      BY <1>2, <1>3, SeqEqual
<1>5. QED BY <1>1, <1>4 DEF t

LEMMA LiesFirst ==
    ASSUME NEW in \in Seq(Byte), NEW p \in Nat, NEW b \in Byte, Lies(in, p, <<b>>)
    PROVE  p + 1 \in 1..Len(in) /\ p + 1 \in Nat /\ ~(p >= Len(in)) /\ in[p + 1] = b
<1>1. Len(in) \in Nat /\ Len(<<b>>) = 1 /\ <<b>>[1] = b
      BY LenProperties
<1>2. QED BY <1>1 DEF Lies

\* A first byte and what is behind it.
LEMMA LiesBehind ==
    ASSUME NEW in \in Seq(Byte), NEW p \in Nat, NEW b \in Byte, NEW s \in Seq(Byte),
           Lies(in, p, <<b>> \o s)
    PROVE  /\ ~(p >= Len(in)) /\ in[p + 1] = b /\ p + 1 \in Nat
           /\ Lies(in, p + 1, s) /\ Len(<<b>> \o s) = 1 + Len(s)
<1>1. PICK first : first = <<b>>
      OBVIOUS
<1>2. first \in Seq(Byte) /\ Len(first) = 1
      BY <1>1
<1>3. Lies(in, p, first \o s)
      BY <1>1
<1>4. Lies(in, p, first) /\ Lies(in, p + Len(first), s)
      BY <1>2, <1>3, LiesParts
<1>l. Len(first \o s) = Len(first) + Len(s)
      BY <1>2, ConcatProperties
<1>5. ~(p >= Len(in)) /\ in[p + 1] = b /\ p + 1 \in Nat
      BY <1>1, <1>4, LiesFirst
<1>6. Lies(in, p + 1, s)
      BY <1>2, <1>4
<1>7. Len(<<b>> \o s) = 1 + Len(s)
      BY <1>1, <1>2, <1>l
<1>8. QED BY <1>5, <1>6, <1>7

\* A first byte that is the value,
LEMMA SingleIsRead ==
    ASSUME NEW b \in Byte, NEW v, IsSingle(b, v)
    PROVE  ReadAs(<<b>>, v)
<1> SUFFICES ASSUME NEW in \in Seq(Byte), NEW p \in Nat, NEW X, Lies(in, p, <<b>>)
             PROVE  Reference!At(in, p, X) = Reference!Got(v, p + Len(<<b>>))
    BY DEF ReadAs
<1>1. ~(p >= Len(in)) /\ in[p + 1] = b /\ Len(<<b>>) = 1
      BY LiesFirst
<1>2. QED BY <1>1 DEF IsSingle, Reference!At

\* one that tells how many bytes the value has,
LEMMA SizedIsRead ==
    ASSUME NEW b \in Byte, NEW s \in Seq(Byte), NEW type, type # "ARRAY", type # "OBJECT",
           Heads(b, type, 0, Len(s))
    PROVE  ReadAs(<<b>> \o s, Scalar(type, s))
<1> SUFFICES ASSUME NEW in \in Seq(Byte), NEW p \in Nat, NEW X, Lies(in, p, <<b>> \o s)
             PROVE  Reference!At(in, p, X)
                        = Reference!Got(Scalar(type, s), p + Len(<<b>> \o s))
    BY DEF ReadAs
<1>q. PICK q : q = p + 1
      OBVIOUS
<1>1. /\ ~(p >= Len(in)) /\ in[p + 1] = b /\ q \in Nat
      /\ Lies(in, q, s) /\ Len(<<b>> \o s) = 1 + Len(s)
      BY <1>q, LiesBehind
<1>2. q \in 0..Len(in) /\ Len(in) \in Nat
      BY <1>1, LenProperties DEF Lies
<1>3. Reference!Has(in, q, Len(s)) /\ Reference!Slice(in, q, Len(s)) = s /\ Len(s) \in Nat
      BY <1>1, LiesSlice, LenProperties
<1>4. PICK h : h = [type |-> type, wide |-> 0, plus |-> Len(s)]
      OBVIOUS
<1>5. h = Reference!Announces(b) /\ h.wide = 0 /\ h.type = type /\ h.plus = Len(s)
      BY <1>4 DEF Heads
<1>6. Reference!Has(in, q, 0)
      BY <1>2 DEF Reference!Has
<1>7. Reference!Count(in, q, h) = Len(s)
      BY <1>3, <1>5 DEF Reference!Count
<1>8. Reference!At(in, p, X) = Reference!Content(in, q + 0, Len(s), type, X)
      BY <1>1, <1>5, <1>6, <1>7, <1>q DEF Reference!At, Heads
<1>9. Reference!At(in, p, X) = Reference!Content(in, q, Len(s), type, X)
      BY <1>2, <1>8
<1>10. Reference!At(in, p, X) = Reference!Got(Reference!Scalar(type, s), q + Len(s))
      BY <1>3, <1>9 DEF Reference!Content
<1>11. q + Len(s) = p + (1 + Len(s))
      BY <1>3, <1>q
<1>12. QED BY <1>1, <1>10, <1>11 DEF Scalar, Reference!Scalar

\* and one behind which there is a length.
LEMMA LongIsRead ==
    ASSUME NEW b \in Byte, NEW c \in Seq(Byte), NEW s \in Seq(Byte), NEW type, NEW plus \in Nat,
           type # "ARRAY", type # "OBJECT", Len(c) \in {1, 2, 4},
           Heads(b, type, Len(c), plus), plus + BigEndian(c) = Len(s)
    PROVE  ReadAs((<<b>> \o c) \o s, Scalar(type, s))
<1> SUFFICES ASSUME NEW in \in Seq(Byte), NEW p \in Nat, NEW X, Lies(in, p, (<<b>> \o c) \o s)
             PROVE  Reference!At(in, p, X)
                        = Reference!Got(Scalar(type, s), p + Len((<<b>> \o c) \o s))
    BY DEF ReadAs
<1>n. Len(s) \in Nat /\ Len(c) \in Nat /\ Len(in) \in Nat
      BY LenProperties
<1>c. Len(c) # 0
      <2>1. \A n \in {1, 2, 4} : n # 0
            OBVIOUS
      <2>2. QED BY <2>1, Zenon
<1>h. PICK header : header = <<b>> \o c
      OBVIOUS
<1>i. header \in Seq(Byte)
      BY <1>h
<1>q. PICK q : q = p + 1
      OBVIOUS
<1>r. PICK r : r = q + Len(c)
      OBVIOUS
<1>l. Len(header \o s) = Len(header) + Len(s)
      BY <1>i, ConcatProperties
<1>1. Lies(in, p, header) /\ Lies(in, p + Len(header), s)
      BY <1>h, <1>i, LiesParts
<1>2. /\ ~(p >= Len(in)) /\ in[p + 1] = b /\ q \in Nat
      /\ Lies(in, q, c) /\ Len(header) = 1 + Len(c)
      BY <1>1, <1>h, <1>q, LiesBehind
<1>3. Lies(in, r, s)
      <2>1. p + Len(header) = r
            BY <1>2, <1>n, <1>q, <1>r
      <2>2. QED BY <1>1, <2>1
<1>4. r \in Nat
      BY <1>2, <1>n, <1>r
<1>5. Reference!Has(in, q, Len(c)) /\ Reference!Slice(in, q, Len(c)) = c
      BY <1>2, LiesSlice
<1>6. Reference!Has(in, r, Len(s)) /\ Reference!Slice(in, r, Len(s)) = s
      BY <1>3, <1>4, LiesSlice
<1>7. PICK h : h = [type |-> type, wide |-> Len(c), plus |-> plus]
      OBVIOUS
<1>8. h = Reference!Announces(b) /\ h.wide = Len(c) /\ h.type = type /\ h.plus = plus
      BY <1>7 DEF Heads
<1>9. Reference!Count(in, q, h) = Len(s)
      <2>2. Reference!BigEndian(c) = BigEndian(c)
            BY DEF Reference!BigEndian, BigEndian
      <2>3. QED BY <1>5, <1>8, <1>c, <2>2 DEF Reference!Count
<1>10. Reference!At(in, p, X) = Reference!Content(in, r, Len(s), type, X)
      BY <1>2, <1>5, <1>8, <1>9, <1>q, <1>r, Zenon DEF Reference!At, Heads
<1>11. Reference!At(in, p, X) = Reference!Got(Reference!Scalar(type, s), r + Len(s))
      BY <1>6, <1>10 DEF Reference!Content
<1>12. r + Len(s) = p + ((1 + Len(c)) + Len(s))
      BY <1>n, <1>q, <1>r
<1>13. QED BY <1>l, <1>2, <1>11, <1>12, <1>h DEF Scalar, Reference!Scalar
---------------------------------------------------------------------
\* The ladders of the integers.

\* The bytes s are read as that number, in the type that the first of them tells.
NumberIsRead(s, number) ==
    \E w : /\ w.type \in UnsignedTypes \union SignedTypes /\ NumberOf(w) = number
           /\ w = Scalar(TypeTold(s[1]), w.bytes) /\ w.bytes \in Bytes(SizeOf[w.type])
           /\ ReadAs(s, w)

\* A cast to half the width, of a number whose upper half is its sign only.
Narrows(b, fill) == AllAre(UpperHalf(b), fill)

LEMMA Halves ==
    ASSUME NEW n \in {1, 2, 4}, NEW b \in Bytes(2 * n)
    PROVE  /\ LowerHalf(b) \in Bytes(n) /\ \A i \in 1..n : LowerHalf(b)[i] = b[i + n]
           /\ DOMAIN UpperHalf(b) = 1..n /\ \A i \in 1..n : UpperHalf(b)[i] = b[i]
<1>1. b \in Seq(Byte) /\ Len(b) = 2 * n /\ n \in Nat /\ n > 0
      BY DEF Bytes
<1>2. Len(b) \div 2 = n
      BY <1>1
<1>3. \A i \in 1..(2 * n) : b[i] \in Byte
      BY <1>1, ElementOfSeq
<1>l. PICK l : l = n + 1
      OBVIOUS
<1>m. PICK m : m = 2 * n
      OBVIOUS
<1>o. PICK one : one = 1
      OBVIOUS
<1>4. /\ SubSeq(b, l, m) \in Seq(Byte)
      /\ Len(SubSeq(b, l, m)) = n
      /\ \A i \in 1..n : SubSeq(b, l, m)[i] = b[l + i - 1]
      <2>1. l \in Int /\ m \in Int /\ \A i \in l..m : b[i] \in Byte
            BY <1>1, <1>3, <1>l, <1>m
      <2>2. /\ SubSeq(b, l, m) \in Seq(Byte)
            /\ Len(SubSeq(b, l, m)) = IF l <= m THEN m - l + 1 ELSE 0
            /\ \A i \in 1..(m - l + 1) : SubSeq(b, l, m)[i] = b[l + i - 1]
            BY <2>1, SubSeqProperties
      <2>3. l <= m /\ m - l + 1 = n
            BY <1>1, <1>l, <1>m
      <2>4. QED BY <2>2, <2>3
<1>5. \A i \in 1..n : l + i - 1 = i + n
      BY <1>1, <1>l
<1>6. LowerHalf(b) = SubSeq(b, l, m)
      BY <1>1, <1>2, <1>l, <1>m DEF LowerHalf
<1>7. /\ SubSeq(b, one, n) \in Seq(Byte)
      /\ Len(SubSeq(b, one, n)) = n
      /\ \A i \in 1..n : SubSeq(b, one, n)[i] = b[one + i - 1]
      <2>1. one \in Int /\ n \in Int /\ \A i \in one..n : b[i] \in Byte
            BY <1>1, <1>3, <1>o
      <2>2. /\ SubSeq(b, one, n) \in Seq(Byte)
            /\ Len(SubSeq(b, one, n)) = IF one <= n THEN n - one + 1 ELSE 0
            /\ \A i \in 1..(n - one + 1) : SubSeq(b, one, n)[i] = b[one + i - 1]
            BY <2>1, SubSeqProperties
      <2>3. one <= n /\ n - one + 1 = n
            BY <1>1, <1>o
      <2>4. QED BY <2>2, <2>3
<1>8. \A i \in 1..n : one + i - 1 = i
      BY <1>o
<1>9. UpperHalf(b) = SubSeq(b, one, n)
      BY <1>2, <1>o DEF UpperHalf
<1>10. LowerHalf(b) \in Bytes(n) /\ \A i \in 1..n : LowerHalf(b)[i] = b[i + n]
      BY <1>4, <1>5, <1>6 DEF Bytes
<1>11. DOMAIN UpperHalf(b) = 1..n /\ \A i \in 1..n : UpperHalf(b)[i] = b[i]
      <2>1. DOMAIN SubSeq(b, one, n) = 1..n
            BY <1>7, LenProperties
      <2>2. QED BY <1>7, <1>8, <1>9, <2>1
<1>12. QED BY <1>10, <1>11

LEMMA Narrowing ==
    ASSUME NEW n \in {1, 2, 4}, NEW b \in Bytes(2 * n), NEW fill, Narrows(b, fill)
    PROVE  Filled(LowerHalf(b), fill) = Filled(b, fill)
<1>1. /\ LowerHalf(b) \in Bytes(n) /\ \A i \in 1..n : LowerHalf(b)[i] = b[i + n]
      /\ \A i \in 1..n : b[i] = fill
      BY Halves DEF Narrows, AllAre
<1> DEFINE low == LowerHalf(b)
<1>2. Len(low) = n /\ Len(b) = 2 * n
      BY <1>1 DEF Bytes
<1>3. ASSUME NEW i \in 1..8
      PROVE  (IF i + n > 8 THEN low[i + n - 8] ELSE fill)
                = (IF i + 2 * n > 8 THEN b[i + 2 * n - 8] ELSE fill)
  <2>1. CASE i + n > 8
    <3>1. PICK k : k = i + n - 8
          OBVIOUS
    <3>2. k \in 1..n /\ i + 2 * n - 8 = k + n /\ i + 2 * n > 8
          BY <2>1, <3>1
    <3>3. low[k] = b[k + n]
          BY <1>1, <3>2
    <3>4. QED BY <2>1, <3>1, <3>2, <3>3
  <2>2. CASE ~(i + n > 8) /\ i + 2 * n > 8
    <3>1. PICK k : k = i + 2 * n - 8
          OBVIOUS
    <3>2. k \in 1..n
          BY <2>2, <3>1
    <3>3. b[k] = fill
          BY <1>1, <3>2
    <3>4. QED BY <2>2, <3>1, <3>3
  <2>3. CASE ~(i + n > 8) /\ ~(i + 2 * n > 8)
        BY <2>3
  <2>4. QED BY <2>1, <2>2, <2>3
<1> HIDE DEF low
<1>4. QED BY <1>2, <1>3 DEF Filled, low

LEMMA WholeSizes ==
    /\ SizeOf["UINT8"] = 1 /\ SizeOf["UINT16"] = 2 /\ SizeOf["UINT32"] = 4 /\ SizeOf["UINT64"] = 8
    /\ SizeOf["INT8"] = 1 /\ SizeOf["INT16"] = 2 /\ SizeOf["INT32"] = 4 /\ SizeOf["INT64"] = 8
BY DEF SizeOf

\* A number behind a first byte that tells its type, and one that is its first byte.
LEMMA PrefixedNumber ==
    ASSUME NEW type \in UnsignedTypes \union SignedTypes, NEW n \in {1, 2, 4, 8},
           SizeOf[type] = n, NEW b \in Bytes(n), NEW byte \in Byte, Heads(byte, type, 0, n)
    PROVE  NumberIsRead(<<byte>> \o b, NumberOf(Scalar(type, b)))
<1>1. b \in Seq(Byte) /\ Heads(byte, type, 0, Len(b)) /\ type # "ARRAY" /\ type # "OBJECT"
      BY DEF Bytes, UnsignedTypes, SignedTypes
<1>2. ReadAs(<<byte>> \o b, Scalar(type, b))
      BY <1>1, SizedIsRead
<1>3. PICK w : w = Scalar(type, b)
      OBVIOUS
<1>4. w.type = type /\ w.bytes = b
      BY <1>3 DEF Scalar
<1>5. PICK s : s = <<byte>> \o b
      OBVIOUS
<1>6. s[1] = byte
      BY <1>1, <1>5
<1>7. TypeTold(byte) = type
      BY DEF Heads, TypeTold
<1>8. QED BY <1>2, <1>3, <1>4, <1>5, <1>6, <1>7 DEF NumberIsRead

LEMMA SingleNumber ==
    ASSUME NEW type \in {"UINT8", "INT8"}, NEW byte \in Byte,
           IsSingle(byte, Scalar(type, <<byte>>))
    PROVE  NumberIsRead(<<byte>>, NumberOf(Scalar(type, <<byte>>)))
<1>1. PICK w : w = Scalar(type, <<byte>>)
      OBVIOUS
<1>2. ReadAs(<<byte>>, w)
      BY <1>1, SingleIsRead
<1>3. w.type = type /\ w.bytes = <<byte>> /\ type \in UnsignedTypes \union SignedTypes
      BY <1>1 DEF Scalar, UnsignedTypes, SignedTypes
<1>4. <<byte>> \in Bytes(1) /\ <<byte>>[1] = byte
      BY DEF Bytes
<1>5. TypeTold(byte) = type
      BY <1>1, <1>3 DEF IsSingle, TypeTold
<1>6. SizeOf[type] = 1
      BY WholeSizes
<1>7. QED BY <1>1, <1>2, <1>3, <1>4, <1>5, <1>6 DEF NumberIsRead

LEMMA UnsignedNumber ==
    ASSUME NEW type \in UnsignedTypes, NEW b
    PROVE  NumberOf(Scalar(type, b)) = Filled(b, 0)
BY DEF NumberOf, Scalar, UnsignedTypes, SignedTypes

LEMMA SignedNumber ==
    ASSUME NEW type \in SignedTypes, NEW b
    PROVE  NumberOf(Scalar(type, b)) = Filled(b, SignFill(b))
BY DEF NumberOf, Scalar

LEMMA OneByte ==
    ASSUME NEW b \in Bytes(1)
    PROVE  b = <<b[1]>> /\ b[1] \in Byte
<1>1. b \in Seq(Byte) /\ Len(b) = 1
      BY DEF Bytes
<1>2. b[1] \in Byte
      BY <1>1, ElementOfSeq
<1>3. <<b[1]>> \in Seq(Byte) /\ Len(<<b[1]>>) = 1 /\ <<b[1]>>[1] = b[1]
      BY <1>2
<1>4. PICK c \in Seq(Byte) : c = <<b[1]>> /\ Len(c) = 1 /\ c[1] = b[1]
      BY <1>3
<1>5. \A i \in 1..Len(b) : b[i] = c[i]
      BY <1>1, <1>4
<1>6. b = c
      BY <1>1, <1>4, <1>5, SeqEqual
<1>7. QED BY <1>2, <1>4, <1>6

\* dump_uint8 to dump_uint64.
LEMMA Uint8IsRead ==
    ASSUME NEW b \in Bytes(1)
    PROVE  NumberIsRead(DumpUint8(b), Filled(b, 0))
<1>1. PICK byte \in Byte : b = <<byte>>
      BY OneByte
<1>2. byte \in 0..255 /\ b[1] = byte
      BY <1>1 DEF Byte
<1>3. CASE byte >= 128
      <2>1. Heads(204, "UINT8", 0, 1) /\ 204 \in Byte
            BY HeadsTell DEF Byte
      <2>2. NumberIsRead(<<204>> \o b, NumberOf(Scalar("UINT8", b)))
            BY <2>1, PrefixedNumber, WholeSizes DEF UnsignedTypes
      <2>3. DumpUint8(b) = <<204>> \o b
            BY <1>2, <1>3 DEF DumpUint8
      <2>4. QED BY <2>2, <2>3, UnsignedNumber DEF UnsignedTypes
<1>4. CASE ~(byte >= 128)
      <2>0. byte <= 127
            BY <1>2, <1>4
      <2>1. IsSingle(byte, Scalar("UINT8", <<byte>>))
            BY <2>0, SinglesTell, Zenon
      <2>2. NumberIsRead(<<byte>>, NumberOf(Scalar("UINT8", <<byte>>)))
            BY <2>1, SingleNumber DEF UnsignedTypes
      <2>3. DumpUint8(b) = <<byte>>
            BY <1>1, <1>2, <1>4 DEF DumpUint8
      <2>4. NumberOf(Scalar("UINT8", <<byte>>)) = Filled(b, 0)
            BY <1>1, UnsignedNumber DEF UnsignedTypes
      <2>5. QED BY <2>2, <2>3, <2>4
<1>5. QED BY <1>3, <1>4

\* One step down the ladder: the lower half stands for the same number.
LEMMA FitsBelow ==
    ASSUME NEW n \in {1, 2, 4}, NEW b \in Bytes(2 * n), FitsNarrower(b)
    PROVE  LowerHalf(b) \in Bytes(n) /\ Filled(LowerHalf(b), 0) = Filled(b, 0)
<1>1. PICK zero : zero = 0
      OBVIOUS
<1>2. Narrows(b, zero)
      BY <1>1 DEF FitsNarrower, Narrows
<1>3. Filled(LowerHalf(b), zero) = Filled(b, zero)
      BY <1>2, Narrowing
<1>4. QED BY <1>1, <1>3, Halves

LEMMA Uint16IsRead ==
    ASSUME NEW b \in Bytes(2)
    PROVE  NumberIsRead(DumpUint16(b), Filled(b, 0))
<1>1. CASE FitsNarrower(b)
      <2>1. LowerHalf(b) \in Bytes(1) /\ Filled(LowerHalf(b), 0) = Filled(b, 0)
            <3>1. PICK n \in {1, 2, 4} : n = 1
                  OBVIOUS
            <3>2. b \in Bytes(2 * n)
                  BY <3>1
            <3>3. QED BY <1>1, <3>1, <3>2, FitsBelow
      <2>2. NumberIsRead(DumpUint8(LowerHalf(b)), Filled(LowerHalf(b), 0))
            BY <2>1, Uint8IsRead
      <2>3. QED BY <1>1, <2>1, <2>2 DEF DumpUint16
<1>2. CASE ~FitsNarrower(b)
      <2>1. Heads(205, "UINT16", 0, 2) /\ 205 \in Byte
            BY HeadsTell DEF Byte
      <2>2. NumberIsRead(<<205>> \o b, NumberOf(Scalar("UINT16", b)))
            BY <2>1, PrefixedNumber, WholeSizes DEF UnsignedTypes
      <2>3. DumpUint16(b) = <<205>> \o b
            BY <1>2 DEF DumpUint16
      <2>4. QED BY <2>2, <2>3, UnsignedNumber DEF UnsignedTypes
<1>3. QED BY <1>1, <1>2

LEMMA Uint32IsRead ==
    ASSUME NEW b \in Bytes(4)
    PROVE  NumberIsRead(DumpUint32(b), Filled(b, 0))
<1>1. CASE FitsNarrower(b)
      <2>1. LowerHalf(b) \in Bytes(2) /\ Filled(LowerHalf(b), 0) = Filled(b, 0)
            <3>1. PICK n \in {1, 2, 4} : n = 2
                  OBVIOUS
            <3>2. b \in Bytes(2 * n)
                  BY <3>1
            <3>3. QED BY <1>1, <3>1, <3>2, FitsBelow
      <2>2. NumberIsRead(DumpUint16(LowerHalf(b)), Filled(LowerHalf(b), 0))
            BY <2>1, Uint16IsRead
      <2>3. QED BY <1>1, <2>1, <2>2 DEF DumpUint32
<1>2. CASE ~FitsNarrower(b)
      <2>1. Heads(206, "UINT32", 0, 4) /\ 206 \in Byte
            BY HeadsTell DEF Byte
      <2>2. NumberIsRead(<<206>> \o b, NumberOf(Scalar("UINT32", b)))
            BY <2>1, PrefixedNumber, WholeSizes DEF UnsignedTypes
      <2>3. DumpUint32(b) = <<206>> \o b
            BY <1>2 DEF DumpUint32
      <2>4. QED BY <2>2, <2>3, UnsignedNumber DEF UnsignedTypes
<1>3. QED BY <1>1, <1>2

LEMMA Uint64IsRead ==
    ASSUME NEW b \in Bytes(8)
    PROVE  NumberIsRead(DumpUint64(b), Filled(b, 0))
<1>1. CASE FitsNarrower(b)
      <2>1. LowerHalf(b) \in Bytes(4) /\ Filled(LowerHalf(b), 0) = Filled(b, 0)
            <3>1. PICK n \in {1, 2, 4} : n = 4
                  OBVIOUS
            <3>2. b \in Bytes(2 * n)
                  BY <3>1
            <3>3. QED BY <1>1, <3>1, <3>2, FitsBelow
      <2>2. NumberIsRead(DumpUint32(LowerHalf(b)), Filled(LowerHalf(b), 0))
            BY <2>1, Uint32IsRead
      <2>3. QED BY <1>1, <2>1, <2>2 DEF DumpUint64
<1>2. CASE ~FitsNarrower(b)
      <2>1. Heads(207, "UINT64", 0, 8) /\ 207 \in Byte
            BY HeadsTell DEF Byte
      <2>2. NumberIsRead(<<207>> \o b, NumberOf(Scalar("UINT64", b)))
            BY <2>1, PrefixedNumber, WholeSizes DEF UnsignedTypes
      <2>3. DumpUint64(b) = <<207>> \o b
            BY <1>2 DEF DumpUint64
      <2>4. QED BY <2>2, <2>3, UnsignedNumber DEF UnsignedTypes
<1>3. QED BY <1>1, <1>2

\* dump_int8 to dump_int64.
LEMMA Int8IsRead ==
    ASSUME NEW b \in Bytes(1)
    PROVE  NumberIsRead(DumpInt8(b), Filled(b, SignFill(b)))
<1>1. PICK byte \in Byte : b = <<byte>>
      BY OneByte
<1>2. byte \in 0..255 /\ b[1] = byte
      BY <1>1 DEF Byte
<1>3. CASE byte >= 128 /\ byte < 224
      <2>1. Heads(208, "INT8", 0, 1) /\ 208 \in Byte
            BY HeadsTell DEF Byte
      <2>2. NumberIsRead(<<208>> \o b, NumberOf(Scalar("INT8", b)))
            BY <2>1, PrefixedNumber, WholeSizes DEF SignedTypes
      <2>3. DumpInt8(b) = <<208>> \o b
            BY <1>2, <1>3 DEF DumpInt8, IsNegative
      <2>4. QED BY <2>2, <2>3, SignedNumber DEF SignedTypes
<1>4. CASE byte >= 224
      <2>1. IsSingle(byte, Scalar("INT8", <<byte>>))
            BY <1>2, <1>4, SinglesTell
      <2>2. NumberIsRead(<<byte>>, NumberOf(Scalar("INT8", <<byte>>)))
            BY <2>1, SingleNumber DEF SignedTypes
      <2>3. DumpInt8(b) = <<byte>>
            BY <1>1, <1>2, <1>4 DEF DumpInt8
      <2>4. NumberOf(Scalar("INT8", <<byte>>)) = Filled(b, SignFill(b))
            BY <1>1, SignedNumber DEF SignedTypes
      <2>5. QED BY <2>2, <2>3, <2>4
<1>5. CASE byte < 128
      <2>0. byte <= 127
            BY <1>2, <1>5
      <2>1. IsSingle(byte, Scalar("UINT8", <<byte>>))
            BY <2>0, SinglesTell, Zenon
      <2>2. NumberIsRead(<<byte>>, NumberOf(Scalar("UINT8", <<byte>>)))
            BY <2>1, SingleNumber DEF UnsignedTypes
      <2>3. DumpInt8(b) = <<byte>> /\ SignFill(b) = 0
            BY <1>1, <1>2, <1>5 DEF DumpInt8, SignFill, IsNegative
      <2>4. NumberOf(Scalar("UINT8", <<byte>>)) = Filled(b, SignFill(b))
            BY <1>1, <2>3, UnsignedNumber DEF UnsignedTypes
      <2>5. QED BY <2>2, <2>3, <2>4
<1>6. QED BY <1>2, <1>3, <1>4, <1>5

\* One step down the ladder: a number that is not positive and not below what the
\* narrower type holds has its sign only in its upper half, and in the lower one too.
LEMMA HoldsBelow ==
    ASSUME NEW n \in {1, 2, 4}, NEW b \in Bytes(2 * n), ~BelowNarrower(b), NotPositive(b)
    PROVE  /\ LowerHalf(b) \in Bytes(n)
           /\ Filled(LowerHalf(b), SignFill(LowerHalf(b))) = Filled(b, SignFill(b))
<1>1. /\ LowerHalf(b) \in Bytes(n) /\ \A i \in 1..n : LowerHalf(b)[i] = b[i + n]
      /\ DOMAIN UpperHalf(b) = 1..n /\ \A i \in 1..n : UpperHalf(b)[i] = b[i]
      BY Halves
<1>2. SUFFICES \E fill : Narrows(b, fill) /\ SignFill(LowerHalf(b)) = fill /\ SignFill(b) = fill
      BY <1>1, Narrowing
<1>3. CASE IsNegative(b)
      <2>1. Narrows(b, 255) /\ SignFill(LowerHalf(b)) = 255 /\ SignFill(b) = 255
            BY <1>3 DEF BelowNarrower, Narrows, SignFill
      <2>2. QED BY <2>1
<1>4. CASE ~IsNegative(b)
      <2>1. \A i \in DOMAIN b : b[i] = 0
            BY <1>4 DEF NotPositive, AllAre
      <2>2. \A i \in 1..(2 * n) : b[i] = 0
            BY <2>1, LenProperties DEF Bytes
      <2>3. Narrows(b, 0)
            BY <1>1, <2>2 DEF Narrows, AllAre
      <2>4. LowerHalf(b)[1] = 0
            <3>1. 1 \in 1..n /\ 1 + n \in 1..(2 * n)
                  OBVIOUS
            <3>2. QED BY <1>1, <2>2, <3>1
      <2>5. SignFill(LowerHalf(b)) = 0 /\ SignFill(b) = 0
            BY <1>4, <2>4 DEF SignFill, IsNegative
      <2>6. QED BY <2>3, <2>5
<1>5. QED BY <1>3, <1>4

LEMMA PositiveFill ==
    ASSUME NEW b, ~NotPositive(b)
    PROVE  SignFill(b) = 0
BY DEF NotPositive, SignFill

LEMMA Int16IsRead ==
    ASSUME NEW b \in Bytes(2)
    PROVE  NumberIsRead(DumpInt16(b), Filled(b, SignFill(b)))
<1>1. CASE BelowNarrower(b)
      <2>1. Heads(209, "INT16", 0, 2) /\ 209 \in Byte
            BY HeadsTell DEF Byte
      <2>2. NumberIsRead(<<209>> \o b, NumberOf(Scalar("INT16", b)))
            BY <2>1, PrefixedNumber, WholeSizes DEF SignedTypes
      <2>3. DumpInt16(b) = <<209>> \o b
            BY <1>1 DEF DumpInt16
      <2>4. QED BY <2>2, <2>3, SignedNumber DEF SignedTypes
<1>2. CASE ~BelowNarrower(b) /\ NotPositive(b)
      <2>1. /\ LowerHalf(b) \in Bytes(1)
            /\ Filled(LowerHalf(b), SignFill(LowerHalf(b))) = Filled(b, SignFill(b))
            <3>1. PICK n \in {1, 2, 4} : n = 1
                  OBVIOUS
            <3>2. b \in Bytes(2 * n)
                  BY <3>1
            <3>3. QED BY <1>2, <3>1, <3>2, HoldsBelow
      <2>2. NumberIsRead(DumpInt8(LowerHalf(b)), Filled(LowerHalf(b), SignFill(LowerHalf(b))))
            BY <2>1, Int8IsRead
      <2>3. QED BY <1>2, <2>1, <2>2 DEF DumpInt16
<1>3. CASE ~BelowNarrower(b) /\ ~NotPositive(b)
      <2>1. DumpInt16(b) = DumpUint16(b) /\ SignFill(b) = 0
            BY <1>3, PositiveFill DEF DumpInt16
      <2>2. QED BY <2>1, Uint16IsRead
<1>4. QED BY <1>1, <1>2, <1>3

LEMMA Int32IsRead ==
    ASSUME NEW b \in Bytes(4)
    PROVE  NumberIsRead(DumpInt32(b), Filled(b, SignFill(b)))
<1>1. CASE BelowNarrower(b)
      <2>1. Heads(210, "INT32", 0, 4) /\ 210 \in Byte
            BY HeadsTell DEF Byte
      <2>2. NumberIsRead(<<210>> \o b, NumberOf(Scalar("INT32", b)))
            BY <2>1, PrefixedNumber, WholeSizes DEF SignedTypes
      <2>3. DumpInt32(b) = <<210>> \o b
            BY <1>1 DEF DumpInt32
      <2>4. QED BY <2>2, <2>3, SignedNumber DEF SignedTypes
<1>2. CASE ~BelowNarrower(b) /\ NotPositive(b)
      <2>1. /\ LowerHalf(b) \in Bytes(2)
            /\ Filled(LowerHalf(b), SignFill(LowerHalf(b))) = Filled(b, SignFill(b))
            <3>1. PICK n \in {1, 2, 4} : n = 2
                  OBVIOUS
            <3>2. b \in Bytes(2 * n)
                  BY <3>1
            <3>3. QED BY <1>2, <3>1, <3>2, HoldsBelow
      <2>2. NumberIsRead(DumpInt16(LowerHalf(b)), Filled(LowerHalf(b), SignFill(LowerHalf(b))))
            BY <2>1, Int16IsRead
      <2>3. QED BY <1>2, <2>1, <2>2 DEF DumpInt32
<1>3. CASE ~BelowNarrower(b) /\ ~NotPositive(b)
      <2>1. DumpInt32(b) = DumpUint32(b) /\ SignFill(b) = 0
            BY <1>3, PositiveFill DEF DumpInt32
      <2>2. QED BY <2>1, Uint32IsRead
<1>4. QED BY <1>1, <1>2, <1>3

LEMMA Int64IsRead ==
    ASSUME NEW b \in Bytes(8)
    PROVE  NumberIsRead(DumpInt64(b), Filled(b, SignFill(b)))
<1>1. CASE BelowNarrower(b)
      <2>1. Heads(211, "INT64", 0, 8) /\ 211 \in Byte
            BY HeadsTell DEF Byte
      <2>2. NumberIsRead(<<211>> \o b, NumberOf(Scalar("INT64", b)))
            BY <2>1, PrefixedNumber, WholeSizes DEF SignedTypes
      <2>3. DumpInt64(b) = <<211>> \o b
            BY <1>1 DEF DumpInt64
      <2>4. QED BY <2>2, <2>3, SignedNumber DEF SignedTypes
<1>2. CASE ~BelowNarrower(b) /\ NotPositive(b)
      <2>1. /\ LowerHalf(b) \in Bytes(4)
            /\ Filled(LowerHalf(b), SignFill(LowerHalf(b))) = Filled(b, SignFill(b))
            <3>1. PICK n \in {1, 2, 4} : n = 4
                  OBVIOUS
            <3>2. b \in Bytes(2 * n)
                  BY <3>1
            <3>3. QED BY <1>2, <3>1, <3>2, HoldsBelow
      <2>2. NumberIsRead(DumpInt32(LowerHalf(b)), Filled(LowerHalf(b), SignFill(LowerHalf(b))))
            BY <2>1, Int32IsRead
      <2>3. QED BY <1>2, <2>1, <2>2 DEF DumpInt64
<1>3. CASE ~BelowNarrower(b) /\ ~NotPositive(b)
      <2>1. DumpInt64(b) = DumpUint64(b) /\ SignFill(b) = 0
            BY <1>3, PositiveFill DEF DumpInt64
      <2>2. QED BY <2>1, Uint64IsRead
<1>4. QED BY <1>1, <1>2, <1>3
---------------------------------------------------------------------
\* What is read back of every value that holds no other values.

Bools == {<<0>>, <<1>>}

\* What is written as s is read as what comes back for the leaf v.
IsReadBack(s, v) == \E w : LeafBack(w, v, s) /\ ReadAs(s, w)

LEMMA IntegerRead ==
    ASSUME NEW type \in UnsignedTypes \union SignedTypes, NEW b \in Bytes(SizeOf[type])
    PROVE  IsReadBack(DumpLeaf(Scalar(type, b)), Scalar(type, b))
<1> DEFINE v == Scalar(type, b)
<1>1. v.type = type /\ v.bytes = b
      BY DEF Scalar
<1>2. SUFFICES NumberIsRead(DumpLeaf(v), NumberOf(v))
      BY <1>1 DEF NumberIsRead, IsReadBack, LeafBack, Same
<1>3. b \in Bytes(SizeOf[type])
      OBVIOUS
<1> HIDE DEF v
<1>4. CASE type \in UnsignedTypes
  <2>1. NumberOf(v) = Filled(b, 0)
        BY <1>4, UnsignedNumber DEF v
  <2>2. CASE type = "UINT8"
        BY <1>1, <1>3, <2>1, <2>2, Uint8IsRead DEF DumpLeaf, SizeOf
  <2>3. CASE type = "UINT16"
        BY <1>1, <1>3, <2>1, <2>3, Uint16IsRead DEF DumpLeaf, SizeOf
  <2>4. CASE type = "UINT32"
        BY <1>1, <1>3, <2>1, <2>4, Uint32IsRead DEF DumpLeaf, SizeOf
  <2>5. CASE type = "UINT64"
        BY <1>1, <1>3, <2>1, <2>5, Uint64IsRead DEF DumpLeaf, SizeOf
  <2>6. QED BY <1>4, <2>2, <2>3, <2>4, <2>5 DEF UnsignedTypes
<1>5. CASE type \in SignedTypes
  <2>1. NumberOf(v) = Filled(b, SignFill(b))
        BY <1>5, SignedNumber DEF v
  <2>2. CASE type = "INT8"
        BY <1>1, <1>3, <2>1, <2>2, Int8IsRead DEF DumpLeaf, SizeOf
  <2>3. CASE type = "INT16"
        BY <1>1, <1>3, <2>1, <2>3, Int16IsRead DEF DumpLeaf, SizeOf
  <2>4. CASE type = "INT32"
        BY <1>1, <1>3, <2>1, <2>4, Int32IsRead DEF DumpLeaf, SizeOf
  <2>5. CASE type = "INT64"
        BY <1>1, <1>3, <2>1, <2>5, Int64IsRead DEF DumpLeaf, SizeOf
  <2>6. QED BY <1>5, <2>2, <2>3, <2>4, <2>5 DEF SignedTypes
<1>6. QED BY <1>4, <1>5 DEF v

\* A type whose values are read back as they are.
LEMMA AsItIs ==
    ASSUME NEW type, type \notin UnsignedTypes \union SignedTypes, NEW b,
           ReadAs(DumpLeaf(Scalar(type, b)), Scalar(type, b))
    PROVE  IsReadBack(DumpLeaf(Scalar(type, b)), Scalar(type, b))
<1> DEFINE v == Scalar(type, b)
<1>1. v.type = type
      BY DEF Scalar
<1>2. LeafBack(v, v, DumpLeaf(v))
      BY <1>1 DEF LeafBack, Same
<1> HIDE DEF v
<1>3. ReadAs(DumpLeaf(v), v)
      BY DEF v
<1>4. QED BY <1>2, <1>3 DEF IsReadBack, v

LEMMA NilRead == IsReadBack(DumpLeaf(Nil), Nil)
<1>1. PICK empty : empty = <<>>
      OBVIOUS
<1>2. Nil = Scalar("NUL", empty)
      BY <1>1 DEF Nil
<1>3. DumpLeaf(Nil) = <<192>>
      <2>1. Nil.type = "NUL"
            BY DEF Nil, Scalar
      <2>2. QED BY <2>1 DEF DumpLeaf
<1>4. IsSingle(192, Nil) /\ 192 \in Byte
      BY SinglesTell DEF Byte
<1>5. ReadAs(<<192>>, Nil)
      BY <1>4, SingleIsRead
<1>6. QED BY <1>2, <1>3, <1>5, AsItIs DEF UnsignedTypes, SignedTypes

LEMMA BoolRead ==
    ASSUME NEW b \in Bools
    PROVE  IsReadBack(DumpLeaf(Scalar("BOOL", b)), Scalar("BOOL", b))
<1> DEFINE v == Scalar("BOOL", b)
<1>0. b = <<0>> \/ b = <<1>>
      BY DEF Bools
<1>1. v.type = "BOOL" /\ v.bytes = b
      BY DEF Scalar
<1>2. SUFFICES ReadAs(DumpLeaf(v), v)
      BY AsItIs DEF UnsignedTypes, SignedTypes
<1>3. CASE b = <<1>>
      <2>1. DumpLeaf(v) = <<195>>
            BY <1>1, <1>3 DEF DumpLeaf
      <2>2. v = Scalar("BOOL", <<1>>)
            BY <1>3
      <2>3. IsSingle(195, Scalar("BOOL", <<IF 195 = 195 THEN 1 ELSE 0>>)) /\ 195 \in Byte
            BY SinglesTell DEF Byte
      <2>4. ReadAs(<<195>>, Scalar("BOOL", <<1>>))
            BY <2>3, SingleIsRead
      <2>5. QED BY <2>1, <2>2, <2>4
<1>4. CASE b = <<0>>
      <2>1. DumpLeaf(v) = <<194>>
            <3>1. b # <<1>>
                  <4>1. b[1] = 0 /\ <<1>>[1] = 1
                        BY <1>4
                  <4>2. QED BY <4>1
            <3>2. v.bytes # <<1>>
                  BY <1>1, <3>1, Zenon
            <3>3. DumpLeaf(v) = IF v.bytes = <<1>> THEN <<195>> ELSE <<194>>
                  BY <1>1 DEF DumpLeaf
            <3>4. QED BY <3>2, <3>3, Zenon
      <2>2. v = Scalar("BOOL", <<0>>)
            BY <1>4
      <2>3. IsSingle(194, Scalar("BOOL", <<IF 194 = 195 THEN 1 ELSE 0>>)) /\ 194 \in Byte
            BY SinglesTell DEF Byte
      <2>4. ReadAs(<<194>>, Scalar("BOOL", <<0>>))
            BY <2>3, SingleIsRead
      <2>5. QED BY <2>1, <2>2, <2>4
<1>5. QED BY <1>0, <1>3, <1>4

LEMMA FloatRead ==
    ASSUME NEW type \in {"FLOAT32", "FLOAT64"}, NEW b \in Bytes(SizeOf[type])
    PROVE  IsReadBack(DumpLeaf(Scalar(type, b)), Scalar(type, b))
<1> DEFINE v == Scalar(type, b)
<1>1. v.type = type /\ v.bytes = b
      BY DEF Scalar
<1>2. SUFFICES ReadAs(DumpLeaf(v), v)
      BY AsItIs DEF UnsignedTypes, SignedTypes
<1>3. PICK byte \in Byte : Heads(byte, type, 0, SizeOf[type]) /\ DumpLeaf(v) = <<byte>> \o b
      <2>1. CASE type = "FLOAT32"
            <3>1. Heads(202, "FLOAT32", 0, 4) /\ 202 \in Byte
                  BY HeadsTell DEF Byte
            <3>2. QED BY <1>1, <2>1, <3>1 DEF DumpLeaf, SizeOf
      <2>2. CASE type = "FLOAT64"
            <3>1. Heads(203, "FLOAT64", 0, 8) /\ 203 \in Byte
                  BY HeadsTell DEF Byte
            <3>2. QED BY <1>1, <2>2, <3>1 DEF DumpLeaf, SizeOf
      <2>3. QED BY <2>1, <2>2
<1>4. b \in Seq(Byte) /\ Heads(byte, type, 0, Len(b)) /\ type # "ARRAY" /\ type # "OBJECT"
      BY <1>3 DEF Bytes
<1>5. QED BY <1>3, <1>4, SizedIsRead

\* n bytes behind a length of n, in one, two or four bytes, and "plus" more.
LEMMA CountedRead ==
    ASSUME NEW type, type # "ARRAY", type # "OBJECT", NEW plus \in Nat, NEW n \in Lengths,
           NEW s \in Seq(Byte), Len(s) = plus + n, NEW byte \in Byte
    PROVE  /\ n \in Byte /\ Heads(byte, type, 1, plus) =>
                ReadAs((<<byte>> \o Bytes1(n)) \o s, Scalar(type, s))
           /\ n \in Shorts /\ Heads(byte, type, 2, plus) =>
                ReadAs((<<byte>> \o Bytes2(n)) \o s, Scalar(type, s))
           /\ Heads(byte, type, 4, plus) =>
                ReadAs((<<byte>> \o Bytes4(n)) \o s, Scalar(type, s))
<1>1. ASSUME NEW c \in Seq(Byte), NEW wide \in {1, 2, 4}, Len(c) = wide, BigEndian(c) = n,
             Heads(byte, type, wide, plus)
      PROVE  ReadAs((<<byte>> \o c) \o s, Scalar(type, s))
      <2>1. Len(c) \in {1, 2, 4} /\ Heads(byte, type, Len(c), plus)
            BY <1>1
      <2>2. plus + BigEndian(c) = Len(s)
            BY <1>1
      <2>3. QED BY <2>1, <2>2, LongIsRead
<1>2. n \in Byte => Bytes1(n) \in Seq(Byte) /\ Len(Bytes1(n)) = 1 /\ BigEndian(Bytes1(n)) = n
      BY Bytes1IsRead
<1>3. n \in Shorts => Bytes2(n) \in Seq(Byte) /\ Len(Bytes2(n)) = 2 /\ BigEndian(Bytes2(n)) = n
      BY Bytes2IsRead
<1>4. Bytes4(n) \in Seq(Byte) /\ Len(Bytes4(n)) = 4 /\ BigEndian(Bytes4(n)) = n
      BY Bytes4IsRead
<1>5. 1 \in {1, 2, 4} /\ 2 \in {1, 2, 4} /\ 4 \in {1, 2, 4}
      OBVIOUS
<1>6. n \in Byte /\ Heads(byte, type, 1, plus) =>
          ReadAs((<<byte>> \o Bytes1(n)) \o s, Scalar(type, s))
      BY <1>1, <1>2, <1>5, Zenon
<1>7. n \in Shorts /\ Heads(byte, type, 2, plus) =>
          ReadAs((<<byte>> \o Bytes2(n)) \o s, Scalar(type, s))
      BY <1>1, <1>3, <1>5, Zenon
<1>8. Heads(byte, type, 4, plus) => ReadAs((<<byte>> \o Bytes4(n)) \o s, Scalar(type, s))
      BY <1>1, <1>4, <1>5, Zenon
<1>9. QED BY <1>6, <1>7, <1>8

\* The first bytes that dump_string and the headers of binaries and extensions begin with.
LEMMA FirstBytes ==
    /\ 217 \in Byte /\ Heads(217, "STRING", 1, 0)
    /\ 218 \in Byte /\ Heads(218, "STRING", 2, 0)
    /\ 219 \in Byte /\ Heads(219, "STRING", 4, 0)
    /\ 196 \in Byte /\ Heads(196, "BINARY", 1, 0)
    /\ 197 \in Byte /\ Heads(197, "BINARY", 2, 0)
    /\ 198 \in Byte /\ Heads(198, "BINARY", 4, 0)
    /\ 199 \in Byte /\ Heads(199, "EXTENSION", 1, 1)
    /\ 200 \in Byte /\ Heads(200, "EXTENSION", 2, 1)
    /\ 201 \in Byte /\ Heads(201, "EXTENSION", 4, 1)
<1>1. 217 \in Byte /\ Heads(217, "STRING", 1, 0)
      BY HeadsTell DEF Byte
<1>2. 218 \in Byte /\ Heads(218, "STRING", 2, 0)
      BY HeadsTell DEF Byte
<1>3. 219 \in Byte /\ Heads(219, "STRING", 4, 0)
      BY HeadsTell DEF Byte
<1>4. 196 \in Byte /\ Heads(196, "BINARY", 1, 0)
      BY HeadsTell DEF Byte
<1>5. 197 \in Byte /\ Heads(197, "BINARY", 2, 0)
      BY HeadsTell DEF Byte
<1>6. 198 \in Byte /\ Heads(198, "BINARY", 4, 0)
      BY HeadsTell DEF Byte
<1>7. 199 \in Byte /\ Heads(199, "EXTENSION", 1, 1)
      BY HeadsTell DEF Byte
<1>8. 200 \in Byte /\ Heads(200, "EXTENSION", 2, 1)
      BY HeadsTell DEF Byte
<1>9. 201 \in Byte /\ Heads(201, "EXTENSION", 4, 1)
      BY HeadsTell DEF Byte
<1>10. QED BY <1>1, <1>2, <1>3, <1>4, <1>5, <1>6, <1>7, <1>8, <1>9

LEMMA StringRead ==
    ASSUME NEW s \in Seq(Byte), NEW n \in Lengths, Len(s) = n
    PROVE  ReadAs(StringHeader(n) \o s, Scalar("STRING", s))
<1>1. PICK plus \in Nat : plus = 0
      OBVIOUS
<1>h. /\ 217 \in Byte /\ Heads(217, "STRING", 1, plus)
      /\ 218 \in Byte /\ Heads(218, "STRING", 2, plus)
      /\ 219 \in Byte /\ Heads(219, "STRING", 4, plus)
      BY <1>1, FirstBytes
<1>2. \A byte \in Byte :
          /\ n \in Byte /\ Heads(byte, "STRING", 1, plus) =>
                ReadAs((<<byte>> \o Bytes1(n)) \o s, Scalar("STRING", s))
          /\ n \in Shorts /\ Heads(byte, "STRING", 2, plus) =>
                ReadAs((<<byte>> \o Bytes2(n)) \o s, Scalar("STRING", s))
          /\ Heads(byte, "STRING", 4, plus) =>
                ReadAs((<<byte>> \o Bytes4(n)) \o s, Scalar("STRING", s))
      <2>1. Len(s) = plus + n
            BY <1>1 DEF Lengths
      <2>2. QED BY <2>1, CountedRead, Zenon
<1>3. CASE n <= 31
      <2>1. PICK byte \in 160..191 : byte = 160 + n
            BY <1>3 DEF Lengths
      <2>2. byte \in Byte /\ byte % 32 = n
            BY <1>3, <2>1 DEF Lengths, Byte
      <2>3. Heads(byte, "STRING", 0, byte % 32)
            BY <2>2, HeadsTell, Zenon
      <2>4. Heads(byte, "STRING", 0, Len(s))
            BY <2>2, <2>3
      <2>5. ReadAs(<<byte>> \o s, Scalar("STRING", s))
            BY <2>2, <2>4, SizedIsRead
      <2>6. StringHeader(n) = <<byte>>
            BY <1>3, <2>1, StringHeaders
      <2>7. QED BY <2>5, <2>6
<1>4. CASE ~(n <= 31) /\ n \in Byte
      <2>1. ReadAs((<<217>> \o Bytes1(n)) \o s, Scalar("STRING", s))
            BY <1>h, <1>2, <1>4, Zenon
      <2>2. QED BY <1>4, <2>1, StringHeaders, Zenon
<1>5. CASE n \notin Byte /\ n \in Shorts
      <2>1. ReadAs((<<218>> \o Bytes2(n)) \o s, Scalar("STRING", s))
            BY <1>h, <1>2, <1>5, Zenon
      <2>2. QED BY <1>5, <2>1, StringHeaders, Zenon
<1>6. CASE n \notin Shorts
      <2>1. ReadAs((<<219>> \o Bytes4(n)) \o s, Scalar("STRING", s))
            BY <1>h, <1>2, Zenon
      <2>2. QED BY <1>6, <2>1, StringHeaders, Zenon
<1>7. QED BY <1>3, <1>4, <1>5, <1>6, Ladder

LEMMA BinaryRead ==
    ASSUME NEW s \in Seq(Byte), NEW n \in Lengths, Len(s) = n
    PROVE  ReadAs(BinaryHeader(n) \o s, Scalar("BINARY", s))
<1>1. PICK plus \in Nat : plus = 0
      OBVIOUS
<1>h. /\ 196 \in Byte /\ Heads(196, "BINARY", 1, plus)
      /\ 197 \in Byte /\ Heads(197, "BINARY", 2, plus)
      /\ 198 \in Byte /\ Heads(198, "BINARY", 4, plus)
      BY <1>1, FirstBytes
<1>2. \A byte \in Byte :
          /\ n \in Byte /\ Heads(byte, "BINARY", 1, plus) =>
                ReadAs((<<byte>> \o Bytes1(n)) \o s, Scalar("BINARY", s))
          /\ n \in Shorts /\ Heads(byte, "BINARY", 2, plus) =>
                ReadAs((<<byte>> \o Bytes2(n)) \o s, Scalar("BINARY", s))
          /\ Heads(byte, "BINARY", 4, plus) =>
                ReadAs((<<byte>> \o Bytes4(n)) \o s, Scalar("BINARY", s))
      <2>1. Len(s) = plus + n
            BY <1>1 DEF Lengths
      <2>2. QED BY <2>1, CountedRead, Zenon
<1>3. CASE n \in Byte
      <2>1. ReadAs((<<196>> \o Bytes1(n)) \o s, Scalar("BINARY", s))
            BY <1>h, <1>2, <1>3, Zenon
      <2>2. QED BY <1>3, <2>1, BinaryHeaders, Zenon
<1>4. CASE n \notin Byte /\ n \in Shorts
      <2>1. ReadAs((<<197>> \o Bytes2(n)) \o s, Scalar("BINARY", s))
            BY <1>h, <1>2, <1>4, Zenon
      <2>2. QED BY <1>4, <2>1, BinaryHeaders, Zenon
<1>5. CASE n \notin Shorts
      <2>1. ReadAs((<<198>> \o Bytes4(n)) \o s, Scalar("BINARY", s))
            BY <1>h, <1>2, Zenon
      <2>2. QED BY <1>5, <2>1, BinaryHeaders, Zenon
<1>6. QED BY <1>3, <1>4, <1>5, Ladder

LEMMA ExtensionRead ==
    ASSUME NEW s \in Seq(Byte), NEW n \in Lengths, Len(s) = 1 + n
    PROVE  ReadAs(ExtensionHeader(n) \o s, Scalar("EXTENSION", s))
<1>1. PICK plus \in Nat : plus = 1
      OBVIOUS
<1>h. /\ 199 \in Byte /\ Heads(199, "EXTENSION", 1, plus)
      /\ 200 \in Byte /\ Heads(200, "EXTENSION", 2, plus)
      /\ 201 \in Byte /\ Heads(201, "EXTENSION", 4, plus)
      BY <1>1, FirstBytes
<1>2. \A byte \in Byte :
          /\ n \in Byte /\ Heads(byte, "EXTENSION", 1, plus) =>
                ReadAs((<<byte>> \o Bytes1(n)) \o s, Scalar("EXTENSION", s))
          /\ n \in Shorts /\ Heads(byte, "EXTENSION", 2, plus) =>
                ReadAs((<<byte>> \o Bytes2(n)) \o s, Scalar("EXTENSION", s))
          /\ Heads(byte, "EXTENSION", 4, plus) =>
                ReadAs((<<byte>> \o Bytes4(n)) \o s, Scalar("EXTENSION", s))
      <2>1. Len(s) = plus + n
            BY <1>1
      <2>2. QED BY <2>1, CountedRead, Zenon
<1>3. CASE n \in {1, 2, 4, 8, 16}
      <2>1. PICK byte \in 212..216 :
                ExtensionHeader(n) = <<byte>> /\ <<1, 2, 4, 8, 16>>[byte - 211] = n
            BY <1>3, ExtensionHeaders
      <2>2. byte \in Byte
            BY DEF Byte
      <2>3. Heads(byte, "EXTENSION", 0, 1 + <<1, 2, 4, 8, 16>>[byte - 211])
            BY <2>2, HeadsTell, Zenon
      <2>4. Heads(byte, "EXTENSION", 0, Len(s))
            BY <2>1, <2>3
      <2>5. ReadAs(<<byte>> \o s, Scalar("EXTENSION", s))
            BY <2>2, <2>4, SizedIsRead
      <2>6. QED BY <2>1, <2>5
<1>4. CASE n \notin {1, 2, 4, 8, 16} /\ n \in Byte
      <2>1. ReadAs((<<199>> \o Bytes1(n)) \o s, Scalar("EXTENSION", s))
            BY <1>h, <1>2, <1>4, Zenon
      <2>2. QED BY <1>4, <2>1, ExtensionHeaders, Zenon
<1>5. CASE n \notin {1, 2, 4, 8, 16} /\ n \notin Byte /\ n \in Shorts
      <2>1. ReadAs((<<200>> \o Bytes2(n)) \o s, Scalar("EXTENSION", s))
            BY <1>h, <1>2, <1>5, Zenon
      <2>2. QED BY <1>5, <2>1, ExtensionHeaders, Zenon
<1>6. CASE n \notin {1, 2, 4, 8, 16} /\ n \notin Shorts
      <2>1. ReadAs((<<201>> \o Bytes4(n)) \o s, Scalar("EXTENSION", s))
            BY <1>h, <1>2, Zenon
      <2>2. QED BY <1>6, <2>1, ExtensionHeaders, Zenon
<1>7. QED BY <1>3, <1>4, <1>5, <1>6

\* Every value that holds no others, as dump writes it, is read as itself.
LEMMA LeafRead ==
    ASSUME NEW type, NEW b, MayHold(type, b)
    PROVE  IsReadBack(DumpLeaf(Scalar(type, b)), Scalar(type, b))
<1> DEFINE v == Scalar(type, b)
<1>0. v.type = type /\ v.bytes = b
      BY DEF Scalar
<1>1. CASE type = "NUL" /\ b = <<>>
      BY <1>1, NilRead DEF Nil
<1>2. CASE type = "BOOL" /\ b \in Bools
      BY <1>2, BoolRead
<1>3. CASE type \in DOMAIN SizeOf /\ b \in Bytes(SizeOf[type])
      <2>1. type \in {"FLOAT32", "FLOAT64"} \/ type \in UnsignedTypes \union SignedTypes
            BY <1>3 DEF SizeOf, UnsignedTypes, SignedTypes
      <2>2. QED BY <1>3, <2>1, FloatRead, IntegerRead
<1>4. CASE type = "STRING" /\ b \in Seq(Byte) /\ Len(b) \in Lengths
      <2>1. DumpLeaf(v) = StringHeader(Len(b)) \o b
            BY <1>0, <1>4 DEF DumpLeaf
      <2>2. ReadAs(StringHeader(Len(b)) \o b, Scalar("STRING", b))
            BY <1>4, StringRead
      <2>3. QED BY <1>4, <2>1, <2>2, AsItIs DEF UnsignedTypes, SignedTypes
<1>5. CASE type = "BINARY" /\ b \in Seq(Byte) /\ Len(b) \in Lengths
      <2>1. DumpLeaf(v) = BinaryHeader(Len(b)) \o b
            BY <1>0, <1>5 DEF DumpLeaf
      <2>2. ReadAs(BinaryHeader(Len(b)) \o b, Scalar("BINARY", b))
            BY <1>5, BinaryRead
      <2>3. QED BY <1>5, <2>1, <2>2, AsItIs DEF UnsignedTypes, SignedTypes
<1>6. CASE type = "EXTENSION" /\ b \in Seq(Byte) /\ Len(b) - 1 \in Lengths
      <2>1. PICK n \in Lengths : n = Len(b) - 1
            BY <1>6
      <2>2. Len(b) = 1 + n
            BY <1>6, <2>1, LenProperties
      <2>3. DumpLeaf(v) = ExtensionHeader(n) \o b
            BY <1>0, <1>6, <2>1 DEF DumpLeaf
      <2>4. ReadAs(ExtensionHeader(n) \o b, Scalar("EXTENSION", b))
            BY <1>6, <2>2, ExtensionRead
      <2>5. QED BY <1>6, <2>3, <2>4, AsItIs DEF UnsignedTypes, SignedTypes
<1>7. QED BY <1>1, <1>2, <1>3, <1>4, <1>5, <1>6 DEF MayHold, Bools

\* A call of parse that begins where dump has written such a value returns it, leaves
\* the stream right behind it and err as it was.
LeavesReadBack ==
    pc = "done" /\ Good(began.is) =>
        \A type : \A b :
            LET v == Scalar(type, b)
            IN  MayHold(type, b) /\ Lies(input, began.is.pos, DumpLeaf(v)) =>
                    /\ Same(ret, v)
                    /\ is = [pos |-> began.is.pos + Len(DumpLeaf(v)), eof |-> FALSE, fail |-> FALSE]
                    /\ err = began.err

\* Whatever lies around it, and whatever was read on the stream before: what dump
\* writes for a null, a bool, a number, a string, a binary or an extension is read back
\* as the same value; of an integer the number stays, in the narrowest type for it.
THEOREM LeavesAreReadBack ==
    ASSUME \A in \in Inputs : Reference!KeysOrdered(in)
    PROVE  Spec => []LeavesReadBack
<1>1. IInv /\ MatchesReference => LeavesReadBack
  <2> SUFFICES ASSUME IInv, MatchesReference, pc = "done", Good(began.is), NEW type, NEW b,
                      MayHold(type, b), Lies(input, began.is.pos, DumpLeaf(Scalar(type, b)))
               PROVE  /\ Same(ret, Scalar(type, b))
                      /\ is = [pos |-> began.is.pos + Len(DumpLeaf(Scalar(type, b))),
                               eof |-> FALSE, fail |-> FALSE]
                      /\ err = began.err
      BY DEF LeavesReadBack
  <2>1. PICK p \in 0..Len(input) : p = began.is.pos
        BY DEF Lies
  <2>2. input \in Seq(Byte) /\ p \in Nat
        BY InputBytes, LenProperties
  <2>3. PICK s : s = DumpLeaf(Scalar(type, b))
        OBVIOUS
  <2>4. PICK w : Same(w, Scalar(type, b)) /\ ReadAs(s, w)
        BY <2>3, LeafRead DEF IsReadBack, LeafBack
  <2>5. Reference!At(input, p, Table(input, 1)) = Reference!Got(w, p + Len(s))
        BY <2>1, <2>2, <2>3, <2>4 DEF ReadAs
  <2>6. Table(input, 0)[p] = Reference!At(input, p, Table(input, 1))
        <3>1. 0 \in 0..MaxDepth /\ 0 + 1 = 1
              BY MaxDepthAssumption
        <3>2. Table(input, 0)[p] = Reference!At(input, p, Table(input, 0 + 1))
              BY <3>1, TableAround
        <3>3. QED BY <3>1, <3>2
  <2>7. Means(Reference!Got(w, p + Len(s)))
        BY <2>1, <2>5, <2>6 DEF MatchesReference, Reference!Value, Table
  <2>8. ret = w /\ is = [pos |-> p + Len(s), eof |-> FALSE, fail |-> FALSE] /\ err = began.err
        BY <2>7 DEF Means, Reference!Got
  <2>9. QED BY <2>1, <2>3, <2>4, <2>8
<1>2. QED BY <1>1, Invariance, ParserMatchesReference, PTL
---------------------------------------------------------------------
\* Sequences one after the other.  FlattenSeq is the last value of a function that
\* SequencesExt defines by recursion; f is that function as far as n.
IsFlat(f, s, n) == \A i \in 1..n : f[i] = IF i = 1 THEN s[i] ELSE f[i - 1] \o s[i]

LEMMA SomeFlat ==
    ASSUME NEW s
    PROVE  \A n \in Nat : \E f : IsFlat(f, s, n)
<1> DEFINE S == {n \in Nat : \E f : IsFlat(f, s, n)}
<1>1. 0 \in S
      <2>1. IsFlat([i \in 1..0 |-> s], s, 0)
            BY DEF IsFlat
      <2>2. QED BY <2>1
<1>2. ASSUME NEW n \in Nat, n \in S PROVE n + 1 \in S
      <2>1. PICK f : IsFlat(f, s, n)
            BY <1>2
      <2> DEFINE g == [i \in 1..(n + 1) |->
                          IF i <= n THEN f[i] ELSE IF i = 1 THEN s[i] ELSE f[n] \o s[i]]
      <2>2. \A i \in 1..(n + 1) : g[i] = IF i = 1 THEN s[i] ELSE g[i - 1] \o s[i]
            <3>1. TAKE i \in 1..(n + 1)
            <3>2. CASE i <= n
                  <4>1. f[i] = IF i = 1 THEN s[i] ELSE f[i - 1] \o s[i]
                        BY <2>1, <3>2 DEF IsFlat
                  <4>2. g[i] = f[i] /\ (i # 1 => g[i - 1] = f[i - 1])
                        BY <3>2
                  <4>3. QED BY <4>1, <4>2
            <3>3. CASE ~(i <= n)
                  <4>1. i = n + 1 /\ (i # 1 => g[i - 1] = f[n])
                        BY <3>3
                  <4>2. g[i] = IF i = 1 THEN s[i] ELSE f[n] \o s[i]
                        BY <3>3
                  <4>3. QED BY <4>1, <4>2
            <3>4. QED BY <3>2, <3>3
      <2> HIDE DEF g
      <2>3. IsFlat(g, s, n + 1)
            BY <2>2 DEF IsFlat
      <2>4. QED BY <2>3
<1> HIDE DEF S
<1>3. Nat \subseteq S
      BY <1>1, <1>2, Reference!Turns!Induction
<1>4. QED BY <1>3 DEF S

\* There is one such function for sequences that begin alike.
BeginAlike(s, t, m) == \A i \in 1..m : s[i] = t[i]

LEMMA OneFlat ==
    ASSUME NEW m \in Nat, NEW k \in Nat, m <= k, NEW s, NEW t, BeginAlike(s, t, m),
           NEW f, IsFlat(f, s, m), NEW g, IsFlat(g, t, k)
    PROVE  BeginAlike(f, g, m)
<1> DEFINE S == {n \in Nat : n \in 1..m => f[n] = g[n]}
<1>1. 0 \in S
      OBVIOUS
<1>2. ASSUME NEW n \in Nat, n \in S PROVE n + 1 \in S
      <2>1. SUFFICES ASSUME n + 1 \in 1..m PROVE f[n + 1] = g[n + 1]
            OBVIOUS
      <2>2. /\ f[n + 1] = IF n + 1 = 1 THEN s[n + 1] ELSE f[n] \o s[n + 1]
            /\ g[n + 1] = IF n + 1 = 1 THEN t[n + 1] ELSE g[n] \o t[n + 1]
            BY <2>1 DEF IsFlat
      <2>3. s[n + 1] = t[n + 1]
            BY <2>1 DEF BeginAlike
      <2>4. n + 1 # 1 => f[n] = g[n]
            BY <1>2, <2>1
      <2>5. QED BY <2>2, <2>3, <2>4
<1> HIDE DEF S
<1>3. Nat \subseteq S
      BY <1>1, <1>2, Reference!Turns!Induction
<1>4. QED BY <1>3 DEF S, BeginAlike

LEMMA FlatIs ==
    ASSUME NEW X, NEW s \in Seq(X), s # <<>>, NEW f, IsFlat(f, s, Len(s))
    PROVE  FlattenSeq(s) = f[Len(s)]
<1> DEFINE g == CHOOSE g : g = [i \in 1..Len(s) |-> IF i = 1 THEN s[i] ELSE g[i - 1] \o s[i]]
           h == [i \in 1..Len(s) |-> f[i]]
<1>1. Len(s) \in Nat /\ Len(s) # 0
      BY LenProperties, EmptySeq
<1>2. \A i \in 1..Len(s) : h[i] = IF i = 1 THEN s[i] ELSE h[i - 1] \o s[i]
      BY <1>1 DEF IsFlat
<1> HIDE DEF h
<1>3. h = [i \in 1..Len(s) |-> IF i = 1 THEN s[i] ELSE h[i - 1] \o s[i]]
      BY <1>2 DEF h
<1>4. g = [i \in 1..Len(s) |-> IF i = 1 THEN s[i] ELSE g[i - 1] \o s[i]]
      BY <1>3
<1>5. FlattenSeq(s) = g[Len(s)]
      BY <1>1 DEF FlattenSeq
<1> HIDE DEF g
<1>6. \A i \in 1..Len(s) : g[i] = IF i = 1 THEN s[i] ELSE g[i - 1] \o s[i]
      <2>1. PICK e : e = g
            OBVIOUS
      <2>2. g = [i \in 1..Len(s) |-> IF i = 1 THEN s[i] ELSE e[i - 1] \o s[i]]
            BY <1>4, <2>1, Zenon
      <2>3. \A i \in 1..Len(s) : g[i] = IF i = 1 THEN s[i] ELSE e[i - 1] \o s[i]
            BY <2>2
      <2>4. QED BY <2>1, <2>3, Zenon
<1>7. f[Len(s)] = g[Len(s)]
      <2>1. IsFlat(g, s, Len(s))
            BY <1>6 DEF IsFlat
      <2>2. BeginAlike(s, s, Len(s)) /\ Len(s) <= Len(s)
            BY <1>1 DEF BeginAlike
      <2>3. BeginAlike(f, g, Len(s))
            BY <1>1, <2>1, <2>2, OneFlat, Zenon
      <2>4. QED BY <1>1, <2>3 DEF BeginAlike
<1>8. QED BY <1>5, <1>7

LEMMA Regroup ==
    ASSUME NEW X
    PROVE  \A x, y, z \in Seq(X) : (x \o y) \o z = x \o (y \o z)
BY ConcatAssociative

Regrouped(w, x, y, z) == w \o ((x \o y) \o z) = (w \o x) \o (y \o z)

LEMMA RegroupFour ==
    ASSUME NEW X, NEW w \in Seq(X), NEW x \in Seq(X), NEW y \in Seq(X), NEW z \in Seq(X)
    PROVE  Regrouped(w, x, y, z)
<1>1. PICK u \in Seq(X) : u = y \o z
      BY ConcatProperties
<1>2. (x \o y) \o z = x \o u
      BY <1>1, Regroup
<1>3. (w \o x) \o u = w \o (x \o u)
      BY Regroup
<1>4. QED BY <1>1, <1>2, <1>3 DEF Regrouped

Apart(w, x, y, z) == (w \o (x \o y)) \o z = (w \o x) \o (y \o z)

LEMMA TakeApart ==
    ASSUME NEW X, NEW a \in Seq(X), NEW b \in Seq(X), NEW c \in Seq(X), NEW d \in Seq(X)
    PROVE  Apart(a, b, c, d)
<1>1. PICK bc \in Seq(X), cd \in Seq(X) : bc = b \o c /\ cd = c \o d
      BY ConcatProperties
<1>2. (a \o b) \o cd = a \o (b \o cd)
      BY Regroup, SMTT(30)
<1>3. bc \o d = b \o cd
      BY <1>1, Regroup, SMTT(30)
<1>4. (a \o bc) \o d = a \o (bc \o d)
      BY Regroup, SMTT(30)
<1>5. QED BY <1>1, <1>2, <1>3, <1>4 DEF Apart

LEMMA FlatNothing == FlattenSeq(<<>>) = <<>>
BY DEF FlattenSeq

LEMMA FlatAppend ==
    ASSUME NEW X, NEW s \in Seq(Seq(X)), NEW e \in Seq(X)
    PROVE  FlattenSeq(Append(s, e)) = FlattenSeq(s) \o e
<1>0. PICK t : t = Append(s, e)
      OBVIOUS
<1>1. t \in Seq(Seq(X)) /\ t # <<>> /\ Len(t) = Len(s) + 1 /\ Len(s) \in Nat
      BY <1>0, AppendProperties, LenProperties
<1>2. (\A i \in 1..Len(s) : t[i] = s[i]) /\ t[Len(s) + 1] = e
      BY <1>0, AppendProperties
<1>3. PICK g : IsFlat(g, t, Len(t))
      <2>1. Len(t) \in Nat
            BY <1>1
      <2>2. QED BY <2>1, SomeFlat, Zenon
<1>4. FlattenSeq(t) = g[Len(t)]
      BY <1>1, <1>3, FlatIs
<1>5. CASE s = <<>>
      <2>1. Len(s) = 0
            BY <1>5
      <2>2. g[Len(t)] = e
            BY <1>1, <1>2, <1>3, <2>1 DEF IsFlat
      <2>3. FlattenSeq(s) \o e = e
            BY <1>5, FlatNothing, ConcatEmptySeq
      <2>4. QED BY <1>0, <1>4, <2>2, <2>3
<1>6. CASE s # <<>>
      <2>1. Len(s) # 0
            BY <1>6, EmptySeq
      <2>2. PICK f : IsFlat(f, s, Len(s))
            BY <1>1, SomeFlat
      <2>3. FlattenSeq(s) = f[Len(s)]
            BY <1>6, <2>2, FlatIs
      <2>4. f[Len(s)] = g[Len(s)]
            <3>1. Len(s) \in Nat /\ Len(t) \in Nat /\ Len(s) <= Len(t)
                  BY <1>1
            <3>2. BeginAlike(s, t, Len(s))
                  BY <1>2 DEF BeginAlike
            <3>3. BeginAlike(f, g, Len(s))
                  BY <1>3, <2>2, <3>1, <3>2, OneFlat, Zenon
            <3>4. Len(s) \in 1..Len(s)
                  BY <2>1, <3>1
            <3>5. QED BY <3>3, <3>4, Zenon DEF BeginAlike
      <2>5. g[Len(t)] = g[Len(s)] \o e
            <3>1. PICK n \in Nat : n = Len(s) /\ n # 0 /\ Len(t) = n + 1
                  BY <1>1, <2>1
            <3>2. g[n + 1] = IF n + 1 = 1 THEN t[n + 1] ELSE g[(n + 1) - 1] \o t[n + 1]
                  BY <1>3, <3>1 DEF IsFlat
            <3>3. g[n + 1] = g[n] \o t[n + 1]
                  <4>1. n + 1 # 1 /\ (n + 1) - 1 = n
                        BY <3>1
                  <4>2. QED BY <3>2, <4>1
            <3>4. QED BY <1>2, <3>1, <3>3
      <2>6. QED BY <1>0, <1>4, <2>3, <2>4, <2>5
<1>7. QED BY <1>5, <1>6

\* Both at once, by induction on the second sequence.
LEMMA FlatConcat ==
    ASSUME NEW X, NEW s \in Seq(Seq(X))
    PROVE  \A t \in Seq(Seq(X)) :
               /\ FlattenSeq(t) \in Seq(X)
               /\ FlattenSeq(s \o t) = FlattenSeq(s) \o FlattenSeq(t)
<1> DEFINE P(t) == /\ FlattenSeq(t) \in Seq(X)
                   /\ FlattenSeq(s) \in Seq(X) =>
                          FlattenSeq(s \o t) = FlattenSeq(s) \o FlattenSeq(t)
           S == {n \in Nat : \A t \in Seq(Seq(X)) : Len(t) = n => P(t)}
<1>1. 0 \in S
      <2>1. SUFFICES ASSUME NEW t \in Seq(Seq(X)), Len(t) = 0 PROVE P(t)
            OBVIOUS
      <2>2. t = <<>>
            BY <2>1, EmptySeq
      <2>3. FlattenSeq(t) = <<>> /\ s \o t = s
            BY <2>2, FlatNothing, ConcatEmptySeq
      <2>4. <<>> \in Seq(X)
            BY EmptySeq
      <2>5. FlattenSeq(s) \in Seq(X) => FlattenSeq(s) \o <<>> = FlattenSeq(s)
            BY ConcatEmptySeq
      <2>6. QED BY <2>3, <2>4, <2>5
<1>2. ASSUME NEW n \in Nat, n \in S PROVE n + 1 \in S
      <2>1. SUFFICES ASSUME NEW u \in Seq(Seq(X)), Len(u) = n + 1 PROVE P(u)
            OBVIOUS
      <2>2. PICK t \in Seq(Seq(X)), e \in Seq(X) : u = Append(t, e)
            <3>1. u # <<>>
                  BY <2>1
            <3>2. QED BY <3>1, SequenceEmptyOrAppend
      <2>3. Len(t) = n
            <3>1. Len(u) = Len(t) + 1 /\ Len(t) \in Nat
                  BY <2>2, AppendProperties, LenProperties
            <3>2. QED BY <2>1, <3>1
      <2>4. P(t)
            BY <1>2, <2>3
      <2>5. FlattenSeq(u) = FlattenSeq(t) \o e
            BY <2>2, FlatAppend
      <2>6. FlattenSeq(u) \in Seq(X)
            BY <2>4, <2>5, ConcatProperties
      <2>7. ASSUME FlattenSeq(s) \in Seq(X)
            PROVE  FlattenSeq(s \o u) = FlattenSeq(s) \o FlattenSeq(u)
            <3>1. s \o t \in Seq(Seq(X)) /\ s \o u = Append(s \o t, e)
                  <4>1. s \o t \in Seq(Seq(X))
                        BY ConcatProperties
                  <4>2. u = t \o <<e>> /\ Append(s \o t, e) = (s \o t) \o <<e>>
                        BY <2>2, <4>1, AppendIsConcat
                  <4>3. <<e>> \in Seq(Seq(X))
                        OBVIOUS
                  <4>4. (s \o t) \o <<e>> = s \o (t \o <<e>>)
                        BY <4>3, ConcatAssociative
                  <4>5. QED BY <4>1, <4>2, <4>4
            <3>2. FlattenSeq(s \o u) = FlattenSeq(s \o t) \o e
                  BY <3>1, FlatAppend
            <3>3. FlattenSeq(s \o t) = FlattenSeq(s) \o FlattenSeq(t)
                  BY <2>4, <2>7
            <3>4. (FlattenSeq(s) \o FlattenSeq(t)) \o e = FlattenSeq(s) \o (FlattenSeq(t) \o e)
                  <4>1. FlattenSeq(s) \in Seq(X) /\ FlattenSeq(t) \in Seq(X) /\ e \in Seq(X)
                        BY <2>4, <2>7
                  <4>2. \A a, b, c \in Seq(X) : (a \o b) \o c = a \o (b \o c)
                        BY Regroup
                  <4>3. QED BY <4>1, <4>2
            <3>5. QED BY <2>5, <3>2, <3>3, <3>4
      <2>8. QED BY <2>6, <2>7
<1> HIDE DEF S
<1>3. Nat \subseteq S
      BY <1>1, <1>2, Reference!Turns!Induction
<1>4. ASSUME NEW t \in Seq(Seq(X)) PROVE P(t)
      <2>1. Len(t) \in S
            BY <1>3, LenProperties
      <2>2. QED BY <2>1 DEF S
<1>5. P(s)
      BY <1>4
<1>6. QED BY <1>4, <1>5
---------------------------------------------------------------------
\* What "dump" gives for values one after the other.

LEMMA EachParts ==
    ASSUME NEW dump, NEW X, \A v \in DOMAIN dump : dump[v] \in Seq(X),
           NEW s \in Seq(DOMAIN dump)
    PROVE  /\ [i \in DOMAIN s |-> dump[s[i]]] \in Seq(Seq(X))
           /\ Len([i \in DOMAIN s |-> dump[s[i]]]) = Len(s)
<1>1. Len(s) \in Nat /\ DOMAIN s = 1..Len(s) /\ \A i \in 1..Len(s) : s[i] \in DOMAIN dump
      BY LenProperties, ElementOfSeq
<1>2. QED BY <1>1

LEMMA EachNothing == ASSUME NEW dump PROVE Each(dump, <<>>) = <<>>
<1>1. [i \in DOMAIN <<>> |-> dump[<<>>[i]]] = <<>>
      OBVIOUS
<1>2. QED BY <1>1, FlatNothing DEF Each

LEMMA EachConcat ==
    ASSUME NEW dump, NEW X, \A v \in DOMAIN dump : dump[v] \in Seq(X),
           NEW s \in Seq(DOMAIN dump), NEW t \in Seq(DOMAIN dump)
    PROVE  /\ Each(dump, t) \in Seq(X)
           /\ Each(dump, s \o t) = Each(dump, s) \o Each(dump, t)
<1> DEFINE M(u) == [i \in DOMAIN u |-> dump[u[i]]]
<1>1. \A u \in Seq(DOMAIN dump) : M(u) \in Seq(Seq(X)) /\ Len(M(u)) = Len(u)
      BY EachParts
<1>2. s \o t \in Seq(DOMAIN dump) /\ Len(s \o t) = Len(s) + Len(t)
      BY ConcatProperties
<1>3. Len(s) \in Nat /\ Len(t) \in Nat
      BY LenProperties
<1>4. M(s \o t) = M(s) \o M(t)
      <2>1. M(s) \o M(t) \in Seq(Seq(X)) /\ Len(M(s) \o M(t)) = Len(s) + Len(t)
            BY <1>1, ConcatProperties
      <2>2. ASSUME NEW i \in 1..(Len(s) + Len(t)) PROVE M(s \o t)[i] = (M(s) \o M(t))[i]
            <3>1. (s \o t)[i] = IF i <= Len(s) THEN s[i] ELSE t[i - Len(s)]
                  BY ConcatProperties
            <3>2. (M(s) \o M(t))[i] = IF i <= Len(s) THEN M(s)[i] ELSE M(t)[i - Len(s)]
                  <4>1. M(s) \in Seq(Seq(X)) /\ M(t) \in Seq(Seq(X))
                        BY <1>1
                  <4>2. Len(M(s)) = Len(s) /\ Len(M(t)) = Len(t)
                        BY <1>1
                  <4> HIDE DEF M
                  <4>3. QED BY <4>1, <4>2, ConcatProperties
            <3>3. DOMAIN (s \o t) = 1..(Len(s) + Len(t)) /\ DOMAIN s = 1..Len(s)
                  /\ DOMAIN t = 1..Len(t)
                  BY <1>2, LenProperties
            <3>4. M(s \o t)[i] = dump[(s \o t)[i]]
                  BY <3>3
            <3>5. CASE i <= Len(s)
                  BY <1>3, <3>1, <3>2, <3>3, <3>4, <3>5
            <3>6. CASE ~(i <= Len(s))
                  <4>1. i - Len(s) \in 1..Len(t)
                        BY <1>3, <3>6
                  <4>2. QED BY <3>1, <3>2, <3>3, <3>4, <3>6, <4>1
            <3>7. QED BY <3>5, <3>6
      <2>3. M(s \o t) \in Seq(Seq(X)) /\ Len(M(s \o t)) = Len(s) + Len(t)
            BY <1>1, <1>2
      <2> HIDE DEF M
      <2>4. QED BY <2>1, <2>2, <2>3, SeqEqual
<1>5. M(s) \in Seq(Seq(X)) /\ M(t) \in Seq(Seq(X))
      BY <1>1
<1>6. \A u : Each(dump, u) = FlattenSeq(M(u))
      BY DEF Each
<1> HIDE DEF M
<1>7. /\ FlattenSeq(M(t)) \in Seq(X)
      /\ FlattenSeq(M(s) \o M(t)) = FlattenSeq(M(s)) \o FlattenSeq(M(t))
      BY <1>5, FlatConcat, Zenon
<1>8. Each(dump, s \o t) = FlattenSeq(M(s) \o M(t))
      BY <1>4, <1>6
<1>9. QED BY <1>6, <1>7, <1>8

LEMMA EachOne ==
    ASSUME NEW dump, NEW X, \A v \in DOMAIN dump : dump[v] \in Seq(X), NEW v \in DOMAIN dump
    PROVE  Each(dump, <<v>>) = dump[v]
<1>1. [i \in DOMAIN <<v>> |-> dump[<<v>>[i]]] = <<dump[v]>>
      OBVIOUS
<1>2. <<dump[v]>> = Append(<<>>, dump[v]) /\ <<>> \in Seq(Seq(X)) /\ dump[v] \in Seq(X)
      OBVIOUS
<1>3. FlattenSeq(<<dump[v]>>) = <<>> \o dump[v]
      BY <1>2, FlatAppend, FlatNothing
<1>4. <<>> \o dump[v] = dump[v]
      BY <1>2, ConcatEmptySeq
<1>5. QED BY <1>1, <1>3, <1>4 DEF Each

LEMMA EachHead ==
    ASSUME NEW dump, NEW X, \A v \in DOMAIN dump : dump[v] \in Seq(X),
           NEW s \in Seq(DOMAIN dump), s # <<>>
    PROVE  Each(dump, s) = dump[Head(s)] \o Each(dump, Tail(s))
<1>1. Head(s) \in DOMAIN dump /\ Tail(s) \in Seq(DOMAIN dump) /\ <<Head(s)>> \in Seq(DOMAIN dump)
      BY HeadTailProperties
<1>2. s = <<Head(s)>> \o Tail(s)
      OBVIOUS
<1>3. Each(dump, <<Head(s)>> \o Tail(s)) = Each(dump, <<Head(s)>>) \o Each(dump, Tail(s))
      BY <1>1, EachConcat
<1>4. QED BY <1>1, <1>2, <1>3, EachOne
---------------------------------------------------------------------
\* Values and what they hold.

Values == DOMAIN Encoded

LEMMA ValueParts ==
    ASSUME NEW v \in Values
    PROVE  /\ v.items \in Seq(Values) /\ v.keys \in Seq(Values)
           /\ v.type = "OBJECT" => Len(v.items) = Len(v.keys)
           /\ v.bytes \in Seq(Byte)
           /\ Encoded[v] \in Seq(Nat)
           /\ IsContainer(v) => Encoded[v] = Header(v) \o Each(Encoded, Children(v))
           /\ ~IsContainer(v) => Encoded[v] = DumpLeaf(v)
BY EncodedAssumption DEF Values, IsDump

LEMMA ChildrenAreValues ==
    ASSUME NEW v \in Values
    PROVE  /\ Children(v) \in Seq(Values)
           /\ ~IsContainer(v) => Children(v) = <<>>
<1>1. CASE v.type = "OBJECT"
      <2>1. PICK n \in Nat : n = Len(v.keys) /\ n = Len(v.items)
            BY <1>1, ValueParts, LenProperties
      <2>2. \A j \in 1..n : v.keys[j] \in Values /\ v.items[j] \in Values
            BY <2>1, ValueParts, ElementOfSeq
      <2>3. \A i \in 1..(2 * n) :
                (IF i % 2 = 1 THEN v.keys[(i + 1) \div 2] ELSE v.items[i \div 2]) \in Values
            <3>1. TAKE i \in 1..(2 * n)
            <3>2. CASE i % 2 = 1
                  <4>1. (i + 1) \div 2 \in 1..n
                        BY <3>2
                  <4>2. QED BY <2>2, <3>2, <4>1
            <3>3. CASE i % 2 # 1
                  <4>1. i \div 2 \in 1..n
                        BY <3>3
                  <4>2. QED BY <2>2, <3>3, <4>1
            <3>4. QED BY <3>2, <3>3
      <2>4. Members(v) = [i \in 1..(2 * n) |->
                IF i % 2 = 1 THEN v.keys[(i + 1) \div 2] ELSE v.items[i \div 2]]
            BY <2>1 DEF Members
      <2>5. Members(v) \in Seq(Values)
            <3>1. PICK m \in Nat : m = 2 * n
                  OBVIOUS
            <3>2. Members(v) \in [1..m -> Values]
                  BY <2>3, <2>4, <3>1
            <3>3. QED BY <3>2
      <2>6. QED BY <1>1, <2>5 DEF Children, IsContainer
<1>2. CASE v.type # "OBJECT"
      BY <1>2, ValueParts DEF Children, IsContainer
<1>3. QED BY <1>1, <1>2

LEMMA EncodedBytes == \A v \in DOMAIN Encoded : Encoded[v] \in Seq(Nat)
BY ValueParts DEF Values
---------------------------------------------------------------------
\* What is read back of containers.

LEMMA LiesApart ==
    ASSUME NEW in \in Seq(Byte), NEW p \in Nat, NEW s \in Seq(Nat), NEW t \in Seq(Nat),
           Lies(in, p, s \o t)
    PROVE  Lies(in, p, s) /\ Lies(in, p + Len(s), t)
<1>1. Len(s) \in Nat /\ Len(t) \in Nat /\ Len(in) \in Nat
      BY LenProperties
<1>2. /\ Len(s \o t) = Len(s) + Len(t)
      /\ \A i \in 1..(Len(s) + Len(t)) : (s \o t)[i] = IF i <= Len(s) THEN s[i] ELSE t[i - Len(s)]
      BY ConcatProperties
<1>3. /\ p \in 0..Len(in) /\ Len(s) + Len(t) <= Len(in) - p
      /\ \A i \in 1..(Len(s) + Len(t)) : in[p + i] = (s \o t)[i]
      BY <1>2 DEF Lies
<1>4. \A i \in 1..Len(s) : in[p + i] = s[i]
      BY <1>1, <1>2, <1>3
<1>5. \A i \in 1..Len(t) : in[(p + Len(s)) + i] = t[i]
      <2> TAKE i \in 1..Len(t)
      <2>1. PICK k : k = Len(s) + i
            OBVIOUS
      <2>2. k \in 1..(Len(s) + Len(t)) /\ ~(k <= Len(s)) /\ k - Len(s) = i
            /\ p + k = (p + Len(s)) + i
            BY <1>1, <2>1
      <2>3. QED BY <1>2, <1>3, <2>2
<1>6. p + Len(s) \in 0..Len(in) /\ Len(s) <= Len(in) - p /\ Len(t) <= Len(in) - (p + Len(s))
      BY <1>1, <1>3
<1>7. QED BY <1>3, <1>4, <1>5, <1>6 DEF Lies

\* Of a leaf one value comes back only.
LEMMA OneBack ==
    ASSUME NEW v, NEW s, NEW w, NEW x, LeafBack(w, v, s), LeafBack(x, v, s)
    PROVE  w = x
<1>1. CASE v.type \notin UnsignedTypes \union SignedTypes
      BY <1>1 DEF LeafBack, Same
<1>2. CASE v.type \in UnsignedTypes \union SignedTypes
  <2>1. PICK type : type = TypeTold(s[1])
        OBVIOUS
  <2>2. w = Scalar(type, w.bytes) /\ x = Scalar(type, x.bytes)
        BY <1>2, <2>1 DEF LeafBack
  <2>3. w.type = type /\ x.type = type
        BY <2>2 DEF Scalar
  <2>4. type \in UnsignedTypes \union SignedTypes /\ NumberOf(w) = NumberOf(x)
        BY <1>2, <2>3 DEF LeafBack, Same
  <2>5. PICK n : n = SizeOf[type]
        OBVIOUS
  <2>6. n \in {1, 2, 4, 8}
        BY <2>4, <2>5, WholeSizes DEF UnsignedTypes, SignedTypes
  <2>7. PICK a, b : a = w.bytes /\ b = x.bytes
        OBVIOUS
  <2>8. a \in Seq(Byte) /\ Len(a) = n /\ b \in Seq(Byte) /\ Len(b) = n
        BY <1>2, <2>3, <2>5, <2>7 DEF LeafBack, Bytes
  <2>9. \E f, g : Filled(a, f) = Filled(b, g)
        <3>1. CASE type \in SignedTypes
              <4>1. NumberOf(w) = Filled(a, SignFill(a)) /\ NumberOf(x) = Filled(b, SignFill(b))
                    BY <2>3, <2>7, <3>1 DEF NumberOf
              <4>2. QED BY <2>4, <4>1
        <3>2. CASE type \notin SignedTypes
              <4>1. NumberOf(w) = Filled(a, 0) /\ NumberOf(x) = Filled(b, 0)
                    BY <2>3, <2>7, <3>2 DEF NumberOf
              <4>2. QED BY <2>4, <4>1
        <3>3. QED BY <3>1, <3>2
  <2>10. PICK f, g : Filled(a, f)[2] = Filled(b, g)[2]
        BY <2>9
  <2>11. \A i \in 1..8 : (IF i + n > 8 THEN a[i + n - 8] ELSE f)
                            = (IF i + n > 8 THEN b[i + n - 8] ELSE g)
        BY <2>8, <2>10 DEF Filled
  <2>12. ASSUME NEW i \in 1..n PROVE a[i] = b[i]
        <3>1. PICK j \in 1..8 : j = i + 8 - n
              BY <2>6
        <3>2. j + n > 8 /\ j + n - 8 = i
              BY <2>6, <3>1
        <3>3. QED BY <2>11, <3>2
  <2>13. a = b
        BY <2>8, <2>12, SeqEqual
  <2>14. QED BY <2>2, <2>7, <2>13
<1>3. QED BY <1>1, <1>2

---------------------------------------------------------------------
\* The header h at p is read as that of n elements or members.
IsHeader(in, p, h, n, type) ==
    LET announced == Reference!Announces(in[p + 1])
    IN  /\ p \in 0..(Len(in) - 1)
        /\ \A V : Reference!At(in, p, V) = Reference!Content(in, p + Len(h), n, type, V)
        /\ Reference!Has(in, p + 1, announced.wide)
        /\ p + 1 + announced.wide = p + Len(h)
        /\ Reference!Count(in, p + 1, announced) = n
        /\ type = "OBJECT" => in[p + 1] \in Reference!ObjectBytes

\* That is so wherever h is.
Introduces(h, n, type) ==
    /\ h \in Seq(Byte)
    /\ \A in \in Seq(Byte) : \A p \in Nat : Lies(in, p, h) => IsHeader(in, p, h, n, type)

\* The first byte b may begin a container of the type.
Begin(b, type) == type = "OBJECT" => b \in Reference!ObjectBytes

LEMMA ShortIntroduces ==
    ASSUME NEW b \in Byte, NEW type, Begin(b, type), NEW n \in Nat, Heads(b, type, 0, n)
    PROVE  Introduces(<<b>>, n, type)
<1> SUFFICES ASSUME NEW in \in Seq(Byte), NEW p \in Nat, Lies(in, p, <<b>>)
             PROVE  IsHeader(in, p, <<b>>, n, type)
    BY DEF Introduces
<1>q. PICK q : q = p + 1
      OBVIOUS
<1>1. ~(p >= Len(in)) /\ in[p + 1] = b /\ Len(<<b>>) = 1 /\ q \in 1..Len(in)
      BY <1>q, LiesFirst
<1>2. q \in 0..Len(in) /\ Len(in) \in Nat /\ q + 0 = q /\ p \in 0..(Len(in) - 1)
      BY <1>1, <1>q, LenProperties
<1>3. PICK h : h = [type |-> type, wide |-> 0, plus |-> n]
      OBVIOUS
<1>4. h = Reference!Announces(b) /\ h.wide = 0 /\ h.type = type /\ h.plus = n
      BY <1>3 DEF Heads
<1>5. Reference!Has(in, q, 0)
      BY <1>2 DEF Reference!Has
<1>6. Reference!Count(in, q, h) = n
      BY <1>4 DEF Reference!Count
<1>7. \A V : Reference!At(in, p, V) = Reference!Content(in, q + 0, n, type, V)
      BY <1>1, <1>4, <1>5, <1>6, <1>q DEF Reference!At, Heads
<1>8. QED BY <1>1, <1>2, <1>4, <1>5, <1>6, <1>7, <1>q DEF IsHeader, Begin

LEMMA LongIntroduces ==
    ASSUME NEW b \in Byte, NEW c \in Seq(Byte), NEW type, Begin(b, type), Len(c) \in {1, 2, 4},
           Heads(b, type, Len(c), 0), NEW n \in Nat, BigEndian(c) = n
    PROVE  Introduces(<<b>> \o c, n, type)
<1>h. PICK header : header = <<b>> \o c
      OBVIOUS
<1>i. header \in Seq(Byte)
      BY <1>h
<1> SUFFICES ASSUME NEW in \in Seq(Byte), NEW p \in Nat, Lies(in, p, <<b>> \o c)
             PROVE  IsHeader(in, p, <<b>> \o c, n, type)
    BY <1>h, <1>i DEF Introduces
<1>n. Len(c) \in Nat /\ Len(in) \in Nat
      BY LenProperties
<1>c. Len(c) # 0
      <2>1. \A k \in {1, 2, 4} : k # 0
            OBVIOUS
      <2>2. QED BY <2>1, Zenon
<1>q. PICK q : q = p + 1
      OBVIOUS
<1>2. /\ ~(p >= Len(in)) /\ in[p + 1] = b /\ q \in Nat
      /\ Lies(in, q, c) /\ Len(<<b>> \o c) = 1 + Len(c)
      BY <1>q, LiesBehind
<1>3. p \in 0..(Len(in) - 1)
      BY <1>2, <1>n
<1>5. Reference!Has(in, q, Len(c)) /\ Reference!Slice(in, q, Len(c)) = c
      BY <1>2, LiesSlice
<1>7. PICK h : h = [type |-> type, wide |-> Len(c), plus |-> 0]
      OBVIOUS
<1>8. h = Reference!Announces(b) /\ h.wide = Len(c) /\ h.type = type /\ h.plus = 0
      BY <1>7 DEF Heads
<1>9. Reference!Count(in, q, h) = n
      <2>1. 0 + n = n
            OBVIOUS
      <2>2. Reference!BigEndian(c) = BigEndian(c)
            BY DEF Reference!BigEndian, BigEndian
      <2>3. QED BY <1>5, <1>8, <1>c, <2>1, <2>2 DEF Reference!Count
<1>r. PICK r : r = q + Len(c)
      OBVIOUS
<1>10. \A V : Reference!At(in, p, V) = Reference!Content(in, r, n, type, V)
      BY <1>2, <1>5, <1>8, <1>9, <1>q, <1>r, Zenon DEF Reference!At, Heads
<1>11. r = p + Len(<<b>> \o c)
      BY <1>2, <1>n, <1>q, <1>r
<1>12. QED BY <1>2, <1>3, <1>5, <1>8, <1>9, <1>10, <1>11, <1>q, <1>r DEF IsHeader, Begin

\* dump_array and dump_object.
LEMMA ContainerFirstBytes ==
    /\ 220 \in Byte /\ Heads(220, "ARRAY", 2, 0)
    /\ 221 \in Byte /\ Heads(221, "ARRAY", 4, 0)
    /\ 222 \in Byte /\ Heads(222, "OBJECT", 2, 0)
    /\ 223 \in Byte /\ Heads(223, "OBJECT", 4, 0)
    /\ Begin(220, "ARRAY") /\ Begin(221, "ARRAY") /\ Begin(222, "OBJECT") /\ Begin(223, "OBJECT")
<1>1. 220 \in Byte /\ Heads(220, "ARRAY", 2, 0)
      BY HeadsTell DEF Byte
<1>2. 221 \in Byte /\ Heads(221, "ARRAY", 4, 0)
      BY HeadsTell DEF Byte
<1>3. 222 \in Byte /\ Heads(222, "OBJECT", 2, 0)
      BY HeadsTell DEF Byte
<1>4. 223 \in Byte /\ Heads(223, "OBJECT", 4, 0)
      BY HeadsTell DEF Byte
<1>5. Begin(220, "ARRAY") /\ Begin(221, "ARRAY") /\ Begin(222, "OBJECT") /\ Begin(223, "OBJECT")
      BY DEF Begin, Reference!ObjectBytes
<1>6. QED BY <1>1, <1>2, <1>3, <1>4, <1>5

LEMMA LongHeaders ==
    ASSUME NEW n \in Lengths, NEW byte \in Byte, NEW type, Begin(byte, type)
    PROVE  /\ n \in Shorts /\ Heads(byte, type, 2, 0) =>
                Introduces(<<byte>> \o Bytes2(n), n, type)
           /\ Heads(byte, type, 4, 0) => Introduces(<<byte>> \o Bytes4(n), n, type)
<1>0. n \in Nat
      BY DEF Lengths
<1>1. ASSUME NEW c \in Seq(Byte), NEW wide \in {1, 2, 4}, Len(c) = wide, BigEndian(c) = n,
             Heads(byte, type, wide, 0)
      PROVE  Introduces(<<byte>> \o c, n, type)
      <2>1. Len(c) \in {1, 2, 4} /\ Heads(byte, type, Len(c), 0)
            BY <1>1
      <2>2. QED BY <1>0, <1>1, <2>1, LongIntroduces
<1>2. n \in Shorts => Bytes2(n) \in Seq(Byte) /\ Len(Bytes2(n)) = 2 /\ BigEndian(Bytes2(n)) = n
      BY Bytes2IsRead
<1>3. Bytes4(n) \in Seq(Byte) /\ Len(Bytes4(n)) = 4 /\ BigEndian(Bytes4(n)) = n
      BY Bytes4IsRead
<1>4. 2 \in {1, 2, 4} /\ 4 \in {1, 2, 4}
      OBVIOUS
<1>5. n \in Shorts /\ Heads(byte, type, 2, 0) => Introduces(<<byte>> \o Bytes2(n), n, type)
      BY <1>1, <1>2, <1>4, Zenon
<1>6. Heads(byte, type, 4, 0) => Introduces(<<byte>> \o Bytes4(n), n, type)
      BY <1>1, <1>3, <1>4, Zenon
<1>7. QED BY <1>5, <1>6

LEMMA ArrayHeaderIntroduces ==
    ASSUME NEW n \in Lengths
    PROVE  Introduces(ArrayHeader(n), n, "ARRAY")
<1>0. n \in Nat
      BY DEF Lengths
<1>1. CASE n <= 15
      <2>1. PICK byte \in 144..159 : byte = 144 + n
            BY <1>0, <1>1
      <2>2. byte \in Byte /\ byte % 16 = n
            BY <1>0, <1>1, <2>1, SMT DEF Byte
      <2>3. Heads(byte, "ARRAY", 0, byte % 16)
            BY <2>2, HeadsTell, Zenon
      <2>b. Begin(byte, "ARRAY")
            BY DEF Begin
      <2>4. Introduces(<<byte>>, n, "ARRAY")
            BY <1>0, <2>2, <2>3, <2>b, ShortIntroduces
      <2>5. QED BY <1>1, <2>1, <2>4, ArrayHeaders
<1>2. CASE ~(n <= 15) /\ n \in Shorts
      <2>1. Introduces(<<220>> \o Bytes2(n), n, "ARRAY")
            BY <1>2, ContainerFirstBytes, LongHeaders, Zenon
      <2>2. QED BY <1>2, <2>1, ArrayHeaders, Zenon
<1>3. CASE n \notin Shorts
      <2>1. Introduces(<<221>> \o Bytes4(n), n, "ARRAY")
            BY ContainerFirstBytes, LongHeaders, Zenon
      <2>2. QED BY <1>3, <2>1, ArrayHeaders, Zenon
<1>4. QED BY <1>1, <1>2, <1>3

LEMMA ObjectHeaderIntroduces ==
    ASSUME NEW n \in Lengths
    PROVE  Introduces(ObjectHeader(n), n, "OBJECT")
<1>0. n \in Nat
      BY DEF Lengths
<1>1. CASE n <= 15
      <2>1. PICK byte \in 128..143 : byte = 128 + n
            BY <1>0, <1>1
      <2>2. byte \in Byte /\ byte % 16 = n
            BY <1>0, <1>1, <2>1, SMT DEF Byte
      <2>3. Heads(byte, "OBJECT", 0, byte % 16)
            BY <2>2, HeadsTell, Zenon
      <2>b. Begin(byte, "OBJECT")
            BY DEF Begin, Reference!ObjectBytes
      <2>4. Introduces(<<byte>>, n, "OBJECT")
            BY <1>0, <2>2, <2>3, <2>b, ShortIntroduces
      <2>5. QED BY <1>1, <2>1, <2>4, ObjectHeaders
<1>2. CASE ~(n <= 15) /\ n \in Shorts
      <2>1. Introduces(<<222>> \o Bytes2(n), n, "OBJECT")
            BY <1>2, ContainerFirstBytes, LongHeaders, Zenon
      <2>2. QED BY <1>2, <2>1, ObjectHeaders, Zenon
<1>3. CASE n \notin Shorts
      <2>1. Introduces(<<223>> \o Bytes4(n), n, "OBJECT")
            BY ContainerFirstBytes, LongHeaders, Zenon
      <2>2. QED BY <1>3, <2>1, ObjectHeaders, Zenon
<1>4. QED BY <1>1, <1>2, <1>3
---------------------------------------------------------------------
\* Values one after the other.

\* Inside d containers the value v, wherever it is, is read as what comes back of it,
Comes(in, d, v) ==
    \A p \in Nat : Lies(in, p, Encoded[v]) =>
        Table(in, d)[p] = Reference!Got(Back[v], p + Len(Encoded[v]))

\* or is malformed.
Fails(in, d, v) ==
    \A p \in Nat : Lies(in, p, Encoded[v]) => Table(in, d)[p].kind = "malformed"

\* The last one of several.
LEMMA LastOne ==
    ASSUME NEW s \in Seq(Values), NEW n \in Nat, Len(s) = n + 1
    PROVE  \E f \in Seq(Values) : \E x \in Values :
              /\ Len(f) = n /\ x = s[n + 1] /\ \A i \in 1..n : f[i] = s[i]
              /\ Each(Encoded, f) \in Seq(Nat) /\ Encoded[x] \in Seq(Nat)
              /\ Each(Encoded, s) = Each(Encoded, f) \o Encoded[x]
<1>1. \A i \in 1..(n + 1) : s[i] \in Values
      BY ElementOfSeq
<1>2. PICK f : f = [i \in 1..n |-> s[i]]
      OBVIOUS
<1>3. f \in Seq(Values) /\ Len(f) = n /\ \A i \in 1..n : f[i] = s[i]
      BY <1>1, <1>2
<1>4. PICK x \in Values : x = s[n + 1]
      BY <1>1
<1>5. PICK last : last = <<x>>
      OBVIOUS
<1>6. last \in Seq(Values) /\ Len(last) = 1 /\ last[1] = x
      BY <1>5
<1>7. s = f \o last
      <2>1. /\ f \o last \in Seq(Values) /\ Len(f \o last) = n + 1
            /\ \A i \in 1..(n + 1) : (f \o last)[i] = IF i <= n THEN f[i] ELSE last[i - n]
            <3>1. /\ f \o last \in Seq(Values) /\ Len(f \o last) = Len(f) + Len(last)
                  /\ \A i \in 1..(Len(f) + Len(last)) :
                        (f \o last)[i] = IF i <= Len(f) THEN f[i] ELSE last[i - Len(f)]
                  BY <1>3, <1>6, ConcatProperties
            <3>2. Len(f) = n /\ Len(last) = 1
                  BY <1>3, <1>6
            <3>3. QED BY <3>1, <3>2
      <2>2. \A i \in 1..(n + 1) : s[i] = (f \o last)[i]
            <3> TAKE i \in 1..(n + 1)
            <3>1. CASE i <= n
                  BY <1>3, <2>1, <3>1
            <3>2. CASE ~(i <= n)
                  <4>1. i = n + 1 /\ i - n = 1
                        BY <3>2
                  <4>2. QED BY <1>4, <1>6, <2>1, <3>2, <4>1
            <3>3. QED BY <3>1, <3>2
      <2>3. QED BY <2>1, <2>2, SeqEqual
<1>8. /\ Each(Encoded, f) \in Seq(Nat) /\ Each(Encoded, last) = Encoded[x]
      /\ Each(Encoded, f \o last) = Each(Encoded, f) \o Each(Encoded, last)
      <2>1. \A v \in DOMAIN Encoded : Encoded[v] \in Seq(Nat)
            BY EncodedBytes
      <2>2. f \in Seq(DOMAIN Encoded) /\ last \in Seq(DOMAIN Encoded) /\ x \in DOMAIN Encoded
            BY <1>3, <1>6 DEF Values
      <2>3. Each(Encoded, f) \in Seq(Nat)
            BY <2>1, <2>2, EachConcat
      <2>4. Each(Encoded, f \o last) = Each(Encoded, f) \o Each(Encoded, last)
            BY <2>1, <2>2, EachConcat
      <2>5. Each(Encoded, <<x>>) = Encoded[x]
            BY <2>1, <2>2, EachOne
      <2>6. QED BY <1>5, <2>3, <2>4, <2>5
<1>9. Encoded[x] \in Seq(Nat)
      BY EncodedBytes DEF Values
<1>10. QED BY <1>3, <1>4, <1>7, <1>8, <1>9

Backs == {Back[v] : v \in Values}

LEMMA BackEachSeq ==
    ASSUME NEW s \in Seq(Values)
    PROVE  /\ BackEach(s) \in Seq(Backs) /\ Len(BackEach(s)) = Len(s)
           /\ \A i \in 1..Len(s) : BackEach(s)[i] = Back[s[i]]
<1>1. Len(s) \in Nat /\ DOMAIN s = 1..Len(s) /\ \A i \in 1..Len(s) : s[i] \in Values
      BY LenProperties, ElementOfSeq
<1>2. BackEach(s) = [i \in 1..Len(s) |-> Back[s[i]]]
      BY <1>1 DEF BackEach
<1>3. \A i \in 1..Len(s) : Back[s[i]] \in Backs
      BY <1>1 DEF Backs
<1>4. QED BY <1>1, <1>2, <1>3

LEMMA BackEachMore ==
    ASSUME NEW s \in Seq(Values), NEW n \in Nat, Len(s) = n + 1, NEW f \in Seq(Values),
           Len(f) = n, \A i \in 1..n : f[i] = s[i]
    PROVE  BackEach(s) = Append(BackEach(f), Back[s[n + 1]])
<1>1. s[n + 1] \in Values
      BY ElementOfSeq
<1>2. Back[s[n + 1]] \in Backs
      BY <1>1 DEF Backs
<1>3. PICK g : g = BackEach(f)
      OBVIOUS
<1>4. g \in Seq(Backs) /\ Len(g) = n /\ \A i \in 1..n : g[i] = Back[f[i]]
      BY <1>3, BackEachSeq
<1>5. PICK more : more = Append(g, Back[s[n + 1]])
      OBVIOUS
<1>6. /\ more \in Seq(Backs) /\ Len(more) = n + 1
      /\ (\A i \in 1..n : more[i] = g[i]) /\ more[n + 1] = Back[s[n + 1]]
      BY <1>2, <1>4, <1>5, AppendProperties
<1>7. /\ BackEach(s) \in Seq(Backs) /\ Len(BackEach(s)) = n + 1
      /\ \A i \in 1..(n + 1) : BackEach(s)[i] = Back[s[i]]
      BY BackEachSeq
<1>8. \A i \in 1..(n + 1) : BackEach(s)[i] = more[i]
      <2> TAKE i \in 1..(n + 1)
      <2>1. i \in 1..n \/ i = n + 1
            OBVIOUS
      <2>2. QED BY <1>4, <1>6, <1>7, <2>1
<1>9. BackEach(s) = more
      BY <1>6, <1>7, <1>8, SeqEqual
<1>10. QED BY <1>3, <1>5, <1>9

\* By induction on how many there are.
LEMMA EachComes ==
    ASSUME NEW in \in Seq(Byte), NEW d, NEW q \in Nat
    PROVE  \A s \in Seq(Values) :
              (\A i \in 1..Len(s) : Comes(in, d, s[i])) /\ Lies(in, q, Each(Encoded, s)) =>
                  Run(in, d, q, Len(s))
                      = Reference!Got(BackEach(s), q + Len(Each(Encoded, s)))
<1> DEFINE P(s) == (\A i \in 1..Len(s) : Comes(in, d, s[i])) /\ Lies(in, q, Each(Encoded, s)) =>
                       Run(in, d, q, Len(s))
                           = Reference!Got(BackEach(s), q + Len(Each(Encoded, s)))
           S == {n \in Nat : \A s \in Seq(Values) : Len(s) = n => P(s)}
<1>1. ASSUME NEW s \in Seq(Values), Len(s) = 0 PROVE P(s)
      <2>1. s = <<>>
            BY <1>1, EmptySeq
      <2>2. Each(Encoded, s) = <<>> /\ Len(<<>>) = 0 /\ q + 0 = q
            BY <2>1, EachNothing
      <2>3. BackEach(s) = <<>>
            BY <2>1, <1>1, BackEachSeq, EmptySeq
      <2>4. Run(in, d, q, 0) = Reference!Got(<<>>, q)
            BY RunStart
      <2>5. QED BY <1>1, <2>2, <2>3, <2>4
<1>2. ASSUME NEW n \in Nat, n \in S, NEW s \in Seq(Values), Len(s) = n + 1,
             \A i \in 1..Len(s) : Comes(in, d, s[i]), Lies(in, q, Each(Encoded, s))
      PROVE  Run(in, d, q, n + 1) = Reference!Got(BackEach(s), q + Len(Each(Encoded, s)))
      <2>1. PICK f \in Seq(Values), x \in Values :
                /\ Len(f) = n /\ x = s[n + 1] /\ \A i \in 1..n : f[i] = s[i]
                /\ Each(Encoded, f) \in Seq(Nat) /\ Encoded[x] \in Seq(Nat)
                /\ Each(Encoded, s) = Each(Encoded, f) \o Encoded[x]
            BY <1>2, LastOne
      <2>2. PICK r : r = q + Len(Each(Encoded, f))
            OBVIOUS
      <2>3. Lies(in, q, Each(Encoded, f)) /\ Lies(in, r, Encoded[x])
            BY <1>2, <2>1, <2>2, LiesApart
      <2>4. Len(Each(Encoded, f)) \in Nat /\ Len(Encoded[x]) \in Nat
            BY <2>1, LenProperties
      <2>5. Run(in, d, q, n) = Reference!Got(BackEach(f), r)
            <3>1. \A i \in 1..n : Comes(in, d, f[i])
                  BY <1>2, <2>1
            <3>2. QED BY <1>2, <2>1, <2>2, <2>3, <3>1
      <2>6. r \in Nat
            BY <2>2, <2>4
      <2>7. PICK end : end = r + Len(Encoded[x])
            OBVIOUS
      <2>8. Table(in, d)[r] = Reference!Got(Back[x], end)
            <3>1. n + 1 \in 1..Len(s)
                  BY <1>2
            <3>2. Comes(in, d, x)
                  BY <1>2, <2>1, <3>1
            <3>3. QED BY <2>3, <2>6, <2>7, <3>2 DEF Comes
      <2>9. Run(in, d, q, n + 1) = Reference!Got(Append(BackEach(f), Back[x]), end)
            <3>1. PICK before : before = Run(in, d, q, n)
                  OBVIOUS
            <3>2. before.kind = "value" /\ before.next = r /\ before.value = BackEach(f)
                  BY <2>5, <3>1 DEF Reference!Got
            <3>3. PICK one : one = Table(in, d)[r]
                  OBVIOUS
            <3>4. one.kind = "value" /\ one.value = Back[x] /\ one.next = end
                  BY <2>8, <3>3 DEF Reference!Got
            <3>5. QED BY <3>1, <3>2, <3>3, <3>4, RunMore
      <2>10. BackEach(s) = Append(BackEach(f), Back[x])
            BY <1>2, <2>1, BackEachMore
      <2>11. end = q + Len(Each(Encoded, s))
            <3>1. Len(Each(Encoded, s)) = Len(Each(Encoded, f)) + Len(Encoded[x])
                  BY <2>1, ConcatProperties
            <3>2. PICK i \in Nat, j \in Nat : i = Len(Each(Encoded, f)) /\ j = Len(Encoded[x])
                  BY <2>4
            <3>3. r = q + i /\ end = r + j /\ Len(Each(Encoded, s)) = i + j
                  BY <2>2, <2>7, <3>1, <3>2, Zenon
            <3>4. QED BY <3>3
      <2>12. QED BY <2>9, <2>10, <2>11
<1>3. 0 \in S
      BY <1>1
<1>4. ASSUME NEW n \in Nat, n \in S PROVE n + 1 \in S
      BY <1>2, <1>4
<1> HIDE DEF S, P
<1>5. Nat \subseteq S
      BY <1>3, <1>4, Reference!Turns!Induction
<1>6. \A s \in Seq(Values) : P(s)
      BY <1>5, LenProperties DEF S
<1>7. QED BY <1>6 DEF P

\* The first one that fails makes all of them fail.
LEMMA EachFails ==
    ASSUME NEW in \in Seq(Byte), NEW d, NEW q \in Nat
    PROVE  \A s \in Seq(Values) :
              /\ \A i \in 1..Len(s) : Comes(in, d, s[i]) \/ Fails(in, d, s[i])
              /\ \E i \in 1..Len(s) : Fails(in, d, s[i])
              /\ Lies(in, q, Each(Encoded, s))
              => Run(in, d, q, Len(s)).kind = "malformed"
<1> DEFINE Given(s) == /\ \A i \in 1..Len(s) : Comes(in, d, s[i]) \/ Fails(in, d, s[i])
                       /\ \E i \in 1..Len(s) : Fails(in, d, s[i])
                       /\ Lies(in, q, Each(Encoded, s))
           S == {n \in Nat : \A s \in Seq(Values) : Len(s) = n /\ Given(s) =>
                    Run(in, d, q, n).kind = "malformed"}
<1>1. 0 \in S
      OBVIOUS
<1>2. ASSUME NEW n \in Nat, n \in S, NEW s \in Seq(Values), Len(s) = n + 1, Given(s)
      PROVE  Run(in, d, q, n + 1).kind = "malformed"
      <2>1. PICK f \in Seq(Values), x \in Values :
                /\ Len(f) = n /\ x = s[n + 1] /\ \A i \in 1..n : f[i] = s[i]
                /\ Each(Encoded, f) \in Seq(Nat) /\ Encoded[x] \in Seq(Nat)
                /\ Each(Encoded, s) = Each(Encoded, f) \o Encoded[x]
            BY <1>2, LastOne
      <2>2. PICK r : r = q + Len(Each(Encoded, f))
            OBVIOUS
      <2>3. Lies(in, q, Each(Encoded, f)) /\ Lies(in, r, Encoded[x])
            BY <1>2, <2>1, <2>2, LiesApart
      <2>4. Len(Each(Encoded, f)) \in Nat
            BY <2>1, LenProperties
      <2>5. \A i \in 1..n : Comes(in, d, f[i]) \/ Fails(in, d, f[i])
            BY <1>2, <2>1
      <2>6. PICK before : before = Run(in, d, q, n)
            OBVIOUS
      <2>7. CASE \E i \in 1..n : Fails(in, d, f[i])
            <3>1. before.kind = "malformed"
                  BY <1>2, <2>1, <2>3, <2>5, <2>6, <2>7
            <3>2. Run(in, d, q, n + 1) = before
                  BY <2>6, <3>1, RunMore
            <3>3. QED BY <3>1, <3>2
      <2>8. CASE ~\E i \in 1..n : Fails(in, d, f[i])
            <3>1. \A i \in 1..Len(f) : Comes(in, d, f[i])
                  BY <2>1, <2>5, <2>8
            <3>2. before = Reference!Got(BackEach(f), r)
                  BY <2>1, <2>2, <2>3, <2>6, <3>1, EachComes
            <3>3. before.kind = "value" /\ before.next = r
                  BY <3>2 DEF Reference!Got
            <3>4. Fails(in, d, x)
                  <4>1. PICK i \in 1..(n + 1) : Fails(in, d, s[i])
                        BY <1>2
                  <4>2. i = n + 1
                        <5>1. SUFFICES ASSUME i \in 1..n PROVE FALSE
                              OBVIOUS
                        <5>2. f[i] = s[i]
                              BY <2>1, <5>1
                        <5>3. Fails(in, d, f[i])
                              BY <4>1, <5>2, Zenon
                        <5>4. QED BY <2>8, <5>1, <5>3, Zenon
                  <4>3. QED BY <2>1, <4>1, <4>2
            <3>5. Table(in, d)[r].kind = "malformed"
                  <4>1. r \in Nat
                        BY <2>2, <2>4
                  <4>2. QED BY <2>3, <3>4, <4>1 DEF Fails
            <3>6. QED BY <2>6, <3>3, <3>5, RunMore
      <2>9. QED BY <2>7, <2>8
<1> HIDE DEF Given
<1>3. ASSUME NEW n \in Nat, n \in S PROVE n + 1 \in S
      BY <1>2, <1>3
<1> HIDE DEF S
<1>4. Nat \subseteq S
      BY <1>1, <1>3, Reference!Turns!Induction
<1>5. QED BY <1>4, LenProperties DEF S, Given
---------------------------------------------------------------------
\* Members in the order of their keys are an object as they are.
LEMMA MadeAsTheyAre ==
    ASSUME NEW ms, NEW m \in Nat, Len(ms) = 2 * m, Reference!Ordered(ms),
           \A i, j \in 1..m : i < j => Less(Reference!Key(ms, i), Reference!Key(ms, j))
    PROVE  Reference!MakeObject(ms)
               = Object([i \in 1..m |-> Reference!Key(ms, i)],
                        [i \in 1..m |-> Reference!Mapped(ms, i)])
<1>1. Len(ms) \in Nat /\ Len(ms) \div 2 = m
      BY SMT
<1>2. Reference!Kept(ms) = 1..m
      BY <1>1 DEF Reference!Kept, Reference!Equivalent
<1>3. PICK o : o = [i \in 1..m |-> i]
      OBVIOUS
<1>4. o \in [1..m -> 1..m] /\ Len(o) = m /\ DOMAIN o = 1..m /\ \A i \in 1..m : o[i] = i
      BY <1>3
<1>5. IsOrder(o, ms)
      <2>1. m \in 0..m
            OBVIOUS
      <2>2. o \in Reference!SeqOf(Reference!Kept(ms), Len(ms) \div 2)
            BY <1>1, <1>2, <1>4, <2>1 DEF Reference!SeqOf
      <2>3. Reference!Range(o) = 1..m
            BY <1>4 DEF Reference!Range
      <2>4. \A i, j \in DOMAIN o : i < j =>
                Less(Reference!Key(ms, o[i]), Reference!Key(ms, o[j]))
            BY <1>4
      <2>5. Reference!Sorts(o, ms)
            BY <1>2, <2>3, <2>4 DEF Reference!Sorts
      <2>6. QED BY <2>2, <2>5 DEF IsOrder
<1>6. PICK b : b = [keys |-> [i \in 1..m |-> Reference!Key(ms, i)],
                    items |-> [i \in 1..m |-> Reference!Mapped(ms, i)]]
      OBVIOUS
<1>7. b.keys = [i \in 1..m |-> Reference!Key(ms, i)]
      /\ b.items = [i \in 1..m |-> Reference!Mapped(ms, i)]
      BY <1>6
<1>8. Holds(b, ms, o)
      BY <1>4, <1>5, <1>7 DEF Holds
<1>9. Reference!MakeObject(ms) = Object(b.keys, b.items)
      BY <1>1, <1>8, MadeWhole DEF Made
<1>10. QED BY <1>7, <1>9

\* What comes back of the members of an object are the members of what comes back.
LEMMA MembersBack ==
    ASSUME NEW v \in Values, v.type = "OBJECT", NEW m \in Nat, m = Len(v.keys)
    PROVE  LET ms == BackEach(Members(v))
           IN  /\ Members(v) \in Seq(Values) /\ Len(Members(v)) = 2 * m /\ Len(ms) = 2 * m
               /\ BackEach(v.keys) = [i \in 1..m |-> Reference!Key(ms, i)]
               /\ BackEach(v.items) = [i \in 1..m |-> Reference!Mapped(ms, i)]
<1>1. Members(v) \in Seq(Values)
      BY ChildrenAreValues DEF Children
<1>2. /\ v.keys \in Seq(Values) /\ v.items \in Seq(Values) /\ Len(v.items) = m
      BY ValueParts
<1>3. Members(v) = [i \in 1..(2 * m) |->
                        IF i % 2 = 1 THEN v.keys[(i + 1) \div 2] ELSE v.items[i \div 2]]
      BY DEF Members
<1>4. PICK n \in Nat : n = 2 * m
      OBVIOUS
<1>5. Len(Members(v)) = n
      BY <1>1, <1>3, <1>4, LenProperties
<1>6. PICK ms : ms = BackEach(Members(v))
      OBVIOUS
<1>7. Len(ms) = n /\ \A i \in 1..n : ms[i] = Back[Members(v)[i]]
      BY <1>1, <1>5, <1>6, BackEachSeq
<1>8. \A i \in 1..m : ms[2 * i - 1] = Back[v.keys[i]] /\ ms[2 * i] = Back[v.items[i]]
      <2> TAKE i \in 1..m
      <2>1. /\ 2 * i - 1 \in 1..n /\ (2 * i - 1) % 2 = 1 /\ ((2 * i - 1) + 1) \div 2 = i
            /\ 2 * i \in 1..n /\ (2 * i) % 2 # 1 /\ (2 * i) \div 2 = i
            BY <1>4
      <2>2. Members(v)[2 * i - 1] = v.keys[i] /\ Members(v)[2 * i] = v.items[i]
            BY <1>3, <1>4, <2>1
      <2>3. QED BY <1>7, <2>1, <2>2
<1>9. DOMAIN v.keys = 1..m /\ DOMAIN v.items = 1..m
      BY <1>2, LenProperties
<1>10. BackEach(v.keys) = [i \in 1..m |-> Reference!Key(ms, i)]
       BY <1>8, <1>9 DEF BackEach, Reference!Key
<1>11. BackEach(v.items) = [i \in 1..m |-> Reference!Mapped(ms, i)]
       BY <1>8, <1>9 DEF BackEach, Reference!Mapped
<1>12. QED BY <1>1, <1>4, <1>5, <1>6, <1>7, <1>10, <1>11
---------------------------------------------------------------------
\* A container.

\* What is inside begins behind its header.
LEMMA HeaderThere ==
    ASSUME NEW in \in Seq(Byte), NEW p \in Nat, NEW v \in Values, IsContainer(v),
           Lies(in, p, Encoded[v])
    PROVE  \E q \in Nat : \E n \in Nat :
              /\ IsHeader(in, p, Header(v), n, v.type) /\ q = p + Len(Header(v))
              /\ n = Len(IF v.type = "ARRAY" THEN v.items ELSE v.keys)
              /\ Lies(in, q, Each(Encoded, Children(v)))
              /\ Each(Encoded, Children(v)) \in Seq(Nat)
              /\ q + Len(Each(Encoded, Children(v))) = p + Len(Encoded[v])
<1>1. PICK n : n = Len(IF v.type = "ARRAY" THEN v.items ELSE v.keys)
      OBVIOUS
<1>2. n \in Lengths /\ Introduces(Header(v), n, v.type)
      <2>1. MayBeSent(v)
            BY TrafficAssumption DEF Values
      <2>2. CASE v.type = "ARRAY"
            BY <1>1, <2>1, <2>2, ArrayHeaderIntroduces DEF MayBeSent, Header
      <2>3. CASE v.type = "OBJECT"
            BY <1>1, <2>1, <2>3, ObjectHeaderIntroduces DEF MayBeSent, Header
      <2>4. QED BY <2>2, <2>3 DEF IsContainer
<1>3. PICK h \in Seq(Byte) : h = Header(v)
      BY <1>2 DEF Introduces
<1>4. PICK body : body = Each(Encoded, Children(v))
      OBVIOUS
<1>5. body \in Seq(Nat)
      <2>1. Children(v) \in Seq(DOMAIN Encoded)
            BY ChildrenAreValues DEF Values
      <2>2. <<>> \in Seq(DOMAIN Encoded)
            OBVIOUS
      <2>3. QED BY <1>4, <2>1, <2>2, EncodedBytes, EachConcat
<1>6. Encoded[v] = h \o body
      BY <1>3, <1>4, ValueParts
<1>7. h \in Seq(Nat)
      <2>1. \A byte \in Byte : byte \in Nat
            BY DEF Byte
      <2>2. Len(h) \in Nat /\ h \in [1..Len(h) -> Byte]
            BY LenProperties
      <2>3. h \in [1..Len(h) -> Nat]
            BY <2>1, <2>2
      <2>4. QED BY <2>2, <2>3
<1>8. Lies(in, p, h) /\ Lies(in, p + Len(h), body)
      BY <1>5, <1>6, <1>7, LiesApart
<1>9. IsHeader(in, p, h, n, v.type)
      BY <1>2, <1>3, <1>8 DEF Introduces
<1>10. Len(h) \in Nat /\ Len(body) \in Nat /\ Len(h \o body) = Len(h) + Len(body)
       BY <1>5, <1>7, LenProperties, ConcatProperties
<1>11. PICK q : q = p + Len(h)
       OBVIOUS
<1>12. PICK i \in Nat, j \in Nat : i = Len(h) /\ j = Len(body)
       BY <1>10
<1>13. q \in Nat /\ q + Len(body) = p + Len(Encoded[v])
       <2>1. q = p + i /\ Len(Encoded[v]) = i + j
             BY <1>6, <1>10, <1>11, <1>12, Zenon
       <2>2. q + j = p + (i + j) /\ q \in Nat
             BY <2>1
       <2>3. QED BY <1>12, <2>1, <2>2, Zenon
<1>14. n \in Nat
       BY <1>2 DEF Lengths
<1>15. QED BY <1>1, <1>3, <1>4, <1>5, <1>8, <1>9, <1>11, <1>13, <1>14

\* The content of the container v at q is what its children are.
LEMMA ContentIs ==
    ASSUME NEW in, NEW d, NEW q, NEW v \in Values, NEW n \in Nat, IsContainer(v),
           n = Len(IF v.type = "ARRAY" THEN v.items ELSE v.keys)
    PROVE  Reference!Content(in, q, n, v.type, Table(in, d))
               = Reference!Whole(v.type, Run(in, d, q, Len(Children(v))))
<1>1. CASE v.type = "ARRAY"
      <2>1. Len(Children(v)) = n
            BY <1>1 DEF Children
      <2>2. QED BY <1>1, <2>1 DEF Reference!Content, Run
<1>2. CASE v.type = "OBJECT"
      <2>1. n = Len(v.keys)
            BY <1>2
      <2>2. Len(Members(v)) = 2 * n
            BY <1>2, <2>1, MembersBack
      <2>3. Len(Children(v)) = 2 * n
            BY <1>2, <2>2 DEF Children
      <2>4. QED BY <1>2, <2>3 DEF Reference!Content, Run
<1>3. QED BY <1>1, <1>2 DEF IsContainer

LEMMA ContainerComes ==
    ASSUME NEW in \in Seq(Byte), Reference!KeysOrdered(in), NEW d \in 0..MaxDepth,
           NEW v \in Values, IsContainer(v),
           \A i \in 1..Len(Children(v)) : Comes(in, d + 1, Children(v)[i])
    PROVE  Comes(in, d, v)
<1> SUFFICES ASSUME NEW p \in Nat, Lies(in, p, Encoded[v])
             PROVE  Table(in, d)[p] = Reference!Got(Back[v], p + Len(Encoded[v]))
    BY DEF Comes
<1>1. PICK q \in Nat, n \in Nat :
              /\ IsHeader(in, p, Header(v), n, v.type) /\ q = p + Len(Header(v))
              /\ n = Len(IF v.type = "ARRAY" THEN v.items ELSE v.keys)
              /\ Lies(in, q, Each(Encoded, Children(v)))
              /\ Each(Encoded, Children(v)) \in Seq(Nat)
              /\ q + Len(Each(Encoded, Children(v))) = p + Len(Encoded[v])
      BY HeaderThere
<1>2. PICK inside : inside = Table(in, d + 1)
      OBVIOUS
<1>3. PICK end : end = p + Len(Encoded[v])
      OBVIOUS
<1>4. Run(in, d + 1, q, Len(Children(v))) = Reference!Got(BackEach(Children(v)), end)
      BY <1>1, <1>3, ChildrenAreValues, EachComes
<1>5. Table(in, d)[p] = Reference!Whole(v.type, Run(in, d + 1, q, Len(Children(v))))
      <2>1. p \in 0..Len(in)
            BY DEF Lies
      <2>2. Table(in, d)[p] = Reference!At(in, p, inside)
            BY <1>2, <2>1, TableAround
      <2>3. Reference!At(in, p, inside) = Reference!Content(in, q, n, v.type, inside)
            BY <1>1 DEF IsHeader
      <2>4. QED BY <1>1, <1>2, <2>2, <2>3, ContentIs
<1>6. Table(in, d)[p] = Reference!Got(Reference!Make(v.type, BackEach(Children(v))), end)
      BY <1>4, <1>5 DEF Reference!Whole, Reference!Got
<1>7. Reference!Make(v.type, BackEach(Children(v))) = Back[v]
      <2>1. CASE v.type = "ARRAY"
            <3>1. Back[v] = Array(BackEach(v.items))
                  BY <2>1, BackAssumption DEF Values
            <3>2. QED BY <2>1, <3>1 DEF Reference!Make, Reference!Array, Array, Children
      <2>2. CASE v.type = "OBJECT"
            <3>1. PICK ms : ms = BackEach(Members(v))
                  OBVIOUS
            <3>2. n = Len(v.keys)
                  BY <1>1, <2>2
            <3>3. /\ Len(Members(v)) = 2 * n /\ Len(ms) = 2 * n
                  /\ BackEach(v.keys) = [i \in 1..n |-> Reference!Key(ms, i)]
                  /\ BackEach(v.items) = [i \in 1..n |-> Reference!Mapped(ms, i)]
                  BY <2>2, <3>1, <3>2, MembersBack
            <3>4. /\ Back[v] = Object(BackEach(v.keys), BackEach(v.items))
                  /\ \A i, j \in DOMAIN v.keys : i < j => Less(Back[v.keys[i]], Back[v.keys[j]])
                  BY <2>2, BackAssumption DEF Values
            <3>5. \A i, j \in 1..n : i < j => Less(Reference!Key(ms, i), Reference!Key(ms, j))
                  <4>1. DOMAIN v.keys = 1..n /\ v.keys \in Seq(Values)
                        BY <3>2, ValueParts, LenProperties
                  <4>2. \A i \in 1..n : Back[v.keys[i]] = Reference!Key(ms, i)
                        <5> TAKE i \in 1..n
                        <5>1. BackEach(v.keys)[i] = Back[v.keys[i]]
                              BY <4>1 DEF BackEach
                        <5>2. QED BY <3>3, <5>1
                  <4>3. SUFFICES ASSUME NEW i \in 1..n, NEW j \in 1..n, i < j
                                 PROVE  Less(Reference!Key(ms, i), Reference!Key(ms, j))
                        OBVIOUS
                  <4>4. Less(Back[v.keys[i]], Back[v.keys[j]])
                        BY <3>4, <4>1, <4>3
                  <4>5. Back[v.keys[i]] = Reference!Key(ms, i)
                        /\ Back[v.keys[j]] = Reference!Key(ms, j)
                        BY <4>2
                  <4>6. QED BY <4>4, <4>5
            <3>6. Reference!Ordered(ms)
                  <4>1. PICK announced : announced = Reference!Announces(in[p + 1])
                        OBVIOUS
                  <4>2. /\ p \in 0..(Len(in) - 1) /\ in[p + 1] \in Reference!ObjectBytes
                        /\ Reference!Has(in, p + 1, announced.wide)
                        /\ p + 1 + announced.wide = q
                        /\ Reference!Count(in, p + 1, announced) = n
                        BY <1>1, <2>2, <4>1 DEF IsHeader
                  <4>3. PICK members :
                            members = Reference!Values(Reference!Outcomes(in, d + 1), q, 2 * n)
                        OBVIOUS
                  <4>4. members.kind = "value" => Reference!Ordered(members.value)
                        BY <4>1, <4>2, <4>3 DEF Reference!KeysOrdered
                  <4>5. members = Reference!Got(ms, end)
                        <5>1. Children(v) = Members(v) /\ Len(Children(v)) = 2 * n
                              BY <2>2, <3>3 DEF Children
                        <5>2. QED BY <1>4, <3>1, <4>3, <5>1 DEF Run, Table
                  <4>6. QED BY <4>4, <4>5 DEF Reference!Got
            <3>7. Reference!MakeObject(ms) = Back[v]
                  BY <3>3, <3>4, <3>5, <3>6, MadeAsTheyAre
            <3>8. QED BY <2>2, <3>1, <3>7 DEF Reference!Make, Children
      <2>3. QED BY <2>1, <2>2 DEF IsContainer
<1>8. QED BY <1>3, <1>6, <1>7

\* A value that holds no others.
LEMMA LeafComes ==
    ASSUME NEW in \in Seq(Byte), NEW d \in 0..MaxDepth, NEW v \in Values, ~IsContainer(v)
    PROVE  Comes(in, d, v)
<1> SUFFICES ASSUME NEW p \in Nat, Lies(in, p, Encoded[v])
             PROVE  Table(in, d)[p] = Reference!Got(Back[v], p + Len(Encoded[v]))
    BY DEF Comes
<1>1. PICK s : s = Encoded[v]
      OBVIOUS
<1>2. v = Scalar(v.type, v.bytes) /\ MayHold(v.type, v.bytes)
      <2>1. MayBeSent(v)
            BY TrafficAssumption DEF Values
      <2>2. QED BY <2>1 DEF MayBeSent, IsContainer
<1>3. s = DumpLeaf(v)
      BY <1>1, ValueParts
<1>4. PICK w : LeafBack(w, v, s) /\ ReadAs(s, w)
      BY <1>2, <1>3, LeafRead DEF IsReadBack
<1>5. LeafBack(Back[v], v, s)
      BY <1>1, BackAssumption DEF Values, IsContainer
<1>6. w = Back[v]
      BY <1>4, <1>5, OneBack
<1>7. p \in 0..Len(in)
      BY DEF Lies
<1>8. Table(in, d)[p] = Reference!At(in, p, Table(in, d + 1))
      BY <1>7, TableAround
<1>9. Reference!At(in, p, Table(in, d + 1)) = Reference!Got(w, p + Len(s))
      BY <1>1, <1>4 DEF ReadAs
<1>10. QED BY <1>1, <1>6, <1>8, <1>9
---------------------------------------------------------------------
\* Values in values.

LEMMA NestingParts ==
    ASSUME NEW v \in Values
    PROVE  /\ Nesting[v] \in Nat
           /\ \A i \in 1..Len(Children(v)) :
                 /\ Children(v)[i] \in Values /\ Nesting[Children(v)[i]] \in Nat
                 /\ Nesting[Children(v)[i]] < Nesting[v]
           /\ Nesting[v] = 0
              \/ \E i \in 1..Len(Children(v)) : Nesting[v] = Nesting[Children(v)[i]] + 1
<1>1. DOMAIN Children(v) = 1..Len(Children(v))
      BY ChildrenAreValues, LenProperties
<1>2. \A i \in 1..Len(Children(v)) : Children(v)[i] \in Values
      BY ChildrenAreValues, ElementOfSeq
<1>3. QED BY <1>1, <1>2, NestingAssumption DEF Values

\* What is not nested too deep comes back, by induction on its nesting.
LEMMA EveryValueComes ==
    ASSUME NEW in \in Seq(Byte), Reference!KeysOrdered(in)
    PROVE  \A v \in Values : \A d \in 0..MaxDepth : Nesting[v] + d <= MaxDepth => Comes(in, d, v)
<1> DEFINE P(v) == \A d \in 0..MaxDepth : Nesting[v] + d <= MaxDepth => Comes(in, d, v)
           S == {n \in Nat : \A v \in Values : Nesting[v] < n => P(v)}
<1>1. 0 \in S
      <2>1. \A v \in Values : ~(Nesting[v] < 0)
            BY NestingParts
      <2>2. QED BY <2>1
<1>2. ASSUME NEW n \in Nat, n \in S, NEW v \in Values, Nesting[v] < n + 1,
             NEW d \in 0..MaxDepth, Nesting[v] + d <= MaxDepth
      PROVE  Comes(in, d, v)
      <2>1. CASE ~IsContainer(v)
            BY <2>1, LeafComes
      <2>2. CASE IsContainer(v)
            <3>1. ASSUME NEW i \in 1..Len(Children(v)) PROVE Comes(in, d + 1, Children(v)[i])
                  <4>1. PICK x \in Values : x = Children(v)[i]
                        BY NestingParts
                  <4>2. Nesting[x] \in Nat /\ Nesting[v] \in Nat /\ Nesting[x] < Nesting[v]
                        BY <4>1, NestingParts
                  <4>3. Nesting[x] < n /\ d + 1 \in 0..MaxDepth /\ Nesting[x] + (d + 1) <= MaxDepth
                        BY <1>2, <4>2, MaxDepthAssumption
                  <4>4. P(x)
                        BY <1>2, <4>3
                  <4>5. QED BY <4>1, <4>3, <4>4
            <3>2. QED BY <2>2, <3>1, ContainerComes
      <2>3. QED BY <2>1, <2>2
<1>3. ASSUME NEW n \in Nat, n \in S PROVE n + 1 \in S
      BY <1>2, <1>3
<1> HIDE DEF S, P
<1>4. Nat \subseteq S
      BY <1>1, <1>3, Reference!Turns!Induction
<1>5. ASSUME NEW v \in Values PROVE P(v)
      <2>1. Nesting[v] + 1 \in S /\ Nesting[v] < Nesting[v] + 1
            BY <1>4, NestingParts
      <2>2. QED BY <2>1 DEF S
<1>6. QED BY <1>5 DEF P

LEMMA ContainerFails ==
    ASSUME NEW in \in Seq(Byte), NEW d \in 0..MaxDepth, NEW v \in Values, IsContainer(v),
           \A i \in 1..Len(Children(v)) :
               Comes(in, d + 1, Children(v)[i]) \/ Fails(in, d + 1, Children(v)[i]),
           \E i \in 1..Len(Children(v)) : Fails(in, d + 1, Children(v)[i])
    PROVE  Fails(in, d, v)
<1> SUFFICES ASSUME NEW p \in Nat, Lies(in, p, Encoded[v])
             PROVE  Table(in, d)[p].kind = "malformed"
    BY DEF Fails
<1>1. PICK q \in Nat, n \in Nat :
              /\ IsHeader(in, p, Header(v), n, v.type) /\ q = p + Len(Header(v))
              /\ n = Len(IF v.type = "ARRAY" THEN v.items ELSE v.keys)
              /\ Lies(in, q, Each(Encoded, Children(v)))
              /\ Each(Encoded, Children(v)) \in Seq(Nat)
              /\ q + Len(Each(Encoded, Children(v))) = p + Len(Encoded[v])
      BY HeaderThere
<1>2. PICK inside : inside = Table(in, d + 1)
      OBVIOUS
<1>3. Run(in, d + 1, q, Len(Children(v))).kind = "malformed"
      BY <1>1, ChildrenAreValues, EachFails
<1>4. Table(in, d)[p] = Reference!Whole(v.type, Run(in, d + 1, q, Len(Children(v))))
      <2>1. p \in 0..Len(in)
            BY DEF Lies
      <2>2. Table(in, d)[p] = Reference!At(in, p, inside)
            BY <1>2, <2>1, TableAround
      <2>3. Reference!At(in, p, inside) = Reference!Content(in, q, n, v.type, inside)
            BY <1>1 DEF IsHeader
      <2>4. QED BY <1>1, <1>2, <2>2, <2>3, ContentIs
<1>5. QED BY <1>3, <1>4 DEF Reference!Whole

\* What is nested too deep is malformed, by induction on how many containers more there
\* may be around it.
LEMMA DeepValueFails ==
    ASSUME NEW in \in Seq(Byte), Reference!KeysOrdered(in)
    PROVE  \A v \in Values : \A d \in 0..(MaxDepth + 1) :
               Nesting[v] + d > MaxDepth => Fails(in, d, v)
<1> DEFINE S == {n \in Nat : \A v \in Values : \A d \in 0..(MaxDepth + 1) :
                    Nesting[v] + d > MaxDepth /\ d + n = MaxDepth + 1 => Fails(in, d, v)}
<1>1. 0 \in S
      <2>1. ASSUME NEW v \in Values, NEW d \in 0..(MaxDepth + 1), d + 0 = MaxDepth + 1
            PROVE  Fails(in, d, v)
            <3>1. SUFFICES ASSUME NEW p \in Nat, Lies(in, p, Encoded[v])
                           PROVE  Table(in, d)[p].kind = "malformed"
                  BY DEF Fails
            <3>2. p \in 0..Len(in)
                  BY <3>1 DEF Lies
            <3>3. d = MaxDepth + 1
                  BY <2>1
            <3>4. Table(in, d)[p] = Reference!Malformed(p)
                  BY <3>2, <3>3, TableInnermost
            <3>5. QED BY <3>4 DEF Reference!Malformed
      <2>2. QED BY <2>1
<1>2. ASSUME NEW n \in Nat, n \in S, NEW v \in Values, NEW d \in 0..(MaxDepth + 1),
             Nesting[v] + d > MaxDepth, d + (n + 1) = MaxDepth + 1
      PROVE  Fails(in, d, v)
      <2>1. d \in 0..MaxDepth /\ d + 1 \in 0..(MaxDepth + 1) /\ (d + 1) + n = MaxDepth + 1
            BY <1>2, MaxDepthAssumption
      <2>2. PICK i \in 1..Len(Children(v)) : Nesting[v] = Nesting[Children(v)[i]] + 1
            <3>1. Nesting[v] # 0
                  BY <1>2, <2>1, MaxDepthAssumption
            <3>2. QED BY <3>1, NestingParts
      <2>3. IsContainer(v)
            <3>1. ~IsContainer(v) => Children(v) = <<>>
                  BY ChildrenAreValues
            <3>2. Children(v) # <<>>
                  BY <2>2
            <3>3. QED BY <3>1, <3>2
      <2>4. ASSUME NEW x \in Values, Nesting[x] \in Nat, Nesting[x] + (d + 1) > MaxDepth
            PROVE  Fails(in, d + 1, x)
            BY <1>2, <2>1, <2>4
      <2>5. ASSUME NEW j \in 1..Len(Children(v))
            PROVE  Comes(in, d + 1, Children(v)[j]) \/ Fails(in, d + 1, Children(v)[j])
            <3>1. PICK x \in Values : x = Children(v)[j] /\ Nesting[x] \in Nat
                  BY NestingParts
            <3>2. CASE Nesting[x] + (d + 1) > MaxDepth
                  BY <2>4, <3>1, <3>2
            <3>3. CASE ~(Nesting[x] + (d + 1) > MaxDepth)
                  <4>1. Nesting[x] + (d + 1) <= MaxDepth /\ d + 1 \in 0..MaxDepth
                        BY <2>1, <3>1, <3>3, MaxDepthAssumption
                  <4>2. QED BY <3>1, <4>1, EveryValueComes
            <3>4. QED BY <3>2, <3>3
      <2>6. Fails(in, d + 1, Children(v)[i])
            <3>1. PICK x \in Values : x = Children(v)[i] /\ Nesting[x] \in Nat
                  BY NestingParts
            <3>2. Nesting[x] + (d + 1) > MaxDepth
                  BY <1>2, <2>1, <2>2, <3>1, MaxDepthAssumption
            <3>3. QED BY <2>4, <3>1, <3>2
      <2>7. QED BY <2>1, <2>3, <2>5, <2>6, ContainerFails
<1>3. ASSUME NEW n \in Nat, n \in S PROVE n + 1 \in S
      <2>1. ASSUME NEW v \in Values, NEW d \in 0..(MaxDepth + 1),
                   Nesting[v] + d > MaxDepth, d + (n + 1) = MaxDepth + 1
            PROVE  Fails(in, d, v)
            BY ONLY <1>2, <1>3, <2>1
      <2>2. n + 1 \in Nat
            OBVIOUS
      <2>3. QED BY <2>1, <2>2
<1> HIDE DEF S
<1>4. Nat \subseteq S
      BY <1>1, <1>3, Reference!Turns!Induction
<1>5. ASSUME NEW v \in Values, NEW d \in 0..(MaxDepth + 1), Nesting[v] + d > MaxDepth
      PROVE  Fails(in, d, v)
      <2>1. PICK n \in Nat : d + n = MaxDepth + 1
            <3>1. MaxDepth + 1 - d \in Nat /\ d + (MaxDepth + 1 - d) = MaxDepth + 1
                  BY MaxDepthAssumption
            <3>2. QED BY <3>1
      <2>2. n \in S
            BY <1>4
      <2>3. QED BY <1>5, <2>1, <2>2 DEF S
<1>6. QED BY <1>5
---------------------------------------------------------------------
\* What was sent, and what of it arrived.

LEMMA BothParts ==
    ASSUME NEW pair \in Traffic, NEW i \in 1..2
    PROVE  /\ pair[i] \in Values /\ Both(pair) \in Seq(Nat)
           /\ Border(pair, i - 1) \in Nat
           /\ Border(pair, i) = Border(pair, i - 1) + Len(Encoded[pair[i]])
           /\ Border(pair, i) <= Len(Both(pair))
           /\ Both(pair) \in Seq(Byte) => Lies(Both(pair), Border(pair, i - 1), Encoded[pair[i]])
<1>1. pair[1] \in Values /\ pair[2] \in Values
      BY TrafficAssumption DEF Values
<1>2. PICK a, b : a = Encoded[pair[1]] /\ b = Encoded[pair[2]]
      OBVIOUS
<1>3. a \in Seq(Nat) /\ b \in Seq(Nat) /\ Len(a) \in Nat /\ Len(b) \in Nat
      BY <1>1, <1>2, EncodedBytes, LenProperties DEF Values
<1>4. PICK s : s = a \o b
      OBVIOUS
<1>5. /\ s \in Seq(Nat) /\ Len(s) = Len(a) + Len(b)
      /\ \A k \in 1..(Len(a) + Len(b)) : s[k] = IF k <= Len(a) THEN a[k] ELSE b[k - Len(a)]
      BY <1>3, <1>4, ConcatProperties
<1>6. Both(pair) = s
      BY <1>2, <1>4 DEF Both
<1>7. CASE i = 1
      <2>1. Border(pair, i - 1) = 0 /\ Border(pair, i) = Len(a) /\ Encoded[pair[i]] = a
            BY <1>2, <1>7 DEF Border
      <2>2. \A k \in 1..Len(a) : s[0 + k] = a[k]
            BY <1>3, <1>5
      <2>3. Lies(s, 0, a)
            BY <1>3, <1>5, <2>2 DEF Lies
      <2>4. QED BY <1>1, <1>3, <1>5, <1>6, <1>7, <2>1, <2>3
<1>8. CASE i = 2
      <2>1. /\ Border(pair, i - 1) = Len(a) /\ Border(pair, i) = Len(a) + Len(b)
            /\ Encoded[pair[i]] = b
            BY <1>2, <1>8 DEF Border
      <2>2. ASSUME NEW k \in 1..Len(b) PROVE s[Len(a) + k] = b[k]
            <3>1. Len(a) + k \in 1..(Len(a) + Len(b)) /\ ~(Len(a) + k <= Len(a))
                  /\ (Len(a) + k) - Len(a) = k
                  BY <1>3
            <3>2. QED BY <1>5, <3>1
      <2>3. Lies(s, Len(a), b)
            BY <1>3, <1>5, <2>2 DEF Lies
      <2>4. QED BY <1>1, <1>3, <1>5, <1>6, <1>8, <2>1, <2>3
<1>9. QED BY <1>7, <1>8

\* All of it may arrive; what arrives is how it begins.
LEMMA Delivered ==
    ASSUME NEW pair \in Traffic, NEW in \in Deliveries(pair)
    PROVE  /\ Both(pair) \in Inputs /\ Both(pair) \in Seq(Byte)
           /\ \E n \in 0..Len(Both(pair)) : in = SubSeq(Both(pair), 1, n)
<1>1. PICK b : b = Both(pair)
      OBVIOUS
<1>2. b \in Seq(Nat) /\ Len(b) \in Nat
      <2>1. 1 \in 1..2
            OBVIOUS
      <2>2. QED BY <1>1, <2>1, BothParts, LenProperties
<1>3. PICK n \in Cuts(Len(b)) : in = SubSeq(b, 1, n)
      BY <1>1 DEF Deliveries
<1>4. n \in 1..Len(b) /\ Len(b) \in Cuts(Len(b))
      BY <1>2, <1>3 DEF Cuts
<1>5. SubSeq(b, 1, Len(b)) = b
      <2>1. /\ SubSeq(b, 1, Len(b)) \in Seq(Nat)
            /\ Len(SubSeq(b, 1, Len(b))) = Len(b)
            /\ \A k \in 1..Len(b) : SubSeq(b, 1, Len(b))[k] = b[k]
            BY <1>2, <1>4, SubSeqProperties
      <2>2. QED BY <1>2, <2>1, SeqEqual
<1>6. b \in Deliveries(pair)
      BY <1>1, <1>4, <1>5 DEF Deliveries
<1>7. b \in Inputs /\ b \in Seq(Byte)
      BY <1>6, DeliveredAssumption, InputsAssumption
<1>8. QED BY <1>1, <1>3, <1>4, <1>7

LEMMA ArrivedLies ==
    ASSUME NEW pair \in Traffic, NEW i \in 1..2, NEW in \in Deliveries(pair),
           Len(in) >= Border(pair, i)
    PROVE  Lies(in, Border(pair, i - 1), Encoded[pair[i]])
<1>1. PICK b, p, s : b = Both(pair) /\ p = Border(pair, i - 1) /\ s = Encoded[pair[i]]
      OBVIOUS
<1>2. b \in Seq(Byte)
      BY <1>1, Delivered
<1>3. PICK n \in 0..Len(b) : in = SubSeq(b, 1, n)
      BY <1>1, Delivered
<1>4. p \in Nat /\ Len(b) \in Nat /\ Lies(b, p, s) /\ Border(pair, i) = p + Len(s)
      BY <1>1, <1>2, BothParts, LenProperties
<1>5. Len(s) \in Nat
      BY <1>1, BothParts, EncodedBytes, LenProperties DEF Values
<1>6. Len(in) = n /\ \A k \in 1..n : in[k] = b[0 + k]
      <2>1. 0 \in 0..n /\ 0 + 1 = 1 /\ n - 0 = n
            OBVIOUS
      <2>2. QED BY <1>2, <1>3, <2>1, Piece
<1>7. ASSUME NEW k \in 1..Len(s) PROVE in[p + k] = s[k]
      <2>1. p + k \in 1..n /\ 0 + (p + k) = p + k
            BY <1>4, <1>5, <1>6
      <2>2. b[p + k] = s[k]
            BY <1>4 DEF Lies
      <2>3. QED BY <1>6, <2>1, <2>2
<1>8. p \in 0..Len(in) /\ Len(s) <= Len(in) - p
      BY <1>4, <1>5, <1>6
<1>9. QED BY <1>1, <1>7, <1>8 DEF Lies
---------------------------------------------------------------------
\* The reader's stream is the one that was sent, and every call on it is as Decode
\* says.

Sending == sent \in Traffic /\ input \in Deliveries(sent)

RTInv == Sending /\ IInv /\ Since /\ MembersInv /\ MatchInv

\* operator< orders the keys of what can be read from what is delivered.
InputsOrdered == \A in \in Inputs : Reference!KeysOrdered(in)

LEMMA StillSending == ASSUME Sending, [RTNext]_rtvars PROVE Sending'
<1>1. sent' = sent /\ [Next]_vars
      BY DEF RTNext, rtvars
<1>2. input' = input
      <2>1. CASE Next
            BY <2>1, CalleeFrame DEF Next, Callee, Return, ReturnToCaller, ParseAgain
      <2>2. CASE UNCHANGED vars
            BY <2>2 DEF vars
      <2>3. QED BY <1>1, <2>1, <2>2
<1>3. QED BY <1>1, <1>2 DEF Sending

LEMMA RTInvariance == ASSUME InputsOrdered PROVE RTSpec => []RTInv
<1>1. RTInit => RTInv
      <2>1. SUFFICES ASSUME RTInit PROVE RTInv
            OBVIOUS
      <2>2. Init /\ Sending
            BY <2>1 DEF RTInit, Sending
      <2>3. Since
            BY <2>2, EmptySeq DEF Init, Since, Fresh, Good, depth
      <2>4. MembersInv
            BY <2>2, NoMembers DEF Init
      <2>5. QED BY <2>2, <2>3, <2>4, InitInv, MatchInit DEF RTInv
<1>2. RTInv /\ [RTNext]_rtvars => RTInv'
      <2>1. SUFFICES ASSUME RTInv, [RTNext]_rtvars PROVE RTInv'
            OBVIOUS
      <2>2. [Next]_vars
            BY <2>1 DEF RTNext, rtvars
      <2>3. Reference!KeysOrdered(input)
            BY <2>1 DEF InputsOrdered, RTInv, IInv, TypeOK
      <2>4. Sending'
            BY <2>1, StillSending DEF RTInv
      <2>5. IInv' /\ Since' /\ MembersInv' /\ MatchInv'
            BY <2>1, <2>2, <2>3, NextStep, SinceStep, MembersStep, MatchStep DEF RTInv
      <2>6. QED BY <2>4, <2>5 DEF RTInv
<1>3. QED BY <1>1, <1>2, PTL DEF RTSpec

\* The value that the i-th call began at, and what Decode says of it.
LEMMA CallIs ==
    ASSUME RTInv, InputsOrdered, NEW i \in 1..2, CallFor(i)
    PROVE  /\ sent[i] \in Values /\ input \in Seq(Byte) /\ Reference!KeysOrdered(input)
           /\ Border(sent, i - 1) \in 0..Len(input)
           /\ began.is.pos = Border(sent, i - 1)
           /\ Means(Table(input, 0)[Border(sent, i - 1)])
<1>1. sent \in Traffic /\ sent[i] \in Values
      BY BothParts DEF RTInv, Sending
<1>2. input \in Inputs /\ input \in Seq(Byte) /\ began.is \in Stream
      BY InputsAssumption DEF RTInv, IInv, TypeOK
<1>3. Good(began.is) /\ began.is.pos = Border(sent, i - 1) /\ pc = "done"
      BY DEF CallFor, Good
<1>4. began.is.pos \in 0..Len(input)
      BY <1>2 DEF Stream
<1>5. Means(Reference!Value(input, began.is.pos, 0))
      BY <1>3 DEF RTInv, MatchInv, MatchesReference
<1>6. QED BY <1>1, <1>2, <1>3, <1>4, <1>5 DEF InputsOrdered, Table, Reference!Value
---------------------------------------------------------------------

LEMMA ValueRead ==
    ASSUME RTInv, InputsOrdered, NEW i \in 1..2, CallFor(i), Arrived(i),
           Nesting[sent[i]] <= MaxDepth
    PROVE  /\ ret = Back[sent[i]]
           /\ is = [pos |-> Border(sent, i), eof |-> FALSE, fail |-> FALSE]
           /\ err = began.err
<1>1. PICK v, p : v = sent[i] /\ p = Border(sent, i - 1)
      OBVIOUS
<1>2. /\ v \in Values /\ input \in Seq(Byte) /\ Reference!KeysOrdered(input)
      /\ p \in Nat /\ Means(Table(input, 0)[p])
      BY <1>1, CallIs, LenProperties
<1>3. Lies(input, p, Encoded[v]) /\ Border(sent, i) = p + Len(Encoded[v])
      BY <1>1, ArrivedLies, BothParts DEF RTInv, Sending, Arrived
<1>4. 0 \in 0..MaxDepth /\ Nesting[v] + 0 <= MaxDepth
      BY <1>1, <1>2, NestingParts, MaxDepthAssumption
<1>5. Comes(input, 0, v)
      BY <1>2, <1>4, EveryValueComes
<1>6. Table(input, 0)[p] = Reference!Got(Back[v], Border(sent, i))
      BY <1>2, <1>3, <1>5 DEF Comes
<1>7. Means(Reference!Got(Back[v], Border(sent, i)))
      BY <1>2, <1>6
<1>8. QED BY <1>1, <1>7 DEF Means, Reference!Got

LEMMA CutRejected ==
    ASSUME RTInv, InputsOrdered, NEW i \in 1..2, CallFor(i), ~Arrived(i),
           Nesting[sent[i]] <= MaxDepth
    PROVE  ret = Nil /\ is.fail /\ err = EndOfBuffer
<1>1. PICK v, p, b : v = sent[i] /\ p = Border(sent, i - 1) /\ b = Both(sent)
      OBVIOUS
<1>2. /\ v \in Values /\ input \in Seq(Byte) /\ p \in 0..Len(input) /\ p \in Nat
      /\ Means(Table(input, 0)[p]) /\ Len(input) \in Nat
      BY <1>1, CallIs, LenProperties
<1>3. /\ sent \in Traffic /\ b \in Seq(Byte) /\ Reference!KeysOrdered(b)
      /\ \E n \in 0..Len(b) : input = SubSeq(b, 1, n)
      BY <1>1, Delivered DEF RTInv, Sending, InputsOrdered
<1>4. PICK n \in 0..Len(b) : input = SubSeq(b, 1, n)
      BY <1>3
<1>5. Len(input) = n
      <2>1. Len(b) \in Nat
            BY <1>3, LenProperties
      <2>2. 0 \in 0..n /\ 0 + 1 = 1 /\ n - 0 = n
            BY <2>1
      <2>3. QED BY <1>3, <1>4, <2>2, Piece
<1>6. Lies(b, p, Encoded[v]) /\ Border(sent, i) = p + Len(Encoded[v]) /\ Border(sent, i) \in Nat
      <2>1. Lies(b, p, Encoded[v]) /\ Border(sent, i) = p + Len(Encoded[v])
            BY <1>1, <1>3, BothParts
      <2>2. Len(Encoded[v]) \in Nat
            BY <1>2, EncodedBytes, LenProperties DEF Values
      <2>3. QED BY <1>2, <2>1, <2>2
<1>7. 0 \in 0..MaxDepth /\ Nesting[v] + 0 <= MaxDepth
      BY <1>1, <1>2, NestingParts, MaxDepthAssumption
<1>8. Comes(b, 0, v)
      BY <1>2, <1>3, <1>7, EveryValueComes
<1>9. Table(b, 0)[p] = Reference!Got(Back[v], Border(sent, i))
      BY <1>2, <1>6, <1>8 DEF Comes
<1>10. /\ Reference!Value(b, p, 0).kind = "value" /\ n < Reference!Value(b, p, 0).next
       /\ p \in 0..n
      BY <1>2, <1>5, <1>6, <1>9 DEF Reference!Value, Table, Reference!Got, Arrived
<1>11. Reference!Value(input, p, 0) = Reference!Truncated(input)
      BY <1>3, <1>4, <1>10, CutsAreTruncated
<1>12. Means(Reference!Truncated(input))
      BY <1>2, <1>11 DEF Table, Reference!Value
<1>13. QED BY <1>12, NilSame DEF Means, Reference!Truncated

LEMMA NestedTooDeep ==
    ASSUME RTInv, InputsOrdered, NEW i \in 1..2, CallFor(i), Arrived(i),
           Nesting[sent[i]] > MaxDepth
    PROVE  ret = Nil /\ is.fail /\ err = FormatError
<1>1. PICK v, p : v = sent[i] /\ p = Border(sent, i - 1)
      OBVIOUS
<1>2. /\ v \in Values /\ input \in Seq(Byte) /\ Reference!KeysOrdered(input)
      /\ p \in Nat /\ Means(Table(input, 0)[p])
      BY <1>1, CallIs, LenProperties
<1>3. Lies(input, p, Encoded[v])
      BY <1>1, ArrivedLies DEF RTInv, Sending, Arrived
<1>4. 0 \in 0..(MaxDepth + 1) /\ Nesting[v] + 0 > MaxDepth
      BY <1>1, <1>2, NestingParts, MaxDepthAssumption
<1>5. Fails(input, 0, v)
      BY <1>2, <1>4, DeepValueFails
<1>6. Table(input, 0)[p].kind = "malformed"
      BY <1>2, <1>3, <1>5 DEF Fails
<1>7. is.fail /\ err = FormatError
      BY <1>2, <1>6 DEF Means
<1>8. ret = Nil
      BY <1>7 DEF RTInv, IInv, FailureMeansNil, CallFor, Good
<1>9. QED BY <1>7, <1>8

\* Whatever is sent after it, and for every value dump writes, containers too: what
\* arrives whole and is nested no deeper than max_depth is read back as the same
\* value, whose integers come in the types that dump narrowed them to, and nothing
\* of what follows is consumed.
THEOREM ValuesAreReadBack == ASSUME InputsOrdered PROVE RTSpec => []ReadBack
<1>1. RTInv => ReadBack
      BY ValueRead DEF ReadBack
<1>2. QED BY <1>1, RTInvariance, PTL

\* Wherever the transport stops inside a value, also inside a container in a
\* container, parse says that the buffer ended, and never that the format is wrong.
THEOREM CutValuesAreRejected == ASSUME InputsOrdered PROVE RTSpec => []PrefixRejected
<1>1. RTInv => PrefixRejected
      BY CutRejected DEF PrefixRejected
<1>2. QED BY <1>1, RTInvariance, PTL

\* However the containers are nested: a value with more of them around its
\* innermost one than max_depth allows is rejected as a format error.
THEOREM DeepValuesAreRejected == ASSUME InputsOrdered PROVE RTSpec => []DeepRejected
<1>1. RTInv => DeepRejected
      BY NestedTooDeep DEF DeepRejected
<1>2. QED BY <1>1, RTInvariance, PTL
=====================================================================
