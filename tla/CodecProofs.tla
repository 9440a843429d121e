----------------------------- MODULE CodecProofs -----------------------------
(***************************************************************************)
(* Proofs about the codec: which messages and which frames the functions   *)
(* make, and what a checksum tells of a frame, for contents of every kind. *)
(***************************************************************************)
EXTENDS Contents, Recursion, FiniteSetTheorems

-----------------------------------------------------------------------------
(* Codes, bytes and numbers *)

(* A code is one of a table. *)
Codes == (0..8) \cup (4096..4110) \cup (8192..8205) \cup (12288..12295)
         \cup (16384..16390) \cup (20480..20481) \cup (24576..24582) \cup (28672..28673)

LEMMA CodesListed == Range(FC) \subseteq Codes
BY DEF FC, Range, Codes

LEMMA CodeNumbers ==
    /\ FC.INTERFACETYPE = 0 /\ FC.MESSAGETYPE = 1 /\ FC.TRANSTYPE = 2 /\ FC.GCGID = 3
    /\ FC.GOSID = 4 /\ FC.TRANSDATE = 5 /\ FC.TRANSTIME = 6 /\ FC.MSGSEQNUM = 7
    /\ FC.RESCODE = 8
    /\ 0..8 \subseteq Range(FC)
BY DEF FC, Range

LEMMA LengthOfCode ==
    ASSUME NEW code \in Range(FC)
    PROVE  /\ code \in Nat /\ code <= 65535
           /\ FieldLen(code) \in -4..10
           /\ FC.RESCODE <= code => FieldLen(code) \in -4..7
<1>1. code \in Codes BY CodesListed
<1>2. ASSUME code \in 0..8 PROVE FieldLen(code) \in 0..10 /\ (code = 8 => FieldLen(code) \in 0..3)
    BY <1>2, FieldsAssumption DEF FieldLen
<1>3. ASSUME code \in 4096..4110 PROVE FieldLen(code) \in -4..7
    BY <1>3 DEF FieldLen
<1>4. ASSUME code \in 8192..8205 PROVE FieldLen(code) \in -4..7
    BY <1>4 DEF FieldLen
<1>5. ASSUME code \in 12288..12295 PROVE FieldLen(code) \in -4..7
    BY <1>5 DEF FieldLen
<1>6. ASSUME code \in 16384..16390 PROVE FieldLen(code) \in -4..7
    BY <1>6 DEF FieldLen
<1>7. ASSUME code \in 20480..20481 PROVE FieldLen(code) \in -4..7
    BY <1>7 DEF FieldLen
<1>8. ASSUME code \in 24576..24582 PROVE FieldLen(code) \in -4..7
    BY <1>8 DEF FieldLen
<1>9. ASSUME code \in 28672..28673 PROVE FieldLen(code) \in -4..7
    BY <1>9 DEF FieldLen
<1>10. FC.RESCODE = 8 BY CodeNumbers
<1> QED BY <1>1, <1>2, <1>3, <1>4, <1>5, <1>6, <1>7, <1>8, <1>9, <1>10 DEF Codes

LEMMA HeaderLengths ==
    /\ FieldLen(0) = 10 /\ FieldLen(1) = 1 /\ FieldLen(2) = 1 /\ FieldLen(3) = 3
    /\ FieldLen(4) = 3 /\ FieldLen(5) = 8 /\ FieldLen(6) = 6 /\ FieldLen(7) = 6
    /\ FieldLen(8) = PastHeader
BY DEF FieldLen

LEMMA MaxLengthOf == MaxLength \in Nat /\ 10 <= MaxLength
BY DEF MaxLength

LEMMA MaxIntsOf == MaxInts \in Nat /\ 4 * MaxInts <= MaxLength
BY DEF MaxInts, MaxLength

LEMMA FunctionIsSeq ==
    ASSUME NEW X, NEW n \in Nat, NEW f \in [1..n -> X]
    PROVE  f \in Seq(X) /\ Len(f) = n
BY LenProperties, IsASeq

LEMMA SetBytesOf ==
    ASSUME NEW w \in 1..4, NEW n \in Int
    PROVE  SetBytes(w, n) \in Seq(Byte) /\ Len(SetBytes(w, n)) = w
<1>1. \A i \in 1..w : (n \div Place[w - i + 1]) % 256 \in Byte
    <2>1. \A j \in 1..4 : (n \div Place[j]) % 256 \in Byte BY DEF Place, Byte
    <2>2. \A i \in 1..w : w - i + 1 \in 1..4 OBVIOUS
    <2> QED BY <2>1, <2>2
<1>2. SetBytes(w, n) \in [1..w -> Byte] BY <1>1 DEF SetBytes
<1> QED BY <1>2, LenProperties, IsASeq

LEMMA ReadNumInt ==
    ASSUME NEW b \in Seq(Byte)
    PROVE  ReadNum(b) \in Int
<1>1. Len(b) \in Nat /\ \A k \in 1..Len(b) : b[k] \in Byte BY LenProperties, ElementOfSeq
<1>2. \A i \in 0..3 : (IF i < Len(b) THEN b[Len(b) - i] ELSE 0) \in Byte
    <2>1. \A i \in 0..3 : i < Len(b) => Len(b) - i \in 1..Len(b) BY <1>1
    <2>2. 0 \in Byte BY DEF Byte
    <2> QED BY <1>1, <2>1, <2>2
<1> DEFINE digit(i) == IF i < Len(b) THEN b[Len(b) - i] ELSE 0
<1>3. digit(0) \in Byte /\ digit(1) \in Byte /\ digit(2) \in Byte /\ digit(3) \in Byte
    BY <1>2
<1>4. ReadNum(b) = digit(0) + Place[2] * digit(1) + Place[3] * digit(2)
                   + Place[4] * (IF digit(3) < 128 THEN digit(3) ELSE digit(3) - 256)
    BY DEF ReadNum
<1> HIDE DEF digit
<1>5. Place[2] = 256 /\ Place[3] = 65536 /\ Place[4] = 16777216 BY DEF Place
<1>6. PICK a, d, e, g \in Byte : a = digit(0) /\ d = digit(1) /\ e = digit(2) /\ g = digit(3)
    BY <1>3
<1>7. ReadNum(b) = a + 256 * d + 65536 * e + 16777216 * (IF g < 128 THEN g ELSE g - 256)
    BY <1>4, <1>5, <1>6
<1> QED BY <1>7 DEF Byte

(* Three bytes are a number of 24 bits. *)
LEMMA ReadGid ==
    ASSUME NEW b \in Seq(Byte), Len(b) = 3
    PROVE  ReadNum(b) \in Nat /\ ReadNum(b) <= 16777215
<1>1. b[1] \in Byte /\ b[2] \in Byte /\ b[3] \in Byte
    <2>1. 1 \in 1..Len(b) /\ 2 \in 1..Len(b) /\ 3 \in 1..Len(b) OBVIOUS
    <2> QED BY <2>1, ElementOfSeq
<1> DEFINE digit(i) == IF i < Len(b) THEN b[Len(b) - i] ELSE 0
<1>2. digit(0) = b[3] /\ digit(1) = b[2] /\ digit(2) = b[1] /\ digit(3) = 0
    <2>1. 3 - 0 = 3 /\ 3 - 1 = 2 /\ 3 - 2 = 1 /\ 0 < 3 /\ 1 < 3 /\ 2 < 3 /\ ~(3 < 3) OBVIOUS
    <2> QED BY <2>1
<1>3. ReadNum(b) = digit(0) + Place[2] * digit(1) + Place[3] * digit(2)
                   + Place[4] * (IF digit(3) < 128 THEN digit(3) ELSE digit(3) - 256)
    BY DEF ReadNum
<1> HIDE DEF digit
<1>4. Place[2] = 256 /\ Place[3] = 65536 /\ Place[4] = 16777216 BY DEF Place
<1>5. PICK x, y, z \in Byte : x = b[1] /\ y = b[2] /\ z = b[3] BY <1>1
<1>6. z \in Nat /\ y \in Nat /\ x \in Nat BY DEF Byte
<1>7. digit(0) = z /\ digit(1) = y /\ digit(2) = x /\ digit(3) = 0 BY <1>2, <1>5
<1>8. ReadNum(b) = z + 256 * y + 65536 * x + 16777216 * 0
    BY <1>3, <1>4, <1>6, <1>7, SMT
<1> QED BY <1>6, <1>8, SMT DEF Byte

LEMMA ReverseOf ==
    ASSUME NEW b \in Seq(Byte)
    PROVE  /\ Reverse(b) \in Seq(Byte) /\ Len(Reverse(b)) = Len(b)
           /\ \A k \in 1..Len(b) : Reverse(b)[k] = b[Len(b) - k + 1]
<1>1. Len(b) \in Nat /\ \A k \in 1..Len(b) : b[k] \in Byte BY LenProperties, ElementOfSeq
<1>2. \A k \in 1..Len(b) : (Len(b) - k) + 1 \in 1..Len(b) BY <1>1
<1>3. Reverse(b) = [k \in 1..Len(b) |-> b[(Len(b) - k) + 1]] BY DEF Reverse
<1>4. Reverse(b) \in [1..Len(b) -> Byte] BY <1>1, <1>2, <1>3
<1> QED BY <1>1, <1>3, <1>4, LenProperties, IsASeq

LEMMA SubSeqOf ==
    ASSUME NEW b \in Seq(Byte), NEW m \in Nat \ {0}, NEW n \in Nat, n <= Len(b), m <= n + 1
    PROVE  /\ SubSeq(b, m, n) \in Seq(Byte) /\ Len(SubSeq(b, m, n)) = n - m + 1
           /\ \A k \in 1..(n - m + 1) : SubSeq(b, m, n)[k] = b[m + k - 1]
<1>1. Len(b) \in Nat /\ \A k \in 1..Len(b) : b[k] \in Byte BY LenProperties, ElementOfSeq
<1>2. \A k \in m..n : b[k] \in Byte BY <1>1
<1> QED BY <1>2, SubSeqProperties

LEMMA WordOf ==
    ASSUME NEW n \in Int
    PROVE  Word(n) \in Seq(Byte) /\ Len(Word(n)) = 4
BY SetBytesOf, ReverseOf DEF Word

LEMMA IntOfInt ==
    ASSUME NEW word \in Seq(Byte)
    PROVE  IntOf(word) \in Int
BY ReverseOf, ReadNumInt DEF IntOf

LEMMA KeptOf ==
    ASSUME NEW b \in Seq(Byte)
    PROVE  /\ Kept(b) \in Seq(Byte)
           /\ Len(Kept(b)) = IF Len(b) > FDATA_LIMIT THEN Len(b) ELSE 4
<1>1. Len(b) \in Nat /\ \A k \in 1..Len(b) : b[k] \in Byte BY LenProperties, ElementOfSeq
<1>2. CASE Len(b) > FDATA_LIMIT
    BY <1>2 DEF Kept
<1>3. CASE ~(Len(b) > FDATA_LIMIT)
    <2>1. [k \in 1..4 |-> IF k <= Len(b) THEN b[k] ELSE Stack] \in [1..4 -> Byte]
        BY <1>1, FieldsAssumption
    <2> QED BY <1>3, <2>1, LenProperties, IsASeq DEF Kept
<1> QED BY <1>2, <1>3

(* An int comes back out of the four bytes of a union. *)
LEMMA IntOfWord ==
    ASSUME NEW n \in Nat, n <= 16777215
    PROVE  IntOf(Word(n)) = n
<1> DEFINE b == SetBytes(4, n)
<1>1. b \in Seq(Byte) /\ Len(b) = 4 BY SetBytesOf
<1>2. Reverse(Reverse(b)) = b
    <2>1. Reverse(b) \in Seq(Byte) /\ Len(Reverse(b)) = 4
          /\ \A k \in 1..4 : Reverse(b)[k] = b[4 - k + 1]
        BY <1>1, ReverseOf, SMTT(40)
    <2>2. Reverse(Reverse(b)) \in Seq(Byte) /\ Len(Reverse(Reverse(b))) = 4
          /\ \A k \in 1..4 : Reverse(Reverse(b))[k] = Reverse(b)[4 - k + 1]
        BY <2>1, ReverseOf, SMTT(40)
    <2> HIDE DEF b
    <2>3. \A k \in 1..4 : 4 - k + 1 \in 1..4 /\ 4 - (4 - k + 1) + 1 = k OBVIOUS
    <2>4. \A k \in 1..4 : Reverse(Reverse(b))[k] = b[k] BY <2>1, <2>2, <2>3
    <2> QED BY <1>1, <2>2, <2>4, SeqEqual
<1>3. b[1] = 0 /\ b[2] = n \div 65536 /\ b[3] = (n \div 256) % 256 /\ b[4] = n % 256
    BY DEF SetBytes, Place
<1> HIDE DEF b
<1>4. ReadNum(b) = b[4] + 256 * b[3] + 65536 * b[2]
    BY <1>1, <1>3 DEF ReadNum, Place
<1>5. (n % 256) + 256 * ((n \div 256) % 256) + 65536 * (n \div 65536) = n OBVIOUS
<1> QED BY <1>2, <1>3, <1>4, <1>5 DEF IntOf, Word, b

LEMMA SetTimestampOf ==
    ASSUME NEW t \in Times
    PROVE  SetTimestamp(t) \in Seq(Byte) /\ Len(SetTimestamp(t)) = 7
<1>1. \A n \in 0..99 : Bcd(n) \in Byte BY DEF Bcd, Byte
<1>2. t[1] \div 100 \in 0..99 /\ t[1] % 100 \in 0..99 BY DEF Times
<1>3. \A k \in 1..5 : t[k + 1] \in 0..99
    <2>1. \A k \in 1..5 : k + 1 \in 1..6 /\ k + 1 \in 2..6 OBVIOUS
    <2> QED BY <2>1 DEF Times
<1>4. << Bcd(t[1] \div 100), Bcd(t[1] % 100) >> \in Seq(Byte) BY <1>1, <1>2
<1>5. [k \in 1..5 |-> Bcd(t[k + 1])] \in Seq(Byte) /\ Len([k \in 1..5 |-> Bcd(t[k + 1])]) = 5
    <2>1. [k \in 1..5 |-> Bcd(t[k + 1])] \in [1..5 -> Byte] BY <1>1, <1>3
    <2> QED BY <2>1, LenProperties, IsASeq
<1> QED BY <1>4, <1>5, ConcatProperties DEF SetTimestamp

LEMMA IntervalDigitsOf ==
    ASSUME NEW n \in Intervals
    PROVE  IntervalDigits(n) \in Seq(Byte) /\ Len(IntervalDigits(n)) = 6
<1> DEFINE h == n \div 3600
           m == (n - h * 3600) \div 60
           s == n % 60
<1>1. h \in 0..99 /\ m \in 0..99 /\ s \in 0..99
    BY SMT DEF Intervals
<1>2. n % 10 \in 0..9 BY SMT DEF Intervals
<1>3. IntervalDigits(n) = << 48 + (h \div 10), 48 + (h % 10), 48 + (m \div 10), 48 + (m % 10),
                             48 + (s \div 10), 48 + (n % 10) >>
    BY SMT DEF IntervalDigits
<1> HIDE DEF h, m, s
<1>4. \A x \in 0..99 : 48 + (x \div 10) \in Byte /\ 48 + (x % 10) \in Byte BY DEF Byte
<1>5. /\ 48 + (h \div 10) \in Byte /\ 48 + (h % 10) \in Byte
      /\ 48 + (m \div 10) \in Byte /\ 48 + (m % 10) \in Byte
      /\ 48 + (s \div 10) \in Byte /\ 48 + (n % 10) \in Byte
    <2>1. 48 + (n % 10) \in Byte BY <1>2 DEF Byte
    <2> QED BY <1>1, <1>4, <2>1
<1>6. \A a, b, c, d, e, f \in Byte :
        << a, b, c, d, e, f >> \in Seq(Byte) /\ Len(<< a, b, c, d, e, f >>) = 6
    OBVIOUS
<1> QED BY <1>3, <1>5, <1>6

-----------------------------------------------------------------------------
(* Messages *)

(* A field is of the length its code stands for, a text or a block of any, *)
(* an array of whole ints; the response code's length is written by        *)
(* tp3_setrescode, and read from behind header[].                          *)
Sound(f) ==
    LET n == FieldLen(f.code)
    IN  /\ FC.RESCODE <= f.code
        /\ Len(f.data) = IF f.length > FDATA_LIMIT THEN f.length ELSE 4
        /\ f.length <= MaxLength
        /\ n > 0 => f.length = n \/ (f.code = FC.RESCODE /\ f.length \in 1..n)
        /\ n < 0 => f.length % 4 = 0

Field == {f \in [code : Range(FC), length : Nat, data : Seq(Byte)] : Sound(f)}
Gid24 == {n \in Nat : n <= 16777215}
MsgSeqs == {n \in Nat : n < 999999}
Header == [msgtype : Int, transtype : Int, gcgid : Gid24, gosid : Gid24,
           tdate : Seq(Byte), ttime : Seq(Byte), msgseq : MsgSeqs, rescode : Int]
Msgs == [header : Header, fields : Seq(Field)]

(* The only sound fields that are mistaken are the short texts, and the    *)
(* writer is among those that mistake them.                                *)
Short(f) == FieldLen(f.code) = 0 /\ f.length \in 1..FDATA_LIMIT

LEMMA MistakenIsShort ==
    ASSUME NEW f \in Field
    PROVE  (Mistaken(f) <=> Short(f)) /\ (ReadAsAddress(f) <=> Short(f))
<1>1. FieldLen(f.code) \in -4..7 /\ f.code \in Int
    BY LengthOfCode DEF Field, Sound
<1>2. f.code = FC.RESCODE => FieldLen(f.code) \in 0..3
    BY CodeNumbers, HeaderLengths, FieldsAssumption
<1>3. f.length \in Nat /\ Sound(f) BY DEF Field
<1>4. PICK n \in -4..7 : n = FieldLen(f.code) BY <1>1
<1>5. PICK l \in Nat : l = f.length BY <1>3
<1>6. /\ n > 0 => l = n \/ (n <= 3 /\ l \in 1..n)
      /\ n < 0 => l % 4 = 0
    BY <1>2, <1>3, <1>4, <1>5 DEF Sound
<1>7. Mistaken(f) <=> n = 0 /\ l \in 1..4
    BY <1>4, <1>5, <1>6 DEF Mistaken, FDATA_LIMIT
<1>8. ReadAsAddress(f) <=> n = 0 /\ l \in 1..4
    BY <1>4, <1>5, <1>6 DEF ReadAsAddress, FDATA_LIMIT
<1>9. Short(f) <=> n = 0 /\ l \in 1..4 BY <1>4, <1>5 DEF Short, FDATA_LIMIT
<1> QED BY <1>7, <1>8, <1>9

LEMMA InitMsgOK == InitMsg \in Msgs
<1>1. << >> \in Seq(Byte) /\ << >> \in Seq(Field) BY EmptySeq
<1> QED BY <1>1 DEF InitMsg, Msgs, Header, Gid24, MsgSeqs

(* tp3_addfield of a sound field behind those of the header. *)
LEMMA AddFieldOK ==
    ASSUME NEW m \in Msgs, NEW code \in Range(FC), NEW length \in Nat, NEW data \in Seq(Byte),
           Sound([code |-> code, length |-> length, data |-> data])
    PROVE  AddField(m, code, length, data) \in Msgs
<1> DEFINE f == [code |-> code, length |-> length, data |-> data]
<1>1. f \in Field BY DEF Field
<1>2. code \in Int /\ FC.RESCODE <= code BY LengthOfCode DEF Sound
<1>3. Append(m.fields, f) \in Seq(Field) BY <1>1, AppendProperties DEF Msgs
<1>4. HeaderWith(m.header, code, data) \in Header
    <2>1. m.header \in Header BY DEF Msgs
    <2>2. IntOf(data) \in Int BY IntOfInt
    <2>3. ASSUME NEW h \in Header, NEW n \in Int PROVE [h EXCEPT !.rescode = n] \in Header
        BY DEF Header
    <2>4. HeaderWith(m.header, code, data) \in {m.header, [m.header EXCEPT !.rescode = IntOf(data)]}
        BY <1>2, CodeNumbers DEF HeaderWith
    <2> QED BY <2>1, <2>2, <2>3, <2>4
<1>5. AddField(m, code, length, data)
         = [header |-> HeaderWith(m.header, code, data), fields |-> Append(m.fields, f)]
    <2>1. ~(code < FC.RESCODE) BY <1>2, CodeNumbers
    <2> QED BY <2>1, Zenon DEF AddField
<1> HIDE DEF f
<1> QED BY <1>3, <1>4, <1>5 DEF Msgs

LEMMA AddNumOK ==
    ASSUME NEW m \in Msgs, NEW code \in Range(FC), NEW n \in Int,
           FC.RESCODE <= code, FieldLen(code) \in 1..4
    PROVE  AddNum(m, code, n) \in Msgs
<1>1. Word(n) \in Seq(Byte) /\ Len(Word(n)) = 4 BY WordOf
<1>2. Sound([code |-> code, length |-> FieldLen(code), data |-> Word(n)])
    BY <1>1, MaxLengthOf DEF Sound, FDATA_LIMIT
<1> QED BY <1>1, <1>2, AddFieldOK DEF AddNum

LEMMA AddNBytesOK ==
    ASSUME NEW m \in Msgs, NEW code \in Range(FC), NEW bytes \in Seq(Byte),
           FC.RESCODE <= code, Len(bytes) <= MaxLength,
           FieldLen(code) > 0 => Len(bytes) = FieldLen(code),
           FieldLen(code) < 0 => Len(bytes) % 4 = 0
    PROVE  AddNBytes(m, code, bytes) \in Msgs
<1>1. Kept(bytes) \in Seq(Byte)
      /\ Len(Kept(bytes)) = IF Len(bytes) > FDATA_LIMIT THEN Len(bytes) ELSE 4
    BY KeptOf
<1>2. Len(bytes) \in Nat BY LenProperties
<1>3. Sound([code |-> code, length |-> Len(bytes), data |-> Kept(bytes)])
    BY <1>1 DEF Sound
<1> QED BY <1>1, <1>2, <1>3, AddFieldOK DEF AddNBytes

LEMMA AddArrayOK ==
    ASSUME NEW m \in Msgs, NEW code \in Range(FC), NEW ints \in Seq(Int),
           Len(ints) <= MaxInts, FC.RESCODE <= code, FieldLen(code) < 0
    PROVE  AddArray(m, code, ints) \in Msgs
<1> DEFINE ss == [i \in 1..Len(ints) |-> Word(ints[i])]
<1>1. Len(ints) \in Nat /\ \A i \in 1..Len(ints) : ints[i] \in Int
    BY LenProperties, ElementOfSeq
<1>2. ss \in [1..Len(ints) -> Seq(Byte)] /\ \A i \in 1..Len(ints) : Len(ss[i]) = 4
    BY <1>1, WordOf
<1> HIDE DEF ss
<1>3. FlattenSeq(ss) \in Seq(Byte) /\ Len(FlattenSeq(ss)) = Len(ints) * 4
    <2>1. PICK k, w \in Nat : k = Len(ints) /\ w = 4 BY <1>1
    <2>2. ss \in [1..k -> Seq(Byte)] /\ AllOfLength(ss, k, w)
        BY <1>2, <2>1 DEF AllOfLength
    <2>3. FlattenSeq(ss) \in Seq(Byte) /\ Len(FlattenSeq(ss)) = k * w
        BY <2>2, FlattenEven, Zenon
    <2> QED BY <2>1, <2>3
<1>4. Len(FlattenSeq(ss)) % 4 = 0
    BY <1>1, <1>3
<1>5. FieldLen(code) \in Int
    <2>1. FieldLen(code) \in -4..10 BY LengthOfCode
    <2> QED BY <2>1
<1>6. AddNBytes(m, code, FlattenSeq(ss)) \in Msgs
    <2>1. PICK b \in Seq(Byte) : b = FlattenSeq(ss) BY <1>3
    <2>2. Len(b) % 4 = 0 BY <1>4, <2>1
    <2>3. ~(FieldLen(code) > 0) /\ FieldLen(code) # 0 BY <1>5
    <2>5. Len(b) <= MaxLength
        <3>1. PICK k \in Nat : k = Len(ints) /\ Len(b) = k * 4 BY <1>1, <1>3, <2>1
        <3> QED BY <3>1, MaxIntsOf, MaxLengthOf
    <2>4. AddNBytes(m, code, b) \in Msgs BY <2>2, <2>3, <2>5, AddNBytesOK
    <2> QED BY <2>1, <2>4
<1> QED BY <1>6 DEF AddArray, ss

(* The bytes of a time or an interval, as far as the code's length goes.    *)
LEMMA AddBytesOK ==
    ASSUME NEW m \in Msgs, NEW code \in Range(FC), NEW bytes \in Seq(Byte),
           FC.RESCODE <= code, FieldLen(code) > 0, FieldLen(code) <= Len(bytes)
    PROVE  AddBytes(m, code, bytes) \in Msgs
<1> DEFINE n == FieldLen(code)
           b == SubSeq(bytes, 1, n)
<1>1. n \in 1..7 BY LengthOfCode
<1>2. b \in Seq(Byte) /\ Len(b) = n
    <2>1. 1 \in Nat \ {0} /\ n \in Nat /\ 1 <= n + 1 BY <1>1
    <2>2. b \in Seq(Byte) /\ Len(b) = n - 1 + 1 BY <2>1, SubSeqOf
    <2> QED BY <1>1, <2>2
<1> HIDE DEF b
<1>3. Kept(b) \in Seq(Byte) /\ Len(Kept(b)) = IF n > FDATA_LIMIT THEN n ELSE 4
    BY <1>2, KeptOf
<1>4. Sound([code |-> code, length |-> n, data |-> Kept(b)])
    BY <1>1, <1>3, MaxLengthOf DEF Sound
<1>5. AddField(m, code, n, Kept(b)) \in Msgs BY <1>1, <1>3, <1>4, AddFieldOK
<1> QED BY <1>5 DEF AddBytes, b

LEMMA SetResCodeOK ==
    ASSUME NEW m \in Msgs, NEW rescode \in Int
    PROVE  SetResCode(m, rescode) \in Msgs
<1>1. Word(rescode) \in Seq(Byte) /\ Len(Word(rescode)) = 4 BY WordOf
<1>2. FC.RESCODE \in Range(FC) /\ FC.RESCODE = 8 /\ FieldLen(FC.RESCODE) \in 0..3
    BY CodeNumbers, HeaderLengths, FieldsAssumption
<1>3. Sound([code |-> FC.RESCODE, length |-> 1, data |-> Word(rescode)])
    BY <1>1, <1>2, MaxLengthOf DEF Sound, FDATA_LIMIT
<1> QED BY <1>1, <1>2, <1>3, AddFieldOK DEF SetResCode

(* Each way to add a field leaves a message of sound fields. *)
LEMMA PutOK ==
    ASSUME NEW m \in Msgs, NEW e \in Entries
    PROVE  Put(m, e) \in Msgs
<1>0. FC.RESCODE = 8 BY CodeNumbers
<1>1. CASE e \in [how : {"num"}, code : CodesOfLength(1..4), val : [1..1 -> Int]]
    <2>1. e.how = "num" /\ e.code \in CodesOfLength(1..4) /\ e.val[1] \in Int BY <1>1
    <2>2. e.code \in Range(FC) /\ FieldLen(e.code) \in 1..4 /\ FC.RESCODE <= e.code
        BY <2>1, <1>0, LengthOfCode DEF CodesOfLength, FieldCodes
    <2>3. AddNum(m, e.code, e.val[1]) \in Msgs BY <2>1, <2>2, AddNumOK
    <2> QED BY <2>1, <2>3 DEF Put
<1>2. CASE e \in {x \in [how : {"bytes"}, code : FieldCodes, val : Seq(Byte)] : Fitting(x.val, x.code)}
    <2>1. e.how = "bytes" /\ e.code \in FieldCodes /\ e.val \in Seq(Byte) /\ Fitting(e.val, e.code)
        BY <1>2
    <2>2. e.code \in Range(FC) /\ FieldLen(e.code) \in Int /\ FC.RESCODE <= e.code
        BY <2>1, <1>0, LengthOfCode DEF FieldCodes
    <2>3. Len(e.val) \in Nat BY <2>1, LenProperties
    <2>4. FieldLen(e.code) <= 7 BY <1>0, <2>2, LengthOfCode
    <2>5. Len(e.val) <= MaxLength BY <2>1, <2>2, <2>3, <2>4, MaxLengthOf DEF Fitting
    <2>6. AddNBytes(m, e.code, e.val) \in Msgs BY <2>1, <2>2, <2>3, <2>5, AddNBytesOK DEF Fitting
    <2> QED BY <2>1, <2>6 DEF Put
<1>3. CASE e \in {x \in [how : {"array"}, code : CodesOfLength(-4..-1), val : Seq(Int)] :
                     Len(x.val) <= MaxInts}
    <2>1. /\ e.how = "array" /\ e.code \in CodesOfLength(-4..-1) /\ e.val \in Seq(Int)
          /\ Len(e.val) <= MaxInts
        BY <1>3
    <2>2. e.code \in Range(FC) /\ FieldLen(e.code) < 0 /\ FC.RESCODE <= e.code
        BY <2>1, <1>0, LengthOfCode DEF CodesOfLength, FieldCodes
    <2>3. AddArray(m, e.code, e.val) \in Msgs BY <2>1, <2>2, AddArrayOK
    <2> QED BY <2>1, <2>3 DEF Put
<1>4. CASE e \in [how : {"time"}, code : CodesOfLength({7}), val : Times]
    <2>1. e.how = "time" /\ e.code \in CodesOfLength({7}) /\ e.val \in Times BY <1>4
    <2>2. e.code \in Range(FC) /\ FieldLen(e.code) = 7 /\ FC.RESCODE <= e.code
        BY <2>1, <1>0, LengthOfCode DEF CodesOfLength, FieldCodes
    <2>3. SetTimestamp(e.val) \in Seq(Byte) /\ Len(SetTimestamp(e.val)) = 7
        BY <2>1, SetTimestampOf
    <2>4. FieldLen(e.code) > 0 /\ FieldLen(e.code) <= Len(SetTimestamp(e.val)) BY <2>2, <2>3
    <2>5. AddBytes(m, e.code, SetTimestamp(e.val)) \in Msgs
        BY <2>2, <2>3, <2>4, AddBytesOK, Zenon
    <2> QED BY <2>1, <2>5 DEF Put
<1>5. CASE e \in [how : {"interval"}, code : CodesOfLength(1..6), val : [1..1 -> Intervals]]
    <2>1. e.how = "interval" /\ e.code \in CodesOfLength(1..6) /\ e.val[1] \in Intervals BY <1>5
    <2>2. e.code \in Range(FC) /\ FieldLen(e.code) \in 1..6 /\ FC.RESCODE <= e.code
        BY <2>1, <1>0, LengthOfCode DEF CodesOfLength, FieldCodes
    <2>3. IntervalDigits(e.val[1]) \in Seq(Byte) /\ Len(IntervalDigits(e.val[1])) = 6
        BY <2>1, IntervalDigitsOf
    <2>4. FieldLen(e.code) > 0 /\ FieldLen(e.code) <= Len(IntervalDigits(e.val[1])) BY <2>2, <2>3
    <2>5. AddBytes(m, e.code, IntervalDigits(e.val[1])) \in Msgs
        BY <2>2, <2>3, <2>4, AddBytesOK, Zenon
    <2> QED BY <2>1, <2>5 DEF Put
<1>6. CASE e \in [how : {"rescode"}, code : {FC.RESCODE}, val : [1..1 -> Int]]
    <2>1. e.how = "rescode" /\ e.val[1] \in Int BY <1>6
    <2>2. SetResCode(m, e.val[1]) \in Msgs BY <2>1, SetResCodeOK
    <2> QED BY <2>1, <2>2 DEF Put
<1> QED BY <1>1, <1>2, <1>3, <1>4, <1>5, <1>6 DEF Entries

(* g[k] is the message with the first k entries of a content. *)
Puts(g, m, entries) ==
    /\ g[0] = m /\ g[Len(entries)] = FoldLeft(Put, m, entries)
    /\ \A k \in 0..Len(entries) : g[k] \in Msgs
    /\ \A k \in 1..Len(entries) : g[k] = Put(g[k - 1], entries[k])

LEMMA PutSteps ==
    ASSUME NEW m \in Msgs, NEW entries \in Seq(Entries)
    PROVE  \E g : Puts(g, m, entries)
<1> DEFINE n == Len(entries)
           D == [p \in Nat \X Msgs |-> IF p[1] \in 1..n THEN Put(p[2], entries[p[1]]) ELSE p[2]]
           Body(f) == [u \in SUBSET DOMAIN entries |->
                          IF u = {} THEN m ELSE Put(f[u \ {Max(u)}], entries[Max(u)])]
           iter == CHOOSE f : f = Body(f)
<1>1. n \in Nat /\ DOMAIN entries = 1..n /\ \A k \in 1..n : entries[k] \in Entries
    BY LenProperties, ElementOfSeq
<1>2. FoldLeft(Put, m, entries) = iter[DOMAIN entries]
    BY Zenon DEF FoldLeft, MapThenFoldSet
<1>3. D \in [Nat \X Msgs -> Msgs] BY <1>1, PutOK
<1>4. \A k \in 1..n, x \in Msgs : D[<<k, x>>] = Put(x, entries[k])
    <2>1. \A k \in 1..n, x \in Msgs : <<k, x>> \in Nat \X Msgs BY <1>1
    <2> QED BY <2>1
<1> HIDE DEF D, n
<1>5. \E f : f = Body(f)
    <2>1. PICK f \in [SUBSET (1..n) -> Msgs] : Iterates(f, m, D, n) BY <1>1, <1>3, IterExists
    <2>2. ASSUME NEW u \in SUBSET (1..n), u # {}
          PROVE  f[u] = Put(f[u \ {Max(u)}], entries[Max(u)])
        <3>1. Max(u) \in 1..n BY <1>1, <2>2, MaxOfSome
        <3>2. f[u \ {Max(u)}] \in Msgs BY <2>1
        <3>3. f[u] = D[<<Max(u), f[u \ {Max(u)}]>>] BY <2>1, <2>2 DEF Iterates
        <3> QED BY <1>4, <3>1, <3>2, <3>3
    <2>3. f[{}] = m BY <2>1 DEF Iterates
    <2>4. f = [u \in SUBSET (1..n) |-> f[u]] BY <2>1
    <2>5. f = Body(f) BY <1>1, <2>2, <2>3, <2>4
    <2> QED BY <2>5
<1>6. iter = Body(iter) BY <1>5, Zenon
<1> HIDE DEF iter
<1> DEFINE S == {k \in Nat : k \in 0..n => iter[1..k] \in Msgs}
<1>7. 0 \in S
    <2>1. 1..0 = {} /\ {} \in SUBSET DOMAIN entries OBVIOUS
    <2> QED BY <1>6, <2>1
<1>8. ASSUME NEW k \in Nat, k \in S PROVE k + 1 \in S
    <2>1. CASE k + 1 \in 0..n
        <3>1. k \in 0..n /\ k + 1 \in 1..n /\ 1..(k + 1) \in SUBSET DOMAIN entries
            BY <1>1, <2>1
        <3>2. Max(1..(k + 1)) = k + 1 /\ 1..(k + 1) # {} /\ (1..(k + 1)) \ {k + 1} = 1..k
            <4>1. k + 1 \in Nat \ {0} /\ (k + 1) - 1 = k OBVIOUS
            <4> QED BY <4>1, LastOf
        <3>3. iter[1..(k + 1)] = Put(iter[1..k], entries[k + 1]) BY <1>6, <3>1, <3>2
        <3> QED BY <1>1, <1>8, <3>1, <3>3, PutOK
    <2> QED BY <2>1
<1> HIDE DEF S
<1>9. Nat \subseteq S BY <1>7, <1>8, SetInduction
<1>10. \A k \in 0..n : iter[1..k] \in Msgs BY <1>1, <1>9 DEF S
<1>11. iter[1..0] = m
    <2>1. 1..0 = {} /\ {} \in SUBSET DOMAIN entries OBVIOUS
    <2> QED BY <1>6, <2>1
<1>12. ASSUME NEW k \in 1..n PROVE iter[1..k] = Put(iter[1..(k - 1)], entries[k])
    <2>1. k \in Nat \ {0} /\ 1..k \in SUBSET DOMAIN entries BY <1>1
    <2>2. Max(1..k) = k /\ 1..k # {} /\ (1..k) \ {k} = 1..(k - 1) BY <2>1, LastOf
    <2> QED BY <1>6, <2>1, <2>2
<1> DEFINE g == [k \in 0..n |-> iter[1..k]]
<1>13. \A k \in 0..n : g[k] = iter[1..k] OBVIOUS
<1> HIDE DEF g
<1>14. \A k \in 1..n : k \in 0..n /\ k - 1 \in 0..n BY <1>1
<1>15. 0 \in 0..n /\ n \in 0..n BY <1>1
<1>16. Puts(g, m, entries)
    BY <1>1, <1>2, <1>10, <1>11, <1>12, <1>13, <1>14, <1>15 DEF Puts, n
<1> QED BY <1>16

(* And so do all the entries of a content. *)
LEMMA PutAllOK ==
    ASSUME NEW m \in Msgs, NEW entries \in Seq(Entries)
    PROVE  FoldLeft(Put, m, entries) \in Msgs
<1>1. PICK g : Puts(g, m, entries) BY PutSteps
<1>2. Len(entries) \in 0..Len(entries)
    <2>1. Len(entries) \in Nat BY LenProperties
    <2> QED BY <2>1
<1> QED BY <1>1, <1>2 DEF Puts

-----------------------------------------------------------------------------
(* Frames *)

Len16 == {n \in Nat : n <= MaxLength}
ChunkSet == [code : Range(FC), length : Len16, bytes : Seq(Byte)]

(* What a sound field becomes. *)
Carried(c) ==
    LET n == FieldLen(c.code)
    IN  /\ c.length = Len(c.bytes)
        /\ n > 0 => Len(c.bytes) = n \/ (c.code = FC.RESCODE /\ Len(c.bytes) \in 1..n)
        /\ n < 0 => Len(c.bytes) \div (0 - n) <= MaxInts
        /\ c.code = FC.MSGSEQNUM => Digits(0, c.bytes) \in MsgSeqs
        /\ ~Foreign(c)

LEMMA ShortLength ==
    ASSUME NEW n \in Nat, n <= MaxLength
    PROVE  n % (MaxLength + 1) = n /\ n \in Len16
BY MaxLengthOf DEF Len16

LEMMA CopyNByteOf ==
    ASSUME NEW data \in Seq(Byte), NEW base \in 1..4, NEW q \in Nat, 4 * q <= Len(data),
           NEW length, length \div base = q
    PROVE  CopyNByte(data, base, length) \in Seq(Byte) /\ Len(CopyNByte(data, base, length)) = q * base
<1> DEFINE ss == [i \in 1..q |-> SetBytes(base, IntOf(SubSeq(data, 4 * i - 3, 4 * i)))]
<1>1. ASSUME NEW i \in 1..q
      PROVE  /\ SetBytes(base, IntOf(SubSeq(data, 4 * i - 3, 4 * i))) \in Seq(Byte)
             /\ Len(SetBytes(base, IntOf(SubSeq(data, 4 * i - 3, 4 * i)))) = base
    <2>1. Len(data) \in Nat BY LenProperties
    <2>2. PICK a \in Nat \ {0}, b \in Nat : a = 4 * i - 3 /\ b = 4 * i OBVIOUS
    <2>3. b <= Len(data) /\ a <= b + 1 BY <2>1, <2>2
    <2>4. SubSeq(data, a, b) \in Seq(Byte) BY <2>3, SubSeqOf
    <2>5. IntOf(SubSeq(data, a, b)) \in Int BY <2>4, IntOfInt
    <2> QED BY <2>2, <2>5, SetBytesOf
<1>2. ss \in [1..q -> Seq(Byte)] /\ AllOfLength(ss, q, base) BY <1>1 DEF AllOfLength
<1>3. CopyNByte(data, base, length) = FlattenSeq(ss) BY DEF CopyNByte
<1> HIDE DEF ss
<1>4. base \in Nat OBVIOUS
<1> QED BY <1>2, <1>3, <1>4, FlattenEven

LEMMA FieldChunkOK ==
    ASSUME NEW f \in Field
    PROVE  /\ FieldChunk(f) \in ChunkSet /\ Carried(FieldChunk(f))
           /\ Len(FieldChunk(f).bytes) <= f.length
<1> DEFINE n == FieldLen(f.code)
           chunk(l, b) == [code |-> f.code, length |-> l, bytes |-> b]
<1>1. /\ f.code \in Range(FC) /\ f.code \in Nat /\ FC.RESCODE <= f.code /\ n \in -4..7
      /\ f.length \in Nat /\ f.length <= MaxLength /\ f.data \in Seq(Byte)
      /\ Len(f.data) = IF f.length > FDATA_LIMIT THEN f.length ELSE 4
    BY LengthOfCode DEF Field, Sound
<1>2. /\ n > 0 => f.length = n \/ (f.code = FC.RESCODE /\ f.length \in 1..n)
      /\ n < 0 => f.length % 4 = 0
    BY DEF Field, Sound
<1>3. \A c : c.code = f.code => ~Foreign(c) /\ c.code # FC.MSGSEQNUM
    BY <1>1, CodeNumbers DEF Foreign
<1>4. \A l \in Nat : l <= MaxLength => l % (MaxLength + 1) = l /\ l \in Len16
    BY ShortLength
<1>5. CASE n \in 1..4
    <2>1. SubSeq(f.data, 1, 4) \in Seq(Byte)
        <3>1. 1 \in Nat \ {0} /\ 4 \in Nat /\ 1 <= 4 + 1 /\ 4 <= Len(f.data)
            BY <1>1 DEF FDATA_LIMIT
        <3> QED BY <1>1, <3>1, SubSeqOf
    <2>2. PICK w \in Seq(Byte) : w = SetBytes(n, IntOf(SubSeq(f.data, 1, 4))) /\ Len(w) = n
        BY <1>5, <2>1, IntOfInt, SetBytesOf
    <2>3. PICK k \in Nat : k = f.length /\ k <= n /\ 1 <= k BY <1>1, <1>2, <1>5
    <2>4. PICK b : b = SubSeq(w, 1, k) OBVIOUS
    <2>5. b \in Seq(Byte) /\ Len(b) = k
        <3>1. 1 \in Nat \ {0} /\ k <= Len(w) /\ 1 <= k + 1 BY <1>5, <2>2, <2>3
        <3>2. b \in Seq(Byte) /\ Len(b) = k - 1 + 1 BY <2>4, <3>1, SubSeqOf
        <3> QED BY <3>2
    <2>6. FieldChunk(f) = chunk(k, b)
        <3>1. k % (MaxLength + 1) = k BY <1>1, <1>4, <2>3
        <3>2. FieldChunk(f) = chunk(k, FieldBytes(f, n, k))
            BY <1>5, <2>3, <3>1 DEF FieldChunk
        <3>3. FieldBytes(f, n, k) = b BY <1>5, <2>2, <2>4 DEF FieldBytes
        <3> QED BY <3>2, <3>3
    <2>7. k \in Len16 BY <1>1, <1>4, <2>3
    <2>8. chunk(k, b) \in ChunkSet BY <1>1, <2>5, <2>7 DEF ChunkSet
    <2>10. Carried(chunk(k, b))
        <3>1. n > 0 => k = n \/ (f.code = FC.RESCODE /\ k \in 1..n) BY <1>2, <2>3
        <3>2. ~(n < 0) BY <1>5
        <3> QED BY <1>3, <2>5, <3>1, <3>2 DEF Carried
    <2> QED BY <2>3, <2>5, <2>6, <2>8, <2>10
<1>6. CASE n = 0 \/ n > 4
    <2>1. PICK k \in Nat : k = f.length /\ k <= Len(f.data) /\ (n > 4 => k = n)
        <3>1. f.code = FC.RESCODE => n \in 0..3 BY CodeNumbers, HeaderLengths, FieldsAssumption
        <3>2. n > 4 => f.length = n BY <1>1, <1>2, <3>1
        <3> QED BY <1>1, <1>2, <1>6, <3>2 DEF FDATA_LIMIT
    <2>2. PICK b : b = SubSeq(f.data, 1, k) OBVIOUS
    <2>3. b \in Seq(Byte) /\ Len(b) = k
        <3>1. 1 \in Nat \ {0} /\ 1 <= k + 1 OBVIOUS
        <3>2. b \in Seq(Byte) /\ Len(b) = k - 1 + 1 BY <1>1, <2>1, <2>2, <3>1, SubSeqOf
        <3> QED BY <3>2
    <2>4. FieldChunk(f) = chunk(k, b)
        <3>1. k % (MaxLength + 1) = k BY <1>1, <1>4, <2>1
        <3>2. FieldChunk(f) = chunk(k, FieldBytes(f, n, k))
            BY <1>6, <2>1, <3>1 DEF FieldChunk
        <3>3. FieldBytes(f, n, k) = b BY <1>1, <1>6, <2>2 DEF FieldBytes
        <3> QED BY <3>2, <3>3
    <2>5. k \in Len16 BY <1>1, <1>4, <2>1
    <2>6. chunk(k, b) \in ChunkSet BY <1>1, <2>3, <2>5 DEF ChunkSet
    <2>8. Carried(chunk(k, b))
        <3>1. n > 0 => k = n BY <1>1, <1>6, <2>1
        <3>2. ~(n < 0) BY <1>1, <1>6
        <3> QED BY <1>3, <2>3, <3>1, <3>2 DEF Carried
    <2> QED BY <2>1, <2>3, <2>4, <2>6, <2>8
<1>7. CASE n < 0
    <2>1. PICK base \in 1..4 : n = 0 - base /\ 0 - n = base BY <1>1, <1>7
    <2>2. PICK q \in Nat : f.length = 4 * q /\ q <= MaxInts
        <3>1. PICK q \in Nat : f.length = 4 * q
            <4>1. PICK l \in Nat : l = f.length /\ l % 4 = 0 BY <1>1, <1>2, <1>7
            <4>2. l = 4 * (l \div 4) /\ l \div 4 \in Nat BY <4>1
            <4> QED BY <4>1, <4>2
        <3>2. 4 * q <= MaxLength BY <1>1, <3>1
        <3>3. q <= MaxInts BY <3>2 DEF MaxInts, MaxLength
        <3> QED BY <3>1, <3>3
    <2>3. PICK k \in Nat : k = q * base OBVIOUS
    <2>4. /\ (f.length * base) \div 4 = k /\ k \div base = q /\ k <= f.length
        <3>1. (4 * q * base) \div 4 = q * base /\ (q * base) \div base = q /\ q * base <= 4 * q BY <2>1
        <3>2. f.length * base = 4 * q * base BY <2>2
        <3> QED BY <2>2, <2>3, <3>1, <3>2
    <2>5. 4 * q <= Len(f.data) BY <1>1, <2>2 DEF FDATA_LIMIT
    <2>6. PICK b : b = CopyNByte(f.data, base, k) OBVIOUS
    <2>7. b \in Seq(Byte) /\ Len(b) = k
        <3>1. b \in Seq(Byte) /\ Len(b) = q * base BY <1>1, <2>4, <2>5, <2>6, CopyNByteOf, Zenon
        <3> QED BY <2>3, <3>1
    <2>8. k \in Len16 /\ k % (MaxLength + 1) = k
        <3>1. k <= MaxLength BY <1>1, <2>4, MaxLengthOf
        <3> QED BY <1>4, <3>1
    <2>9. FieldChunk(f) = chunk(k, b)
        <3>1. FieldChunk(f) = chunk(k, FieldBytes(f, n, k))
            <4>1. (IF n < 0 THEN (f.length * (0 - n)) \div 4 ELSE f.length) % (MaxLength + 1) = k
                BY <1>7, <2>1, <2>4, <2>8
            <4> HIDE DEF n
            <4> QED BY <4>1, Zenon DEF FieldChunk, n
        <3>2. FieldBytes(f, n, k) = b
            <4>1. ~(n \in 1..4) /\ ~(n = 0 \/ n > 4) BY <1>1, <1>7
            <4> QED BY <1>7, <2>1, <2>6, <4>1 DEF FieldBytes
        <3> QED BY <3>1, <3>2
    <2>10. chunk(k, b) \in ChunkSet BY <1>1, <2>7, <2>8 DEF ChunkSet
    <2>11. Len(b) \div (0 - n) <= MaxInts BY <2>1, <2>2, <2>4, <2>7
    <2>12. Carried(chunk(k, b))
        <3>1. ~(n > 0) BY <1>1, <1>7
        <3> QED BY <1>3, <2>7, <2>11, <3>1 DEF Carried
    <2>13. Len(b) <= f.length BY <2>4, <2>7
    <2> QED BY <2>9, <2>10, <2>12, <2>13
<1> QED BY <1>1, <1>5, <1>6, <1>7

(* The number of a message is six digits, which make the number again. *)
SixDigits(n) == [k \in 1..6 |-> 48 + ((n \div 10 ^ (6 - k)) % 10)]

LEMMA DigitsOfSix ==
    ASSUME NEW b \in [1..6 -> 48..57]
    PROVE  Digits(0, b) = 100000 * (b[1] - 48) + 10000 * (b[2] - 48) + 1000 * (b[3] - 48)
                          + 100 * (b[4] - 48) + 10 * (b[5] - 48) + (b[6] - 48)
<1> DEFINE D == [p \in Nat \X Int |-> IF p[1] \in 1..6 THEN p[2] * 10 + b[p[1]] - 48 ELSE 0]
           Body(f) == [u \in SUBSET DOMAIN b |->
                          IF u = {} THEN 0 ELSE f[u \ {Max(u)}] * 10 + b[Max(u)] - 48]
           iter == CHOOSE f : f = Body(f)
<1>1. 6 \in Nat /\ DOMAIN b = 1..6 /\ \A k \in 1..6 : b[k] \in Int OBVIOUS
<1>2. Digits(0, b) = iter[DOMAIN b]
    BY Zenon DEF Digits, FoldLeft, MapThenFoldSet
<1>3. D \in [Nat \X Int -> Int] BY <1>1
<1>4. \A k \in 1..6, x \in Int : D[<<k, x>>] = x * 10 + b[k] - 48
    <2>1. \A k \in 1..6, x \in Int : <<k, x>> \in Nat \X Int OBVIOUS
    <2> QED BY <2>1
<1> HIDE DEF D
<1>5. \E f : f = Body(f)
    <2>0. 0 \in Int OBVIOUS
    <2>1. PICK f \in [SUBSET (1..6) -> Int] : Iterates(f, 0, D, 6) BY <1>1, <1>3, <2>0, IterExists
    <2>2. ASSUME NEW u \in SUBSET (1..6), u # {}
          PROVE  f[u] = f[u \ {Max(u)}] * 10 + b[Max(u)] - 48
        <3>1. Max(u) \in 1..6 BY <1>1, <2>2, MaxOfSome
        <3>2. f[u \ {Max(u)}] \in Int BY <2>1
        <3>3. f[u] = D[<<Max(u), f[u \ {Max(u)}]>>] BY <2>1, <2>2 DEF Iterates
        <3> QED BY <1>4, <3>1, <3>2, <3>3
    <2>3. f[{}] = 0 BY <2>1 DEF Iterates
    <2>4. f = [u \in SUBSET (1..6) |-> f[u]] BY <2>1
    <2>5. f = Body(f) BY <1>1, <2>2, <2>3, <2>4
    <2> QED BY <2>5
<1>6. iter = Body(iter) BY <1>5, Zenon
<1> HIDE DEF iter
<1> DEFINE g(k) == iter[1..k]
<1>7. g(0) = 0
    <2>1. 1..0 = {} /\ {} \in SUBSET DOMAIN b OBVIOUS
    <2> QED BY <1>6, <2>1
<1>8. ASSUME NEW k \in 1..6 PROVE g(k) = g(k - 1) * 10 + b[k] - 48
    <2>1. 1..k \in SUBSET DOMAIN b /\ k \in Nat \ {0} BY <1>1
    <2>2. Max(1..k) = k /\ 1..k # {} /\ (1..k) \ {k} = 1..(k - 1) BY <2>1, LastOf
    <2> QED BY <1>6, <2>1, <2>2, ZenonT(60)
<1> HIDE DEF g
<1> DEFINE b1 == b[1]
           b2 == b[2]
           b3 == b[3]
           b4 == b[4]
           b5 == b[5]
           b6 == b[6]
<1>9. /\ g(1) = g(0) * 10 + b1 - 48 /\ g(2) = g(1) * 10 + b2 - 48
      /\ g(3) = g(2) * 10 + b3 - 48 /\ g(4) = g(3) * 10 + b4 - 48
      /\ g(5) = g(4) * 10 + b5 - 48 /\ g(6) = g(5) * 10 + b6 - 48
    <2>1. 2 - 1 = 1 /\ 3 - 1 = 2 /\ 4 - 1 = 3 /\ 5 - 1 = 4 /\ 6 - 1 = 5 /\ 1 - 1 = 0 OBVIOUS
    <2> QED BY <1>8, <2>1
<1>10. Digits(0, b) = g(6) BY <1>1, <1>2 DEF g
<1>11. b1 \in Int /\ b2 \in Int /\ b3 \in Int /\ b4 \in Int /\ b5 \in Int /\ b6 \in Int
    BY <1>1
<1> HIDE DEF b1, b2, b3, b4, b5, b6
<1>12. g(1) = b1 - 48 BY <1>7, <1>9, <1>11
<1>13. g(2) = 10 * (b1 - 48) + (b2 - 48) BY <1>9, <1>11, <1>12
<1>14. g(3) = 100 * (b1 - 48) + 10 * (b2 - 48) + (b3 - 48) BY <1>9, <1>11, <1>13, SMT
<1>15. g(4) = 1000 * (b1 - 48) + 100 * (b2 - 48) + 10 * (b3 - 48) + (b4 - 48)
    BY <1>9, <1>11, <1>14, SMT
<1>16. g(5) = 10000 * (b1 - 48) + 1000 * (b2 - 48) + 100 * (b3 - 48) + 10 * (b4 - 48) + (b5 - 48)
    BY <1>9, <1>11, <1>15, SMT
<1>17. g(6) = 100000 * (b1 - 48) + 10000 * (b2 - 48) + 1000 * (b3 - 48) + 100 * (b4 - 48)
              + 10 * (b5 - 48) + (b6 - 48)
    BY <1>9, <1>11, <1>16, SMT
<1> QED BY <1>10, <1>17 DEF b1, b2, b3, b4, b5, b6

LEMMA SixDigitsOf ==
    ASSUME NEW n \in MsgSeqs
    PROVE  SixDigits(n) \in [1..6 -> 48..57] /\ Digits(0, SixDigits(n)) = n
<1>1. n \in Nat /\ n < 999999 BY DEF MsgSeqs
<1>2. \A k \in 1..6 : 48 + ((n \div 10 ^ (6 - k)) % 10) \in 48..57 BY <1>1, SMT
<1>3. SixDigits(n) \in [1..6 -> 48..57] BY <1>2 DEF SixDigits
<1> DEFINE b == SixDigits(n)
<1>4. /\ b[1] - 48 = (n \div 100000) % 10 /\ b[2] - 48 = (n \div 10000) % 10
      /\ b[3] - 48 = (n \div 1000) % 10 /\ b[4] - 48 = (n \div 100) % 10
      /\ b[5] - 48 = (n \div 10) % 10 /\ b[6] - 48 = n % 10
    BY <1>1, SMT DEF SixDigits
<1> HIDE DEF b
<1>5. /\ 10 * (n \div 10) + (n % 10) = n
      /\ 10 * (n \div 100) + ((n \div 10) % 10) = n \div 10
      /\ 10 * (n \div 1000) + ((n \div 100) % 10) = n \div 100
      /\ 10 * (n \div 10000) + ((n \div 1000) % 10) = n \div 1000
      /\ 10 * (n \div 100000) + ((n \div 10000) % 10) = n \div 10000
      /\ (n \div 100000) % 10 = n \div 100000
    BY <1>1, SMT
<1>6. \A a, c, d, e, f, g, n1, n2, n3, n4 \in Int :
        (10 * n1 + a = n /\ 10 * n2 + c = n1 /\ 10 * n3 + d = n2 /\ 10 * n4 + e = n3
            /\ 10 * g + f = n4)
          => 100000 * g + 10000 * f + 1000 * e + 100 * d + 10 * c + a = n
    BY <1>1, SMT
<1>7. /\ n \div 10 \in Int /\ n \div 100 \in Int /\ n \div 1000 \in Int /\ n \div 10000 \in Int
      /\ (n \div 100000) % 10 \in Int /\ (n \div 10000) % 10 \in Int /\ (n \div 1000) % 10 \in Int
      /\ (n \div 100) % 10 \in Int /\ (n \div 10) % 10 \in Int /\ n % 10 \in Int
    BY <1>1, SMT
<1>8. Digits(0, b) = n
    <2>1. Digits(0, b) = 100000 * ((n \div 100000) % 10) + 10000 * ((n \div 10000) % 10)
             + 1000 * ((n \div 1000) % 10) + 100 * ((n \div 100) % 10)
             + 10 * ((n \div 10) % 10) + (n % 10)
        BY <1>3, <1>4, DigitsOfSix, SMT DEF b
    <2> QED BY <1>5, <1>6, <1>7, <2>1, SMTT(40)
<1> QED BY <1>3, <1>8 DEF b

(* A frame's chunks: those of a header or of a field. *)
Sent == {c \in ChunkSet : Carried(c)}

LEMMA HeaderChunkOK ==
    ASSUME NEW code \in 0..7, NEW bytes \in Seq(Byte), Len(bytes) = FieldLen(code),
           code = 0 => SubSeq(bytes, 1, 7) = SubSeq(InterfaceType, 1, 7),
           code = 7 => Digits(0, bytes) \in MsgSeqs
    PROVE  Chunk(code, bytes) \in Sent
<1>1. code \in Range(FC) /\ FC.INTERFACETYPE = 0 /\ FC.MSGSEQNUM = 7 BY CodeNumbers
<1>2. FieldLen(code) \in 1..10 BY HeaderLengths
<1>3. Len(bytes) \in Len16 BY <1>2, MaxLengthOf DEF Len16
<1>4. Chunk(code, bytes) = [code |-> code, length |-> Len(bytes), bytes |-> bytes]
    BY DEF Chunk
<1> DEFINE c == [code |-> code, length |-> Len(bytes), bytes |-> bytes]
<1>5. c \in ChunkSet BY <1>1, <1>3 DEF ChunkSet
<1>6. Carried(c) BY <1>1, <1>2 DEF Carried, Foreign
<1> QED BY <1>4, <1>5, <1>6 DEF Sent

LEMMA HeaderChunksOK ==
    ASSUME NEW h \in Header
    PROVE  HeaderChunks(h) \in [1..8 -> Sent] /\ HeaderChunks(h) \in Seq(Sent)
           /\ Len(HeaderChunks(h)) = 8
<1> DEFINE b == << InterfaceType, SetBytes(1, h.msgtype), SetBytes(1, h.transtype),
                   SetBytes(3, h.gcgid), SetBytes(3, h.gosid), SubSeq(Today, 1, 8),
                   SubSeq(Today, 9, 14), SixDigits(h.msgseq) >>
<1>1. /\ h.msgtype \in Int /\ h.transtype \in Int /\ h.gcgid \in Int /\ h.gosid \in Int
      /\ h.msgseq \in MsgSeqs
    BY DEF Header, Gid24
<1>2. Today \in Seq(Byte) /\ Len(Today) = 14
    <2>1. Today \in [1..14 -> Byte] /\ 14 \in Nat BY CodecAssumption DEF Byte
    <2> QED BY <2>1, FunctionIsSeq
<1>3. InterfaceType \in Seq(Byte) /\ Len(InterfaceType) = 10
    BY SMT DEF InterfaceType, Byte
<1>4. SetBytes(1, h.msgtype) \in Seq(Byte) /\ Len(SetBytes(1, h.msgtype)) = 1
      /\ SetBytes(1, h.transtype) \in Seq(Byte) /\ Len(SetBytes(1, h.transtype)) = 1
    <2>1. 1 \in 1..4 OBVIOUS
    <2> QED BY <1>1, <2>1, SetBytesOf
<1>5. SetBytes(3, h.gcgid) \in Seq(Byte) /\ Len(SetBytes(3, h.gcgid)) = 3
      /\ SetBytes(3, h.gosid) \in Seq(Byte) /\ Len(SetBytes(3, h.gosid)) = 3
    <2>1. 3 \in 1..4 OBVIOUS
    <2> QED BY <1>1, <2>1, SetBytesOf
<1>6. SubSeq(Today, 1, 8) \in Seq(Byte) /\ Len(SubSeq(Today, 1, 8)) = 8
    <2>1. 1 \in Nat \ {0} /\ 8 \in Nat /\ 8 <= 14 /\ 1 <= 8 + 1 /\ 8 - 1 + 1 = 8 OBVIOUS
    <2> QED BY <1>2, <2>1, SubSeqOf
<1>7. SubSeq(Today, 9, 14) \in Seq(Byte) /\ Len(SubSeq(Today, 9, 14)) = 6
    <2>1. 9 \in Nat \ {0} /\ 14 \in Nat /\ 14 <= 14 /\ 9 <= 14 + 1 /\ 14 - 9 + 1 = 6 OBVIOUS
    <2> QED BY <1>2, <2>1, SubSeqOf
<1>8. SixDigits(h.msgseq) \in Seq(Byte) /\ Len(SixDigits(h.msgseq)) = 6
      /\ Digits(0, SixDigits(h.msgseq)) \in MsgSeqs
    <2>1. SixDigits(h.msgseq) \in [1..6 -> 48..57] /\ Digits(0, SixDigits(h.msgseq)) = h.msgseq
        BY <1>1, SixDigitsOf
    <2>2. SixDigits(h.msgseq) \in [1..6 -> Byte] /\ 6 \in Nat BY <2>1 DEF Byte
    <2>3. SixDigits(h.msgseq) \in Seq(Byte) /\ Len(SixDigits(h.msgseq)) = 6
        BY <2>2, FunctionIsSeq
    <2>4. Digits(0, SixDigits(h.msgseq)) \in MsgSeqs BY <1>1, <2>1
    <2> QED BY <2>3, <2>4
<1>9. HeaderChunks(h) = << Chunk(0, b[1]), Chunk(1, b[2]), Chunk(2, b[3]), Chunk(3, b[4]),
                           Chunk(4, b[5]), Chunk(5, b[6]), Chunk(6, b[7]), Chunk(7, b[8]) >>
    BY CodeNumbers DEF HeaderChunks, SixDigits
<1>10. /\ b[1] = InterfaceType
       /\ \A k \in 1..8 : b[k] \in Seq(Byte) /\ Len(b[k]) = FieldLen(k - 1)
       /\ Digits(0, b[8]) \in MsgSeqs
    <2>1. /\ b[1] = InterfaceType /\ b[2] = SetBytes(1, h.msgtype)
          /\ b[3] = SetBytes(1, h.transtype) /\ b[4] = SetBytes(3, h.gcgid)
          /\ b[5] = SetBytes(3, h.gosid) /\ b[6] = SubSeq(Today, 1, 8)
          /\ b[7] = SubSeq(Today, 9, 14) /\ b[8] = SixDigits(h.msgseq)
        OBVIOUS
    <2> HIDE DEF b
    <2>2. /\ b[1] \in Seq(Byte) /\ b[2] \in Seq(Byte) /\ b[3] \in Seq(Byte) /\ b[4] \in Seq(Byte)
          /\ b[5] \in Seq(Byte) /\ b[6] \in Seq(Byte) /\ b[7] \in Seq(Byte) /\ b[8] \in Seq(Byte)
        BY <1>3, <1>4, <1>5, <1>6, <1>7, <1>8, <2>1
    <2>3. /\ Len(b[1]) = FieldLen(0) /\ Len(b[2]) = FieldLen(1) /\ Len(b[3]) = FieldLen(2)
          /\ Len(b[4]) = FieldLen(3) /\ Len(b[5]) = FieldLen(4) /\ Len(b[6]) = FieldLen(5)
          /\ Len(b[7]) = FieldLen(6) /\ Len(b[8]) = FieldLen(7)
        BY <1>3, <1>4, <1>5, <1>6, <1>7, <1>8, <2>1, HeaderLengths
    <2>4. 1 - 1 = 0 /\ 2 - 1 = 1 /\ 3 - 1 = 2 /\ 4 - 1 = 3 /\ 5 - 1 = 4 /\ 6 - 1 = 5
          /\ 7 - 1 = 6 /\ 8 - 1 = 7
        OBVIOUS
    <2>5. ASSUME NEW k \in 1..8 PROVE b[k] \in Seq(Byte) /\ Len(b[k]) = FieldLen(k - 1)
        <3>1. k = 1 \/ k = 2 \/ k = 3 \/ k = 4 \/ k = 5 \/ k = 6 \/ k = 7 \/ k = 8 OBVIOUS
        <3> QED BY <2>2, <2>3, <2>4, <3>1
    <2>6. Digits(0, b[8]) \in MsgSeqs BY <1>8, <2>1
    <2> QED BY <2>1, <2>5, <2>6
<1> HIDE DEF b
<1>11. \A k \in 1..8 : Chunk(k - 1, b[k]) \in Sent
    <2>1. ASSUME NEW k \in 1..8 PROVE Chunk(k - 1, b[k]) \in Sent
        <3>1. k - 1 \in 0..7 /\ (k - 1 = 0 => k = 1) /\ (k - 1 = 7 => k = 8) OBVIOUS
        <3>2. k - 1 = 0 => SubSeq(b[k], 1, 7) = SubSeq(InterfaceType, 1, 7) BY <1>10, <3>1
        <3>3. k - 1 = 7 => Digits(0, b[k]) \in MsgSeqs BY <1>10, <3>1
        <3> QED BY <1>10, <3>1, <3>2, <3>3, HeaderChunkOK
    <2> QED BY <2>1
<1>12. /\ Chunk(0, b[1]) \in Sent /\ Chunk(1, b[2]) \in Sent /\ Chunk(2, b[3]) \in Sent
       /\ Chunk(3, b[4]) \in Sent /\ Chunk(4, b[5]) \in Sent /\ Chunk(5, b[6]) \in Sent
       /\ Chunk(6, b[7]) \in Sent /\ Chunk(7, b[8]) \in Sent
    <2>1. 1 - 1 = 0 /\ 2 - 1 = 1 /\ 3 - 1 = 2 /\ 4 - 1 = 3 /\ 5 - 1 = 4 /\ 6 - 1 = 5
          /\ 7 - 1 = 6 /\ 8 - 1 = 7
        OBVIOUS
    <2> QED BY <1>11, <2>1
<1>13. HeaderChunks(h) \in [1..8 -> Sent] BY <1>9, <1>12
<1>14. 8 \in Nat OBVIOUS
<1> QED BY <1>13, <1>14, FunctionIsSeq

(* The chunks of a message's frame. *)
LEMMA GenerateFrameOK ==
    ASSUME NEW m \in Msgs
    PROVE  /\ GenerateFrame(m).chunks \in Seq(Sent)
           /\ GenerateFrame(m).check = HexDigits(Checksum(GenerateFrame(m).chunks))
<1>1. m.header \in Header /\ m.fields \in Seq(Field) BY DEF Msgs
<1>2. Len(m.fields) \in Nat /\ \A i \in 1..Len(m.fields) : m.fields[i] \in Field
    BY <1>1, LenProperties, ElementOfSeq
<1>3. FieldChunks(m) \in Seq(Sent)
    <2>1. \A i \in 1..Len(m.fields) : FieldChunk(m.fields[i]) \in Sent
        BY <1>2, FieldChunkOK DEF Sent
    <2>2. FieldChunks(m) \in [1..Len(m.fields) -> Sent] BY <2>1 DEF FieldChunks
    <2> QED BY <1>2, <2>2, IsASeq
<1>4. HeaderChunks(m.header) \o FieldChunks(m) \in Seq(Sent)
    BY <1>1, <1>3, HeaderChunksOK, ConcatProperties
<1> QED BY <1>4 DEF GenerateFrame

(* An item of an array is a number. *)
LEMMA ItemsOf ==
    ASSUME NEW base \in 1..4, NEW bytes \in Seq(Byte)
    PROVE  Items(base, bytes) \in Seq(Int) /\ Len(Items(base, bytes)) = Len(bytes) \div base
<1>1. Len(bytes) \in Nat BY LenProperties
<1>2. PICK q \in Nat : q = Len(bytes) \div base /\ base * q <= Len(bytes) BY <1>1
<1>3. ASSUME NEW i \in 1..q
      PROVE  ReadNum(SubSeq(bytes, base * (i - 1) + 1, base * i)) \in Int
    <2>1. base * i <= base * q BY <1>2
    <2>2. PICK a \in Nat \ {0}, b \in Nat : a = base * (i - 1) + 1 /\ b = base * i OBVIOUS
    <2>3. b <= Len(bytes) /\ a <= b + 1 BY <1>1, <1>2, <2>1, <2>2
    <2>4. SubSeq(bytes, a, b) \in Seq(Byte) BY <2>3, SubSeqOf
    <2>5. ReadNum(SubSeq(bytes, a, b)) \in Int BY <2>4, ReadNumInt
    <2> QED BY <2>2, <2>5, Zenon
<1>4. Items(base, bytes) \in [1..q -> Int] BY <1>2, <1>3 DEF Items
<1> QED BY <1>2, <1>4, FunctionIsSeq

(* How a chunk is added depends on the length its code stands for. *)
LEMMA AddChunkCases ==
    ASSUME NEW m, NEW c, FieldLen(c.code) \in Int, c.length \in Nat
    PROVE  /\ FieldLen(c.code) > 0 /\ c.length < FDATA_LIMIT
                => AddChunk(m, c) = AddNum(m, c.code, ReadNum(c.bytes))
           /\ FieldLen(c.code) = 0 \/ (FieldLen(c.code) > 0 /\ c.length >= FDATA_LIMIT)
                => AddChunk(m, c) = AddNBytes(m, c.code, c.bytes)
           /\ FieldLen(c.code) < 0
                => AddChunk(m, c) = AddArray(m, c.code, Items(0 - FieldLen(c.code), c.bytes))
<1> DEFINE num == AddNum(m, c.code, ReadNum(c.bytes))
           bytes == AddNBytes(m, c.code, c.bytes)
           array == AddArray(m, c.code, Items(0 - FieldLen(c.code), c.bytes))
<1>1. PICK n \in Int, len \in Nat : n = FieldLen(c.code) /\ len = c.length OBVIOUS
<1>2. AddChunk(m, c) = CASE n > 0 /\ len < FDATA_LIMIT -> num
                         [] n > 0 /\ len >= FDATA_LIMIT -> bytes
                         [] n = 0 -> bytes
                         [] n < 0 -> array
    BY <1>1, Zenon DEF AddChunk
<1> HIDE DEF num, bytes, array
<1>3. FDATA_LIMIT = 4 BY DEF FDATA_LIMIT
<1>4. n > 0 /\ len < FDATA_LIMIT => AddChunk(m, c) = num BY <1>2, <1>3
<1>5. n = 0 \/ (n > 0 /\ len >= FDATA_LIMIT) => AddChunk(m, c) = bytes BY <1>2, <1>3
<1>6. n < 0 => AddChunk(m, c) = array BY <1>2, <1>3
<1> QED BY <1>1, <1>4, <1>5, <1>6 DEF num, bytes, array

(* Each chunk of a sent frame leaves a message of sound fields. *)
LEMMA AddHeaderChunkOK ==
    ASSUME NEW m \in Msgs, NEW c \in Sent, c.code < FC.RESCODE
    PROVE  AddChunk(m, c) \in Msgs
<1> DEFINE n == FieldLen(c.code)
<1>1. /\ c.code \in Range(FC) /\ c.code \in Nat /\ c.bytes \in Seq(Byte)
      /\ c.code \in 0..7 /\ n \in 1..10 /\ n = Len(c.bytes) /\ c.length = n
    <2>1. c.code \in Range(FC) /\ c.code \in Nat /\ c.bytes \in Seq(Byte) /\ Carried(c)
        BY LengthOfCode DEF Sent, ChunkSet
    <2>2. c.code \in 0..7 BY <2>1, CodeNumbers
    <2>3. n \in 1..10 BY <2>2, HeaderLengths
    <2> QED BY <2>1, <2>2, <2>3, CodeNumbers DEF Carried
<1>2. m.header \in Header /\ m.fields \in Seq(Field) /\ m = [header |-> m.header, fields |-> m.fields]
    BY DEF Msgs
<1>3. \A h, length, data : h = HeaderWith(m.header, c.code, data) /\ h \in Header
         => AddField(m, c.code, length, data) \in Msgs
    BY <1>1, <1>2 DEF AddField, Msgs
<1>4. CASE c.code \in 1..4
    <2>1. n \in 1..3 /\ (c.code \in 3..4 => n = 3) BY <1>4, HeaderLengths
    <2>2. AddChunk(m, c) = AddField(m, c.code, n, Word(ReadNum(c.bytes)))
        <3>1. n > 0 /\ c.length < FDATA_LIMIT
            <4>1. PICK k \in 1..3 : k = n BY <2>1
            <4>2. c.length = k BY <1>1, <4>1
            <4> HIDE DEF n
            <4> QED BY <4>1, <4>2 DEF FDATA_LIMIT
        <3>2. AddChunk(m, c) = AddNum(m, c.code, ReadNum(c.bytes)) BY <1>1, <3>1, AddChunkCases
        <3> QED BY <3>2 DEF AddNum
    <2> DEFINE data == Word(ReadNum(c.bytes))
    <2>3. ReadNum(c.bytes) \in Int /\ data \in Seq(Byte) /\ IntOf(data) \in Int
        BY <1>1, ReadNumInt, WordOf, IntOfInt
    <2>4. c.code \in 3..4 => IntOf(data) \in Gid24
        BY <1>1, <2>1, ReadGid, IntOfWord DEF Gid24
    <2> HIDE DEF data
    <2>5. HeaderWith(m.header, c.code, data) \in Header
        <3>1. ASSUME NEW h \in Header, NEW x \in Int
              PROVE  /\ [h EXCEPT !.msgtype = x] \in Header /\ [h EXCEPT !.transtype = x] \in Header
                     /\ x \in Gid24 => [h EXCEPT !.gcgid = x] \in Header /\ [h EXCEPT !.gosid = x] \in Header
            BY DEF Header
        <3>2. c.code = 1 \/ c.code = 2 \/ c.code = 3 \/ c.code = 4 BY <1>4
        <3>3. c.code = 1 => HeaderWith(m.header, c.code, data) = [m.header EXCEPT !.msgtype = IntOf(data)]
            BY CodeNumbers DEF HeaderWith
        <3>4. c.code = 2 => HeaderWith(m.header, c.code, data) = [m.header EXCEPT !.transtype = IntOf(data)]
            BY CodeNumbers DEF HeaderWith
        <3>5. c.code = 3 => HeaderWith(m.header, c.code, data) = [m.header EXCEPT !.gcgid = IntOf(data)]
            BY CodeNumbers DEF HeaderWith
        <3>6. c.code = 4 => HeaderWith(m.header, c.code, data) = [m.header EXCEPT !.gosid = IntOf(data)]
            BY CodeNumbers DEF HeaderWith
        <3>7. PICK x \in Int : x = IntOf(data) BY <2>3
        <3>8. c.code \in {1, 2} => HeaderWith(m.header, c.code, data) \in Header
            BY <1>2, <3>1, <3>3, <3>4, <3>7
        <3>9. c.code \in {3, 4} => HeaderWith(m.header, c.code, data) \in Header
            <4>1. c.code \in {3, 4} => x \in Gid24
                <5>1. c.code \in {3, 4} => c.code \in 3..4 OBVIOUS
                <5> QED BY <2>4, <3>7, <5>1
            <4> QED BY <1>2, <3>1, <3>5, <3>6, <3>7, <4>1
        <3> QED BY <3>2, <3>8, <3>9
    <2> QED BY <1>3, <2>2, <2>5 DEF data
<1>5. CASE c.code \in {0, 5, 6, 7}
    <2>1. n > FDATA_LIMIT BY <1>5, HeaderLengths DEF FDATA_LIMIT
    <2>2. AddChunk(m, c) = AddField(m, c.code, Len(c.bytes), c.bytes)
        <3>1. n > 0 /\ c.length >= FDATA_LIMIT BY <1>1, <2>1 DEF FDATA_LIMIT
        <3>2. AddChunk(m, c) = AddNBytes(m, c.code, c.bytes) BY <1>1, <3>1, AddChunkCases
        <3>3. Len(c.bytes) > FDATA_LIMIT BY <1>1, <2>1
        <3>4. Kept(c.bytes) = c.bytes BY <3>3 DEF Kept
        <3> QED BY <3>2, <3>4 DEF AddNBytes
    <2>3. HeaderWith(m.header, c.code, c.bytes) \in Header
        <3>1. ASSUME NEW h \in Header, NEW x \in Seq(Byte)
              PROVE  [h EXCEPT !.tdate = x] \in Header /\ [h EXCEPT !.ttime = x] \in Header
            BY DEF Header
        <3>2. ASSUME NEW h \in Header, NEW x \in MsgSeqs PROVE [h EXCEPT !.msgseq = x] \in Header
            BY DEF Header
        <3>3. CASE c.code = 0
            BY <1>2, <3>3, CodeNumbers DEF HeaderWith
        <3>4. CASE c.code = 5
            <4>1. SubSeq(c.bytes, 1, 8) \in Seq(Byte)
                <5>1. Len(c.bytes) = 8 /\ 1 \in Nat \ {0} /\ 8 \in Nat /\ 8 <= 8 /\ 1 <= 8 + 1
                    <6>1. n = FieldLen(5) BY <3>4
                    <6>2. n = 8 BY <6>1, HeaderLengths
                    <6> HIDE DEF n
                    <6> QED BY <1>1, <6>2
                <5> QED BY <1>1, <5>1, SubSeqOf
            <4>2. HeaderWith(m.header, c.code, c.bytes) = [m.header EXCEPT !.tdate = SubSeq(c.bytes, 1, 8)]
                BY <3>4, CodeNumbers DEF HeaderWith
            <4> QED BY <1>2, <3>1, <4>1, <4>2
        <3>5. CASE c.code = 6
            <4>1. SubSeq(c.bytes, 1, 6) \in Seq(Byte)
                <5>1. Len(c.bytes) = 6 /\ 1 \in Nat \ {0} /\ 6 \in Nat /\ 6 <= 6 /\ 1 <= 6 + 1
                    <6>1. n = FieldLen(6) BY <3>5
                    <6>2. n = 6 BY <6>1, HeaderLengths
                    <6> HIDE DEF n
                    <6> QED BY <1>1, <6>2
                <5> QED BY <1>1, <5>1, SubSeqOf
            <4>2. HeaderWith(m.header, c.code, c.bytes) = [m.header EXCEPT !.ttime = SubSeq(c.bytes, 1, 6)]
                BY <3>5, CodeNumbers DEF HeaderWith
            <4> QED BY <1>2, <3>1, <4>1, <4>2
        <3>6. CASE c.code = 7
            <4>1. SubSeq(c.bytes, 1, 6) = c.bytes
                <5>1. n = FieldLen(7) BY <3>6
                <5>2. Len(c.bytes) = 6 BY <1>1, <5>1, HeaderLengths
                <5> QED BY <1>1, <5>2, SubSeqFull
            <4>2. Digits(0, c.bytes) \in MsgSeqs
                BY <3>6, CodeNumbers DEF Sent, Carried
            <4>3. HeaderWith(m.header, c.code, c.bytes) = [m.header EXCEPT !.msgseq = Digits(0, SubSeq(c.bytes, 1, 6))]
                BY <3>6, CodeNumbers DEF HeaderWith
            <4> QED BY <1>2, <3>2, <4>1, <4>2, <4>3
        <3> QED BY <1>5, <3>3, <3>4, <3>5, <3>6
    <2> QED BY <1>3, <2>2, <2>3
<1> QED BY <1>1, <1>4, <1>5

LEMMA AddChunkOK ==
    ASSUME NEW m \in Msgs, NEW c \in Sent
    PROVE  AddChunk(m, c) \in Msgs
<1> DEFINE n == FieldLen(c.code)
<1>1. c.code \in Range(FC) /\ c.code \in Nat /\ c.length \in Nat /\ c.bytes \in Seq(Byte) /\ Carried(c)
    BY LengthOfCode DEF Sent, ChunkSet, Len16
<1>2. CASE c.code < FC.RESCODE
    BY <1>2, AddHeaderChunkOK
<1>3. CASE FC.RESCODE <= c.code
    <2>1. n \in -4..7 BY <1>1, <1>3, LengthOfCode
    <2>2. CASE n > 0 /\ c.length < FDATA_LIMIT
        <3>1. c.code = FC.RESCODE => n \in 0..3 BY CodeNumbers, HeaderLengths, FieldsAssumption
        <3>2. n \in 1..4 BY <1>1, <2>1, <2>2, <3>1 DEF Carried, FDATA_LIMIT
        <3>3. AddChunk(m, c) = AddNum(m, c.code, ReadNum(c.bytes))
            BY <1>1, <2>1, <2>2, AddChunkCases
        <3>4. ReadNum(c.bytes) \in Int BY <1>1, ReadNumInt
        <3> QED BY <1>1, <1>3, <3>2, <3>3, <3>4, AddNumOK
    <2>3. CASE n = 0 \/ (n > 0 /\ c.length >= FDATA_LIMIT)
        <3>1. AddChunk(m, c) = AddNBytes(m, c.code, c.bytes)
            BY <1>1, <2>1, <2>3, AddChunkCases
        <3>2. n > 0 => Len(c.bytes) = n
            <4>1. c.code = FC.RESCODE => n \in 0..3
                BY CodeNumbers, HeaderLengths, FieldsAssumption
            <4>2. n > 0 => c.length >= 4 BY <2>1, <2>3 DEF FDATA_LIMIT
            <4>3. /\ c.length = Len(c.bytes)
                  /\ n > 0 => Len(c.bytes) = n \/ (c.code = FC.RESCODE /\ Len(c.bytes) \in 1..n)
                BY <1>1 DEF Carried
            <4> HIDE DEF n
            <4> QED BY <4>1, <4>2, <4>3
        <3>3. ~(n < 0) BY <2>1, <2>3
        <3>4. Len(c.bytes) <= MaxLength BY <1>1 DEF Carried, Sent, ChunkSet, Len16
        <3> QED BY <1>1, <1>3, <3>1, <3>2, <3>3, <3>4, AddNBytesOK
    <2>4. CASE n < 0
        <3>1. AddChunk(m, c) = AddArray(m, c.code, Items(0 - n, c.bytes))
            BY <1>1, <2>1, <2>4, AddChunkCases
        <3>2. 0 - n \in 1..4 BY <2>1, <2>4
        <3>3. PICK base \in 1..4 : base = 0 - n BY <3>2
        <3>4. Items(base, c.bytes) \in Seq(Int) /\ Len(Items(base, c.bytes)) = Len(c.bytes) \div base
            BY <1>1, ItemsOf
        <3>5. Len(c.bytes) \div base <= MaxInts BY <1>1, <2>4, <3>3 DEF Carried
        <3> QED BY <1>1, <1>3, <2>4, <3>1, <3>3, <3>4, <3>5, AddArrayOK
    <2> QED BY <1>1, <2>1, <2>2, <2>3, <2>4 DEF FDATA_LIMIT
<1> QED BY <1>1, <1>2, <1>3, CodeNumbers

(* One round of tp3_parseframe's loop goes on to the next, with a message  *)
(* of sound fields.                                                        *)
Good == [stat : {"NOERROR"}, msg : Msgs]
Round(p, c) == IF p.stat # "NOERROR" THEN p
               ELSE IF Foreign(c) THEN Parsed("INTERFACETYPE_NOT_MATCHED", p.msg)
               ELSE Parsed("NOERROR", AddChunk(p.msg, c))

LEMMA RoundOK ==
    ASSUME NEW p \in Good, NEW c \in Sent
    PROVE  Round(p, c) \in Good
<1>1. p.stat = "NOERROR" /\ p.msg \in Msgs BY DEF Good
<1>2. ~Foreign(c) BY DEF Sent, Carried
<1>3. Round(p, c) = Parsed("NOERROR", AddChunk(p.msg, c)) BY <1>1, <1>2 DEF Round
<1>4. AddChunk(p.msg, c) \in Msgs BY <1>1, AddChunkOK
<1> QED BY <1>3, <1>4 DEF Good, Parsed

(* r[k] is what is parsed of the first k chunks. *)
Rounds(r, m, chunks) ==
    /\ r[0] = Parsed("NOERROR", m) /\ r[Len(chunks)] = ParseFields(m, chunks)
    /\ \A k \in 0..Len(chunks) : r[k] \in Good
    /\ \A k \in 1..Len(chunks) : r[k] = Round(r[k - 1], chunks[k])

LEMMA RoundSteps ==
    ASSUME NEW m \in Msgs, NEW chunks \in Seq(Sent)
    PROVE  \E r : Rounds(r, m, chunks)
<1> DEFINE n == Len(chunks)
           start == Parsed("NOERROR", m)
           D == [p \in Nat \X Good |-> IF p[1] \in 1..n THEN Round(p[2], chunks[p[1]]) ELSE p[2]]
           Body(f) == [u \in SUBSET DOMAIN chunks |->
                          IF u = {} THEN start ELSE Round(f[u \ {Max(u)}], chunks[Max(u)])]
           iter == CHOOSE f : f = Body(f)
<1>0. start \in Good BY DEF Good, Parsed
<1>1. n \in Nat /\ DOMAIN chunks = 1..n /\ \A k \in 1..n : chunks[k] \in Sent
    BY LenProperties, ElementOfSeq
<1>2. ParseFields(m, chunks) = iter[DOMAIN chunks]
    BY Zenon DEF ParseFields, FoldLeft, MapThenFoldSet, Round
<1>3. D \in [Nat \X Good -> Good] BY <1>1, RoundOK
<1>4. \A k \in 1..n, x \in Good : D[<<k, x>>] = Round(x, chunks[k])
    <2>1. \A k \in 1..n, x \in Good : <<k, x>> \in Nat \X Good BY <1>1
    <2> QED BY <2>1
<1> HIDE DEF D, n, start
<1>5. \E f : f = Body(f)
    <2>1. PICK f \in [SUBSET (1..n) -> Good] : Iterates(f, start, D, n)
        BY <1>0, <1>1, <1>3, IterExists
    <2>2. ASSUME NEW u \in SUBSET (1..n), u # {}
          PROVE  f[u] = Round(f[u \ {Max(u)}], chunks[Max(u)])
        <3>1. Max(u) \in 1..n BY <1>1, <2>2, MaxOfSome
        <3>2. f[u \ {Max(u)}] \in Good BY <2>1
        <3>3. f[u] = D[<<Max(u), f[u \ {Max(u)}]>>] BY <2>1, <2>2 DEF Iterates
        <3> QED BY <1>4, <3>1, <3>2, <3>3
    <2>3. f[{}] = start BY <2>1 DEF Iterates
    <2>4. f = [u \in SUBSET (1..n) |-> f[u]] BY <2>1
    <2>5. f = Body(f) BY <1>1, <2>2, <2>3, <2>4
    <2> QED BY <2>5
<1>6. iter = Body(iter) BY <1>5, Zenon
<1> HIDE DEF iter
<1> DEFINE S == {k \in Nat : k \in 0..n => iter[1..k] \in Good}
<1>7. 0 \in S
    <2>1. 1..0 = {} /\ {} \in SUBSET DOMAIN chunks OBVIOUS
    <2> QED BY <1>0, <1>6, <2>1
<1>8. ASSUME NEW k \in Nat, k \in S PROVE k + 1 \in S
    <2>1. CASE k + 1 \in 0..n
        <3>1. k \in 0..n /\ k + 1 \in 1..n /\ 1..(k + 1) \in SUBSET DOMAIN chunks
            BY <1>1, <2>1
        <3>2. Max(1..(k + 1)) = k + 1 /\ 1..(k + 1) # {} /\ (1..(k + 1)) \ {k + 1} = 1..k
            <4>1. k + 1 \in Nat \ {0} /\ (k + 1) - 1 = k OBVIOUS
            <4> QED BY <4>1, LastOf
        <3>3. iter[1..(k + 1)] = Round(iter[1..k], chunks[k + 1]) BY <1>6, <3>1, <3>2
        <3> QED BY <1>1, <1>8, <3>1, <3>3, RoundOK
    <2> QED BY <2>1
<1> HIDE DEF S
<1>9. Nat \subseteq S BY <1>7, <1>8, SetInduction
<1>10. \A k \in 0..n : iter[1..k] \in Good BY <1>1, <1>9 DEF S
<1>11. iter[1..0] = start
    <2>1. 1..0 = {} /\ {} \in SUBSET DOMAIN chunks OBVIOUS
    <2> QED BY <1>6, <2>1
<1>12. ASSUME NEW k \in 1..n PROVE iter[1..k] = Round(iter[1..(k - 1)], chunks[k])
    <2>1. k \in Nat \ {0} /\ 1..k \in SUBSET DOMAIN chunks BY <1>1
    <2>2. Max(1..k) = k /\ 1..k # {} /\ (1..k) \ {k} = 1..(k - 1) BY <2>1, LastOf
    <2> QED BY <1>6, <2>1, <2>2
<1> DEFINE r == [k \in 0..n |-> iter[1..k]]
<1>13. \A k \in 0..n : r[k] = iter[1..k] OBVIOUS
<1> HIDE DEF r
<1>14. \A k \in 1..n : k \in 0..n /\ k - 1 \in 0..n BY <1>1
<1>15. 0 \in 0..n /\ n \in 0..n BY <1>1
<1>16. Rounds(r, m, chunks)
    BY <1>1, <1>2, <1>10, <1>11, <1>12, <1>13, <1>14, <1>15 DEF Rounds, n, start
<1> QED BY <1>16

(* A frame of such chunks is parsed to its end, into a message of sound    *)
(* fields: no chunk is taken for one of another kind of interface.         *)
LEMMA ParseFieldsOK ==
    ASSUME NEW m \in Msgs, NEW chunks \in Seq(Sent)
    PROVE  ParseFields(m, chunks) \in Good
<1>1. PICK r : Rounds(r, m, chunks) BY RoundSteps
<1>2. Len(chunks) \in 0..Len(chunks)
    <2>1. Len(chunks) \in Nat BY LenProperties
    <2> QED BY <2>1
<1> QED BY <1>1, <1>2 DEF Rounds

-----------------------------------------------------------------------------
(* The checksum *)

(* Two bytes differ in one of their bits. *)
Bit(byte, k) == (byte \div 2 ^ k) % 2

LEMMA BitDiffers ==
    ASSUME NEW u \in Byte, NEW v \in Byte, u # v
    PROVE  \E k \in 0..7 : Bit(u, k) # Bit(v, k)
<1>1. ASSUME /\ Bit(u, 0) = Bit(v, 0) /\ Bit(u, 1) = Bit(v, 1) /\ Bit(u, 2) = Bit(v, 2)
             /\ Bit(u, 3) = Bit(v, 3) /\ Bit(u, 4) = Bit(v, 4) /\ Bit(u, 5) = Bit(v, 5)
             /\ Bit(u, 6) = Bit(v, 6) /\ Bit(u, 7) = Bit(v, 7)
      PROVE  u = v
    <2>1. \A n \in Byte : n = 2 * (n \div 2) + Bit(n, 0) BY DEF Bit, Byte
    <2>2. \A n \in Byte : n \div 2 = 2 * (n \div 4) + Bit(n, 1) BY DEF Bit, Byte
    <2>3. \A n \in Byte : n \div 4 = 2 * (n \div 8) + Bit(n, 2) BY DEF Bit, Byte
    <2>4. \A n \in Byte : n \div 8 = 2 * (n \div 16) + Bit(n, 3) BY DEF Bit, Byte
    <2>5. \A n \in Byte : n \div 16 = 2 * (n \div 32) + Bit(n, 4) BY DEF Bit, Byte
    <2>6. \A n \in Byte : n \div 32 = 2 * (n \div 64) + Bit(n, 5) BY DEF Bit, Byte
    <2>7. \A n \in Byte : n \div 64 = 2 * (n \div 128) + Bit(n, 6) BY DEF Bit, Byte
    <2>8. \A n \in Byte : n \div 128 = Bit(n, 7) BY DEF Bit, Byte
    <2>9. u \div 128 = v \div 128 BY <1>1, <2>8
    <2>10. u \div 64 = v \div 64 BY <1>1, <2>7, <2>9
    <2>11. u \div 32 = v \div 32 BY <1>1, <2>6, <2>10
    <2>12. u \div 16 = v \div 16 BY <1>1, <2>5, <2>11
    <2>13. u \div 8 = v \div 8 BY <1>1, <2>4, <2>12
    <2>14. u \div 4 = v \div 4 BY <1>1, <2>3, <2>13
    <2>15. u \div 2 = v \div 2 BY <1>1, <2>2, <2>14
    <2> QED BY <1>1, <2>1, <2>15
<1>2. 0 \in 0..7 /\ 1 \in 0..7 /\ 2 \in 0..7 /\ 3 \in 0..7 /\ 4 \in 0..7 /\ 5 \in 0..7
      /\ 6 \in 0..7 /\ 7 \in 0..7
    OBVIOUS
<1> QED BY <1>1, <1>2, Zenon

LEMMA ParityCounts ==
    ASSUME NEW b \in Seq(Byte), NEW t \in Seq(Byte), NEW x, DifferAt(b, t, x),
           NEW k \in 0..7, Bit(b[x], k) = 1, Bit(t[x], k) # 1
    PROVE  Parity(b, k) # Parity(t, k)
<1> DEFINE B == {i \in DOMAIN b : Bit(b[i], k) = 1}
           T == {i \in DOMAIN t : Bit(t[i], k) = 1}
<1>1. Parity(b, k) = Cardinality(B) % 2 /\ Parity(t, k) = Cardinality(T) % 2
    BY Zenon DEF Parity, Quantify, Bit
<1>2. DOMAIN b = 1..Len(b) /\ DOMAIN t = 1..Len(b) /\ Len(b) \in Nat
    BY LenProperties DEF DifferAt
<1>3. x \in B /\ x \notin T /\ T = B \ {x}
    BY <1>2 DEF DifferAt
<1>4. IsFiniteSet(B)
    <2>1. IsFiniteSet(1..Len(b)) BY <1>2, FS_Interval
    <2>2. B \in SUBSET (1..Len(b)) BY <1>2
    <2> QED BY <2>1, <2>2, FS_Subset
<1> HIDE DEF B, T
<1>5. Cardinality(T) = Cardinality(B) - 1 BY <1>3, <1>4, FS_RemoveElement
<1>6. Cardinality(B) \in Nat BY <1>4, FS_CardinalityType
<1>7. \A n \in Nat : n % 2 # (n - 1) % 2 OBVIOUS
<1> QED BY <1>1, <1>5, <1>6, <1>7

LEMMA ParityBit ==
    ASSUME NEW b \in Seq(Byte), NEW k \in 0..7
    PROVE  Parity(b, k) \in 0..1
<1> DEFINE B == {i \in DOMAIN b : Bit(b[i], k) = 1}
<1>1. Parity(b, k) = Cardinality(B) % 2 BY Zenon DEF Parity, Quantify, Bit
<1>2. DOMAIN b = 1..Len(b) /\ Len(b) \in Nat BY LenProperties
<1>3. IsFiniteSet(B)
    <2>1. IsFiniteSet(1..Len(b)) BY <1>2, FS_Interval
    <2>2. B \in SUBSET (1..Len(b)) BY <1>2
    <2> QED BY <2>1, <2>2, FS_Subset
<1> HIDE DEF B
<1>4. Cardinality(B) \in Nat BY <1>3, FS_CardinalityType
<1>5. \A n \in Nat : n % 2 \in 0..1 OBVIOUS
<1> QED BY <1>1, <1>4, <1>5

(* One changed byte changes one of the eight parities. *)
LEMMA ParityTells ==
    ASSUME NEW b \in Seq(Byte), NEW t \in Seq(Byte), NEW x, DifferAt(b, t, x)
    PROVE  \E k \in 0..7 : Parity(b, k) # Parity(t, k)
<1>1. b[x] \in Byte /\ t[x] \in Byte /\ b[x] # t[x]
    <2>1. x \in 1..Len(b) /\ x \in 1..Len(t) BY DEF DifferAt
    <2> QED BY <2>1, ElementOfSeq DEF DifferAt
<1>2. PICK k \in 0..7 : Bit(b[x], k) # Bit(t[x], k) BY <1>1, BitDiffers
<1>3. Bit(b[x], k) \in 0..1 /\ Bit(t[x], k) \in 0..1
    <2>1. \A n \in Int : n % 2 \in 0..1 OBVIOUS
    <2>2. \A n \in Byte : n \div 2 ^ k \in Int
        <3>1. 2 ^ k \in Nat \ {0}
            <4>1. k = 0 \/ k = 1 \/ k = 2 \/ k = 3 \/ k = 4 \/ k = 5 \/ k = 6 \/ k = 7 OBVIOUS
            <4>2. /\ 2 ^ 0 \in Nat \ {0} /\ 2 ^ 1 \in Nat \ {0} /\ 2 ^ 2 \in Nat \ {0} /\ 2 ^ 3 \in Nat \ {0}
                  /\ 2 ^ 4 \in Nat \ {0} /\ 2 ^ 5 \in Nat \ {0} /\ 2 ^ 6 \in Nat \ {0} /\ 2 ^ 7 \in Nat \ {0}
                OBVIOUS
            <4> QED BY <4>1, <4>2, Zenon
        <3>2. PICK w \in Nat \ {0} : w = 2 ^ k BY <3>1
        <3>3. \A n \in Byte : n \div w \in Int BY DEF Byte
        <3> QED BY <3>2, <3>3
    <2> QED BY <1>1, <2>1, <2>2 DEF Bit
<1>4. DifferAt(t, b, x) BY DEF DifferAt
<1>5. CASE Bit(b[x], k) = 1
    <2>1. Bit(t[x], k) # 1 BY <1>2, <1>5
    <2>2. Parity(b, k) # Parity(t, k) BY <1>5, <2>1, ParityCounts
    <2> QED BY <2>2
<1>6. CASE Bit(t[x], k) = 1
    <2>1. Bit(b[x], k) # 1 BY <1>2, <1>6
    <2>2. Parity(t, k) # Parity(b, k) BY <1>4, <1>6, <2>1, ParityCounts
    <2> QED BY <2>2
<1> QED BY <1>2, <1>3, <1>5, <1>6

(* The two digits tell every parity. *)
Sums == [0..7 -> 0..1]

LEMMA DigitsOfSum ==
    ASSUME NEW s \in Sums
    PROVE  /\ HexDigits(s)[1] \in 0..15 /\ HexDigits(s)[2] \in 0..15
           /\ HexDigits(s) \in Seq(0..15) /\ Len(HexDigits(s)) = 2
<1>1. /\ s[0] \in 0..1 /\ s[1] \in 0..1 /\ s[2] \in 0..1 /\ s[3] \in 0..1
      /\ s[4] \in 0..1 /\ s[5] \in 0..1 /\ s[6] \in 0..1 /\ s[7] \in 0..1
    BY DEF Sums
<1>2. \A a, b, c, d \in 0..1 : a * 8 + b * 4 + c * 2 + d \in 0..15 OBVIOUS
<1>3. s[7] * 8 + s[6] * 4 + s[5] * 2 + s[4] \in 0..15 /\ s[3] * 8 + s[2] * 4 + s[1] * 2 + s[0] \in 0..15
    BY <1>1, <1>2
<1> QED BY <1>3 DEF HexDigits

LEMMA DigitsTell ==
    ASSUME NEW s \in Sums, NEW t \in Sums, NEW k \in 0..7, s[k] # t[k]
    PROVE  HexDigits(s) # HexDigits(t)
<1>1. /\ s[0] \in 0..1 /\ s[1] \in 0..1 /\ s[2] \in 0..1 /\ s[3] \in 0..1
      /\ s[4] \in 0..1 /\ s[5] \in 0..1 /\ s[6] \in 0..1 /\ s[7] \in 0..1
      /\ t[0] \in 0..1 /\ t[1] \in 0..1 /\ t[2] \in 0..1 /\ t[3] \in 0..1
      /\ t[4] \in 0..1 /\ t[5] \in 0..1 /\ t[6] \in 0..1 /\ t[7] \in 0..1
    BY DEF Sums
<1>2. \A a, b, c, d, e, f, g, h \in 0..1 :
         a * 8 + b * 4 + c * 2 + d = e * 8 + f * 4 + g * 2 + h => a = e /\ b = f /\ c = g /\ d = h
    OBVIOUS
<1>3. ASSUME HexDigits(s) = HexDigits(t) PROVE FALSE
    <2>1. /\ s[7] * 8 + s[6] * 4 + s[5] * 2 + s[4] = t[7] * 8 + t[6] * 4 + t[5] * 2 + t[4]
          /\ s[3] * 8 + s[2] * 4 + s[1] * 2 + s[0] = t[3] * 8 + t[2] * 4 + t[1] * 2 + t[0]
        BY <1>3 DEF HexDigits
    <2>2. s[7] = t[7] /\ s[6] = t[6] /\ s[5] = t[5] /\ s[4] = t[4]
        BY <1>1, <1>2, <2>1
    <2>3. s[3] = t[3] /\ s[2] = t[2] /\ s[1] = t[1] /\ s[0] = t[0]
        BY <1>1, <1>2, <2>1
    <2>4. k = 0 \/ k = 1 \/ k = 2 \/ k = 3 \/ k = 4 \/ k = 5 \/ k = 6 \/ k = 7 OBVIOUS
    <2> QED BY <2>2, <2>3, <2>4
<1> QED BY <1>3

(* The bytes of one chunk. *)
Piece(c) == Reverse(SetBytes(2, c.code)) \o Reverse(SetBytes(2, c.length)) \o c.bytes

LEMMA LowHigh ==
    ASSUME NEW n \in Nat
    PROVE  LET w == Reverse(SetBytes(2, n))
           IN  w \in Seq(Byte) /\ Len(w) = 2 /\ w[1] = n % 256 /\ w[2] = (n \div 256) % 256
<1> DEFINE b == SetBytes(2, n)
<1>1. b \in Seq(Byte) /\ Len(b) = 2 BY SetBytesOf
<1>2. b[2] = (n \div Place[1]) % 256 /\ b[1] = (n \div Place[2]) % 256
    <2>1. 1 \in 1..2 /\ 2 \in 1..2 /\ (2 - 1) + 1 = 2 /\ (2 - 2) + 1 = 1 OBVIOUS
    <2> QED BY <2>1 DEF SetBytes
<1>3. Place[1] = 1 /\ Place[2] = 256 BY DEF Place
<1>4. n \div 1 = n OBVIOUS
<1> HIDE DEF b
<1>5. Reverse(b) \in Seq(Byte) /\ Len(Reverse(b)) = 2
      /\ \A k \in 1..2 : Reverse(b)[k] = b[2 - k + 1]
    BY <1>1, ReverseOf
<1>6. Reverse(b)[1] = b[2] /\ Reverse(b)[2] = b[1]
    <2>1. 1 \in 1..2 /\ 2 \in 1..2 /\ (2 - 1) + 1 = 2 /\ (2 - 2) + 1 = 1 OBVIOUS
    <2> QED BY <1>5, <2>1
<1> QED BY <1>2, <1>3, <1>4, <1>5, <1>6 DEF b

LEMMA PieceOf ==
    ASSUME NEW c \in ChunkSet
    PROVE  /\ Piece(c) \in Seq(Byte) /\ Len(Piece(c)) = 4 + Len(c.bytes)
           /\ Piece(c)[1] = c.code % 256 /\ Piece(c)[2] = (c.code \div 256) % 256
           /\ Piece(c)[3] = c.length % 256 /\ Piece(c)[4] = (c.length \div 256) % 256
           /\ \A k \in 1..Len(c.bytes) : Piece(c)[4 + k] = c.bytes[k]
<1> DEFINE u == Reverse(SetBytes(2, c.code))
           v == Reverse(SetBytes(2, c.length))
           r == c.bytes
<1>1. c.code \in Nat /\ c.length \in Nat /\ r \in Seq(Byte)
    BY LengthOfCode DEF ChunkSet, Len16
<1>2. u \in Seq(Byte) /\ Len(u) = 2 /\ u[1] = c.code % 256 /\ u[2] = (c.code \div 256) % 256
    BY <1>1, LowHigh, ZenonT(60)
<1>3. v \in Seq(Byte) /\ Len(v) = 2 /\ v[1] = c.length % 256 /\ v[2] = (c.length \div 256) % 256
    BY <1>1, LowHigh
<1>4. Len(r) \in Nat BY <1>1, LenProperties
<1>5. Piece(c) = (u \o v) \o r BY DEF Piece
<1> HIDE DEF u, v, r
<1>6. u \o v \in Seq(Byte) /\ Len(u \o v) = 4
      /\ (u \o v)[1] = u[1] /\ (u \o v)[2] = u[2] /\ (u \o v)[3] = v[1] /\ (u \o v)[4] = v[2]
    <2>1. /\ u \o v \in Seq(Byte) /\ Len(u \o v) = Len(u) + Len(v)
          /\ \A i \in 1..Len(u) + Len(v) :
                (u \o v)[i] = IF i <= Len(u) THEN u[i] ELSE v[i - Len(u)]
        BY <1>2, <1>3, ConcatProperties
    <2>2. 1 \in 1..4 /\ 2 \in 1..4 /\ 3 \in 1..4 /\ 4 \in 1..4 /\ 2 + 2 = 4 /\ 1 <= 2 /\ 2 <= 2
          /\ ~(3 <= 2) /\ ~(4 <= 2) /\ 3 - 2 = 1 /\ 4 - 2 = 2
        OBVIOUS
    <2> QED BY <1>2, <1>3, <2>1, <2>2
<1> DEFINE uv == u \o v
<1> HIDE DEF uv
<1>7. uv \in Seq(Byte) /\ Len(uv) = 4 BY <1>6 DEF uv
<1>8. /\ uv \o r \in Seq(Byte) /\ Len(uv \o r) = 4 + Len(r)
      /\ \A i \in 1..(4 + Len(r)) :
            (uv \o r)[i] = IF i <= 4 THEN uv[i] ELSE r[i - 4]
    <2>1. r \in Seq(Byte) BY <1>1
    <2>2. /\ uv \o r \in Seq(Byte) /\ Len(uv \o r) = Len(uv) + Len(r)
          /\ \A i \in 1..Len(uv) + Len(r) :
                (uv \o r)[i] = IF i <= Len(uv) THEN uv[i] ELSE r[i - Len(uv)]
        BY <1>7, <2>1, ConcatProperties
    <2> QED BY <1>7, <2>2
<1>9. (uv \o r)[1] = uv[1] /\ (uv \o r)[2] = uv[2] /\ (uv \o r)[3] = uv[3] /\ (uv \o r)[4] = uv[4]
    <2>1. 1 \in 1..(4 + Len(r)) /\ 2 \in 1..(4 + Len(r)) /\ 3 \in 1..(4 + Len(r))
          /\ 4 \in 1..(4 + Len(r))
        BY <1>4
    <2> QED BY <1>8, <2>1
<1>10. \A k \in 1..Len(r) : (uv \o r)[4 + k] = r[k]
    <2>1. \A k \in 1..Len(r) : 4 + k \in 1..(4 + Len(r)) /\ ~(4 + k <= 4) /\ (4 + k) - 4 = k
        BY <1>4
    <2> QED BY <1>8, <2>1
<1>11. Piece(c) = uv \o r BY <1>5 DEF uv
<1>12. uv[1] = u[1] /\ uv[2] = u[2] /\ uv[3] = v[1] /\ uv[4] = v[2] BY <1>6 DEF uv
<1>13. /\ Piece(c) \in Seq(Byte) /\ Len(Piece(c)) = 4 + Len(r)
       /\ \A k \in 1..Len(r) : Piece(c)[4 + k] = r[k]
    BY <1>8, <1>10, <1>11
<1>14. Piece(c)[1] = u[1] /\ Piece(c)[2] = u[2] /\ Piece(c)[3] = v[1] /\ Piece(c)[4] = v[2]
    BY <1>9, <1>11, <1>12
<1> QED BY <1>2, <1>3, <1>13, <1>14 DEF r

LEMMA FlatOf ==
    ASSUME NEW m \in Nat, NEW chunks \in [1..m -> ChunkSet]
    PROVE  /\ [i \in 1..m |-> Piece(chunks[i])] \in [1..m -> Seq(Byte)]
           /\ Flat(chunks) = FlattenSeq([i \in 1..m |-> Piece(chunks[i])])
           /\ Flat(chunks) \in Seq(Byte)
<1>1. [i \in 1..m |-> Piece(chunks[i])] \in [1..m -> Seq(Byte)] BY PieceOf
<1>2. Len(chunks) = m BY LenProperties, IsASeq
<1>3. Flat(chunks) = FlattenSeq([i \in 1..m |-> Piece(chunks[i])])
    BY <1>2, Zenon DEF Flat, Piece
<1> QED BY <1>1, <1>3, FlattenType

(* A frame with one changed byte has another checksum. *)
LEMMA ChecksumOf ==
    ASSUME NEW chunks \in Seq(ChunkSet)
    PROVE  Checksum(chunks) \in Sums
<1>1. chunks \in [1..Len(chunks) -> ChunkSet] /\ Len(chunks) \in Nat BY LenProperties
<1>2. Flat(chunks) \in Seq(Byte) BY <1>1, FlatOf
<1>3. \A k \in 0..7 : Parity(Flat(chunks), k) \in 0..1 BY <1>2, ParityBit
<1> QED BY <1>3 DEF Checksum, Sums

LEMMA ChecksumTells ==
    ASSUME NEW m \in Nat, NEW old \in [1..m -> ChunkSet], NEW new \in [1..m -> ChunkSet],
           NEW i \in 1..m, NEW j, DifferAt(Piece(old[i]), Piece(new[i]), j),
           \A k \in 1..m : k # i => new[k] = old[k]
    PROVE  HexDigits(Checksum(old)) # HexDigits(Checksum(new))
<1> DEFINE ss == [k \in 1..m |-> Piece(old[k])]
           tt == [k \in 1..m |-> Piece(new[k])]
<1>1. ss \in [1..m -> Seq(Byte)] /\ tt \in [1..m -> Seq(Byte)]
      /\ Flat(old) = FlattenSeq(ss) /\ Flat(new) = FlattenSeq(tt)
      /\ Flat(old) \in Seq(Byte) /\ Flat(new) \in Seq(Byte)
    BY FlatOf
<1>2. DifferAt(ss[i], tt[i], j) /\ \A k \in 1..m : k # i => tt[k] = ss[k] OBVIOUS
<1> HIDE DEF ss, tt
<1>3. PICK x : DifferAt(FlattenSeq(ss), FlattenSeq(tt), x) BY <1>1, <1>2, FlattenDiffers
<1>4. PICK k \in 0..7 : Parity(Flat(old), k) # Parity(Flat(new), k) BY <1>1, <1>3, ParityTells
<1>5. Checksum(old)[k] # Checksum(new)[k] BY <1>4 DEF Checksum
<1>6. old \in Seq(ChunkSet) /\ new \in Seq(ChunkSet) BY IsASeq
<1>7. Checksum(old) \in Sums /\ Checksum(new) \in Sums BY <1>6, ChecksumOf
<1> QED BY <1>5, <1>7, DigitsTell

-----------------------------------------------------------------------------
(* The buffer of a frame *)

(* e[k] is the estimate for a frame with the first k fields. *)
Estimates(e, m) ==
    /\ e[0] = 72
    /\ \A k \in 1..Len(m.fields) : e[k] = e[k - 1] + m.fields[k].length + 4

LEMMA EstimateOf ==
    ASSUME NEW m \in Msgs
    PROVE  \E e \in [0..Len(m.fields) -> Nat] :
              Estimates(e, m) /\ Estimate(m) = e[Len(m.fields)]
<1> DEFINE fields == m.fields
           n == Len(fields)
           Add(sum, f) == sum + f.length + 4
           D == [p \in Nat \X Nat |-> IF p[1] \in 1..n THEN Add(p[2], fields[p[1]]) ELSE p[2]]
           Body(f) == [u \in SUBSET DOMAIN fields |->
                          IF u = {} THEN 72 ELSE Add(f[u \ {Max(u)}], fields[Max(u)])]
           iter == CHOOSE f : f = Body(f)
<1>1. n \in Nat /\ DOMAIN fields = 1..n /\ \A k \in 1..n : fields[k].length \in Nat
    BY LenProperties, ElementOfSeq DEF Msgs, Field
<1>2. Estimate(m) = iter[DOMAIN fields]
    BY Zenon DEF Estimate, FoldLeft, MapThenFoldSet
<1>3. D \in [Nat \X Nat -> Nat] BY <1>1
<1>4. \A k \in 1..n, x \in Nat : D[<<k, x>>] = Add(x, fields[k])
    <2>1. \A k \in 1..n, x \in Nat : <<k, x>> \in Nat \X Nat BY <1>1
    <2> QED BY <2>1
<1>5. \A k \in 1..n, x \in Nat : Add(x, fields[k]) \in Nat BY <1>1
<1> HIDE DEF D, n, fields, Add
<1>6. \E f : f = Body(f)
    <2>0. 72 \in Nat OBVIOUS
    <2>1. PICK f \in [SUBSET (1..n) -> Nat] : Iterates(f, 72, D, n) BY <1>1, <1>3, <2>0, IterExists
    <2>2. ASSUME NEW u \in SUBSET (1..n), u # {}
          PROVE  f[u] = Add(f[u \ {Max(u)}], fields[Max(u)])
        <3>1. Max(u) \in 1..n BY <1>1, <2>2, MaxOfSome
        <3>2. f[u \ {Max(u)}] \in Nat BY <2>1
        <3>3. f[u] = D[<<Max(u), f[u \ {Max(u)}]>>] BY <2>1, <2>2 DEF Iterates
        <3> QED BY <1>4, <3>1, <3>2, <3>3
    <2>3. f[{}] = 72 BY <2>1 DEF Iterates
    <2>4. f = [u \in SUBSET (1..n) |-> f[u]] BY <2>1
    <2>5. f = Body(f) BY <1>1, <2>2, <2>3, <2>4
    <2> QED BY <2>5
<1>7. iter = Body(iter) BY <1>6, Zenon
<1> HIDE DEF iter
<1>8. iter[1..0] = 72
    <2>1. 1..0 = {} /\ {} \in SUBSET DOMAIN fields OBVIOUS
    <2> QED BY <1>7, <2>1
<1>9. ASSUME NEW k \in 1..n PROVE iter[1..k] = Add(iter[1..(k - 1)], fields[k])
    <2>1. 1..k \in SUBSET DOMAIN fields BY <1>1
    <2>2. k \in Nat \ {0} BY <1>1
    <2>3. Max(1..k) = k /\ 1..k # {} /\ (1..k) \ {k} = 1..(k - 1) BY <2>2, LastOf
    <2> QED BY <1>7, <2>1, <2>3
<1> DEFINE S == {k \in Nat : k \in 0..n => iter[1..k] \in Nat}
<1>10. 0 \in S BY <1>8
<1>11. ASSUME NEW k \in Nat, k \in S PROVE k + 1 \in S
    <2>1. CASE k + 1 \in 0..n
        <3>1. k \in 0..n /\ k + 1 \in 1..n /\ (k + 1) - 1 = k BY <1>1, <2>1
        <3>2. iter[1..(k + 1)] = Add(iter[1..k], fields[k + 1]) BY <1>9, <3>1
        <3> QED BY <1>5, <1>11, <3>1, <3>2, SMTT(40)
    <2> QED BY <2>1
<1>12. Nat \subseteq S
    <2> HIDE DEF S
    <2> QED BY <1>10, <1>11, SetInduction
<1> DEFINE e == [k \in 0..n |-> iter[1..k]]
<1>13. e \in [0..n -> Nat] BY <1>1, <1>12
<1>14. e[0] = 72 BY <1>1, <1>8
<1>15. \A k \in 1..n : e[k] = e[k - 1] + fields[k].length + 4
    <2>1. \A k \in 1..n : k \in 0..n /\ k - 1 \in 0..n BY <1>1
    <2> QED BY <1>9, <2>1 DEF Add
<1>16. Estimate(m) = e[n] BY <1>1, <1>2
<1> HIDE DEF e
<1>17. Estimates(e, m) BY <1>14, <1>15 DEF Estimates, n, fields
<1> QED BY <1>13, <1>16, <1>17 DEF n, fields

(* A header is 38 bytes behind the codes and lengths of its eight fields,  *)
(* and the rest of the 72 bytes is for the digits of the checksum.         *)
LEMMA HeaderBytes ==
    ASSUME NEW h \in Header, NEW k \in 1..8
    PROVE  Len(HeaderChunks(h)[k].bytes) = FieldLen(k - 1)
<1>1. HeaderChunks(h)[k] \in Sent BY HeaderChunksOK
<1>2. HeaderChunks(h)[k].code = k - 1
    <2>1. /\ HeaderChunks(h)[1].code = 0 /\ HeaderChunks(h)[2].code = 1
          /\ HeaderChunks(h)[3].code = 2 /\ HeaderChunks(h)[4].code = 3
          /\ HeaderChunks(h)[5].code = 4 /\ HeaderChunks(h)[6].code = 5
          /\ HeaderChunks(h)[7].code = 6 /\ HeaderChunks(h)[8].code = 7
        BY CodeNumbers DEF HeaderChunks, Chunk
    <2>2. k = 1 \/ k = 2 \/ k = 3 \/ k = 4 \/ k = 5 \/ k = 6 \/ k = 7 \/ k = 8 OBVIOUS
    <2> QED BY <2>1, <2>2
<1>3. k - 1 # FC.RESCODE /\ FieldLen(k - 1) > 0
    <2>1. k - 1 \in 0..7 OBVIOUS
    <2> QED BY <2>1, CodeNumbers, HeaderLengths
<1> QED BY <1>1, <1>2, <1>3 DEF Sent, Carried

(* tp3_generateframe writes nothing behind the bytes it has estimated.     *)
LEMMA FrameFits ==
    ASSUME NEW m \in Msgs
    PROVE  Written(GenerateFrame(m).chunks) <= GenerateFrame(m).room
<1> DEFINE n == Len(m.fields)
<1>1. m.header \in Header /\ n \in Nat /\ \A k \in 1..n : m.fields[k] \in Field
    BY LenProperties, ElementOfSeq DEF Msgs
<1>2. PICK hs \in [1..8 -> Sent] : hs = HeaderChunks(m.header) /\ Len(hs) = 8 /\ hs \in Seq(Sent)
    BY <1>1, HeaderChunksOK
<1>3. PICK fs \in [1..n -> Sent] : fs = FieldChunks(m) /\ Len(fs) = n /\ fs \in Seq(Sent)
    <2>1. \A k \in 1..n : FieldChunk(m.fields[k]) \in Sent BY <1>1, FieldChunkOK DEF Sent
    <2>2. FieldChunks(m) \in [1..n -> Sent] BY <2>1 DEF FieldChunks
    <2> HIDE DEF n
    <2> QED BY <1>1, <2>2, FunctionIsSeq
<1>4. PICK chunks : chunks = hs \o fs OBVIOUS
<1>5. PICK N \in Nat : N = 8 + n BY <1>1
<1>6. /\ chunks \in [1..N -> ChunkSet]
      /\ \A k \in 1..8 : chunks[k] = hs[k]
      /\ \A k \in 1..n : chunks[8 + k] = fs[k]
    <2>0. \A x, y \in Seq(Sent) :
             /\ x \o y \in Seq(Sent) /\ Len(x \o y) = Len(x) + Len(y)
             /\ \A k \in 1..Len(x) : (x \o y)[k] = x[k]
             /\ \A k \in 1..Len(y) : (x \o y)[Len(x) + k] = y[k]
        <3>1. ASSUME NEW x \in Seq(Sent), NEW y \in Seq(Sent)
              PROVE  /\ x \o y \in Seq(Sent) /\ Len(x \o y) = Len(x) + Len(y)
                     /\ \A k \in 1..Len(x) : (x \o y)[k] = x[k]
                     /\ \A k \in 1..Len(y) : (x \o y)[Len(x) + k] = y[k]
            <4>1. Len(x) \in Nat /\ Len(y) \in Nat BY LenProperties
            <4> QED BY <4>1, ConcatProperties
        <3> QED BY <3>1
    <2>7. /\ hs \o fs \in Seq(Sent) /\ Len(hs \o fs) = Len(hs) + Len(fs)
          /\ \A k \in 1..Len(hs) : (hs \o fs)[k] = hs[k]
          /\ \A k \in 1..Len(fs) : (hs \o fs)[Len(hs) + k] = fs[k]
        BY <1>2, <1>3, <2>0, Zenon
    <2>1. Len(chunks) = N /\ chunks \in Seq(Sent) BY <1>2, <1>3, <1>4, <1>5, <2>7
    <2>2. chunks \in [1..N -> Sent] BY <2>1, LenProperties
    <2>3. Sent \subseteq ChunkSet BY DEF Sent
    <2>4. chunks \in [1..N -> ChunkSet] BY <2>2, <2>3
    <2>5. \A k \in 1..8 : chunks[k] = hs[k] BY <1>2, <1>4, <2>7
    <2>6. \A k \in 1..n : chunks[8 + k] = fs[k] BY <1>2, <1>3, <1>4, <2>7
    <2> QED BY <2>4, <2>5, <2>6
<1>7. GenerateFrame(m).chunks = chunks /\ GenerateFrame(m).room = Estimate(m)
    BY <1>2, <1>3, <1>4 DEF GenerateFrame
<1>8. PICK ss \in [1..N -> Seq(Byte)] :
         ss = [i \in 1..N |-> Piece(chunks[i])] /\ Flat(chunks) = FlattenSeq(ss)
    BY <1>6, FlatOf
<1>9. \A i \in 1..N : Len(ss[i]) = 4 + Len(chunks[i].bytes)
    <2>1. \A i \in 1..N : chunks[i] \in ChunkSet /\ ss[i] = Piece(chunks[i])
        BY <1>6, <1>8, Zenon
    <2>2. \A c \in ChunkSet : Len(Piece(c)) = 4 + Len(c.bytes) BY PieceOf, Zenon
    <2> QED BY <2>1, <2>2, Zenon
<1>10. PICK s \in [0..N -> Nat] : Offsets(s, ss, N) BY OffsetsExist
<1>11. Len(Flat(chunks)) = s[N]
    <2>1. Joined(FlattenSeq(ss), ss, s, N, Byte) BY <1>10, FlattenAt
    <2>2. Len(FlattenSeq(ss)) = s[N] BY <2>1 DEF Joined
    <2> QED BY <1>8, <2>2
<1>12. s[8] = 70
    <2>1. \A k \in 1..8 : k \in 1..N /\ s[k] = s[k - 1] + (4 + FieldLen(k - 1))
        <3>1. \A k \in 1..8 : k \in 1..N BY <1>1, <1>5
        <3>2. \A k \in 1..8 : Len(chunks[k].bytes) = FieldLen(k - 1)
            <4>1. \A k \in 1..8 : Len(HeaderChunks(m.header)[k].bytes) = FieldLen(k - 1)
                BY <1>1, HeaderBytes
            <4> QED BY <1>2, <1>6, <4>1
        <3> QED BY <1>9, <1>10, <3>1, <3>2 DEF Offsets
    <2>2. /\ s[1] = s[0] + (4 + FieldLen(0)) /\ s[2] = s[1] + (4 + FieldLen(1))
          /\ s[3] = s[2] + (4 + FieldLen(2)) /\ s[4] = s[3] + (4 + FieldLen(3))
          /\ s[5] = s[4] + (4 + FieldLen(4)) /\ s[6] = s[5] + (4 + FieldLen(5))
          /\ s[7] = s[6] + (4 + FieldLen(6)) /\ s[8] = s[7] + (4 + FieldLen(7))
        <3>1. 1 - 1 = 0 /\ 2 - 1 = 1 /\ 3 - 1 = 2 /\ 4 - 1 = 3 /\ 5 - 1 = 4 /\ 6 - 1 = 5
              /\ 7 - 1 = 6 /\ 8 - 1 = 7
            OBVIOUS
        <3> QED BY <2>1, <3>1
    <2>3. s[0] = 0 BY <1>10 DEF Offsets
    <2> QED BY <2>2, <2>3, HeaderLengths, SMTT(40)
<1>13. PICK e \in [0..n -> Nat] : Estimates(e, m) /\ Estimate(m) = e[n] BY EstimateOf
<1> DEFINE S == {k \in Nat : k \in 0..n => s[8 + k] + 2 <= e[k]}
<1>14. 0 \in S
    <2>1. e[0] = 72 BY <1>13 DEF Estimates
    <2> QED BY <1>12, <2>1
<1>15. ASSUME NEW k \in Nat, k \in S PROVE k + 1 \in S
    <2>1. CASE k + 1 \in 0..n
        <3>1. /\ k \in 0..n /\ k + 1 \in 1..n /\ (k + 1) - 1 = k
              /\ 8 + (k + 1) \in 1..N /\ (8 + (k + 1)) - 1 = 8 + k /\ 8 + k \in 0..N
              /\ 8 + (k + 1) \in 0..N
            BY <1>1, <1>5, <2>1, SMTT(40)
        <3>2. PICK f \in Field : f = m.fields[k + 1] BY <1>1, <3>1
        <3>3. e[k + 1] = e[k] + f.length + 4 BY <1>13, <3>1, <3>2 DEF Estimates
        <3>4. s[8 + (k + 1)] = s[8 + k] + Len(ss[8 + (k + 1)]) BY <1>10, <3>1 DEF Offsets
        <3>5. Len(ss[8 + (k + 1)]) = 4 + Len(chunks[8 + (k + 1)].bytes) BY <1>9, <3>1
        <3>6. chunks[8 + (k + 1)] = FieldChunk(f) BY <1>3, <1>6, <3>1, <3>2 DEF FieldChunks
        <3>7. PICK l \in Nat : l = Len(FieldChunk(f).bytes) /\ l <= f.length /\ f.length \in Nat
            <4>1. FieldChunk(f).bytes \in Seq(Byte) BY FieldChunkOK DEF ChunkSet
            <4>2. f.length \in Nat BY DEF Field
            <4> QED BY <4>1, <4>2, FieldChunkOK, LenProperties
        <3>8. s[8 + k] + 2 <= e[k] /\ s[8 + k] \in Nat /\ e[k] \in Nat BY <1>15, <3>1
        <3>9. Len(chunks[8 + (k + 1)].bytes) = l BY <3>6, <3>7
        <3>10. PICK a, b, c, d \in Nat :
                  /\ a = s[8 + k] /\ b = s[8 + (k + 1)] /\ c = e[k] /\ d = e[k + 1]
            <4>1. s[8 + k] \in Nat /\ s[8 + (k + 1)] \in Nat BY <1>10, <3>1
            <4>2. e[k] \in Nat /\ e[k + 1] \in Nat BY <1>13, <2>1, <3>1
            <4> QED BY <4>1, <4>2
        <3>11. PICK g \in Nat : g = f.length /\ l <= g BY <3>7
        <3>12. b = a + (4 + l) /\ d = c + g + 4 /\ a + 2 <= c
            BY <3>3, <3>4, <3>5, <3>8, <3>9, <3>10, <3>11
        <3>13. b + 2 <= d
            <4>1. \A u, v, x, y, z, w \in Nat :
                     v = u + (4 + x) /\ w = y + z + 4 /\ u + 2 <= y /\ x <= z => v + 2 <= w
                OBVIOUS
            <4> QED BY <3>7, <3>10, <3>11, <3>12, <4>1, Zenon
        <3> QED BY <3>10, <3>13
    <2> QED BY <2>1
<1> HIDE DEF S
<1>16. Nat \subseteq S BY <1>14, <1>15, SetInduction
<1>17. s[8 + n] + 2 <= e[n]
    <2>1. n \in S /\ n \in 0..n BY <1>1, <1>16
    <2> QED BY <2>1 DEF S
<1> QED BY <1>5, <1>7, <1>11, <1>13, <1>17 DEF Written
=============================================================================
