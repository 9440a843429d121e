--------------------------- MODULE ReadBackProofs ---------------------------
(***************************************************************************)
(* Proofs that what one application puts into a message the other reads    *)
(* out of it: numbers, times and intervals come back out of their bytes, a *)
(* field out of its frame, the fields of a message in their order, and out *)
(* of them the lists of a GCG's reports and the rows of a history block.   *)
(***************************************************************************)
EXTENDS TransferProofs

-----------------------------------------------------------------------------
(* Numbers *)

LEMMA ReverseTwice ==
    ASSUME NEW b \in Seq(Byte), Len(b) = 4
    PROVE  Reverse(Reverse(b)) = b
<1>1. Reverse(b) \in Seq(Byte) /\ Len(Reverse(b)) = 4
      /\ \A k \in 1..4 : Reverse(b)[k] = b[4 - k + 1]
    <2>1. Reverse(b) \in Seq(Byte) /\ Len(Reverse(b)) = Len(b)
          /\ \A k \in 1..Len(b) : Reverse(b)[k] = b[Len(b) - k + 1]
        BY ReverseOf, Zenon
    <2> QED BY <2>1
<1>2. Reverse(Reverse(b)) \in Seq(Byte) /\ Len(Reverse(Reverse(b))) = 4
      /\ \A k \in 1..4 : Reverse(Reverse(b))[k] = Reverse(b)[4 - k + 1]
    BY <1>1, ReverseOf, SMTT(40)
<1>3. \A k \in 1..4 : 4 - k + 1 \in 1..4 /\ 4 - (4 - k + 1) + 1 = k OBVIOUS
<1>4. \A k \in 1..4 : Reverse(Reverse(b))[k] = b[k] BY <1>1, <1>2, <1>3
<1> QED BY <1>2, <1>4, SeqEqual

(* A number that fits comes back out of its bytes. *)
LEMMA ReadWritten ==
    ASSUME NEW w \in 1..4, NEW v \in Int, InWidth(v, w)
    PROVE  ReadNum(SetBytes(w, v)) = v
<1> DEFINE b == SetBytes(w, v)
<1>0. Place[1] = 1 /\ Place[2] = 256 /\ Place[3] = 65536 /\ Place[4] = 16777216 BY DEF Place
<1>1. b \in Seq(Byte) /\ Len(b) = w BY SetBytesOf
<1>2. \A i \in 1..w : b[i] = (v \div Place[w - i + 1]) % 256 BY DEF SetBytes
<1> HIDE DEF b
<1>3. CASE w = 1
    <2>1. v \in 0..255 BY <1>0, <1>3 DEF InWidth
    <2>2. b[1] = v % 256
        <3>1. 1 \in 1..w /\ w - 1 + 1 = 1 BY <1>3
        <3>2. v \div 1 = v OBVIOUS
        <3> QED BY <1>0, <1>2, <3>1, <3>2
    <2>3. ReadNum(b) = b[1] BY <1>0, <1>1, <1>3, <2>1, <2>2 DEF ReadNum
    <2> QED BY <2>1, <2>2, <2>3 DEF b
<1>4. CASE w = 2
    <2>1. v \in Nat /\ v <= 65535 BY <1>0, <1>4, SMT DEF InWidth
    <2>2. b[2] = v % 256 /\ b[1] = (v \div 256) % 256
        <3>1. 1 \in 1..w /\ 2 \in 1..w /\ w - 1 + 1 = 2 /\ w - 2 + 1 = 1 BY <1>4
        <3>2. v \div 1 = v OBVIOUS
        <3> QED BY <1>0, <1>2, <3>1, <3>2
    <2>3. ReadNum(b) = b[2] + 256 * b[1] BY <1>0, <1>1, <1>4, <2>1, <2>2, SMT DEF ReadNum
    <2>4. (v % 256) + 256 * ((v \div 256) % 256) = v BY <2>1, SMT
    <2> QED BY <2>2, <2>3, <2>4 DEF b
<1>5. CASE w = 3
    <2>1. v \in Nat /\ v <= 16777215 BY <1>0, <1>5, SMT DEF InWidth
    <2>2. b[3] = v % 256 /\ b[2] = (v \div 256) % 256 /\ b[1] = (v \div 65536) % 256
        <3>1. 1 \in 1..w /\ 2 \in 1..w /\ 3 \in 1..w /\ w - 1 + 1 = 3 /\ w - 2 + 1 = 2 /\ w - 3 + 1 = 1
            BY <1>5
        <3>2. v \div 1 = v OBVIOUS
        <3> QED BY <1>0, <1>2, <3>1, <3>2, SMT
    <2>3. ReadNum(b) = b[3] + 256 * b[2] + 65536 * b[1] BY <1>0, <1>1, <1>5, <2>1, <2>2, SMT DEF ReadNum
    <2>4. (v % 256) + 256 * ((v \div 256) % 256) + 65536 * ((v \div 65536) % 256) = v BY <2>1, SMT
    <2> QED BY <2>2, <2>3, <2>4, SMT DEF b
<1>6. CASE w = 4
    <2>1. v \in Int /\ v <= 2147483647 /\ -2147483648 <= v
        BY <1>0, <1>6, SMT DEF InWidth, IsInt, IntMax
    <2>2. /\ b[4] = v % 256 /\ b[3] = (v \div 256) % 256 /\ b[2] = (v \div 65536) % 256
          /\ b[1] = (v \div 16777216) % 256
        <3>1. /\ 1 \in 1..w /\ 2 \in 1..w /\ 3 \in 1..w /\ 4 \in 1..w
              /\ w - 1 + 1 = 4 /\ w - 2 + 1 = 3 /\ w - 3 + 1 = 2 /\ w - 4 + 1 = 1
            BY <1>6
        <3>2. v \div 1 = v OBVIOUS
        <3> QED BY <1>0, <1>2, <3>1, <3>2, SMT
    <2>3. ReadNum(b) = b[4] + 256 * b[3] + 65536 * b[2]
                       + 16777216 * (IF b[1] < 128 THEN b[1] ELSE b[1] - 256)
        BY <1>0, <1>1, <1>6, <2>2, SMTT(40) DEF ReadNum
    <2>4. v \div 16777216 \in -128..127 BY <2>1, SMT
    <2>5. (IF b[1] < 128 THEN b[1] ELSE b[1] - 256) = v \div 16777216 BY <2>2, <2>4, SMT
    <2>6. (v % 256) + 256 * ((v \div 256) % 256) + 65536 * ((v \div 65536) % 256)
            + 16777216 * (v \div 16777216) = v
        BY <2>1, SMT
    <2> QED BY <2>2, <2>3, <2>5, <2>6, SMT DEF b
<1> QED BY <1>3, <1>4, <1>5, <1>6

(* And an int out of the four bytes of a union. *)
LEMMA WordRead ==
    ASSUME NEW v \in Int, IsInt(v)
    PROVE  IntOf(Word(v)) = v
<1>1. SetBytes(4, v) \in Seq(Byte) /\ Len(SetBytes(4, v)) = 4 BY SetBytesOf
<1>2. Reverse(Reverse(SetBytes(4, v))) = SetBytes(4, v) BY <1>1, ReverseTwice
<1>3. 4 \in 1..4 /\ InWidth(v, 4) BY DEF InWidth
<1>4. ReadNum(SetBytes(4, v)) = v BY <1>3, ReadWritten
<1> QED BY <1>2, <1>4 DEF IntOf, Word

(* A number of three bytes or fewer is an int. *)
LEMMA WidthIsInt ==
    ASSUME NEW w \in 1..4, NEW v \in Int, InWidth(v, w)
    PROVE  IsInt(v)
<1>1. Place[2] = 256 /\ Place[3] = 65536 /\ Place[4] = 16777216 BY DEF Place
<1>2. w = 4 \/ w = 1 \/ w = 2 \/ w = 3 OBVIOUS
<1>3. w # 4 => v >= 0 /\ v <= 16777215 BY <1>1, <1>2, SMT DEF InWidth
<1>4. CASE w # 4 BY <1>1, <1>3, <1>4, SMT DEF IsInt, IntMax
<1>5. CASE w = 4 BY <1>5 DEF InWidth
<1> QED BY <1>4, <1>5

-----------------------------------------------------------------------------
(* Times and intervals *)

(* Where the elements of two sequences are in their concatenation. *)
Spliced(t, u, v, X) ==
    /\ t \in Seq(X) /\ Len(t) = Len(u) + Len(v)
    /\ \A i \in 1..Len(u) : t[i] = u[i]
    /\ \A j \in 1..Len(v) : t[Len(u) + j] = v[j]

LEMMA ConcatAt ==
    ASSUME NEW X, NEW u \in Seq(X), NEW v \in Seq(X)
    PROVE  Spliced(u \o v, u, v, X)
<1>1. Len(u) \in Nat /\ Len(v) \in Nat BY LenProperties
<1>2. /\ u \o v \in Seq(X) /\ Len(u \o v) = Len(u) + Len(v)
      /\ \A i \in 1..Len(u) + Len(v) :
            (u \o v)[i] = IF i <= Len(u) THEN u[i] ELSE v[i - Len(u)]
    BY ConcatProperties, Zenon
<1>3. ASSUME NEW i \in 1..Len(u) PROVE (u \o v)[i] = u[i]
    <2>1. i \in 1..Len(u) + Len(v) /\ i <= Len(u) BY <1>1
    <2> QED BY <1>2, <2>1
<1>4. ASSUME NEW j \in 1..Len(v) PROVE (u \o v)[Len(u) + j] = v[j]
    <2>1. PICK k \in 1..Len(u) + Len(v) : k = Len(u) + j /\ ~(k <= Len(u)) /\ k - Len(u) = j BY <1>1
    <2> QED BY <1>2, <2>1
<1> QED BY <1>2, <1>3, <1>4 DEF Spliced

LEMMA BcdRead ==
    ASSUME NEW n \in 0..99
    PROVE  Decimal(Bcd(n)) = n
<1>1. PICK q \in 0..9, r \in 0..9 : q = n \div 10 /\ r = n % 10 /\ n = 10 * q + r OBVIOUS
<1>2. (16 * q + r) \div 16 = q /\ (16 * q + r) % 16 = r BY <1>1
<1> QED BY <1>1, <1>2 DEF Decimal, Bcd

LEMMA TimeRead ==
    ASSUME NEW t \in Times
    PROVE  GetEpoch(SetTimestamp(t)) = t
<1> DEFINE top == << Bcd(t[1] \div 100), Bcd(t[1] % 100) >>
           rest == [k \in 1..5 |-> Bcd(t[k + 1])]
           b == SetTimestamp(t)
<1>1. t \in [1..6 -> Nat] /\ t[1] <= 9999 /\ \A k \in 1..5 : t[k + 1] \in 0..99
    <2>1. \A k \in 1..5 : k + 1 \in 1..6 /\ k + 1 \in 2..6 OBVIOUS
    <2> QED BY <2>1 DEF Times
<1>2. t[1] \in Nat /\ t[1] \div 100 \in 0..99 /\ t[1] % 100 \in 0..99 BY <1>1
<1>3. top \in Seq(Int) /\ Len(top) = 2 /\ top[1] = Bcd(t[1] \div 100) /\ top[2] = Bcd(t[1] % 100)
    BY <1>2, SMTT(30) DEF Bcd
<1>4. rest \in Seq(Int) /\ Len(rest) = 5 /\ \A k \in 1..5 : rest[k] = Bcd(t[k + 1])
    <2>1. rest \in [1..5 -> Int] BY <1>1 DEF Bcd
    <2> QED BY <2>1, LenProperties, IsASeq
<1>5. b = top \o rest BY DEF SetTimestamp
<1> HIDE DEF top, rest, b
<1>6. b[1] = top[1] /\ b[2] = top[2] /\ \A k \in 1..5 : b[2 + k] = rest[k]
    <2>0. Spliced(b, top, rest, Int) BY <1>3, <1>4, <1>5, ConcatAt
    <2>1. /\ \A i \in 1..Len(top) : b[i] = top[i]
          /\ \A j \in 1..Len(rest) : b[Len(top) + j] = rest[j]
        BY <2>0 DEF Spliced
    <2>2. 1 \in 1..2 /\ 2 \in 1..2 OBVIOUS
    <2> QED BY <1>3, <1>4, <2>1, <2>2, Zenon
<1>7. Decimal(b[1]) = t[1] \div 100 /\ Decimal(b[2]) = t[1] % 100
      /\ \A k \in 1..5 : Decimal(b[2 + k]) = t[k + 1]
    <2>1. Decimal(Bcd(t[1] \div 100)) = t[1] \div 100 /\ Decimal(Bcd(t[1] % 100)) = t[1] % 100
        BY <1>2, BcdRead, Zenon
    <2>2. ASSUME NEW k \in 1..5 PROVE Decimal(Bcd(t[k + 1])) = t[k + 1]
        <3>1. PICK x \in 0..99 : x = t[k + 1] BY <1>1
        <3> QED BY <3>1, BcdRead
    <2>3. Decimal(b[1]) = Decimal(Bcd(t[1] \div 100)) /\ Decimal(b[2]) = Decimal(Bcd(t[1] % 100))
        BY <1>3, <1>6, Zenon
    <2>4. \A k \in 1..5 : Decimal(b[2 + k]) = Decimal(Bcd(t[k + 1])) BY <1>4, <1>6, Zenon
    <2> QED BY <2>1, <2>2, <2>3, <2>4, Zenon
<1> DEFINE first == << 100 * Decimal(b[1]) + Decimal(b[2]) >>
           others == [k \in 1..5 |-> Decimal(b[2 + k])]
<1>8. first \in Seq(Nat) /\ Len(first) = 1 /\ first[1] = t[1] BY <1>2, <1>7
<1>9. others \in Seq(Nat) /\ Len(others) = 5 /\ \A k \in 1..5 : others[k] = t[k + 1]
    <2>1. others \in [1..5 -> Nat] BY <1>1, <1>7
    <2> QED BY <1>7, <2>1, LenProperties, IsASeq
<1>10. GetEpoch(b) = first \o others
    <2>1. \A k \in 1..5 : k + 2 = 2 + k OBVIOUS
    <2> QED BY <2>1 DEF GetEpoch
<1> HIDE DEF first, others
<1>11. /\ first \o others \in Seq(Nat) /\ Len(first \o others) = 6
       /\ \A k \in 1..6 : (first \o others)[k] = t[k]
    <2>0. Spliced(first \o others, first, others, Nat) BY <1>8, <1>9, ConcatAt
    <2>1. /\ first \o others \in Seq(Nat) /\ Len(first \o others) = Len(first) + Len(others)
          /\ \A i \in 1..Len(first) : (first \o others)[i] = first[i]
          /\ \A j \in 1..Len(others) : (first \o others)[Len(first) + j] = others[j]
        BY <2>0 DEF Spliced
    <2>2. (first \o others)[1] = t[1]
        <3>1. 1 \in 1..1 OBVIOUS
        <3> QED BY <1>8, <2>1, <3>1, Zenon
    <2>3. \A j \in 1..5 : (first \o others)[1 + j] = t[j + 1] BY <1>8, <1>9, <2>1, Zenon
    <2>4. \A k \in 1..6 : k = 1 \/ \E j \in 1..5 : k = 1 + j /\ k = j + 1
        <3>1. \A k \in 1..6 : k = 1 \/ (k - 1 \in 1..5 /\ k = 1 + (k - 1) /\ k = (k - 1) + 1) OBVIOUS
        <3> QED BY <3>1, Zenon
    <2>5. ASSUME NEW k \in 1..6 PROVE (first \o others)[k] = t[k] BY <2>2, <2>3, <2>4, Zenon
    <2>6. Len(first \o others) = 6
        <3>1. 1 + 5 = 6 OBVIOUS
        <3> QED BY <1>8, <1>9, <2>1, <3>1, Zenon
    <2> QED BY <2>1, <2>5, <2>6, Zenon
<1>12. t \in Seq(Nat) /\ Len(t) = 6
    <2>1. 6 \in Nat OBVIOUS
    <2>2. t \in [1..6 -> Nat] BY <1>1
    <2> QED BY <2>1, <2>2, FunctionIsSeq
<1> QED BY <1>10, <1>11, <1>12, SeqEqual DEF b

LEMMA IntervalRead ==
    ASSUME NEW n \in Intervals
    PROVE  GetInterval(IntervalDigits(n)) = n
<1> DEFINE h == n \div 3600
           m == (n - h * 3600) \div 60
           s == n % 60
<1>1. n \in Nat /\ h \in Nat /\ m \in Nat /\ s \in Nat /\ n = h * 3600 + m * 60 + s /\ n % 10 = s % 10
    BY SMT DEF Intervals
<1>2. IntervalDigits(n) = << 48 + (h \div 10), 48 + (h % 10), 48 + (m \div 10), 48 + (m % 10),
                             48 + (s \div 10), 48 + (n % 10) >>
    BY SMT DEF IntervalDigits
<1> HIDE DEF h, m, s
<1>3. \A x \in Nat : x \div 10 \in Int /\ x % 10 \in Int /\ 10 * (x \div 10) + (x % 10) = x OBVIOUS
<1>4. PICK a, b, c, d, e, f \in Int :
        /\ a = h \div 10 /\ b = h % 10 /\ c = m \div 10 /\ d = m % 10 /\ e = s \div 10 /\ f = n % 10
        /\ 10 * a + b = h /\ 10 * c + d = m /\ 10 * e + f = s
    BY <1>1, <1>3
<1>5. IntervalDigits(n) = << 48 + a, 48 + b, 48 + c, 48 + d, 48 + e, 48 + f >> BY <1>2, <1>4
<1>6. GetInterval(IntervalDigits(n)) = a * 36000 + b * 3600 + c * 600 + d * 60 + e * 10 + f
    BY <1>4, <1>5, SMT DEF GetInterval
<1>7. a * 36000 + b * 3600 + c * 600 + d * 60 + e * 10 + f = h * 3600 + m * 60 + s BY <1>4, SMT
<1> QED BY <1>1, <1>6, <1>7
-----------------------------------------------------------------------------
(* A field that is put into a message and comes out of a frame *)

Words(ints) == [i \in 1..Len(ints) |-> Word(ints[i])]
Plain(code, bytes) == [code |-> code, length |-> Len(bytes), data |-> Kept(bytes)]
Numeric(code, v) == [code |-> code, length |-> FieldLen(code), data |-> Word(v)]
Added(m, f) == AddField(m, f.code, f.length, f.data)

(* The field an entry becomes. *)
FieldFor(e) ==
    CASE e.how = "num" -> Numeric(e.code, e.val[1])
      [] e.how = "bytes" -> Plain(e.code, e.val)
      [] e.how = "array" -> Plain(e.code, FlattenSeq(Words(e.val)))
      [] e.how = "time" -> [code |-> e.code, length |-> FieldLen(e.code),
                            data |-> Kept(SubSeq(SetTimestamp(e.val), 1, FieldLen(e.code)))]
      [] e.how = "interval" -> [code |-> e.code, length |-> FieldLen(e.code),
                                data |-> Kept(SubSeq(IntervalDigits(e.val[1]), 1, FieldLen(e.code)))]
      [] e.how = "rescode" -> [code |-> FC.RESCODE, length |-> 1, data |-> Word(e.val[1])]

LEMMA HowOf ==
    ASSUME NEW e \in Entries
    PROVE  e.how \in {"num", "bytes", "array", "time", "interval", "rescode"}
BY DEF Entries

LEMMA CodeOf ==
    ASSUME NEW e \in Entries
    PROVE  FieldFor(e).code = e.code
<1>1. e.how = "rescode" => e.code = FC.RESCODE BY DEF Entries
<1>2. CASE e.how = "num" BY <1>2 DEF FieldFor, Numeric
<1>3. CASE e.how = "bytes" BY <1>3 DEF FieldFor, Plain
<1>4. CASE e.how = "array" BY <1>4 DEF FieldFor, Plain
<1>5. CASE e.how = "time" BY <1>5 DEF FieldFor
<1>6. CASE e.how = "interval" BY <1>6 DEF FieldFor
<1>7. CASE e.how = "rescode" BY <1>1, <1>7 DEF FieldFor
<1> QED BY HowOf, <1>2, <1>3, <1>4, <1>5, <1>6, <1>7

LEMMA PutAdds ==
    ASSUME NEW m, NEW e \in Entries
    PROVE  Put(m, e) = Added(m, FieldFor(e))
<1>2. CASE e.how = "num" BY <1>2 DEF FieldFor, Numeric, Put, Added, AddNum
<1>3. CASE e.how = "bytes" BY <1>3 DEF FieldFor, Plain, Put, Added, AddNBytes
<1>4. CASE e.how = "array"
    <2>1. Put(m, e) = AddNBytes(m, e.code, FlattenSeq(Words(e.val))) BY <1>4 DEF Put, AddArray, Words
    <2>2. FieldFor(e) = Plain(e.code, FlattenSeq(Words(e.val))) BY <1>4 DEF FieldFor
    <2> QED BY <2>1, <2>2 DEF Plain, Added, AddNBytes
<1>5. CASE e.how = "time" BY <1>5 DEF FieldFor, Put, Added, AddBytes
<1>6. CASE e.how = "interval" BY <1>6 DEF FieldFor, Put, Added, AddBytes
<1>7. CASE e.how = "rescode" BY <1>7 DEF FieldFor, Put, Added, SetResCode
<1> QED BY HowOf, <1>2, <1>3, <1>4, <1>5, <1>6, <1>7

LEMMA AddedFields ==
    ASSUME NEW m, NEW f, f.code \in Range(FC), FC.RESCODE <= f.code,
           f = [code |-> f.code, length |-> f.length, data |-> f.data]
    PROVE  Added(m, f) = [header |-> HeaderWith(m.header, f.code, f.data),
                          fields |-> Append(m.fields, f)]
<1>1. ~(f.code < FC.RESCODE) BY CodeNumbers, LengthOfCode
<1> QED BY <1>1, Zenon DEF Added, AddField

(* Every field that is put is sound. *)
LEMMA FieldForOK ==
    ASSUME NEW e \in Entries
    PROVE  FieldFor(e) \in Field
<1> DEFINE f == FieldFor(e)
<1>1. f = [code |-> f.code, length |-> f.length, data |-> f.data]
    <2>1. CASE e.how = "num" BY <2>1 DEF FieldFor, Numeric
    <2>2. CASE e.how = "bytes" BY <2>2 DEF FieldFor, Plain
    <2>3. CASE e.how = "array" BY <2>3 DEF FieldFor, Plain
    <2>4. CASE e.how = "time" BY <2>4 DEF FieldFor
    <2>5. CASE e.how = "interval" BY <2>5 DEF FieldFor
    <2>6. CASE e.how = "rescode" BY <2>6 DEF FieldFor
    <2> QED BY HowOf, <2>1, <2>2, <2>3, <2>4, <2>5, <2>6
<1>2. f.code = e.code BY CodeOf
<1>3. e.code \in Range(FC) /\ FC.RESCODE <= e.code
    <2>1. e.code \in FieldCodes \/ e.code = FC.RESCODE BY DEF Entries, CodesOfLength
    <2> QED BY <2>1, CodeNumbers, LengthOfCode DEF FieldCodes
<1> HIDE DEF f
<1>4. Put(InitMsg, e) \in Msgs BY InitMsgOK, PutOK
<1>5. Put(InitMsg, e) = [header |-> HeaderWith(InitMsg.header, f.code, f.data),
                         fields |-> Append(InitMsg.fields, f)]
    <2>1. Put(InitMsg, e) = Added(InitMsg, f) BY PutAdds DEF f
    <2> QED BY <1>1, <1>2, <1>3, <2>1, AddedFields
<1>6. Append(InitMsg.fields, f) = <<f>> BY DEF InitMsg
<1>7. <<f>> \in Seq(Field) BY <1>4, <1>5, <1>6 DEF Msgs
<1> QED BY <1>7, ElementOfSeq DEF f

(* The field a chunk becomes. *)
Received(c) ==
    LET n == FieldLen(c.code)
    IN  IF n > 0 /\ c.length < FDATA_LIMIT THEN Numeric(c.code, ReadNum(c.bytes))
        ELSE IF n >= 0 THEN Plain(c.code, c.bytes)
        ELSE Plain(c.code, FlattenSeq(Words(Items(0 - n, c.bytes))))

LEMMA ReceivedCode ==
    ASSUME NEW c
    PROVE  /\ Received(c).code = c.code
           /\ Received(c) = [code |-> Received(c).code, length |-> Received(c).length,
                             data |-> Received(c).data]
BY DEF Received, Numeric, Plain

LEMMA ChunkAdds ==
    ASSUME NEW m, NEW c \in Sent
    PROVE  AddChunk(m, c) = Added(m, Received(c))
<1>1. FieldLen(c.code) \in Int /\ c.length \in Nat BY LengthOfCode DEF Sent, ChunkSet, Len16
<1>2. CASE FieldLen(c.code) > 0 /\ c.length < FDATA_LIMIT
    BY <1>1, <1>2, AddChunkCases DEF Received, Numeric, Added, AddNum
<1>3. CASE FieldLen(c.code) < 0
    <2>1. Received(c) = Plain(c.code, FlattenSeq(Words(Items(0 - FieldLen(c.code), c.bytes))))
        BY <1>1, <1>3 DEF Received
    <2>2. AddChunk(m, c) = AddArray(m, c.code, Items(0 - FieldLen(c.code), c.bytes))
        BY <1>1, <1>3, AddChunkCases
    <2> QED BY <2>1, <2>2 DEF AddArray, AddNBytes, Words, Plain, Added
<1>4. CASE FieldLen(c.code) = 0 \/ (FieldLen(c.code) > 0 /\ c.length >= FDATA_LIMIT)
    <2>1. Received(c) = Plain(c.code, c.bytes) BY <1>1, <1>4 DEF Received, FDATA_LIMIT
    <2>2. AddChunk(m, c) = AddNBytes(m, c.code, c.bytes) BY <1>1, <1>4, AddChunkCases
    <2> QED BY <2>1, <2>2 DEF AddNBytes, Plain, Added
<1> QED BY <1>1, <1>2, <1>3, <1>4 DEF FDATA_LIMIT

(* A field whose length is that of its frame's. *)
LEMMA ChunkOf ==
    ASSUME NEW f \in Field, FieldLen(f.code) >= 0
    PROVE  FieldChunk(f) = [code |-> f.code, length |-> f.length,
                            bytes |-> FieldBytes(f, FieldLen(f.code), f.length)]
<1>1. f.length \in Nat /\ f.length <= MaxLength BY DEF Field, Sound
<1>2. f.length % (MaxLength + 1) = f.length BY <1>1, ShortLength
<1>3. FieldLen(f.code) \in Int BY LengthOfCode DEF Field
<1> QED BY <1>2, <1>3 DEF FieldChunk

LEMMA WordWhole ==
    ASSUME NEW v \in Int
    PROVE  SubSeq(Word(v), 1, 4) = Word(v)
BY WordOf, SubSeqFull, Zenon

(* A number of one to three bytes, and a response code of one. *)
LEMMA NumBack ==
    ASSUME NEW f \in Field, NEW v \in Int, FieldLen(f.code) \in 1..3,
           f = Numeric(f.code, v), InWidth(v, FieldLen(f.code))
    PROVE  Received(FieldChunk(f)) = f
<1>1. PICK n \in 1..3 : n = FieldLen(f.code) OBVIOUS
<1>2. f.length = n /\ f.data = Word(v) BY <1>1 DEF Numeric
<1>3. IsInt(v) BY <1>1, WidthIsInt
<1>4. IntOf(SubSeq(f.data, 1, 4)) = v BY <1>2, <1>3, WordWhole, WordRead
<1>5. SetBytes(n, v) \in Seq(Byte) /\ Len(SetBytes(n, v)) = n
    <2>1. n \in 1..4 OBVIOUS
    <2> QED BY <2>1, SetBytesOf
<1>6. FieldBytes(f, n, n) = SetBytes(n, v)
    <2>1. FieldBytes(f, n, n) = SubSeq(SetBytes(n, IntOf(SubSeq(f.data, 1, 4))), 1, n)
        BY <1>1 DEF FieldBytes
    <2>2. SubSeq(SetBytes(n, v), 1, n) = SetBytes(n, v) BY <1>5, SubSeqFull
    <2> QED BY <1>4, <2>1, <2>2
<1>7. FieldChunk(f) = [code |-> f.code, length |-> n, bytes |-> SetBytes(n, v)]
    BY <1>1, <1>2, <1>6, ChunkOf
<1>8. ReadNum(SetBytes(n, v)) = v BY <1>1, ReadWritten
<1>9. n > 0 /\ n < FDATA_LIMIT BY DEF FDATA_LIMIT
<1> QED BY <1>1, <1>7, <1>8, <1>9 DEF Received

(* What a field keeps begins with the bytes it was given. *)
LEMMA KeptAt ==
    ASSUME NEW b \in Seq(Byte), NEW k \in 1..Len(b)
    PROVE  Kept(b)[k] = b[k]
<1>1. Len(b) \in Nat BY LenProperties
<1>2. CASE Len(b) > FDATA_LIMIT BY <1>2 DEF Kept
<1>3. CASE ~(Len(b) > FDATA_LIMIT)
    <2>1. k \in 1..4 BY <1>1, <1>3 DEF FDATA_LIMIT
    <2> QED BY <1>3, <2>1 DEF Kept
<1> QED BY <1>2, <1>3

(* A field that is read as bytes gives the bytes it was made of. *)
LEMMA PlainRead ==
    ASSUME NEW b \in Seq(Byte)
    PROVE  SubSeq(Kept(b), 1, Len(b)) = b /\ (Len(b) > 4 => Kept(b) = b)
<1>1. Len(b) \in Nat /\ Kept(b) \in Seq(Byte) BY LenProperties, KeptOf
<1>2. Len(b) > 4 => Kept(b) = b BY DEF Kept, FDATA_LIMIT
<1>3. PICK n \in Nat : n = Len(b) BY <1>1
<1>4. n <= Len(Kept(b))
    <2>1. Len(Kept(b)) = IF Len(b) > FDATA_LIMIT THEN Len(b) ELSE 4 BY KeptOf
    <2> QED BY <1>3, <2>1 DEF FDATA_LIMIT
<1>5. 1 \in Nat \ {0} /\ 1 <= n + 1 /\ (n - 1) + 1 = n OBVIOUS
<1>6. PICK q \in Seq(Byte) : /\ q = SubSeq(Kept(b), 1, n) /\ Len(q) = n
                              /\ \A k \in 1..n : q[k] = Kept(b)[1 + k - 1]
    <2>1. PICK t \in Seq(Byte) : t = Kept(b) /\ n <= Len(t) BY <1>1, <1>4
    <2>2. PICK q : q = SubSeq(t, 1, n) OBVIOUS
    <2>3. q \in Seq(Byte) /\ Len(q) = (n - 1) + 1 /\ \A k \in 1..((n - 1) + 1) : q[k] = t[1 + k - 1]
        BY <1>5, <2>1, <2>2, SubSeqOf
    <2> QED BY <1>5, <2>1, <2>2, <2>3
<1>7. ASSUME NEW k \in 1..n PROVE q[k] = b[k]
    <2>1. 1 + k - 1 = k OBVIOUS
    <2> QED BY <1>3, <1>6, <2>1, KeptAt
<1>8. q = b BY <1>3, <1>6, <1>7, SeqEqual
<1> QED BY <1>2, <1>3, <1>6, <1>8

(* Bytes that are kept as they are. *)
LEMMA BytesBack ==
    ASSUME NEW f \in Field, NEW b \in Seq(Byte), f = Plain(f.code, b),
           FieldLen(f.code) = 0 \/ FieldLen(f.code) > FDATA_LIMIT
    PROVE  Received(FieldChunk(f)) = f
<1>1. PICK n \in Nat : n = FieldLen(f.code) /\ n \notin 1..4
    <2>1. FieldLen(f.code) \in Int BY LengthOfCode, SMTT(40) DEF Field
    <2> QED BY <2>1 DEF FDATA_LIMIT
<1>2. Len(b) \in Nat /\ f.length = Len(b) /\ f.data = Kept(b) BY LenProperties DEF Plain
<1>3. n > 4 => Len(b) = n
    <2>1. f.code = FC.RESCODE => n <= 3 BY <1>1, CodeNumbers, HeaderLengths, FieldsAssumption
    <2> QED BY <1>1, <1>2, <2>1 DEF Field, Sound
<1>5. SubSeq(f.data, 1, Len(b)) = b BY <1>2, PlainRead
<1>6. FieldChunk(f) = [code |-> f.code, length |-> Len(b), bytes |-> b]
    <2>1. FieldBytes(f, n, Len(b)) = SubSeq(f.data, 1, Len(b)) BY <1>1 DEF FieldBytes
    <2> QED BY <1>1, <1>2, <1>5, <2>1, ChunkOf
<1>7. n > 0 => ~(Len(b) < FDATA_LIMIT) BY <1>1, <1>2, <1>3 DEF FDATA_LIMIT
<1> QED BY <1>1, <1>6, <1>7 DEF Received

-----------------------------------------------------------------------------
(* Arrays *)

(* The pieces of one length that a sequence of bytes is made of.            *)
LEMMA PieceAt ==
    ASSUME NEW m \in Nat, NEW ss \in [1..m -> Seq(Byte)], NEW w \in 1..4, NEW t \in Seq(Byte),
           AllOfLength(ss, m, w), EveryOther(t, ss, m, w), m * w <= Len(t), NEW i \in 1..m
    PROVE  SubSeq(t, w * (i - 1) + 1, w * i) = ss[i]
<1>1. Len(t) \in Nat /\ ss[i] \in Seq(Byte) /\ Len(ss[i]) = w BY LenProperties DEF AllOfLength
<1>2. w * i <= Len(t) /\ w * (i - 1) + 1 \in Nat \ {0} /\ w * i \in Nat
      /\ w * (i - 1) + 1 <= w * i + 1 /\ (w * i - (w * (i - 1) + 1)) + 1 = w
    <2>1. w = 1 \/ w = 2 \/ w = 3 \/ w = 4 OBVIOUS
    <2>2. CASE w = 1 BY <1>1, <2>2
    <2>3. CASE w = 2 BY <1>1, <2>3
    <2>4. CASE w = 3 BY <1>1, <2>4
    <2>5. CASE w = 4 BY <1>1, <2>5
    <2> QED BY <2>1, <2>2, <2>3, <2>4, <2>5
<1>3. PICK a \in Nat \ {0}, b \in Nat : a = w * (i - 1) + 1 /\ b = w * i /\ (b - a) + 1 = w
                                        /\ b <= Len(t) /\ a <= b + 1
    BY <1>2
<1>4. /\ SubSeq(t, a, b) \in Seq(Byte) /\ Len(SubSeq(t, a, b)) = w
      /\ \A k \in 1..w : SubSeq(t, a, b)[k] = t[a + k - 1]
    <2>1. /\ SubSeq(t, a, b) \in Seq(Byte) /\ Len(SubSeq(t, a, b)) = (b - a) + 1
          /\ \A k \in 1..((b - a) + 1) : SubSeq(t, a, b)[k] = t[a + k - 1]
        BY <1>3, SubSeqOf
    <2> QED BY <1>3, <2>1
<1>5. ASSUME NEW k \in 1..w PROVE t[a + k - 1] = ss[i][k]
    <2>1. a + k - 1 = (i - 1) * w + k
        <3>1. w * (i - 1) = (i - 1) * w OBVIOUS
        <3>2. PICK z \in Int : z = w * (i - 1) OBVIOUS
        <3>3. z = (i - 1) * w /\ a = z + 1 BY <1>3, <3>1, <3>2
        <3>4. (z + 1) + k - 1 = z + k OBVIOUS
        <3> QED BY <3>3, <3>4
    <2>2. t[(i - 1) * w + k] = ss[i][k] BY DEF EveryOther
    <2> QED BY <2>1, <2>2
<1>6. SubSeq(t, a, b) = ss[i] BY <1>1, <1>4, <1>5, SeqEqual
<1> QED BY <1>3, <1>6

LEMMA WordsOf ==
    ASSUME NEW ints \in Seq(Int)
    PROVE  /\ Len(ints) \in Nat /\ Words(ints) \in [1..Len(ints) -> Seq(Byte)]
           /\ AllOfLength(Words(ints), Len(ints), 4)
           /\ FlattenSeq(Words(ints)) \in Seq(Byte) /\ Len(FlattenSeq(Words(ints))) = Len(ints) * 4
           /\ EveryOther(FlattenSeq(Words(ints)), Words(ints), Len(ints), 4)
<1>1. Len(ints) \in Nat /\ \A i \in 1..Len(ints) : ints[i] \in Int BY LenProperties, ElementOfSeq
<1>2. PICK k, ss : k \in Nat /\ k = Len(ints) /\ ss = Words(ints) BY <1>1
<1>3. ss \in [1..k -> Seq(Byte)] /\ AllOfLength(ss, k, 4)
    BY <1>1, <1>2, WordOf DEF Words, AllOfLength
<1>4. PICK w \in Nat : w = 4 OBVIOUS
<1>5. k \in Nat /\ AllOfLength(ss, k, w) BY <1>2, <1>3, <1>4
<1>6. FlattenSeq(ss) \in Seq(Byte) /\ Len(FlattenSeq(ss)) = k * w
      /\ EveryOther(FlattenSeq(ss), ss, k, w)
    BY <1>3, <1>5, FlattenEven, Zenon
<1> QED BY <1>2, <1>3, <1>4, <1>6

LEMMA ItemsBack ==
    ASSUME NEW ints \in Seq(Int), NEW w \in 1..4, NEW data \in Seq(Byte), NEW length \in Nat,
           \A i \in 1..Len(ints) : InWidth(ints[i], w),
           Len(ints) * 4 <= Len(data), length = Len(ints) * w,
           EveryOther(data, Words(ints), Len(ints), 4)
    PROVE  /\ Items(w, CopyNByte(data, w, length)) = ints
           /\ CopyNByte(data, w, length) \in Seq(Byte) /\ Len(CopyNByte(data, w, length)) = length
<1> DEFINE n == Len(ints)
           ss == [i \in 1..n |-> SetBytes(w, ints[i])]
           flat == FlattenSeq(ss)
<1>1. n \in Nat /\ \A i \in 1..n : ints[i] \in Int BY LenProperties, ElementOfSeq
<1>2. length \div w = n
    <2>1. PICK k \in Nat : k = n BY <1>1
    <2>2. w = 1 \/ w = 2 \/ w = 3 \/ w = 4 OBVIOUS
    <2> HIDE DEF n
    <2>3. (k * w) \div w = k BY <2>2
    <2> QED BY <2>1, <2>3 DEF n
<1>3. ASSUME NEW i \in 1..n
      PROVE  SetBytes(w, IntOf(SubSeq(data, 4 * i - 3, 4 * i))) = SetBytes(w, ints[i])
    <2>1. Words(ints) \in [1..n -> Seq(Byte)] /\ AllOfLength(Words(ints), n, 4) BY WordsOf
    <2>2. 4 \in 1..4 OBVIOUS
    <2>3. SubSeq(data, 4 * (i - 1) + 1, 4 * i) = Words(ints)[i] BY <1>1, <2>1, <2>2, PieceAt
    <2>4. 4 * (i - 1) + 1 = 4 * i - 3 BY <1>1
    <2>5. Words(ints)[i] = Word(ints[i]) BY DEF Words
    <2>6. IntOf(Word(ints[i])) = ints[i] BY <1>1, WidthIsInt, WordRead
    <2> QED BY <2>3, <2>4, <2>5, <2>6
<1>4. CopyNByte(data, w, length) = flat
    <2>1. CopyNByte(data, w, length)
            = FlattenSeq([i \in 1..n |-> SetBytes(w, IntOf(SubSeq(data, 4 * i - 3, 4 * i)))])
        BY <1>2 DEF CopyNByte
    <2>2. [i \in 1..n |-> SetBytes(w, IntOf(SubSeq(data, 4 * i - 3, 4 * i)))] = ss BY <1>3
    <2> QED BY <2>1, <2>2
<1>5. ss \in [1..n -> Seq(Byte)] /\ AllOfLength(ss, n, w) BY <1>1, SetBytesOf DEF AllOfLength
<1>6. \A i \in 1..n : ss[i] = SetBytes(w, ints[i]) OBVIOUS
<1> HIDE DEF ss
<1>7. flat \in Seq(Byte) /\ Len(flat) = n * w /\ EveryOther(flat, ss, n, w)
    <2>1. w \in Nat OBVIOUS
    <2> QED BY <1>1, <1>5, <2>1, FlattenEven
<1> HIDE DEF flat
<1>8. ASSUME NEW i \in 1..n PROVE ReadNum(SubSeq(flat, w * (i - 1) + 1, w * i)) = ints[i]
    <2>1. SubSeq(flat, w * (i - 1) + 1, w * i) = SetBytes(w, ints[i])
        <3>1. n * w <= Len(flat)
            <4>1. PICK k \in Int : k = n * w BY <1>1
            <4> QED BY <1>7, <4>1
        <3>2. SubSeq(flat, w * (i - 1) + 1, w * i) = ss[i] BY <1>1, <1>5, <1>7, <3>1, PieceAt
        <3> QED BY <1>6, <3>2
    <2> QED BY <1>1, <2>1, ReadWritten
<1>9. Items(w, flat) = ints
    <2>1. Len(flat) \div w = n BY <1>2, <1>7
    <2>2. Items(w, flat) = [i \in 1..n |-> ints[i]] BY <1>8, <2>1 DEF Items
    <2>3. ints = [i \in 1..n |-> ints[i]] BY LenProperties
    <2> QED BY <2>2, <2>3
<1> QED BY <1>4, <1>7, <1>9

(* An array of numbers, packed into the bytes its code gives each of them. *)
LEMMA ArrayBack ==
    ASSUME NEW f \in Field, NEW ints \in Seq(Int), NEW w \in 1..4, FieldLen(f.code) = 0 - w,
           f = Plain(f.code, FlattenSeq(Words(ints))), \A i \in 1..Len(ints) : InWidth(ints[i], w)
    PROVE  Received(FieldChunk(f)) = f
<1>1. PICK k \in Nat, flat \in Seq(Byte) : /\ k = Len(ints) /\ flat = FlattenSeq(Words(ints))
                                          /\ Len(flat) = k * 4 /\ EveryOther(flat, Words(ints), k, 4)
    BY WordsOf
<1>2. f.length = k * 4 /\ f.data = Kept(flat) /\ f.data \in Seq(Byte)
    BY <1>1 DEF Plain, Field
<1>3. Len(f.data) >= k * 4 BY <1>1, <1>2 DEF Field, Sound, FDATA_LIMIT
<1>4. EveryOther(f.data, Words(ints), k, 4)
    <2>1. ASSUME NEW i \in 1..k, NEW j \in 1..4 PROVE f.data[(i - 1) * 4 + j] = Words(ints)[i][j]
        <3>1. PICK p \in 1..Len(flat) : p = (i - 1) * 4 + j BY <1>1
        <3>2. f.data[p] = flat[p] BY <1>2, KeptAt
        <3>3. flat[(i - 1) * 4 + j] = Words(ints)[i][j] BY <1>1 DEF EveryOther
        <3> QED BY <3>1, <3>2, <3>3
    <2> QED BY <2>1 DEF EveryOther
<1>5. FieldLen(f.code) < 0 /\ 0 - FieldLen(f.code) = w OBVIOUS
<1>6. PICK length \in Nat : length = k * w /\ (f.length * w) \div 4 = length /\ length <= MaxLength
    <2>1. w = 1 \/ w = 2 \/ w = 3 \/ w = 4 OBVIOUS
    <2>2. (f.length * w) \div 4 = k * w BY <1>2, <2>1
    <2>3. k * w <= k * 4 /\ k * w \in Nat BY <2>1
    <2>4. k * 4 <= MaxLength BY <1>2 DEF Field, Sound
    <2>5. PICK x \in Nat, y \in Nat : x = k * w /\ y = k * 4 BY <2>3
    <2>6. x <= MaxLength BY <2>3, <2>4, <2>5, MaxLengthOf
    <2> QED BY <2>2, <2>5, <2>6
<1>7. FieldChunk(f) = [code |-> f.code, length |-> length, bytes |-> CopyNByte(f.data, w, length)]
    <2>1. length % (MaxLength + 1) = length BY <1>6, ShortLength
    <2>2. FieldBytes(f, 0 - w, length) = CopyNByte(f.data, w, length)
        <3>1. 0 - w < 0 /\ 0 - (0 - w) = w OBVIOUS
        <3> QED BY <3>1 DEF FieldBytes
    <2>3. FieldChunk(f) = [code |-> f.code, length |-> length, bytes |-> FieldBytes(f, 0 - w, length)]
        BY <1>5, <1>6, <2>1 DEF FieldChunk
    <2> QED BY <2>2, <2>3
<1>8. Items(w, CopyNByte(f.data, w, length)) = ints
    <2>1. Len(f.data) \in Nat BY <1>2, LenProperties
    <2>2. Len(ints) * 4 <= Len(f.data) BY <1>1, <1>3, <2>1
    <2>3. length = Len(ints) * w BY <1>1, <1>6
    <2>4. EveryOther(f.data, Words(ints), Len(ints), 4) BY <1>1, <1>4
    <2>5. PICK data \in Seq(Byte) : data = f.data BY <1>2
    <2>6. Items(w, CopyNByte(data, w, length)) = ints
        <3>1. Len(ints) * 4 <= Len(data) /\ EveryOther(data, Words(ints), Len(ints), 4)
            BY <2>2, <2>4, <2>5
        <3> QED BY <2>3, <3>1, ItemsBack, ZenonT(60)
    <2> QED BY <2>5, <2>6
<1>9. Received(FieldChunk(f)) = Plain(f.code, FlattenSeq(Words(ints)))
    BY <1>5, <1>7, <1>8 DEF Received
<1> QED BY <1>9

-----------------------------------------------------------------------------
(* Whole entries that fit *)

LEMMA TimeField ==
    ASSUME NEW e \in Entries, e.how = "time"
    PROVE  /\ SetTimestamp(e.val) \in Seq(Byte) /\ Len(SetTimestamp(e.val)) = 7
           /\ FieldLen(e.code) = 7 /\ e.val \in Times
           /\ FieldFor(e) = Plain(e.code, SetTimestamp(e.val))
<1>1. e.val \in Times /\ FieldLen(e.code) = 7 BY DEF Entries, CodesOfLength
<1>2. SetTimestamp(e.val) \in Seq(Byte) /\ Len(SetTimestamp(e.val)) = 7 BY <1>1, SetTimestampOf
<1>3. SubSeq(SetTimestamp(e.val), 1, 7) = SetTimestamp(e.val) BY <1>2, SubSeqFull
<1>4. FieldFor(e) = [code |-> e.code, length |-> FieldLen(e.code),
                     data |-> Kept(SubSeq(SetTimestamp(e.val), 1, FieldLen(e.code)))]
    BY DEF FieldFor
<1> QED BY <1>1, <1>2, <1>3, <1>4 DEF Plain

LEMMA IntervalField ==
    ASSUME NEW e \in Entries, e.how = "interval", FieldLen(e.code) = 6
    PROVE  /\ IntervalDigits(e.val[1]) \in Seq(Byte) /\ Len(IntervalDigits(e.val[1])) = 6
           /\ e.val[1] \in Intervals /\ e.val = <<e.val[1]>>
           /\ FieldFor(e) = Plain(e.code, IntervalDigits(e.val[1]))
<1>1. e.val \in [1..1 -> Intervals] BY DEF Entries
<1>2. e.val[1] \in Intervals /\ e.val = <<e.val[1]>> BY <1>1
<1>3. IntervalDigits(e.val[1]) \in Seq(Byte) /\ Len(IntervalDigits(e.val[1])) = 6
    BY <1>2, IntervalDigitsOf
<1>4. SubSeq(IntervalDigits(e.val[1]), 1, 6) = IntervalDigits(e.val[1]) BY <1>3, SubSeqFull
<1>5. FieldFor(e) = [code |-> e.code, length |-> FieldLen(e.code),
                     data |-> Kept(SubSeq(IntervalDigits(e.val[1]), 1, FieldLen(e.code)))]
    BY DEF FieldFor
<1> QED BY <1>2, <1>3, <1>4, <1>5 DEF Plain

LEMMA BytesField ==
    ASSUME NEW e \in Entries, e.how = "bytes", Whole(e), Fits(e)
    PROVE  /\ e.val \in Seq(Byte) /\ FieldFor(e) = Plain(e.code, e.val)
           /\ FieldLen(e.code) = 0 \/ FieldLen(e.code) > FDATA_LIMIT
<1>1. e.val \in Seq(Byte) /\ e.code \in FieldCodes /\ Fitting(e.val, e.code) BY DEF Entries
<1>2. FieldLen(e.code) \in -4..10
    <2>1. e.code \in Range(FC) BY <1>1 DEF FieldCodes
    <2> QED BY <2>1, LengthOfCode
<1>3. Len(e.val) \in Nat BY <1>1, LenProperties
<1>4. FieldLen(e.code) \notin 1..4
    <2>1. FieldLen(e.code) \notin 1..3 /\ FieldLen(e.code) # 4 BY DEF Fits, Whole
    <2> QED BY <1>2, <2>1
<1>5. FieldFor(e) = Plain(e.code, e.val) BY DEF FieldFor
<1>6. Len(e.val) = FieldLen(e.code) \/ FieldLen(e.code) = 0 BY <1>1 DEF Fitting
<1>7. FieldLen(e.code) = 0 \/ FieldLen(e.code) > 4 BY <1>2, <1>3, <1>4, <1>6
<1> QED BY <1>1, <1>5, <1>7 DEF FDATA_LIMIT

LEMMA ArrayField ==
    ASSUME NEW e \in Entries, e.how = "array", Fits(e)
    PROVE  /\ e.val \in Seq(Int) /\ FieldFor(e) = Plain(e.code, FlattenSeq(Words(e.val)))
           /\ \E w \in 1..4 : /\ FieldLen(e.code) = 0 - w
                              /\ \A i \in 1..Len(e.val) : InWidth(e.val[i], w)
<1>1. e.val \in Seq(Int) /\ FieldLen(e.code) \in -4..-1 BY DEF Entries, CodesOfLength
<1>2. FieldFor(e) = Plain(e.code, FlattenSeq(Words(e.val))) BY DEF FieldFor
<1>3. PICK w \in 1..4 : FieldLen(e.code) = 0 - w /\ w = 0 - FieldLen(e.code)
    <2>1. PICK n \in -4..-1 : n = FieldLen(e.code) BY <1>1
    <2>2. 0 - n \in 1..4 /\ n = 0 - (0 - n) OBVIOUS
    <2> QED BY <2>1, <2>2
<1>4. \A i \in 1..Len(e.val) : InWidth(e.val[i], w)
    <2>1. DOMAIN e.val = 1..Len(e.val) BY <1>1, LenProperties
    <2> QED BY <1>3, <2>1 DEF Fits
<1> QED BY <1>1, <1>2, <1>3, <1>4

LEMMA NumField ==
    ASSUME PastHeader = 1, NEW e \in Entries, e.how \in {"num", "rescode"}, Whole(e), Fits(e)
    PROVE  /\ e.val[1] \in Int /\ e.val = <<e.val[1]>>
           /\ FieldFor(e) = Numeric(e.code, e.val[1])
           /\ FieldLen(e.code) \in 1..3 /\ InWidth(e.val[1], FieldLen(e.code))
<1>1. e.val \in [1..1 -> Int] BY DEF Entries
<1>2. e.val[1] \in Int /\ e.val = <<e.val[1]>> BY <1>1
<1>3. CASE e.how = "num"
    <2>1. FieldLen(e.code) \in 1..4 BY <1>3 DEF Entries, CodesOfLength
    <2>2. FieldLen(e.code) # 4 BY DEF Whole
    <2>3. FieldLen(e.code) \in 1..3 BY <2>1, <2>2
    <2>4. InWidth(e.val[1], FieldLen(e.code)) BY <1>3 DEF Fits
    <2>5. FieldFor(e) = Numeric(e.code, e.val[1]) BY <1>3 DEF FieldFor
    <2> QED BY <1>2, <2>3, <2>4, <2>5
<1>4. CASE e.how = "rescode"
    <2>1. e.code = FC.RESCODE /\ e.code = 8 BY <1>4, CodeNumbers DEF Entries
    <2>2. FieldLen(e.code) = 1 BY <2>1, HeaderLengths
    <2>3. e.val[1] \in Byte BY <1>4 DEF Fits
    <2>4. InWidth(e.val[1], 1) BY <2>3 DEF InWidth, Byte, Place
    <2>5. FieldFor(e) = Numeric(e.code, e.val[1]) BY <1>4, <2>1, <2>2 DEF FieldFor, Numeric
    <2> QED BY <1>2, <2>2, <2>4, <2>5
<1> QED BY <1>3, <1>4

(* What is put under a code of another width than an int's comes out of    *)
(* the frame as the field it was.                                          *)
LEMMA FieldBack ==
    ASSUME PastHeader = 1, NEW e \in Entries, Whole(e), Fits(e)
    PROVE  Received(FieldChunk(FieldFor(e))) = FieldFor(e)
<1>1. PICK f \in Field : f = FieldFor(e) /\ f.code = e.code BY FieldForOK, CodeOf
<1>2. CASE e.how \in {"num", "rescode"}
    <2>1. f = Numeric(f.code, e.val[1]) /\ e.val[1] \in Int /\ FieldLen(f.code) \in 1..3
          /\ InWidth(e.val[1], FieldLen(f.code))
        BY <1>1, <1>2, NumField
    <2> QED BY <1>1, <2>1, NumBack
<1>3. CASE e.how = "bytes"
    <2>1. f = Plain(f.code, e.val) /\ e.val \in Seq(Byte)
          /\ (FieldLen(f.code) = 0 \/ FieldLen(f.code) > FDATA_LIMIT)
        BY <1>1, <1>3, BytesField
    <2> QED BY <1>1, <2>1, BytesBack
<1>4. CASE e.how = "array"
    <2>1. PICK w \in 1..4 : /\ FieldLen(f.code) = 0 - w
                            /\ \A i \in 1..Len(e.val) : InWidth(e.val[i], w)
        BY <1>1, <1>4, ArrayField
    <2>2. f = Plain(f.code, FlattenSeq(Words(e.val))) /\ e.val \in Seq(Int) BY <1>1, <1>4, ArrayField
    <2> QED BY <1>1, <2>1, <2>2, ArrayBack
<1>5. CASE e.how = "time"
    <2>1. f = Plain(f.code, SetTimestamp(e.val)) /\ SetTimestamp(e.val) \in Seq(Byte)
          /\ FieldLen(f.code) > FDATA_LIMIT
        BY <1>1, <1>5, TimeField DEF FDATA_LIMIT
    <2> QED BY <1>1, <2>1, BytesBack
<1>6. CASE e.how = "interval"
    <2>1. FieldLen(e.code) = 6 BY <1>6 DEF Whole
    <2>2. f = Plain(f.code, IntervalDigits(e.val[1])) /\ IntervalDigits(e.val[1]) \in Seq(Byte)
          /\ FieldLen(f.code) > FDATA_LIMIT
        BY <1>1, <1>6, <2>1, IntervalField DEF FDATA_LIMIT
    <2> QED BY <1>1, <2>2, BytesBack
<1> QED BY HowOf, <1>2, <1>3, <1>4, <1>5, <1>6

(* And such a field is read as the value it was made of. *)
LEMMA TakenBack ==
    ASSUME PastHeader = 1, NEW e \in Entries, Whole(e), Fits(e), NEW m,
           ReadField(m, e.code) = FieldFor(e)
    PROVE  Taken(m, e) = e.val
<1>1. PICK f \in Field : f = FieldFor(e) /\ f = ReadField(m, e.code) BY FieldForOK
<1>2. CASE e.how \in {"num", "rescode"}
    <2>1. f.data = Word(e.val[1]) /\ e.val[1] \in Int /\ e.val = <<e.val[1]>>
          /\ FieldLen(e.code) \in 1..3 /\ InWidth(e.val[1], FieldLen(e.code))
        BY <1>1, <1>2, NumField DEF Numeric
    <2>2. IsInt(e.val[1])
        <3>1. FieldLen(e.code) \in 1..4 BY <2>1
        <3> QED BY <2>1, <3>1, WidthIsInt
    <2>3. IntOf(f.data) = e.val[1] BY <2>1, <2>2, WordRead
    <2>4. Taken(m, e) = << IntOf(f.data) >> BY <1>1, <1>2 DEF Taken
    <2> QED BY <2>1, <2>3, <2>4
<1>3. CASE e.how = "bytes"
    <2>1. f.data = Kept(e.val) /\ f.length = Len(e.val) /\ e.val \in Seq(Byte)
        BY <1>1, <1>3, BytesField DEF Plain
    <2>2. Taken(m, e) = SubSeq(f.data, 1, f.length) BY <1>1, <1>3 DEF Taken
    <2> QED BY <2>1, <2>2, PlainRead
<1>4. CASE e.how = "array"
    <2>1. PICK w \in 1..4 : \A i \in 1..Len(e.val) : InWidth(e.val[i], w) BY <1>4, ArrayField
    <2>2. PICK flat \in Seq(Byte), k \in Nat :
            /\ k = Len(e.val) /\ flat = FlattenSeq(Words(e.val)) /\ Len(flat) = k * 4
            /\ EveryOther(flat, Words(e.val), k, 4) /\ Words(e.val) \in [1..k -> Seq(Byte)]
            /\ AllOfLength(Words(e.val), k, 4)
        BY <1>4, ArrayField, WordsOf
    <2>3. e.val \in Seq(Int) /\ f = Plain(e.code, flat) BY <1>1, <1>4, <2>2, ArrayField
    <2>4. f.length = k * 4 /\ f.data = Kept(flat) /\ f.length \div 4 = k
        <3>1. f.length = Len(flat) /\ f.data = Kept(flat) BY <2>3 DEF Plain
        <3>2. (k * 4) \div 4 = k OBVIOUS
        <3> QED BY <2>2, <3>1, <3>2
    <2>5. ASSUME NEW i \in 1..k PROVE IntOf(SubSeq(f.data, 4 * i - 3, 4 * i)) = e.val[i]
        <3>2. f.data \in Seq(Byte) /\ k * 4 <= Len(f.data)
            <4>1. Kept(flat) \in Seq(Byte)
                  /\ Len(Kept(flat)) = IF Len(flat) > FDATA_LIMIT THEN Len(flat) ELSE 4
                BY <2>2, KeptOf
            <4>2. k * 4 <= Len(Kept(flat)) BY <2>2, <4>1 DEF FDATA_LIMIT
            <4> QED BY <2>4, <4>1, <4>2
        <3>3. EveryOther(f.data, Words(e.val), k, 4)
            <4>1. ASSUME NEW x \in 1..k, NEW j \in 1..4
                  PROVE  f.data[(x - 1) * 4 + j] = Words(e.val)[x][j]
                <5>1. PICK p \in 1..Len(flat) : p = (x - 1) * 4 + j BY <2>2
                <5>2. f.data[p] = flat[p] BY <2>4, KeptAt
                <5>3. flat[(x - 1) * 4 + j] = Words(e.val)[x][j] BY <2>2 DEF EveryOther
                <5> QED BY <5>1, <5>2, <5>3
            <4> QED BY <4>1 DEF EveryOther
        <3>4. 4 \in 1..4 OBVIOUS
        <3>5. SubSeq(f.data, 4 * (i - 1) + 1, 4 * i) = Words(e.val)[i]
            BY <2>2, <3>2, <3>3, <3>4, PieceAt
        <3>6. 4 * (i - 1) + 1 = 4 * i - 3 OBVIOUS
        <3>7. Words(e.val)[i] = Word(e.val[i]) BY <2>2 DEF Words
        <3>8. e.val[i] \in Int BY <2>2, <2>3, ElementOfSeq
        <3>9. IsInt(e.val[i]) BY <2>1, <2>2, <3>8, WidthIsInt
        <3>10. IntOf(Word(e.val[i])) = e.val[i] BY <3>8, <3>9, WordRead
        <3> QED BY <3>5, <3>6, <3>7, <3>10
    <2>6. Taken(m, e) = ReadArray(m, e.code) BY <1>4 DEF Taken
    <2>7. ReadArray(m, e.code) = [i \in 1..k |-> IntOf(SubSeq(f.data, 4 * i - 3, 4 * i))]
        BY <1>1, <2>4 DEF ReadArray
    <2>8. e.val = [i \in 1..k |-> e.val[i]] BY <2>2, <2>3, LenProperties
    <2> QED BY <2>5, <2>6, <2>7, <2>8
<1>5. CASE e.how = "time"
    <2>1. PICK b \in Seq(Byte) : b = SetTimestamp(e.val) /\ Len(b) = 7 /\ f.data = Kept(b)
                                 /\ e.val \in Times
        BY <1>1, <1>5, TimeField DEF Plain
    <2>2. f.data = b BY <2>1 DEF Kept, FDATA_LIMIT
    <2>3. Taken(m, e) = GetEpoch(f.data) BY <1>1, <1>5 DEF Taken
    <2> QED BY <2>1, <2>2, <2>3, TimeRead
<1>6. CASE e.how = "interval"
    <2>1. FieldLen(e.code) = 6 BY <1>6 DEF Whole
    <2>2. PICK b \in Seq(Byte) : b = IntervalDigits(e.val[1]) /\ Len(b) = 6 /\ f.data = Kept(b)
                                 /\ e.val[1] \in Intervals /\ e.val = <<e.val[1]>>
        BY <1>1, <1>6, <2>1, IntervalField DEF Plain
    <2>3. f.data = b BY <2>2 DEF Kept, FDATA_LIMIT
    <2>4. Taken(m, e) = << GetInterval(f.data) >> BY <1>1, <1>6 DEF Taken
    <2>5. GetInterval(b) = e.val[1] BY <2>2, IntervalRead
    <2> QED BY <2>2, <2>3, <2>4, <2>5
<1> QED BY HowOf, <1>2, <1>3, <1>4, <1>5, <1>6
-----------------------------------------------------------------------------
(* The fields of a message, in the order they were added *)

Numbered == {"msgtype", "transtype", "gcgid", "gosid", "msgseq", "tdate", "ttime"}

(* m has the first k of the fields F behind a header that is the one it    *)
(* began with but for the response code, which is that of the last of them *)
(* that is one.                                                            *)
Holds(m, k, F, h) ==
    /\ m.fields \in Seq(Field) /\ Len(m.fields) = k /\ \A i \in 1..k : m.fields[i] = F[i]
    /\ m.header \in Header /\ \A x \in Numbered : m.header[x] = h[x]
    /\ \A i \in 1..k :
         F[i].code = FC.RESCODE /\ (\A j \in 1..k : F[j].code = FC.RESCODE => j <= i)
            => m.header.rescode = IntOf(F[i].data)

LEMMA FieldHeader ==
    ASSUME NEW h \in Header, NEW f \in Field
    PROVE  /\ HeaderWith(h, f.code, f.data) \in Header
           /\ \A x \in Numbered : HeaderWith(h, f.code, f.data)[x] = h[x]
           /\ f.code = FC.RESCODE => HeaderWith(h, f.code, f.data).rescode = IntOf(f.data)
           /\ f.code # FC.RESCODE => HeaderWith(h, f.code, f.data).rescode = h.rescode
<1>1. f.code \in Int /\ FC.RESCODE <= f.code BY LengthOfCode DEF Field, Sound
<1>2. CASE f.code = FC.RESCODE
    <2>1. HeaderWith(h, f.code, f.data) = [h EXCEPT !.rescode = IntOf(f.data)]
        BY <1>2, CodeNumbers DEF HeaderWith
    <2>2. PICK v \in Int : v = IntOf(f.data) BY IntOfInt DEF Field
    <2>3. PICK new : new = [h EXCEPT !.rescode = v] OBVIOUS
    <2>4. new \in Header /\ new.rescode = v /\ \A x \in Numbered : new[x] = h[x]
        BY <2>3 DEF Header, Numbered
    <2> QED BY <1>2, <2>1, <2>2, <2>3, <2>4
<1>3. CASE f.code # FC.RESCODE
    <2>1. HeaderWith(h, f.code, f.data) = h
        <3>1. PICK c \in Int : c = f.code /\ c > 8 BY <1>1, <1>3, CodeNumbers
        <3>2. HeaderWith(h, c, f.data) = h BY <3>1, CodeNumbers DEF HeaderWith
        <3> QED BY <3>1, <3>2
    <2> QED BY <1>3, <2>1
<1> QED BY <1>2, <1>3

LEMMA AddedHolds ==
    ASSUME NEW k \in Nat, NEW F \in [1..(k + 1) -> Field], NEW h, NEW m, Holds(m, k, F, h)
    PROVE  Holds(Added(m, F[k + 1]), k + 1, F, h)
<1>1. PICK f \in Field : f = F[k + 1]
    <2>1. k + 1 \in 1..(k + 1) OBVIOUS
    <2> QED BY <2>1
<1>2. PICK new : new = Added(m, f) OBVIOUS
<1>3. new.header = HeaderWith(m.header, f.code, f.data) /\ new.fields = Append(m.fields, f)
    <2>1. f.code \in Range(FC) /\ FC.RESCODE <= f.code
          /\ f = [code |-> f.code, length |-> f.length, data |-> f.data]
        BY DEF Field, Sound
    <2> QED BY <1>2, <2>1, AddedFields
<1>4. new.fields \in Seq(Field) /\ Len(new.fields) = k + 1
      /\ \A i \in 1..(k + 1) : new.fields[i] = F[i]
    <2>1. m.fields \in Seq(Field) /\ Len(m.fields) = k /\ \A i \in 1..k : m.fields[i] = F[i]
        BY DEF Holds
    <2>2. /\ Append(m.fields, f) \in Seq(Field) /\ Len(Append(m.fields, f)) = k + 1
          /\ \A i \in 1..k : Append(m.fields, f)[i] = m.fields[i]
          /\ Append(m.fields, f)[k + 1] = f
        BY <2>1, AppendProperties
    <2>3. \A i \in 1..(k + 1) : i \in 1..k \/ i = k + 1 OBVIOUS
    <2> QED BY <1>1, <1>3, <2>1, <2>2, <2>3
<1>5. new.header \in Header /\ \A x \in Numbered : new.header[x] = h[x]
    <2>1. PICK old \in Header : old = m.header /\ \A x \in Numbered : old[x] = h[x] BY DEF Holds
    <2>2. /\ HeaderWith(old, f.code, f.data) \in Header
          /\ \A x \in Numbered : HeaderWith(old, f.code, f.data)[x] = old[x]
        BY FieldHeader
    <2> QED BY <1>3, <2>1, <2>2
<1>6. ASSUME NEW i \in 1..(k + 1), F[i].code = FC.RESCODE,
             \A j \in 1..(k + 1) : F[j].code = FC.RESCODE => j <= i
      PROVE  new.header.rescode = IntOf(F[i].data)
    <2>1. CASE f.code = FC.RESCODE
        <3>1. i = k + 1
            <4>1. k + 1 \in 1..(k + 1) OBVIOUS
            <4>2. k + 1 <= i BY <1>1, <1>6, <2>1, <4>1
            <4> QED BY <4>2
        <3> QED BY <1>1, <1>3, <2>1, <3>1, FieldHeader DEF Holds
    <2>2. CASE f.code # FC.RESCODE
        <3>1. i \in 1..k BY <1>1, <1>6, <2>2
        <3>2. \A j \in 1..k : F[j].code = FC.RESCODE => j <= i
            <4>1. \A j \in 1..k : j \in 1..(k + 1) OBVIOUS
            <4> QED BY <1>6, <4>1
        <3>3. m.header.rescode = IntOf(F[i].data) BY <1>6, <3>1, <3>2 DEF Holds
        <3> QED BY <1>3, <2>2, <3>3, FieldHeader DEF Holds
    <2> QED BY <2>1, <2>2
<1> QED BY <1>1, <1>2, <1>4, <1>5, <1>6 DEF Holds

(* A message that is made of a sound one without fields, field by field.   *)
LEMMA AddAll ==
    ASSUME NEW n \in Nat, NEW F \in [1..n -> Field], NEW base \in Msgs, base.fields = << >>,
           NEW g, g[0] = base, \A k \in 1..n : g[k] = Added(g[k - 1], F[k])
    PROVE  \A k \in 0..n : Holds(g[k], k, F, base.header)
<1> DEFINE h == base.header
           S == {k \in Nat : k \in 0..n => Holds(g[k], k, F, h)}
<1>1. 0 \in S
    <2>1. base.header \in Header /\ << >> \in Seq(Field) /\ Len(<< >>) = 0 BY EmptySeq DEF Msgs
    <2>2. Holds(base, 0, F, h) BY <2>1 DEF Holds
    <2> QED BY <2>2
<1> HIDE DEF h
<1>2. ASSUME NEW k \in Nat, k \in S PROVE k + 1 \in S
    <2>1. CASE k + 1 \in 0..n
        <3>1. k \in 0..n /\ k + 1 \in 1..n /\ (k + 1) - 1 = k BY <2>1
        <3>2. Holds(g[k], k, F, h) BY <1>2, <3>1
        <3>3. PICK G : G = [i \in 1..(k + 1) |-> F[i]] OBVIOUS
        <3>4. G \in [1..(k + 1) -> Field] /\ \A i \in 1..(k + 1) : G[i] = F[i] BY <3>1, <3>3
        <3>5. Holds(g[k], k, G, h)
            <4>1. \A i \in 1..k : G[i] = F[i] BY <3>4
            <4> QED BY <3>2, <4>1 DEF Holds
        <3>6. Holds(Added(g[k], G[k + 1]), k + 1, G, h) BY <3>4, <3>5, AddedHolds
        <3>7. g[k + 1] = Added(g[k], G[k + 1])
            <4>1. k + 1 \in 1..(k + 1) OBVIOUS
            <4> QED BY <3>1, <3>4, <4>1
        <3>8. Holds(g[k + 1], k + 1, F, h) BY <3>4, <3>6, <3>7 DEF Holds
        <3> QED BY <3>8
    <2> QED BY <2>1
<1> HIDE DEF S
<1>3. Nat \subseteq S BY <1>1, <1>2, SetInduction
<1> QED BY <1>3 DEF S, h

(* What a message is composed of. *)
FieldsOf(entries) == [i \in 1..Len(entries) |-> FieldFor(entries[i])]

LEMMA PutFields ==
    ASSUME NEW m \in Msgs, m.fields = << >>, NEW entries \in Seq(Entries)
    PROVE  Holds(FoldLeft(Put, m, entries), Len(entries), FieldsOf(entries), m.header)
<1>1. PICK n \in Nat : n = Len(entries) BY LenProperties
<1>2. \A k \in 1..n : entries[k] \in Entries BY <1>1, ElementOfSeq
<1>3. PICK F \in [1..n -> Field] : F = FieldsOf(entries) /\ \A k \in 1..n : F[k] = FieldFor(entries[k])
    <2>1. PICK F : F = FieldsOf(entries) OBVIOUS
    <2>2. F = [i \in 1..n |-> FieldFor(entries[i])] BY <1>1, <2>1 DEF FieldsOf
    <2>3. ASSUME NEW k \in 1..n PROVE FieldFor(entries[k]) \in Field BY <1>2, FieldForOK
    <2>4. F \in [1..n -> Field] /\ \A k \in 1..n : F[k] = FieldFor(entries[k]) BY <2>2, <2>3
    <2> QED BY <2>1, <2>4
<1>4. PICK g : Puts(g, m, entries) BY PutSteps
<1>5. g[0] = m /\ g[n] = FoldLeft(Put, m, entries)
      /\ \A k \in 1..n : g[k] = Put(g[k - 1], entries[k])
    BY <1>1, <1>4 DEF Puts
<1>6. \A k \in 1..n : g[k] = Added(g[k - 1], F[k])
    <2>1. ASSUME NEW k \in 1..n PROVE g[k] = Added(g[k - 1], F[k])
        <3>1. Put(g[k - 1], entries[k]) = Added(g[k - 1], FieldFor(entries[k])) BY <1>2, PutAdds
        <3> QED BY <1>3, <1>5, <3>1
    <2> QED BY <2>1
<1>7. \A k \in 0..n : Holds(g[k], k, F, m.header) BY <1>3, <1>5, <1>6, AddAll
<1>8. n \in 0..n BY <1>1
<1> QED BY <1>1, <1>3, <1>5, <1>7, <1>8

-----------------------------------------------------------------------------
(* The header of a frame *)

HeadData(c) == IF c.code \in 1..4 THEN Word(ReadNum(c.bytes)) ELSE c.bytes
Only(header) == [header |-> header, fields |-> << >>]
FrameHead(h, tdate, ttime) ==
    [msgtype |-> h.msgtype, transtype |-> h.transtype, gcgid |-> h.gcgid, gosid |-> h.gosid,
     tdate |-> tdate, ttime |-> ttime, msgseq |-> h.msgseq, rescode |-> 0]

LEMMA HeaderRound ==
    ASSUME NEW x, NEW c \in Sent, c.code < FC.RESCODE
    PROVE  Round(Parsed("NOERROR", Only(x)), c) = Parsed("NOERROR", Only(HeaderWith(x, c.code, HeadData(c))))
<1> DEFINE m == Only(x)
<1>1. /\ c.code \in 0..7 /\ FieldLen(c.code) \in 1..10 /\ FieldLen(c.code) = Len(c.bytes)
      /\ c.length = FieldLen(c.code) /\ ~Foreign(c)
    <2>1. c.code \in Range(FC) /\ c.code \in Nat /\ Carried(c)
        BY LengthOfCode DEF Sent, ChunkSet
    <2>2. c.code \in 0..7 BY <2>1, CodeNumbers
    <2>3. FieldLen(c.code) \in 1..10 BY <2>2, HeaderLengths
    <2> QED BY <2>1, <2>2, <2>3, CodeNumbers DEF Carried
<1>2. PICK n \in 1..10 : n = FieldLen(c.code) /\ n = c.length /\ n = Len(c.bytes) BY <1>1
<1>0. FieldLen(c.code) \in Int /\ c.length \in Nat BY <1>2
<1> HIDE DEF m
<1>3. AddChunk(m, c) = AddField(m, c.code, n, HeadData(c))
    <2>1. CASE c.code \in 1..4
        <3>1. n \in 1..3
            <4>1. PICK code \in 1..4 : code = c.code BY <2>1
            <4>2. FieldLen(code) \in 1..3 BY HeaderLengths
            <4> QED BY <1>2, <4>1, <4>2
        <3>2. FieldLen(c.code) > 0 /\ c.length < FDATA_LIMIT
            <4>1. PICK k \in 1..3 : k = FieldLen(c.code) /\ k = c.length BY <1>2, <3>1, Zenon
            <4> QED BY <4>1 DEF FDATA_LIMIT
        <3>3. AddChunk(m, c) = AddNum(m, c.code, ReadNum(c.bytes)) BY <1>0, <3>2, AddChunkCases
        <3> QED BY <1>2, <2>1, <3>3 DEF AddNum, HeadData
    <2>2. CASE c.code \in {0, 5, 6, 7}
        <3>1. n > 4
            <4>1. PICK code \in {0, 5, 6, 7} : code = c.code BY <2>2
            <4>2. FieldLen(code) > 4 BY HeaderLengths
            <4> QED BY <1>2, <4>1, <4>2
        <3>5. FieldLen(c.code) > 0 /\ c.length >= FDATA_LIMIT BY <1>2, <3>1 DEF FDATA_LIMIT
        <3>2. AddChunk(m, c) = AddNBytes(m, c.code, c.bytes) BY <1>0, <3>5, AddChunkCases
        <3>3. Kept(c.bytes) = c.bytes BY <1>2, <3>1 DEF Kept, FDATA_LIMIT
        <3>4. c.code \notin 1..4 BY <2>2
        <3> QED BY <1>2, <3>2, <3>3, <3>4 DEF AddNBytes, HeadData
    <2> QED BY <1>1, <2>1, <2>2
<1>4. m.header = x /\ m.fields = << >> BY DEF Only, m
<1>5. AddField(m, c.code, n, HeadData(c)) = Only(HeaderWith(x, c.code, HeadData(c)))
    <2>1. c.code < FC.RESCODE OBVIOUS
    <2> QED BY <1>4, <2>1, Zenon DEF AddField, Only
<1>6. Parsed("NOERROR", m).stat = "NOERROR" /\ Parsed("NOERROR", m).msg = m BY DEF Parsed
<1>7. Round(Parsed("NOERROR", m), c) = Parsed("NOERROR", AddChunk(m, c)) BY <1>1, <1>6 DEF Round
<1> QED BY <1>3, <1>5, <1>7 DEF m

(* What comes back out of the bytes of each part of a header.              *)
LEMMA HeaderData ==
    ASSUME NEW h \in Header, InWidth(h.msgtype, 1), InWidth(h.transtype, 1), NEW c, c = HeaderChunks(h)
    PROVE  /\ \A k \in 1..8 : c[k] \in Sent /\ c[k].code = k - 1
           /\ IntOf(HeadData(c[2])) = h.msgtype /\ IntOf(HeadData(c[3])) = h.transtype
           /\ IntOf(HeadData(c[4])) = h.gcgid /\ IntOf(HeadData(c[5])) = h.gosid
           /\ SubSeq(HeadData(c[6]), 1, 8) = SubSeq(Today, 1, 8)
           /\ SubSeq(HeadData(c[7]), 1, 6) = SubSeq(Today, 9, 14)
           /\ Digits(0, SubSeq(HeadData(c[8]), 1, 6)) = h.msgseq
<1>1. c \in [1..8 -> Sent] BY HeaderChunksOK
<1>2. /\ c[1] = Chunk(0, InterfaceType)
      /\ c[2] = Chunk(1, SetBytes(1, h.msgtype)) /\ c[3] = Chunk(2, SetBytes(1, h.transtype))
      /\ c[4] = Chunk(3, SetBytes(3, h.gcgid)) /\ c[5] = Chunk(4, SetBytes(3, h.gosid))
      /\ c[6] = Chunk(5, SubSeq(Today, 1, 8)) /\ c[7] = Chunk(6, SubSeq(Today, 9, 14))
      /\ c[8] = Chunk(7, SixDigits(h.msgseq))
    BY CodeNumbers DEF HeaderChunks, SixDigits
<1>3. \A code, bytes : Chunk(code, bytes).code = code /\ Chunk(code, bytes).bytes = bytes BY DEF Chunk
<1>4. ASSUME NEW k \in 1..8 PROVE c[k] \in Sent /\ c[k].code = k - 1
    <2>1. k = 1 \/ k = 2 \/ k = 3 \/ k = 4 \/ k = 5 \/ k = 6 \/ k = 7 \/ k = 8 OBVIOUS
    <2> QED BY <1>1, <1>2, <1>3, <2>1
<1>5. ASSUME NEW w \in {1, 3}, NEW v \in Int, InWidth(v, w), NEW code \in 1..4
      PROVE  IntOf(HeadData(Chunk(code, SetBytes(w, v)))) = v
    <2>1. w \in 1..4 OBVIOUS
    <2>2. ReadNum(SetBytes(w, v)) = v BY <1>5, <2>1, ReadWritten
    <2>3. IsInt(v) BY <1>5, <2>1, WidthIsInt
    <2> QED BY <1>3, <2>2, <2>3, WordRead DEF HeadData
<1>6. InWidth(h.gcgid, 3) /\ InWidth(h.gosid, 3) /\ h.gcgid \in Int /\ h.gosid \in Int
      /\ h.msgtype \in Int /\ h.transtype \in Int /\ h.msgseq \in MsgSeqs
    <2>1. h.gcgid \in Gid24 /\ h.gosid \in Gid24 BY DEF Header
    <2>2. \A n \in Gid24 : InWidth(n, 3) BY SMT DEF InWidth, Gid24, Place
    <2> QED BY <2>1, <2>2 DEF Header, Gid24
<1>7. IntOf(HeadData(c[2])) = h.msgtype /\ IntOf(HeadData(c[3])) = h.transtype
      /\ IntOf(HeadData(c[4])) = h.gcgid /\ IntOf(HeadData(c[5])) = h.gosid
    <2>1. 1 \in 1..4 /\ 2 \in 1..4 /\ 3 \in 1..4 /\ 4 \in 1..4 OBVIOUS
    <2> QED BY <1>2, <1>5, <1>6, <2>1
<1>8. \A bytes : \A code \in {5, 6, 7} : HeadData(Chunk(code, bytes)) = bytes BY <1>3 DEF HeadData
<1>9. Today \in Seq(Byte) /\ Len(Today) = 14
    <2>1. Today \in [1..14 -> Byte] /\ 14 \in Nat BY CodecAssumption DEF Byte
    <2> QED BY <2>1, FunctionIsSeq
<1>10. SubSeq(HeadData(c[6]), 1, 8) = SubSeq(Today, 1, 8)
    <2>1. PICK q : q = SubSeq(Today, 1, 8) OBVIOUS
    <2>2. 1 \in Nat \ {0} /\ 8 \in Nat /\ 8 <= 14 /\ 1 <= 8 + 1 /\ 8 - 1 + 1 = 8 OBVIOUS
    <2>3. q \in Seq(Byte) /\ Len(q) = 8 BY <1>9, <2>1, <2>2, SubSeqOf
    <2>4. SubSeq(q, 1, 8) = q BY <2>3, SubSeqFull
    <2> QED BY <1>2, <1>8, <2>1, <2>4
<1>11. SubSeq(HeadData(c[7]), 1, 6) = SubSeq(Today, 9, 14)
    <2>1. PICK q : q = SubSeq(Today, 9, 14) OBVIOUS
    <2>2. 9 \in Nat \ {0} /\ 14 \in Nat /\ 14 <= 14 /\ 9 <= 14 + 1 /\ 14 - 9 + 1 = 6 OBVIOUS
    <2>3. q \in Seq(Byte) /\ Len(q) = 6 BY <1>9, <2>1, <2>2, SubSeqOf
    <2>4. SubSeq(q, 1, 6) = q BY <2>3, SubSeqFull
    <2> QED BY <1>2, <1>8, <2>1, <2>4
<1>12. Digits(0, SubSeq(HeadData(c[8]), 1, 6)) = h.msgseq
    <2>1. PICK q : q = SixDigits(h.msgseq) OBVIOUS
    <2>2. q \in [1..6 -> 48..57] /\ Digits(0, q) = h.msgseq /\ 6 \in Nat BY <1>6, <2>1, SixDigitsOf
    <2>3. q \in Seq(Byte) /\ Len(q) = 6
        <3>1. q \in [1..6 -> Byte] /\ 6 \in Nat BY <2>2 DEF Byte
        <3> QED BY <3>1, FunctionIsSeq
    <2>4. SubSeq(q, 1, 6) = q BY <2>3, SubSeqFull
    <2> QED BY <1>2, <1>8, <2>1, <2>2, <2>4
<1> QED BY <1>4, <1>7, <1>10, <1>11, <1>12

(* The first eight rounds make the header again. *)
Reached(header) == Parsed("NOERROR", Only(header))
OfParts(a, b, g, o, d, t, q) ==
    [msgtype |-> a, transtype |-> b, gcgid |-> g, gosid |-> o, tdate |-> d, ttime |-> t,
     msgseq |-> q, rescode |-> 0]

LEMMA HeaderBack ==
    ASSUME NEW h \in Header, InWidth(h.msgtype, 1), InWidth(h.transtype, 1), NEW c, c = HeaderChunks(h),
           NEW r, r[0] = Parsed("NOERROR", InitMsg), \A k \in 1..8 : r[k] = Round(r[k - 1], c[k])
    PROVE  r[8] = Parsed("NOERROR", Only(FrameHead(h, SubSeq(Today, 1, 8), SubSeq(Today, 9, 14))))
<1>1. PICK d, t : d = SubSeq(Today, 1, 8) /\ t = SubSeq(Today, 9, 14) OBVIOUS
<1>2. /\ \A k \in 1..8 : c[k] \in Sent /\ c[k].code = k - 1
      /\ IntOf(HeadData(c[2])) = h.msgtype /\ IntOf(HeadData(c[3])) = h.transtype
      /\ IntOf(HeadData(c[4])) = h.gcgid /\ IntOf(HeadData(c[5])) = h.gosid
      /\ SubSeq(HeadData(c[6]), 1, 8) = d
      /\ SubSeq(HeadData(c[7]), 1, 6) = t
      /\ Digits(0, SubSeq(HeadData(c[8]), 1, 6)) = h.msgseq
    BY <1>1, HeaderData
<1>3. ASSUME NEW k \in 1..8, NEW x, r[k - 1] = Reached(x)
      PROVE  r[k] = Reached(HeaderWith(x, k - 1, HeadData(c[k])))
    <2>1. c[k] \in Sent /\ c[k].code = k - 1 /\ c[k].code < FC.RESCODE BY <1>2, CodeNumbers
    <2>2. Round(Reached(x), c[k]) = Reached(HeaderWith(x, c[k].code, HeadData(c[k]))) BY <2>1, HeaderRound DEF Reached
    <2> QED BY <1>3, <2>1, <2>2
<1>4. r[0] = Reached(OfParts(0, 0, 0, 0, << >>, << >>, 0)) BY DEF Reached, OfParts, Only, InitMsg
<1>5. ASSUME NEW k \in 1..8, NEW j \in 0..7, j = k - 1, NEW x, r[j] = Reached(x),
             NEW y, HeaderWith(x, j, HeadData(c[k])) = y
      PROVE  r[k] = Reached(y)
    <2>1. r[k - 1] = Reached(x) BY <1>5
    <2>2. r[k] = Reached(HeaderWith(x, k - 1, HeadData(c[k]))) BY <1>3, <2>1
    <2> QED BY <1>5, <2>2
<1>6. \A x, data :
        /\ HeaderWith(x, 0, data) = x
        /\ HeaderWith(x, 1, data) = [x EXCEPT !.msgtype = IntOf(data)]
        /\ HeaderWith(x, 2, data) = [x EXCEPT !.transtype = IntOf(data)]
        /\ HeaderWith(x, 3, data) = [x EXCEPT !.gcgid = IntOf(data)]
        /\ HeaderWith(x, 4, data) = [x EXCEPT !.gosid = IntOf(data)]
        /\ HeaderWith(x, 5, data) = [x EXCEPT !.tdate = SubSeq(data, 1, 8)]
        /\ HeaderWith(x, 6, data) = [x EXCEPT !.ttime = SubSeq(data, 1, 6)]
        /\ HeaderWith(x, 7, data) = [x EXCEPT !.msgseq = Digits(0, SubSeq(data, 1, 6))]
    BY CodeNumbers DEF HeaderWith
<1>7. \A a, b, g, o, u, v, q, y :
        /\ [OfParts(a, b, g, o, u, v, q) EXCEPT !.msgtype = y] = OfParts(y, b, g, o, u, v, q)
        /\ [OfParts(a, b, g, o, u, v, q) EXCEPT !.transtype = y] = OfParts(a, y, g, o, u, v, q)
        /\ [OfParts(a, b, g, o, u, v, q) EXCEPT !.gcgid = y] = OfParts(a, b, y, o, u, v, q)
        /\ [OfParts(a, b, g, o, u, v, q) EXCEPT !.gosid = y] = OfParts(a, b, g, y, u, v, q)
        /\ [OfParts(a, b, g, o, u, v, q) EXCEPT !.tdate = y] = OfParts(a, b, g, o, y, v, q)
        /\ [OfParts(a, b, g, o, u, v, q) EXCEPT !.ttime = y] = OfParts(a, b, g, o, u, y, q)
        /\ [OfParts(a, b, g, o, u, v, q) EXCEPT !.msgseq = y] = OfParts(a, b, g, o, u, v, y)
    BY DEF OfParts
<1>8. FrameHead(h, d, t) = OfParts(h.msgtype, h.transtype, h.gcgid, h.gosid, d, t, h.msgseq) BY DEF FrameHead, OfParts
<1>9. r[1] = Reached(OfParts(0, 0, 0, 0, << >>, << >>, 0))
    <2>1. HeaderWith(OfParts(0, 0, 0, 0, << >>, << >>, 0), 0, HeadData(c[1]))
           = OfParts(0, 0, 0, 0, << >>, << >>, 0)
        BY <1>2, <1>6, <1>7
    <2>2. 1 \in 1..8 /\ 0 \in 0..7 /\ 0 = 1 - 1 OBVIOUS
    <2> QED BY <1>4, <1>5, <2>1, <2>2
<1>10. r[2] = Reached(OfParts(h.msgtype, 0, 0, 0, << >>, << >>, 0))
    <2>1. HeaderWith(OfParts(0, 0, 0, 0, << >>, << >>, 0), 1, HeadData(c[2]))
           = OfParts(h.msgtype, 0, 0, 0, << >>, << >>, 0)
        BY <1>2, <1>6, <1>7
    <2>2. 2 \in 1..8 /\ 1 \in 0..7 /\ 1 = 2 - 1 OBVIOUS
    <2> QED BY <1>9, <1>5, <2>1, <2>2
<1>11. r[3] = Reached(OfParts(h.msgtype, h.transtype, 0, 0, << >>, << >>, 0))
    <2>1. HeaderWith(OfParts(h.msgtype, 0, 0, 0, << >>, << >>, 0), 2, HeadData(c[3]))
           = OfParts(h.msgtype, h.transtype, 0, 0, << >>, << >>, 0)
        BY <1>2, <1>6, <1>7
    <2>2. 3 \in 1..8 /\ 2 \in 0..7 /\ 2 = 3 - 1 OBVIOUS
    <2> QED BY <1>10, <1>5, <2>1, <2>2
<1>12. r[4] = Reached(OfParts(h.msgtype, h.transtype, h.gcgid, 0, << >>, << >>, 0))
    <2>1. HeaderWith(OfParts(h.msgtype, h.transtype, 0, 0, << >>, << >>, 0), 3, HeadData(c[4]))
           = OfParts(h.msgtype, h.transtype, h.gcgid, 0, << >>, << >>, 0)
        BY <1>2, <1>6, <1>7
    <2>2. 4 \in 1..8 /\ 3 \in 0..7 /\ 3 = 4 - 1 OBVIOUS
    <2> QED BY <1>11, <1>5, <2>1, <2>2
<1>13. r[5] = Reached(OfParts(h.msgtype, h.transtype, h.gcgid, h.gosid, << >>, << >>, 0))
    <2>1. HeaderWith(OfParts(h.msgtype, h.transtype, h.gcgid, 0, << >>, << >>, 0), 4, HeadData(c[5]))
           = OfParts(h.msgtype, h.transtype, h.gcgid, h.gosid, << >>, << >>, 0)
        BY <1>2, <1>6, <1>7
    <2>2. 5 \in 1..8 /\ 4 \in 0..7 /\ 4 = 5 - 1 OBVIOUS
    <2> QED BY <1>12, <1>5, <2>1, <2>2
<1>14. r[6] = Reached(OfParts(h.msgtype, h.transtype, h.gcgid, h.gosid, d, << >>, 0))
    <2>1. HeaderWith(OfParts(h.msgtype, h.transtype, h.gcgid, h.gosid, << >>, << >>, 0), 5, HeadData(c[6]))
           = OfParts(h.msgtype, h.transtype, h.gcgid, h.gosid, d, << >>, 0)
        BY <1>2, <1>6, <1>7, SMTT(40)
    <2>2. 6 \in 1..8 /\ 5 \in 0..7 /\ 5 = 6 - 1 OBVIOUS
    <2> QED BY <1>13, <1>5, <2>1, <2>2
<1>15. r[7] = Reached(OfParts(h.msgtype, h.transtype, h.gcgid, h.gosid, d, t, 0))
    <2>1. HeaderWith(OfParts(h.msgtype, h.transtype, h.gcgid, h.gosid, d, << >>, 0), 6, HeadData(c[7]))
           = OfParts(h.msgtype, h.transtype, h.gcgid, h.gosid, d, t, 0)
        BY <1>2, <1>6, <1>7
    <2>2. 7 \in 1..8 /\ 6 \in 0..7 /\ 6 = 7 - 1 OBVIOUS
    <2> QED BY <1>14, <1>5, <2>1, <2>2
<1>16. r[8] = Reached(OfParts(h.msgtype, h.transtype, h.gcgid, h.gosid, d, t, h.msgseq))
    <2>1. HeaderWith(OfParts(h.msgtype, h.transtype, h.gcgid, h.gosid, d, t, 0), 7, HeadData(c[8]))
           = OfParts(h.msgtype, h.transtype, h.gcgid, h.gosid, d, t, h.msgseq)
        BY <1>2, <1>6, <1>7
    <2>2. 8 \in 1..8 /\ 7 \in 0..7 /\ 7 = 8 - 1 OBVIOUS
    <2> QED BY <1>15, <1>5, <2>1, <2>2
<1> QED BY <1>1, <1>8, <1>16 DEF Reached

LEMMA ReceivedOK ==
    ASSUME NEW c \in Sent, FC.RESCODE <= c.code
    PROVE  Received(c) \in Field
<1>1. PICK f : f = Received(c) /\ f.code = c.code
               /\ f = [code |-> f.code, length |-> f.length, data |-> f.data]
    BY ReceivedCode
<1>2. f.code \in Range(FC) /\ FC.RESCODE <= f.code BY <1>1 DEF Sent, ChunkSet
<1>3. AddChunk(InitMsg, c) \in Msgs BY InitMsgOK, AddChunkOK
<1>4. AddChunk(InitMsg, c) = [header |-> HeaderWith(InitMsg.header, f.code, f.data),
                              fields |-> Append(InitMsg.fields, f)]
    <2>1. AddChunk(InitMsg, c) = Added(InitMsg, f) BY <1>1, ChunkAdds
    <2> QED BY <1>1, <1>2, <2>1, AddedFields
<1>5. Append(InitMsg.fields, f) = <<f>> BY DEF InitMsg
<1>6. <<f>> \in Seq(Field) BY <1>3, <1>4, <1>5 DEF Msgs
<1> QED BY <1>1, <1>6, ElementOfSeq

(* A frame of a message is parsed into one with the same header, as of the *)
(* time it was made, and with what each of its fields is received as.      *)
ReceivedFields(m) == [i \in 1..Len(m.fields) |-> Received(FieldChunk(m.fields[i]))]
Framed(h) == FrameHead(h, SubSeq(Today, 1, 8), SubSeq(Today, 9, 14))

LEMMA MessageBack ==
    ASSUME NEW m \in Msgs, InWidth(m.header.msgtype, 1), InWidth(m.header.transtype, 1)
    PROVE  Holds(ParseFields(InitMsg, GenerateFrame(m).chunks).msg, Len(m.fields),
                 ReceivedFields(m), Framed(m.header))
<1> DEFINE hc == HeaderChunks(m.header)
           fc == FieldChunks(m)
<1>1. m.header \in Header /\ m.fields \in Seq(Field) BY DEF Msgs
<1>2. PICK n \in Nat : n = Len(m.fields) /\ \A i \in 1..n : m.fields[i] \in Field
    BY <1>1, LenProperties, ElementOfSeq
<1>3. hc \in Seq(Sent) /\ Len(hc) = 8 BY <1>1, HeaderChunksOK
<1>4. fc \in Seq(Sent) /\ Len(fc) = n /\ \A i \in 1..n : fc[i] = FieldChunk(m.fields[i])
    <2>1. fc = [i \in 1..n |-> FieldChunk(m.fields[i])] BY <1>2 DEF FieldChunks
    <2>2. ASSUME NEW i \in 1..n PROVE FieldChunk(m.fields[i]) \in Sent BY <1>2, FieldChunkOK DEF Sent
    <2>3. fc \in [1..n -> Sent] BY <2>1, <2>2
    <2> QED BY <1>2, <2>1, <2>3, FunctionIsSeq
<1>5. PICK chunks : chunks = GenerateFrame(m).chunks /\ chunks = hc \o fc BY DEF GenerateFrame
<1> HIDE DEF fc
<1>6. /\ chunks \in Seq(Sent) /\ Len(chunks) = 8 + n
      /\ \A k \in 1..8 : chunks[k] = hc[k]
      /\ \A k \in 1..n : chunks[8 + k] = fc[k]
    <2>1. Spliced(chunks, hc, fc, Sent) BY <1>3, <1>4, <1>5, ConcatAt
    <2> HIDE DEF hc
    <2> QED BY <1>3, <1>4, <2>1 DEF Spliced
<1>7. PICK r : Rounds(r, InitMsg, chunks) BY <1>6, InitMsgOK, RoundSteps
<1>8. /\ r[0] = Parsed("NOERROR", InitMsg) /\ r[8 + n] = ParseFields(InitMsg, chunks)
      /\ \A k \in 0..(8 + n) : r[k] \in Good
      /\ \A k \in 1..(8 + n) : r[k] = Round(r[k - 1], chunks[k])
    BY <1>6, <1>7 DEF Rounds
<1>9. r[8] = Parsed("NOERROR", Only(Framed(m.header)))
    <2>1. \A k \in 1..8 : k \in 1..(8 + n) OBVIOUS
    <2>2. \A k \in 1..8 : r[k] = Round(r[k - 1], hc[k]) BY <1>6, <1>8, <2>1
    <2>3. PICK h \in Header : h = m.header /\ InWidth(h.msgtype, 1) /\ InWidth(h.transtype, 1) BY <1>1
    <2>4. PICK c : c = HeaderChunks(h) /\ c = hc BY <2>3
    <2>5. \A k \in 1..8 : r[k] = Round(r[k - 1], c[k]) BY <2>2, <2>4
    <2>6. r[0] = Parsed("NOERROR", InitMsg) BY <1>8
    <2>7. r[8] = Parsed("NOERROR", Only(FrameHead(h, SubSeq(Today, 1, 8), SubSeq(Today, 9, 14))))
        BY <2>3, <2>4, <2>5, <2>6, HeaderBack, ZenonT(60)
    <2> QED BY <2>3, <2>7 DEF Framed
<1>10. PICK F : F = ReceivedFields(m) OBVIOUS
<1>11. F \in [1..n -> Field] /\ \A k \in 1..n : F[k] = Received(fc[k])
    <2>1. F = [i \in 1..n |-> Received(fc[i])] BY <1>2, <1>4, <1>10 DEF ReceivedFields
    <2>2. ASSUME NEW k \in 1..n PROVE Received(fc[k]) \in Field
        <3>1. fc[k] \in Sent BY <1>4, ElementOfSeq
        <3>2. FC.RESCODE <= fc[k].code
            <4>1. FC.RESCODE <= m.fields[k].code BY <1>2 DEF Field, Sound
            <4>2. fc[k].code = m.fields[k].code BY <1>4 DEF FieldChunk
            <4> QED BY <4>1, <4>2
        <3> QED BY <3>1, <3>2, ReceivedOK
    <2> QED BY <2>1, <2>2
<1>12. PICK base \in Msgs : base = r[8].msg
    <2>1. 8 \in 0..(8 + n) OBVIOUS
    <2> QED BY <1>8, <2>1 DEF Good
<1>13. base = Only(Framed(m.header)) BY <1>9, <1>12 DEF Parsed
<1>14. PICK g : g = [k \in 0..n |-> r[8 + k].msg] OBVIOUS
<1>15. g[0] = base
    <2>1. 0 \in 0..n /\ 8 + 0 = 8 OBVIOUS
    <2> QED BY <1>12, <1>14, <2>1
<1>16. ASSUME NEW k \in 1..n PROVE g[k] = Added(g[k - 1], F[k])
    <2>1. k \in 0..n /\ k - 1 \in 0..n /\ 8 + k \in 1..(8 + n) /\ 8 + (k - 1) = (8 + k) - 1
          /\ 8 + (k - 1) \in 0..(8 + n)
        OBVIOUS
    <2>2. PICK p \in Good : p = r[8 + (k - 1)] /\ r[8 + k] = Round(p, fc[k]) BY <1>6, <1>8, <2>1
    <2>3. fc[k] \in Sent BY <1>4, ElementOfSeq
    <2>4. p.stat = "NOERROR" BY DEF Good
    <2>5. ~Foreign(fc[k]) BY <2>3 DEF Sent, Carried
    <2>6. r[8 + k] = Parsed("NOERROR", AddChunk(p.msg, fc[k])) BY <2>2, <2>4, <2>5 DEF Round
    <2>7. AddChunk(p.msg, fc[k]) = Added(p.msg, Received(fc[k])) BY <2>3, ChunkAdds
    <2>8. r[8 + k].msg = Added(p.msg, F[k]) BY <1>11, <2>6, <2>7 DEF Parsed
    <2> QED BY <1>14, <2>1, <2>2, <2>8
<1>17. base.fields = << >> /\ base.header = Framed(m.header) BY <1>13 DEF Only
<1>18. \A k \in 0..n : Holds(g[k], k, F, base.header) BY <1>11, <1>15, <1>16, <1>17, AddAll
<1>19. n \in 0..n /\ g[n] = r[8 + n].msg BY <1>14
<1> QED BY <1>2, <1>5, <1>8, <1>10, <1>17, <1>18, <1>19

-----------------------------------------------------------------------------
(* What arrives of a content *)

Arrived(h, entries) == ParseFields(InitMsg, GenerateFrame(Composed(h, entries)).chunks).msg
Back(e) == Received(FieldChunk(FieldFor(e)))
Backs(entries) == [i \in 1..Len(entries) |-> Back(entries[i])]

LEMMA ArriveOf ==
    ASSUME NEW h \in Headers, NEW entries \in Seq(Entries)
    PROVE  \E header : /\ Headed(header, h)
                       /\ Holds(Arrived(h, entries), Len(entries), Backs(entries), Framed(header))
<1>1. PICK n \in Nat : n = Len(entries) BY LenProperties
<1>2. PICK base \in Msgs : base.fields = << >> /\ Headed(base.header, h)
                           /\ Composed(h, entries) = FoldLeft(Put, base, entries)
    BY StartOf
<1>3. PICK m : m = Composed(h, entries) OBVIOUS
<1>4. m \in Msgs BY <1>3, ComposedOK
<1>5. Holds(m, n, FieldsOf(entries), base.header) BY <1>1, <1>2, <1>3, PutFields
<1>6. Headed(m.header, h)
    <2>1. \A x \in Numbered : m.header[x] = base.header[x] BY <1>5 DEF Holds
    <2> QED BY <1>2, <2>1 DEF Headed, Numbered
<1>7. InWidth(m.header.msgtype, 1) /\ InWidth(m.header.transtype, 1)
    <2>0. h.msgtype \in Byte /\ h.transtype \in Byte BY WidthsAssumption, SMT
    <2>1. PICK a \in Byte, b \in Byte : a = h.msgtype /\ b = h.transtype BY <2>0
    <2>2. a = m.header.msgtype /\ b = m.header.transtype BY <1>6, <2>1 DEF Headed
    <2>3. InWidth(a, 1) /\ InWidth(b, 1) BY DEF InWidth, Byte, Place
    <2> QED BY <2>2, <2>3
<1>8. Len(m.fields) = n /\ \A i \in 1..n : m.fields[i] = FieldFor(entries[i])
    BY <1>1, <1>5 DEF Holds, FieldsOf
<1>9. ReceivedFields(m) = Backs(entries)
    <2>1. \A i \in 1..n : Received(FieldChunk(m.fields[i])) = Back(entries[i]) BY <1>8 DEF Back
    <2> QED BY <1>1, <1>8, <2>1 DEF ReceivedFields, Backs
<1>10. Holds(Arrived(h, entries), n, Backs(entries), Framed(m.header))
    BY <1>3, <1>4, <1>7, <1>8, <1>9, MessageBack DEF Arrived
<1> QED BY <1>1, <1>6, <1>10

(* What tp3_readfield finds. *)
Found(m, n, code) ==
    \/ ReadField(m, code) = NoField /\ \A i \in 1..n : m.fields[i].code # code
    \/ \E i \in 1..n : ReadField(m, code) = m.fields[i] /\ m.fields[i].code = code

LEMMA ReadFieldOf ==
    ASSUME NEW m, NEW n \in Nat, Len(m.fields) = n, NEW code
    PROVE  Found(m, n, code)
<1> DEFINE I == {i \in 1..Len(m.fields) : m.fields[i].code = code}
           at == SelectInSeq(m.fields, LAMBDA f : f.code = code)
<1>1. at = IF I # {} THEN Min(I) ELSE 0
    BY Zenon DEF SelectInSeq
<1>2. ReadField(m, code) = IF at = 0 THEN NoField ELSE m.fields[at]
    BY DEF ReadField
<1> HIDE DEF at
<1>3. I \subseteq Nat /\ 0 \notin I /\ \A i \in I : i \in 1..n /\ m.fields[i].code = code OBVIOUS
<1>4. CASE I = {}
    BY <1>1, <1>2, <1>4 DEF Found
<1>5. CASE I # {}
    <2> HIDE DEF I
    <2>1. \E x \in I : \A y \in I : x <= y BY <1>3, <1>5, LeastNat
    <2>2. Min(I) \in I BY <2>1, Zenon DEF Min
    <2>3. at \in I /\ at # 0 BY <1>1, <1>3, <1>5, <2>2
    <2> QED BY <1>2, <1>3, <2>3 DEF Found
<1> QED BY <1>4, <1>5

LEMMA BackCode ==
    ASSUME NEW e \in Entries
    PROVE  Back(e).code = e.code
<1>1. FieldChunk(FieldFor(e)).code = FieldFor(e).code BY DEF FieldChunk
<1> QED BY <1>1, CodeOf, ReceivedCode DEF Back

(* Of entries with different codes each is found, and nothing else.        *)
LEMMA EntryFound ==
    ASSUME NEW h \in Headers, NEW entries \in Seq(Entries), Readable(entries), NEW i \in 1..Len(entries)
    PROVE  ReadField(Arrived(h, entries), entries[i].code) = Back(entries[i])
<1>1. PICK n \in Nat : n = Len(entries) BY LenProperties
<1>2. PICK m : m = Arrived(h, entries) OBVIOUS
<1>3. Len(m.fields) = n /\ \A j \in 1..n : m.fields[j] = Back(entries[j])
    BY <1>1, <1>2, ArriveOf DEF Holds, Backs
<1>4. \A j \in 1..n : m.fields[j].code = entries[j].code
    <2>1. ASSUME NEW j \in 1..n PROVE Back(entries[j]).code = entries[j].code
        <3>1. entries[j] \in Entries BY <1>1, ElementOfSeq
        <3> QED BY <3>1, BackCode
    <2> QED BY <1>3, <2>1
<1>5. \A j \in 1..n : entries[j].code = entries[i].code => j = i
    <2>1. DOMAIN entries = 1..n BY <1>1, LenProperties
    <2> QED BY <1>1, <2>1 DEF Readable
<1>6. i \in 1..n BY <1>1
<1>7. PICK code : code = entries[i].code OBVIOUS
<1>8. m.fields[i].code = code BY <1>4, <1>6, <1>7
<1>9. PICK j \in 1..n : ReadField(m, code) = m.fields[j] /\ m.fields[j].code = code
    <2>1. Found(m, n, code) BY <1>1, <1>3, ReadFieldOf
    <2> QED BY <1>6, <1>8, <2>1, Zenon DEF Found
<1>10. j = i BY <1>4, <1>5, <1>7, <1>9
<1> QED BY <1>2, <1>3, <1>6, <1>7, <1>9, <1>10

(* Both halves of the date and the time. *)
LEMMA TodayWhole == SubSeq(Today, 1, 8) \o SubSeq(Today, 9, 14) = Today
<1>1. PICK t \in Seq(Byte) : t = Today /\ Len(t) = 14
    <2>1. Today \in [1..14 -> Byte] BY CodecAssumption DEF Byte
    <2>2. 14 \in Nat OBVIOUS
    <2>3. Today \in Seq(Byte) /\ Len(Today) = 14 BY <2>1, <2>2, FunctionIsSeq, Zenon
    <2> QED BY <2>3
<1>2. PICK u \in Seq(Byte) : u = SubSeq(t, 1, 8) /\ Len(u) = 8 /\ \A k \in 1..8 : u[k] = t[k]
    <2>1. PICK x : x = SubSeq(t, 1, 8) OBVIOUS
    <2>2. 1 \in Nat \ {0} /\ 8 \in Nat /\ 8 <= Len(t) /\ 1 <= 8 + 1 BY <1>1
    <2>3. x \in Seq(Byte) /\ Len(x) = 8 - 1 + 1 /\ \A k \in 1..(8 - 1 + 1) : x[k] = t[1 + k - 1]
        BY <2>1, <2>2, SubSeqOf
    <2>4. ASSUME NEW k \in 1..8 PROVE x[k] = t[k]
        <3>1. k \in 1..(8 - 1 + 1) /\ 1 + k - 1 = k OBVIOUS
        <3>2. x[k] = t[1 + k - 1] BY <2>3, <3>1, Zenon
        <3> QED BY <3>1, <3>2
    <2>5. Len(x) = 8 BY <2>3
    <2> QED BY <2>1, <2>3, <2>4, <2>5, Zenon
<1>3. PICK v \in Seq(Byte) : v = SubSeq(t, 9, 14) /\ Len(v) = 6 /\ \A k \in 1..6 : v[k] = t[8 + k]
    <2>1. PICK x : x = SubSeq(t, 9, 14) OBVIOUS
    <2>2. 9 \in Nat \ {0} /\ 14 \in Nat /\ 14 <= Len(t) /\ 9 <= 14 + 1 BY <1>1
    <2>3. x \in Seq(Byte) /\ Len(x) = 14 - 9 + 1 /\ \A k \in 1..(14 - 9 + 1) : x[k] = t[9 + k - 1]
        BY <2>1, <2>2, SubSeqOf
    <2>4. ASSUME NEW k \in 1..6 PROVE x[k] = t[8 + k]
        <3>1. k \in 1..(14 - 9 + 1) /\ 9 + k - 1 = 8 + k OBVIOUS
        <3>2. x[k] = t[9 + k - 1] BY <2>3, <3>1, Zenon
        <3> QED BY <3>1, <3>2
    <2>5. Len(x) = 6 BY <2>3
    <2> QED BY <2>1, <2>3, <2>4, <2>5, Zenon
<1>4. PICK w : w = u \o v OBVIOUS
<1>5. w \in Seq(Byte) /\ Len(w) = 14 /\ (\A k \in 1..8 : w[k] = u[k]) /\ \A k \in 1..6 : w[8 + k] = v[k]
    <2>1. Spliced(w, u, v, Byte) BY <1>4, ConcatAt
    <2>2. /\ w \in Seq(Byte) /\ Len(w) = Len(u) + Len(v)
          /\ \A k \in 1..Len(u) : w[k] = u[k]
          /\ \A k \in 1..Len(v) : w[Len(u) + k] = v[k]
        BY <2>1 DEF Spliced
    <2>3. Len(u) = 8 /\ Len(v) = 6 BY <1>2, <1>3
    <2>4. Len(w) = 14 BY <2>2, <2>3
    <2>5. \A k \in 1..8 : w[k] = u[k] BY <2>2, <2>3, Zenon
    <2>6. \A k \in 1..6 : w[8 + k] = v[k] BY <2>2, <2>3, Zenon
    <2> QED BY <2>2, <2>4, <2>5, <2>6, Zenon
<1>6. \A k \in 1..14 : w[k] = t[k]
    <2>1. ASSUME NEW k \in 1..14 PROVE w[k] = t[k]
        <3>1. CASE k \in 1..8 BY <1>2, <1>5, <3>1
        <3>2. CASE k \in 9..14
            <4>1. PICK l \in 1..6 : k = 8 + l
                <5>1. k - 8 \in 1..6 /\ k = 8 + (k - 8) BY <3>2
                <5> QED BY <5>1
            <4> QED BY <1>3, <1>5, <4>1
        <3> QED BY <3>1, <3>2
    <2> QED BY <2>1
<1>7. w = t BY <1>1, <1>5, <1>6, SeqEqual
<1> QED BY <1>1, <1>2, <1>3, <1>4, <1>7

(* The header of what arrives is the one that was sent, and the frame's    *)
(* date and time are in it.                                                *)
LEMMA HeaderArrives ==
    ASSUME NEW h \in Headers, NEW entries \in Seq(Entries), NEW a, a = Arrived(h, entries).header
    PROVE  Headed(a, h) /\ a.tdate \o a.ttime = Today
<1>1. PICK header : /\ Headed(header, h)
                    /\ Holds(Arrived(h, entries), Len(entries), Backs(entries), Framed(header))
    BY ArriveOf
<1>2. \A x \in Numbered : a[x] = Framed(header)[x] BY <1>1 DEF Holds
<1>3. /\ a.msgtype = header.msgtype /\ a.transtype = header.transtype /\ a.gcgid = header.gcgid
      /\ a.gosid = header.gosid /\ a.msgseq = header.msgseq
      /\ a.tdate = SubSeq(Today, 1, 8) /\ a.ttime = SubSeq(Today, 9, 14)
    BY <1>2 DEF Numbered, Framed, FrameHead
<1>4. Headed(a, h) BY <1>1, <1>3 DEF Headed
<1> QED BY <1>3, <1>4, TodayWhole

LEMMA RescodeArrives ==
    ASSUME PastHeader = 1, NEW h \in Headers, NEW entries \in Seq(Entries), Readable(entries),
           NEW i \in 1..Len(entries), entries[i].how = "rescode"
    PROVE  Arrived(h, entries).header.rescode = entries[i].val[1]
<1>1. PICK n \in Nat : n = Len(entries) BY LenProperties
<1>2. PICK e \in Entries : e = entries[i] BY ElementOfSeq
<1>3. e.code = FC.RESCODE BY <1>2 DEF Entries
<1>4. Whole(e) /\ Fits(e)
    <2>1. DOMAIN entries = 1..n BY <1>1, LenProperties
    <2>2. Fits(e) BY <1>1, <1>2, <2>1 DEF Readable
    <2>3. FieldLen(e.code) = 1
        <3>1. e.code = 8 BY <1>3, CodeNumbers
        <3> QED BY <3>1, HeaderLengths
    <2> QED BY <1>2, <2>2, <2>3 DEF Whole
<1>5. Back(e) = Numeric(e.code, e.val[1]) /\ e.val[1] \in Int /\ InWidth(e.val[1], 1)
    <2>1. Back(e) = FieldFor(e) BY <1>4, FieldBack DEF Back
    <2>2. FieldFor(e) = Numeric(e.code, e.val[1]) /\ e.val[1] \in Int
          /\ InWidth(e.val[1], FieldLen(e.code))
        BY <1>2, <1>4, NumField
    <2>3. e.code = 8 BY <1>3, CodeNumbers
    <2>4. FieldLen(8) = 1 BY HeaderLengths
    <2> QED BY <2>1, <2>2, <2>3, <2>4
<1>6. IntOf(Back(e).data) = e.val[1]
    <2>1. Back(e).data = Word(e.val[1]) BY <1>5 DEF Numeric
    <2>2. 1 \in 1..4 OBVIOUS
    <2>3. IsInt(e.val[1]) BY <1>5, <2>2, WidthIsInt
    <2> QED BY <1>5, <2>1, <2>3, WordRead
<1>7. PICK header : Holds(Arrived(h, entries), n, Backs(entries), Framed(header)) BY <1>1, ArriveOf
<1>8. i \in 1..n BY <1>1
<1>9. PICK F : F = Backs(entries) /\ F[i] = Back(e) /\ \A j \in 1..n : F[j].code = entries[j].code
    <2>1. \A j \in 1..n : Backs(entries)[j] = Back(entries[j]) BY <1>1 DEF Backs
    <2>2. ASSUME NEW j \in 1..n PROVE Back(entries[j]).code = entries[j].code
        <3>1. entries[j] \in Entries BY <1>1, ElementOfSeq
        <3> QED BY <3>1, BackCode
    <2> QED BY <1>2, <1>8, <2>1, <2>2
<1>10. \A j \in 1..n : F[j].code = FC.RESCODE => j <= i
    <2>1. DOMAIN entries = 1..n BY <1>1, LenProperties
    <2>2. \A j \in 1..n : entries[j].code = entries[i].code => j = i BY <1>8, <2>1 DEF Readable
    <2> QED BY <1>1, <1>2, <1>3, <1>8, <1>9, <2>2
<1>11. F[i].code = FC.RESCODE BY <1>2, <1>3, <1>8, <1>9
<1>12. Arrived(h, entries).header.rescode = IntOf(F[i].data) BY <1>7, <1>8, <1>9, <1>10, <1>11 DEF Holds
<1> QED BY <1>2, <1>6, <1>9, <1>12

-----------------------------------------------------------------------------
(* The contents of messages fit the codes they are put under *)

(* All numbers of a list fit as many bytes. *)
Slim(list, w) == \A i \in 1..Len(list) : InWidth(list[i], w)

LEMMA TwoFit ==
    ASSUME NEW v \in Int, InWidth(v, 2)
    PROVE  InWidth(v, 4)
<1>1. 0 <= v /\ v <= 65535 BY SMT DEF InWidth, Place
<1>2. IsInt(v) BY <1>1, SMT DEF IsInt, IntMax, Place
<1> QED BY <1>2 DEF InWidth

LEMMA ByteFits ==
    ASSUME NEW v \in Byte
    PROVE  InWidth(v, 1) /\ InWidth(v, 2) /\ InWidth(v, 4)
<1>1. v \in Int /\ InWidth(v, 1) BY DEF InWidth, Byte, Place
<1>2. InWidth(v, 2)
    <2>1. v \in 0..255 BY DEF Byte
    <2> QED BY <2>1, SMT DEF InWidth, Place
<1> QED BY <1>1, <1>2, TwoFit

LEMMA NodeListSlim ==
    ASSUME NEW nset, NsetOK(nset)
    PROVE  Slim(NodeList(nset, "id"), 3) /\ Slim(NodeList(nset, "stat"), 1)
<1>1. PICK n \in Nat : n = Len(nset.nodes) BY NsetFits
<1>2. \A k \in 1..n : nset.nodes[k] \in Node
    <2>1. nset.nodes \in Seq(Node) BY DEF NsetOK
    <2> QED BY <1>1, <2>1, ElementOfSeq
<1>3. ASSUME NEW part
      PROVE  /\ NodeList(nset, part) = [i \in 1..n |-> nset.nodes[i][part]]
             /\ Len(NodeList(nset, part)) = n
    <2>1. PICK f : f = [i \in 1..n |-> nset.nodes[i][part]] OBVIOUS
    <2>2. Len(f) = n BY <1>1, <2>1
    <2> QED BY <1>1, <2>1, <2>2 DEF NodeList
<1>4. ASSUME NEW k \in 1..n
      PROVE  InWidth(NodeList(nset, "id")[k], 3) /\ InWidth(NodeList(nset, "stat")[k], 1)
    <2>1. nset.nodes[k].id \in NodeId /\ nset.nodes[k].stat \in Byte BY <1>2 DEF Node
    <2>2. NodeList(nset, "id")[k] = nset.nodes[k].id /\ NodeList(nset, "stat")[k] = nset.nodes[k].stat
        BY <1>3
    <2>3. \A id \in NodeId : InWidth(id, 3) BY WidthsAssumption, SMT
    <2> QED BY <2>1, <2>2, <2>3, ByteFits
<1>5. Len(NodeList(nset, "id")) = n /\ Len(NodeList(nset, "stat")) = n BY <1>3
<1> QED BY <1>4, <1>5, Zenon DEF Slim

LEMMA DevListSlim ==
    ASSUME NEW nset, NsetOK(nset)
    PROVE  /\ Slim(DevList(nset, "gid"), 4) /\ Slim(DevList(nset, "stat"), 1)
           /\ Slim(DevList(nset, "env"), 2) /\ Slim(DevList(nset, "env"), 4)
<1> DEFINE ss == NodeList(nset, "devs")
           devs == FlattenSeq(ss)
           m == Len(nset.nodes)
<1>1. nset.nodes \in Seq(Node) /\ m \in Nat /\ nset.numofdev \in Nat
    BY NsetFits DEF NsetOK
<1>2. ss \in [1..m -> Seq(NodeDevice)]
    <2>0. \A d \in NodeDevs : d \in Seq(NodeDevice) BY WidthsAssumption, SMT
    <2>1. ASSUME NEW k \in 1..m PROVE nset.nodes[k]["devs"] \in Seq(NodeDevice)
        <3>1. nset.nodes[k] \in Node BY <1>1, ElementOfSeq
        <3>2. nset.nodes[k].devs \in NodeDevs BY <3>1 DEF Node
        <3> QED BY <2>0, <3>2
    <2> QED BY <2>1 DEF NodeList
<1>3. devs \in Seq(NodeDevice)
    <2> HIDE DEF ss, m
    <2> QED BY <1>1, <1>2, FlattenType
<1>4. \A part : DevList(nset, part)
                = [i \in 1..nset.numofdev |->
                        IF 1 \notin Gaps(nset) /\ i <= Len(devs) THEN devs[i][part] ELSE Stack]
    BY DEF DevList
<1> HIDE DEF devs
<1>5. PICK n, l, written \in Nat : /\ n = nset.numofdev /\ written = Len(devs)
                                    /\ (1 \in Gaps(nset) => l = 0)
                                    /\ (1 \notin Gaps(nset) => l = written)
                                    /\ l <= written
    <2>1. Len(devs) \in Nat BY <1>3, LenProperties
    <2>2. PICK w \in Nat : w = Len(devs) BY <2>1
    <2>3. CASE 1 \in Gaps(nset)
        <3>1. 0 \in Nat /\ 0 <= w OBVIOUS
        <3> QED BY <1>1, <2>2, <2>3, <3>1
    <2>4. CASE 1 \notin Gaps(nset)
        <3>1. w <= w OBVIOUS
        <3> QED BY <1>1, <2>2, <2>4, <3>1
    <2> QED BY <2>3, <2>4
<1>8. \A i \in 1..n : (1 \notin Gaps(nset) /\ i <= Len(devs)) <=> i <= l
    <2>1. CASE 1 \notin Gaps(nset) BY <1>5, <2>1
    <2>2. CASE 1 \in Gaps(nset)
        <3>1. l = 0 BY <1>5, <2>2
        <3> QED BY <1>5, <2>2, <3>1
    <2> QED BY <2>1, <2>2
<1>6. ASSUME NEW part
      PROVE  /\ Len(DevList(nset, part)) = n
             /\ \A i \in 1..n : DevList(nset, part)[i] = IF i <= l THEN devs[i][part] ELSE Stack
    <2>1. PICK f : f = [i \in 1..n |-> IF i <= l THEN devs[i][part] ELSE Stack] OBVIOUS
    <2>2. Len(f) = n /\ \A i \in 1..n : f[i] = IF i <= l THEN devs[i][part] ELSE Stack BY <2>1
    <2>3. DevList(nset, part)
            = [i \in 1..n |-> IF 1 \notin Gaps(nset) /\ i <= Len(devs) THEN devs[i][part] ELSE Stack]
        BY <1>4, <1>5
    <2>4. DevList(nset, part) = f BY <1>8, <2>1, <2>3
    <2> QED BY <2>2, <2>4
<1>7. InWidth(Stack, 4) /\ InWidth(Stack, 1) /\ InWidth(Stack, 2)
    BY FieldsAssumption, ByteFits
<1>9. ASSUME NEW i \in 1..n
      PROVE  /\ InWidth(DevList(nset, "gid")[i], 4) /\ InWidth(DevList(nset, "stat")[i], 1)
             /\ InWidth(DevList(nset, "env")[i], 2) /\ InWidth(DevList(nset, "env")[i], 4)
    <2>1. CASE i <= l
        <3>1. i \in 1..Len(devs) BY <1>5, <2>1
        <3>2. devs[i] \in NodeDevice BY <1>3, <1>5, <3>1, ElementOfSeq
        <3>3. /\ InWidth(devs[i].gid, 4) /\ InWidth(devs[i].stat, 1)
              /\ InWidth(devs[i].env, 2) /\ devs[i].env \in Int
            BY <3>2 DEF NodeDevice, OfWidth
        <3>4. InWidth(devs[i].env, 4) BY <3>3, TwoFit
        <3>5. /\ DevList(nset, "gid")[i] = devs[i].gid /\ DevList(nset, "stat")[i] = devs[i].stat
              /\ DevList(nset, "env")[i] = devs[i].env
            BY <1>6, <2>1
        <3> QED BY <3>3, <3>4, <3>5
    <2>2. CASE ~(i <= l)
        <3>1. /\ DevList(nset, "gid")[i] = Stack /\ DevList(nset, "stat")[i] = Stack
              /\ DevList(nset, "env")[i] = Stack
            BY <1>6, <2>2
        <3> QED BY <1>7, <3>1
    <2> QED BY <2>1, <2>2
<1>10. Len(DevList(nset, "gid")) = n /\ Len(DevList(nset, "stat")) = n /\ Len(DevList(nset, "env")) = n
    BY <1>6
<1> QED BY <1>9, <1>10, Zenon DEF Slim

(* Entries that can be read back, under some of the codes S. *)
Within(entries, S) ==
    /\ entries \in Seq(Entries) /\ Readable(entries)
    /\ \A i \in 1..Len(entries) : entries[i].code \in S

LEMMA NothingWithin ==
    ASSUME NEW S
    PROVE  Within(<< >>, S)
BY EmptySeq DEF Within, Readable

LEMMA OneWithin ==
    ASSUME NEW e \in Entries, Fits(e)
    PROVE  Within(<<e>>, {e.code})
<1>1. PICK s : s = <<e>> OBVIOUS
<1>2. s \in Seq(Entries) /\ Len(s) = 1 /\ s[1] = e /\ DOMAIN s = 1..1 BY <1>1
<1>3. \A i \in 1..1 : i = 1 OBVIOUS
<1>4. Readable(s) BY <1>2, <1>3 DEF Readable
<1> QED BY <1>1, <1>2, <1>3, <1>4 DEF Within

LEMMA BothWithin ==
    ASSUME NEW S, NEW T, S \cap T = {}, NEW a, Within(a, S), NEW b, Within(b, T)
    PROVE  Within(a \o b, S \cup T)
<1>1. PICK m, n \in Nat : m = Len(a) /\ n = Len(b) /\ DOMAIN a = 1..m /\ DOMAIN b = 1..n
    BY LenProperties DEF Within
<1>2. a \in Seq(Entries) /\ b \in Seq(Entries) BY DEF Within
<1>3. PICK c : c = a \o b OBVIOUS
<1>4. c \in Seq(Entries) /\ Len(c) = m + n /\ (\A i \in 1..m : c[i] = a[i])
      /\ \A j \in 1..n : c[m + j] = b[j]
    <2>1. c \in Seq(Entries) /\ Len(c) = m + n BY <1>1, <1>2, <1>3, ConcatProperties
    <2>2. ASSUME NEW i \in 1..m PROVE c[i] = a[i]
        <3>1. i \in 1..(m + n) /\ i <= m OBVIOUS
        <3> QED BY <1>1, <1>2, <1>3, <3>1, ConcatProperties
    <2>3. ASSUME NEW j \in 1..n PROVE c[m + j] = b[j]
        <3>1. m + j \in 1..(m + n) /\ ~(m + j <= m) /\ (m + j) - m = j OBVIOUS
        <3> QED BY <1>1, <1>2, <1>3, <3>1, ConcatProperties
    <2> QED BY <2>1, <2>2, <2>3
<1>5. DOMAIN c = 1..(m + n) BY <1>4, LenProperties
<1>6. ASSUME NEW i \in 1..(m + n)
      PROVE  \/ i \in 1..m /\ c[i] = a[i] /\ a[i].code \in S /\ Fits(a[i])
             \/ \E j \in 1..n : i = m + j /\ c[i] = b[j] /\ b[j].code \in T /\ Fits(b[j])
    <2>1. CASE i <= m
        <3>1. i \in 1..m BY <2>1
        <3>2. c[i] = a[i] BY <1>4, <3>1
        <3>3. a[i].code \in S /\ Fits(a[i]) BY <1>1, <3>1 DEF Within, Readable
        <3> QED BY <3>1, <3>2, <3>3
    <2>2. CASE i > m
        <3>1. PICK j \in 1..n : i = m + j
            <4>1. i - m \in 1..n /\ i = m + (i - m) BY <2>2
            <4> QED BY <4>1
        <3>2. c[i] = b[j] BY <1>4, <3>1
        <3>3. b[j].code \in T /\ Fits(b[j]) BY <1>1 DEF Within, Readable
        <3> QED BY <3>1, <3>2, <3>3
    <2> QED BY <2>1, <2>2
<1>7. \A i \in 1..(m + n) : Fits(c[i]) /\ c[i].code \in S \cup T BY <1>6
<1>8. ASSUME NEW i \in 1..(m + n), NEW k \in 1..(m + n), c[i].code = c[k].code
      PROVE  i = k
    <2>1. CASE i \in 1..m /\ k \in 1..m
        <3>1. a[i].code = a[k].code BY <1>4, <1>8, <2>1
        <3> QED BY <1>1, <2>1, <3>1 DEF Within, Readable
    <2>2. CASE i \notin 1..m /\ k \notin 1..m
        <3>1. PICK x \in 1..n : i = m + x /\ c[i] = b[x] BY <1>6, <2>2
        <3>2. PICK y \in 1..n : k = m + y /\ c[k] = b[y] BY <1>6, <2>2
        <3>3. b[x].code = b[y].code BY <1>8, <3>1, <3>2
        <3>4. x = y BY <1>1, <3>3 DEF Within, Readable
        <3> QED BY <3>1, <3>2, <3>4
    <2>3. CASE i \in 1..m /\ k \notin 1..m
        <3>1. c[i].code \in S BY <1>4, <1>1, <2>3 DEF Within
        <3>2. c[k].code \in T BY <1>6, <2>3
        <3> QED BY <1>8, <3>1, <3>2
    <2>4. CASE i \notin 1..m /\ k \in 1..m
        <3>1. c[k].code \in S BY <1>4, <1>1, <2>4 DEF Within
        <3>2. c[i].code \in T BY <1>6, <2>4
        <3> QED BY <1>8, <3>1, <3>2
    <2> QED BY <2>1, <2>2, <2>3, <2>4
<1>9. Readable(c) BY <1>5, <1>7, <1>8 DEF Readable
<1> QED BY <1>3, <1>4, <1>7, <1>9 DEF Within

LEMMA NumberWithin ==
    ASSUME NEW code \in CodesOfLength(1..4), NEW n \in Int, InWidth(n, FieldLen(code))
    PROVE  Within(Number(code, n), {code})
<1>1. PICK e : e = [how |-> "num", code |-> code, val |-> <<n>>] OBVIOUS
<1>2. e \in Entries
    <2>1. <<n>> \in [1..1 -> Int] OBVIOUS
    <2> QED BY <1>1, <2>1 DEF Entries
<1>3. e.how = "num" /\ e.code = code /\ e.val[1] = n BY <1>1
<1>4. Fits(e) BY <1>3 DEF Fits
<1>5. Number(code, n) = <<e>> BY <1>1 DEF Number, Entry
<1> QED BY <1>2, <1>3, <1>4, <1>5, OneWithin

LEMMA ArrayWithin ==
    ASSUME NEW code \in CodesOfLength(-4..-1), NEW list \in Seq(Int), Len(list) <= MaxInts,
           Slim(list, 0 - FieldLen(code))
    PROVE  Within(Entry("array", code, list), {code})
<1>1. PICK e : e = [how |-> "array", code |-> code, val |-> list] OBVIOUS
<1>2. e \in Entries BY <1>1 DEF Entries
<1>3. e.how = "array" /\ e.code = code /\ e.val = list BY <1>1
<1>4. DOMAIN list = 1..Len(list) BY LenProperties
<1>5. Fits(e) BY <1>3, <1>4 DEF Fits, Slim
<1>6. Entry("array", code, list) = <<e>> BY <1>1 DEF Entry
<1> QED BY <1>2, <1>3, <1>5, <1>6, OneWithin

LEMMA BytesWithin ==
    ASSUME NEW code \in FieldCodes, FieldLen(code) = 0, NEW bytes \in Seq(Byte), Fitting(bytes, code)
    PROVE  Within(Entry("bytes", code, bytes), {code})
<1>1. PICK e : e = [how |-> "bytes", code |-> code, val |-> bytes] OBVIOUS
<1>2. e \in Entries BY <1>1 DEF Entries
<1>3. e.how = "bytes" /\ e.code = code BY <1>1
<1>4. Fits(e) BY <1>3 DEF Fits
<1>5. Entry("bytes", code, bytes) = <<e>> BY <1>1 DEF Entry
<1> QED BY <1>2, <1>3, <1>4, <1>5, OneWithin

LEMMA TimeWithin ==
    ASSUME NEW code \in CodesOfLength({7}), NEW t \in Times
    PROVE  Within(Entry("time", code, t), {code})
<1>1. PICK e : e = [how |-> "time", code |-> code, val |-> t] OBVIOUS
<1>2. e \in Entries BY <1>1 DEF Entries
<1>3. e.how = "time" /\ e.code = code BY <1>1
<1>4. Fits(e) BY <1>3 DEF Fits
<1>5. Entry("time", code, t) = <<e>> BY <1>1 DEF Entry
<1> QED BY <1>2, <1>3, <1>4, <1>5, OneWithin

LEMMA ResponseWithin == Within(Response(0), {FC.RESCODE})
<1>1. PICK e : e = [how |-> "rescode", code |-> FC.RESCODE, val |-> <<0>>] OBVIOUS
<1>2. e \in Entries
    <2>1. <<0>> \in [1..1 -> Int] OBVIOUS
    <2> QED BY <1>1, <2>1 DEF Entries
<1>3. e.how = "rescode" /\ e.code = FC.RESCODE /\ e.val[1] = 0 BY <1>1
<1>4. Fits(e) BY <1>3 DEF Fits, Byte
<1>5. Response(0) = <<e>> BY <1>1 DEF Response, Entry
<1> QED BY <1>2, <1>3, <1>4, <1>5, OneWithin

-----------------------------------------------------------------------------
(* The reports of a GCG, its request to be connected, and its answer to a  *)
(* history query                                                           *)

LEMMA CountedWithin ==
    ASSUME NEW number \in CodesOfLength(1..4), NEW ids \in CodesOfLength(-4..-1), number # ids,
           NEW list \in Seq(Int), Len(list) <= MaxInts, InWidth(Len(list), FieldLen(number)),
           Slim(list, 0 - FieldLen(ids))
    PROVE  Within(Counted(number, ids, list), {number, ids})
<1>1. Within(Number(number, Len(list)), {number})
    <2>1. Len(list) \in Int BY LenProperties
    <2> QED BY <2>1, NumberWithin
<1>2. Within(Entry("array", ids, list), {ids}) BY ArrayWithin
<1>3. {number} \cap {ids} = {} /\ {number} \cup {ids} = {number, ids} OBVIOUS
<1>4. Within(Number(number, Len(list)) \o Entry("array", ids, list), {number} \cup {ids})
    BY <1>1, <1>2, <1>3, BothWithin
<1> QED BY <1>3, <1>4 DEF Counted

LEMMA ListedWithin ==
    ASSUME NEW number \in CodesOfLength(1..4), NEW ids \in CodesOfLength(-4..-1),
           NEW values \in CodesOfLength(-4..-1), number # ids, number # values, ids # values,
           NEW list, Lists(list), InWidth(Len(list[1]), FieldLen(number)),
           Slim(list[1], 0 - FieldLen(ids)), Slim(list[2], 0 - FieldLen(values))
    PROVE  Within(Listed(number, ids, values, list), {number, ids, values})
<1>1. PICK a : a = Number(number, Len(list[1])) OBVIOUS
<1>2. PICK b : b = Entry("array", ids, list[1]) OBVIOUS
<1>3. PICK c : c = Entry("array", values, list[2]) OBVIOUS
<1>4. PICK d : d = If(Len(list[1]) > 0, b \o c) OBVIOUS
<1>5. Within(a, {number})
    <2>1. Len(list[1]) \in Int BY LenProperties DEF Lists
    <2> QED BY <1>1, <2>1, NumberWithin
<1>6. Within(b, {ids})
    <2>1. list[1] \in Seq(Int) /\ Len(list[1]) <= MaxInts BY DEF Lists
    <2> QED BY <1>2, <2>1, ArrayWithin
<1>7. Within(c, {values})
    <2>1. list[2] \in Seq(Int) /\ Len(list[2]) <= MaxInts BY DEF Lists
    <2> QED BY <1>3, <2>1, ArrayWithin
<1>8. {ids} \cap {values} = {} OBVIOUS
<1>9. Within(b \o c, {ids} \cup {values}) BY <1>6, <1>7, <1>8, BothWithin
<1>10. Within(d, {ids} \cup {values}) BY <1>4, <1>9, NothingWithin DEF If
<1>11. {number} \cap ({ids} \cup {values}) = {} OBVIOUS
<1>12. Within(a \o d, {number} \cup ({ids} \cup {values})) BY <1>5, <1>10, <1>11, BothWithin
<1>13. {number} \cup ({ids} \cup {values}) = {number, ids, values} OBVIOUS
<1>14. Listed(number, ids, values, list) = a \o d BY <1>1, <1>2, <1>3, <1>4 DEF Listed
<1> QED BY <1>12, <1>13, <1>14

(* What the sets of a GCG are turned into fits the codes of a report. *)
LEMMA NodesFit ==
    ASSUME GcgOK, NEW type \in NodeType, NEW list, list = Nodes(type)
    PROVE  /\ Lists(list) /\ InWidth(Len(list[1]), 1) /\ Slim(list[1], 3) /\ Slim(list[2], 1)
<1>1. PICK nset : nset = gcg[type] OBVIOUS
<1>2. NsetOK(nset) BY <1>1 DEF GcgOK, NodeType
<1>3. list[1] = NodeList(nset, "id") /\ list[2] = NodeList(nset, "stat") BY <1>1 DEF Nodes
<1>4. PICK n \in Nat : n = Len(nset.nodes) /\ n <= 255 BY <1>2, NsetFits
<1>5. Len(list[1]) = n
    <2>1. PICK f : f = [i \in 1..n |-> nset.nodes[i]["id"]] OBVIOUS
    <2>2. Len(f) = n BY <2>1
    <2>3. NodeList(nset, "id") = f BY <1>4, <2>1 DEF NodeList
    <2> QED BY <1>3, <2>2, <2>3
<1>6. InWidth(n, 1)
    <2>0. n \in Nat /\ n <= 255 BY <1>4
    <2>1. n \in 0..255 BY <2>0, SMT
    <2>2. n \in Byte BY <2>1 DEF Byte
    <2> QED BY <2>2, ByteFits
<1>7. Slim(list[1], 3) /\ Slim(list[2], 1) BY <1>2, <1>3, NodeListSlim
<1>8. Lists(list) BY NodeLists
<1> QED BY <1>5, <1>6, <1>7, <1>8

LEMMA DevsFit ==
    ASSUME GcgOK, NEW type \in NodeType, NEW part \in {"stat", "env"}, NEW list, list = Devs(type, part)
    PROVE  /\ Lists(list) /\ InWidth(Len(list[1]), 2) /\ Slim(list[1], 4)
           /\ part = "stat" => Slim(list[2], 1)
           /\ part = "env" => Slim(list[2], 2) /\ Slim(list[2], 4)
<1>1. PICK nset : nset = gcg[type] OBVIOUS
<1>2. NsetOK(nset) BY <1>1 DEF GcgOK, NodeType
<1>3. list[1] = DevList(nset, "gid") /\ list[2] = DevList(nset, part) BY <1>1 DEF Devs
<1>4. /\ Slim(list[1], 4)
      /\ part = "stat" => Slim(list[2], 1)
      /\ part = "env" => Slim(list[2], 2) /\ Slim(list[2], 4)
    BY <1>2, <1>3, DevListSlim
<1>5. Lists(list) BY NodeLists
<1>6. PICK n \in Nat : n = Len(list[1]) /\ n <= MaxInts
    <2>1. list[1] \in Seq(Int) /\ Len(list[1]) <= MaxInts BY <1>5 DEF Lists
    <2> QED BY <2>1, LenProperties
<1>7. InWidth(n, 2)
    <2>1. MaxInts \in Nat /\ 4 * MaxInts <= 65535 BY MaxIntsOf, SMT DEF MaxLength
    <2>2. n <= 65535 BY <1>6, <2>1, SMT
    <2> QED BY <1>6, <2>2, SMT DEF InWidth, Place
<1>8. InWidth(Len(list[1]), 2) BY <1>6, <1>7
<1> QED BY <1>4, <1>5, <1>8

LEMMA ListLengths ==
    /\ FieldLen(FC.NUMOFSN) = 1 /\ FieldLen(FC.NUMOFAN) = 1
    /\ FieldLen(FC.NUMOFSENS) = 2 /\ FieldLen(FC.NUMOFACTS) = 2
    /\ 0 - FieldLen(FC.ARROFSNID) = 3 /\ 0 - FieldLen(FC.ARROFANID) = 3
    /\ 0 - FieldLen(FC.ARROFGSID) = 4 /\ 0 - FieldLen(FC.ARROFGAID) = 4
    /\ 0 - FieldLen(FC.ARROFSNSTAT) = 1 /\ 0 - FieldLen(FC.ARROFANSTAT) = 1
    /\ 0 - FieldLen(FC.ARROFSENSSTAT) = 1 /\ 0 - FieldLen(FC.ARROFACTSSTAT) = 1
    /\ 0 - FieldLen(FC.ARROFSENSVAL) = 4 /\ 0 - FieldLen(FC.ARROFACTSVAL) = 2
    /\ FieldLen(FC.SERIALNUM) = 0 /\ FieldLen(FC.MODELNUM) = 0 /\ FieldLen(FC.SWVER) = 2
    /\ FieldLen(FC.NUMOFBLK) = 1 /\ FieldLen(FC.BLKOFSTAT) = 0 /\ FieldLen(FC.BLKOFENV) = 0
BY ReportNumbers, ReportLengths, SMT

LEMMA StatReportWithin ==
    ASSUME GcgOK
    PROVE  Readable(NotifyStat(Now)) /\ NotifyStat(Now) \in Seq(Entries)
<1>1. "SNODE" \in NodeType /\ "ANODE" \in NodeType BY DEF NodeType
<1>2. PICK sn, an, sd, ad : /\ sn = Nodes("SNODE") /\ an = Nodes("ANODE")
                            /\ sd = Devs("SNODE", "stat") /\ ad = Devs("ANODE", "stat")
    OBVIOUS
<1>3. PICK a : a = Listed(FC.NUMOFSN, FC.ARROFSNID, FC.ARROFSNSTAT, sn) OBVIOUS
<1>4. PICK b : b = Listed(FC.NUMOFAN, FC.ARROFANID, FC.ARROFANSTAT, an) OBVIOUS
<1>5. PICK c : c = Listed(FC.NUMOFSENS, FC.ARROFGSID, FC.ARROFSENSSTAT, sd) OBVIOUS
<1>6. PICK d : d = Listed(FC.NUMOFACTS, FC.ARROFGAID, FC.ARROFACTSSTAT, ad) OBVIOUS
<1>7. PICK e : e = Entry("time", FC.TIMESTAMP, Now) OBVIOUS
<1>8. /\ FC.NUMOFSN # FC.ARROFSNID /\ FC.NUMOFSN # FC.ARROFSNSTAT /\ FC.ARROFSNID # FC.ARROFSNSTAT
      /\ FC.NUMOFAN # FC.ARROFANID /\ FC.NUMOFAN # FC.ARROFANSTAT /\ FC.ARROFANID # FC.ARROFANSTAT
      /\ FC.NUMOFSENS # FC.ARROFGSID /\ FC.NUMOFSENS # FC.ARROFSENSSTAT /\ FC.ARROFGSID # FC.ARROFSENSSTAT
      /\ FC.NUMOFACTS # FC.ARROFGAID /\ FC.NUMOFACTS # FC.ARROFACTSSTAT /\ FC.ARROFGAID # FC.ARROFACTSSTAT
    BY ReportNumbers, SMT
<1>9. Within(a, {FC.NUMOFSN, FC.ARROFSNID, FC.ARROFSNSTAT})
    <2>1. Lists(sn) /\ InWidth(Len(sn[1]), 1) /\ Slim(sn[1], 3) /\ Slim(sn[2], 1) BY <1>1, <1>2, NodesFit
    <2> QED BY <1>3, <1>8, <2>1, ReportCodes, ListLengths, ListedWithin
<1>10. Within(b, {FC.NUMOFAN, FC.ARROFANID, FC.ARROFANSTAT})
    <2>1. Lists(an) /\ InWidth(Len(an[1]), 1) /\ Slim(an[1], 3) /\ Slim(an[2], 1) BY <1>1, <1>2, NodesFit
    <2> QED BY <1>4, <1>8, <2>1, ReportCodes, ListLengths, ListedWithin
<1>11. Within(c, {FC.NUMOFSENS, FC.ARROFGSID, FC.ARROFSENSSTAT})
    <2>1. Lists(sd) /\ InWidth(Len(sd[1]), 2) /\ Slim(sd[1], 4) /\ Slim(sd[2], 1) BY <1>1, <1>2, DevsFit
    <2> QED BY <1>5, <1>8, <2>1, ReportCodes, ListLengths, ListedWithin
<1>12. Within(d, {FC.NUMOFACTS, FC.ARROFGAID, FC.ARROFACTSSTAT})
    <2>1. Lists(ad) /\ InWidth(Len(ad[1]), 2) /\ Slim(ad[1], 4) /\ Slim(ad[2], 1) BY <1>1, <1>2, DevsFit
    <2> QED BY <1>6, <1>8, <2>1, ReportCodes, ListLengths, ListedWithin
<1>13. Within(e, {FC.TIMESTAMP})
    <2>1. Now \in Times BY TransferAssumption, SMT
    <2> QED BY <1>7, <2>1, ReportCodes, TimeWithin
<1>14. PICK P, Q, R, S, T : /\ P = {FC.NUMOFSN, FC.ARROFSNID, FC.ARROFSNSTAT}
                            /\ Q = {FC.NUMOFAN, FC.ARROFANID, FC.ARROFANSTAT}
                            /\ R = {FC.NUMOFSENS, FC.ARROFGSID, FC.ARROFSENSSTAT}
                            /\ S = {FC.NUMOFACTS, FC.ARROFGAID, FC.ARROFACTSSTAT}
                            /\ T = {FC.TIMESTAMP}
    OBVIOUS
<1>15. /\ P = {4096, 4097, 16385} /\ Q = {4098, 4099, 16386} /\ R = {8193, 8194, 16387}
       /\ S = {12289, 12290, 16389} /\ T = {16390}
    BY <1>14, ReportNumbers, SMT
<1>16. /\ P \cap Q = {} /\ (P \cup Q) \cap R = {} /\ ((P \cup Q) \cup R) \cap S = {}
       /\ (((P \cup Q) \cup R) \cup S) \cap T = {}
    BY <1>15, SMT
<1>17. Within(a \o b, P \cup Q) BY <1>9, <1>10, <1>14, <1>16, BothWithin
<1>18. Within((a \o b) \o c, (P \cup Q) \cup R) BY <1>11, <1>14, <1>16, <1>17, BothWithin
<1>19. Within(((a \o b) \o c) \o d, ((P \cup Q) \cup R) \cup S)
    BY <1>12, <1>14, <1>16, <1>18, BothWithin
<1>20. Within((((a \o b) \o c) \o d) \o e, (((P \cup Q) \cup R) \cup S) \cup T)
    BY <1>13, <1>14, <1>16, <1>19, BothWithin
<1>21. NotifyStat(Now) = (((a \o b) \o c) \o d) \o e
    BY <1>2, <1>3, <1>4, <1>5, <1>6, <1>7 DEF NotifyStat
<1> QED BY <1>20, <1>21 DEF Within

LEMMA EnvReportWithin ==
    ASSUME GcgOK
    PROVE  Readable(NotifyEnv(Now)) /\ NotifyEnv(Now) \in Seq(Entries)
<1>1. "SNODE" \in NodeType /\ "ANODE" \in NodeType BY DEF NodeType
<1>2. PICK sd, ad : sd = Devs("SNODE", "env") /\ ad = Devs("ANODE", "env") OBVIOUS
<1>3. PICK c : c = Listed(FC.NUMOFSENS, FC.ARROFGSID, FC.ARROFSENSVAL, sd) OBVIOUS
<1>4. PICK d : d = Listed(FC.NUMOFACTS, FC.ARROFGAID, FC.ARROFACTSVAL, ad) OBVIOUS
<1>5. PICK e : e = Entry("time", FC.TIMESTAMP, Now) OBVIOUS
<1>6. /\ FC.NUMOFSENS # FC.ARROFGSID /\ FC.NUMOFSENS # FC.ARROFSENSVAL /\ FC.ARROFGSID # FC.ARROFSENSVAL
      /\ FC.NUMOFACTS # FC.ARROFGAID /\ FC.NUMOFACTS # FC.ARROFACTSVAL /\ FC.ARROFGAID # FC.ARROFACTSVAL
    BY ReportNumbers, SMT
<1>7. Within(c, {FC.NUMOFSENS, FC.ARROFGSID, FC.ARROFSENSVAL})
    <2>1. Lists(sd) /\ InWidth(Len(sd[1]), 2) /\ Slim(sd[1], 4) /\ Slim(sd[2], 4) BY <1>1, <1>2, DevsFit
    <2> QED BY <1>3, <1>6, <2>1, ReportCodes, ListLengths, ListedWithin
<1>8. Within(d, {FC.NUMOFACTS, FC.ARROFGAID, FC.ARROFACTSVAL})
    <2>1. Lists(ad) /\ InWidth(Len(ad[1]), 2) /\ Slim(ad[1], 4) /\ Slim(ad[2], 2) BY <1>1, <1>2, DevsFit
    <2> QED BY <1>4, <1>6, <2>1, ReportCodes, ListLengths, ListedWithin
<1>9. Within(e, {FC.TIMESTAMP})
    <2>1. Now \in Times BY TransferAssumption, SMT
    <2> QED BY <1>5, <2>1, ReportCodes, TimeWithin
<1>10. PICK R, S, T : /\ R = {FC.NUMOFSENS, FC.ARROFGSID, FC.ARROFSENSVAL}
                      /\ S = {FC.NUMOFACTS, FC.ARROFGAID, FC.ARROFACTSVAL}
                      /\ T = {FC.TIMESTAMP}
    OBVIOUS
<1>11. R = {8193, 8194, 20480} /\ S = {12289, 12290, 20481} /\ T = {16390}
    BY <1>10, ReportNumbers, SMT
<1>12. R \cap S = {} /\ (R \cup S) \cap T = {} BY <1>11, SMT
<1>13. Within(c \o d, R \cup S) BY <1>7, <1>8, <1>10, <1>12, BothWithin
<1>14. Within((c \o d) \o e, (R \cup S) \cup T) BY <1>9, <1>10, <1>12, <1>13, BothWithin
<1>15. NotifyEnv(Now) = (c \o d) \o e BY <1>2, <1>3, <1>4, <1>5 DEF NotifyEnv
<1> QED BY <1>14, <1>15 DEF Within

LEMMA ConnectWithin ==
    ASSUME GcgOK
    PROVE  Readable(ConnectRequest(Connecting)) /\ ConnectRequest(Connecting) \in Seq(Entries)
<1>1. "SNODE" \in NodeType /\ "ANODE" \in NodeType BY DEF NodeType
<1>2. PICK sn, an : sn = Nodes("SNODE") /\ an = Nodes("ANODE") OBVIOUS
<1>3. PICK a : a = Counted(FC.NUMOFSN, FC.ARROFSNID, sn[1]) OBVIOUS
<1>4. PICK b : b = Counted(FC.NUMOFAN, FC.ARROFANID, an[1]) OBVIOUS
<1>5. PICK c : c = Entry("bytes", FC.SERIALNUM, Connecting.serial) OBVIOUS
<1>6. PICK d : d = Entry("bytes", FC.MODELNUM, Connecting.model) OBVIOUS
<1>7. PICK e : e = Number(FC.SWVER, Connecting.swver) OBVIOUS
<1>8. FC.NUMOFSN # FC.ARROFSNID /\ FC.NUMOFAN # FC.ARROFANID BY ReportNumbers, SMT
<1>9. Within(a, {FC.NUMOFSN, FC.ARROFSNID})
    <2>1. Lists(sn) /\ InWidth(Len(sn[1]), 1) /\ Slim(sn[1], 3) BY <1>1, <1>2, NodesFit
    <2>2. sn[1] \in Seq(Int) /\ Len(sn[1]) <= MaxInts BY <2>1 DEF Lists
    <2> QED BY <1>3, <1>8, <2>1, <2>2, ReportCodes, ListLengths, CountedWithin
<1>10. Within(b, {FC.NUMOFAN, FC.ARROFANID})
    <2>1. Lists(an) /\ InWidth(Len(an[1]), 1) /\ Slim(an[1], 3) BY <1>1, <1>2, NodesFit
    <2>2. an[1] \in Seq(Int) /\ Len(an[1]) <= MaxInts BY <2>1 DEF Lists
    <2> QED BY <1>4, <1>8, <2>1, <2>2, ReportCodes, ListLengths, CountedWithin
<1>11. /\ Connecting.serial \in Seq(Byte) /\ Fitting(Connecting.serial, FC.SERIALNUM)
       /\ Connecting.model \in Seq(Byte) /\ Fitting(Connecting.model, FC.MODELNUM)
       /\ Connecting.swver \in Int
    BY TransferAssumption, SMT
<1>12. InWidth(Connecting.swver, 2) BY WidthsAssumption, SMT
<1>13. Within(c, {FC.SERIALNUM}) BY <1>5, <1>11, ReportCodes, ListLengths, BytesWithin
<1>14. Within(d, {FC.MODELNUM}) BY <1>6, <1>11, ReportCodes, ListLengths, BytesWithin
<1>15. Within(e, {FC.SWVER}) BY <1>7, <1>11, <1>12, ReportCodes, ListLengths, NumberWithin
<1>16. PICK P, Q, R, S, T : /\ P = {FC.NUMOFSN, FC.ARROFSNID} /\ Q = {FC.NUMOFAN, FC.ARROFANID}
                            /\ R = {FC.SERIALNUM} /\ S = {FC.MODELNUM} /\ T = {FC.SWVER}
    OBVIOUS
<1>17. P = {4096, 4097} /\ Q = {4098, 4099} /\ R = {4100} /\ S = {4101} /\ T = {4110}
    BY <1>16, ReportNumbers, SMT
<1>18. /\ P \cap Q = {} /\ (P \cup Q) \cap R = {} /\ ((P \cup Q) \cup R) \cap S = {}
       /\ (((P \cup Q) \cup R) \cup S) \cap T = {}
    BY <1>17, SMT
<1>19. Within(a \o b, P \cup Q) BY <1>9, <1>10, <1>16, <1>18, BothWithin
<1>20. Within((a \o b) \o c, (P \cup Q) \cup R) BY <1>13, <1>16, <1>18, <1>19, BothWithin
<1>21. Within(((a \o b) \o c) \o d, ((P \cup Q) \cup R) \cup S)
    BY <1>14, <1>16, <1>18, <1>20, BothWithin
<1>22. Within((((a \o b) \o c) \o d) \o e, (((P \cup Q) \cup R) \cup S) \cup T)
    BY <1>15, <1>16, <1>18, <1>21, BothWithin
<1>23. ConnectRequest(Connecting) = (((a \o b) \o c) \o d) \o e
    BY <1>2, <1>3, <1>4, <1>5, <1>6, <1>7 DEF ConnectRequest
<1> QED BY <1>22, <1>23 DEF Within

LEMMA HistoryWithin ==
    ASSUME BlockOK, block # NoBlock
    PROVE  /\ Readable(HistoryResponse(FC.BLKOFSTAT, StatBlock(block)))
           /\ Readable(HistoryResponse(FC.BLKOFENV, EnvBlock(block)))
<1>1. PICK n \in Nat : block \in BlocksOf(n) /\ block.rows = n /\ block.rows <= 255
    BY DEF BlockOK, Blocks, BlocksOf
<1>2. PICK a : a = Response(0) OBVIOUS
<1>3. PICK b : b = Number(FC.NUMOFBLK, block.rows) OBVIOUS
<1>4. Within(a, {FC.RESCODE}) BY <1>2, ResponseWithin
<1>5. Within(b, {FC.NUMOFBLK})
    <2>1. n \in Nat /\ n <= 255 BY <1>1
    <2>2. n \in 0..255 BY <2>1, SMT
    <2>3. n \in Byte BY <2>2 DEF Byte
    <2>4. n \in Int /\ InWidth(n, 1) BY <2>1, <2>3, ByteFits
    <2> QED BY <1>1, <1>3, <2>4, ReportCodes, ListLengths, NumberWithin
<1>6. FC.RESCODE = 8 /\ FC.NUMOFBLK = 24579 BY CodeNumbers, ReportNumbers
<1>7. ASSUME NEW code \in FieldCodes, FieldLen(code) = 0, code = 24580 \/ code = 24581,
             NEW bytes \in Seq(Byte), Len(bytes) \notin 1..4, Len(bytes) <= MaxLength
      PROVE  Readable(HistoryResponse(code, bytes))
    <2>1. Fitting(bytes, code) BY <1>7 DEF Fitting, FDATA_LIMIT
    <2>2. PICK c : c = Entry("bytes", code, bytes) OBVIOUS
    <2>3. Within(c, {code}) BY <1>7, <2>1, <2>2, BytesWithin
    <2>4. {FC.RESCODE} \cap {FC.NUMOFBLK} = {} BY <1>6, SMT
    <2>5. ({FC.RESCODE} \cup {FC.NUMOFBLK}) \cap {code} = {} BY <1>6, <1>7, SMT
    <2>6. Within(a \o b, {FC.RESCODE} \cup {FC.NUMOFBLK}) BY <1>4, <1>5, <2>4, BothWithin
    <2>7. Within((a \o b) \o c, ({FC.RESCODE} \cup {FC.NUMOFBLK}) \cup {code})
        BY <2>3, <2>5, <2>6, BothWithin
    <2>8. HistoryResponse(code, bytes) = (a \o b) \o c BY <1>2, <1>3, <2>2 DEF HistoryResponse
    <2> QED BY <2>7, <2>8 DEF Within
<1>8. /\ FC.BLKOFSTAT \in FieldCodes /\ FC.BLKOFENV \in FieldCodes
      /\ FieldLen(FC.BLKOFSTAT) = 0 /\ FieldLen(FC.BLKOFENV) = 0
      /\ FC.BLKOFSTAT = 24580 /\ FC.BLKOFENV = 24581
    BY ReportCodes, ReportNumbers
<1>9. /\ StatBlock(block) \in Seq(Byte) /\ Len(StatBlock(block)) \notin 1..4
      /\ EnvBlock(block) \in Seq(Byte) /\ Len(EnvBlock(block)) \notin 1..4
      /\ Len(StatBlock(block)) <= MaxLength /\ Len(EnvBlock(block)) <= MaxLength
    BY <1>1, StatBlockOK, EnvBlockOK
<1> QED BY <1>7, <1>8, <1>9, SMT

LEMMA TakenArrives ==
    ASSUME PastHeader = 1, NEW h \in Headers, NEW entries \in Seq(Entries), Readable(entries),
           NEW i \in DOMAIN entries, Whole(entries[i])
    PROVE  Taken(Arrived(h, entries), entries[i]) = entries[i].val
<1>1. PICK n \in Nat : n = Len(entries) /\ DOMAIN entries = 1..n BY LenProperties
<1>2. PICK e \in Entries : e = entries[i] BY <1>1, ElementOfSeq
<1>3. Fits(e) /\ Whole(e) BY <1>2 DEF Readable
<1>4. ReadField(Arrived(h, entries), e.code) = Back(e) BY <1>1, <1>2, EntryFound
<1>5. Back(e) = FieldFor(e) BY <1>3, FieldBack DEF Back
<1> QED BY <1>2, <1>3, <1>4, <1>5, TakenBack

-----------------------------------------------------------------------------
(* What arrives is what was sent *)

(* The message is the one that was composed of what was sent, the frame its *)
(* frame, and what arrives what that frame is parsed into.                  *)
Made ==
    /\ sent.header \in Headers /\ sent.entries \in Seq(Entries) /\ Readable(sent.entries)
    /\ msg = Composed(sent.header, sent.entries)

SentOK ==
    /\ stage \notin {"idle", "crashed"} => Made
    /\ stage = "framed" => frame = GenerateFrame(Composed(sent.header, sent.entries))
    /\ stage = "parsed" => got = Arrived(sent.header, sent.entries)

(* A report is of the sets, and the answer to a history query of the block, *)
(* as they are until it has arrived.                                        *)
AboutOK ==
    /\ sent.kind = "statreport" =>
         /\ sent.entries = NotifyStat(Now)
         /\ sent.about.lists = <<Nodes("SNODE"), Nodes("ANODE"), Held("SNODE", "stat"), Held("ANODE", "stat")>>
    /\ sent.kind = "envreport" =>
         /\ sent.entries = NotifyEnv(Now)
         /\ sent.about.lists = <<Held("SNODE", "env"), Held("ANODE", "env")>>
    /\ sent.kind = "stat" =>
         block # NoBlock /\ sent.about = block /\ sent.entries = HistoryResponse(FC.BLKOFSTAT, StatBlock(block))
    /\ sent.kind = "env" =>
         block # NoBlock /\ sent.about = block /\ sent.entries = HistoryResponse(FC.BLKOFENV, EnvBlock(block))

LEMMA SentOf ==
    ASSUME NEW h, NEW c, Send(h, c)
    PROVE  /\ sent' = [header |-> h, kind |-> c.kind, about |-> c.about, entries |-> c.entries]
           /\ stage' = "composed" /\ msg' = Composed(h, c.entries) /\ UNCHANGED <<frame, got, block, gcg>>
BY DEF Send

LEMMA SentAs ==
    ASSUME NEW h, NEW kind, NEW about, NEW entries,
           Send(h, [kind |-> kind, about |-> about, entries |-> entries])
    PROVE  /\ sent' = [header |-> h, kind |-> kind, about |-> about, entries |-> entries]
           /\ UNCHANGED <<block, gcg>>
<1>1. PICK c : c = [kind |-> kind, about |-> about, entries |-> entries] OBVIOUS
<1>2. Send(h, c) BY <1>1
<1> QED BY <1>1, <1>2, SentOf

LEMMA SentLoad ==
    ASSUME NEW h \in Headers, NEW c, c.entries \in Seq(Entries), Readable(c.entries), Send(h, c)
    PROVE  SentOK'
<1>1. /\ sent' = [header |-> h, kind |-> c.kind, about |-> c.about, entries |-> c.entries]
      /\ stage' = "composed" /\ msg' = Composed(h, c.entries)
    BY SentOf
<1>2. Composed(sent.header, sent.entries)' = Composed(h, c.entries) BY <1>1 DEF Composed
<1>3. Made' BY <1>1, <1>2 DEF Made
<1> QED BY <1>1, <1>3 DEF SentOK

LEMMA SentMade ==
    ASSUME NEW h \in Headers, NEW kind, NEW about, NEW entries \in Seq(Entries), Readable(entries),
           Send(h, [kind |-> kind, about |-> about, entries |-> entries])
    PROVE  SentOK'
<1>1. PICK c : c = [kind |-> kind, about |-> about, entries |-> entries] OBVIOUS
<1>2. Send(h, c) /\ c.entries \in Seq(Entries) /\ Readable(c.entries) BY <1>1
<1> QED BY <1>2, SentLoad

(* The header of reports and answers. *)
LEMMA SomeHeader == (CHOOSE header \in Headers : TRUE) \in Headers
<1>1. Headers # {} BY TransferAssumption, SMT
<1> QED BY <1>1

LEMMA SendContentSent ==
    ASSUME SendContent
    PROVE  SentOK' /\ AboutOK'
<1>1. PICK h \in Headers, c \in Loads : Send(h, c) BY DEF SendContent
<1>2. c.entries \in Seq(Entries) BY TransferAssumption, SMT
<1>3. Readable(c.entries) BY WidthsAssumption, SMT
<1>4. c.kind \in {"request", "profile", "sensor", "actuator"} BY TransferAssumption, SMT
<1>5. sent'.kind = c.kind BY <1>1, SentOf
<1>6. AboutOK' BY <1>4, <1>5 DEF AboutOK
<1> QED BY <1>1, <1>2, <1>3, <1>6, SentLoad

LEMMA SendHistorySent ==
    ASSUME BlockOK, SendHistory
    PROVE  SentOK' /\ AboutOK'
<1>1. PICK h \in Headers : block # NoBlock /\ (SendStatBlock(h) \/ SendEnvBlock(h))
    BY SomeHeader DEF SendHistory
<1>2. CASE SendStatBlock(h)
    <2>1. PICK e : e = HistoryResponse(FC.BLKOFSTAT, StatBlock(block)) OBVIOUS
    <2>2. Send(h, [kind |-> "stat", about |-> block, entries |-> e]) BY <1>2, <2>1 DEF SendStatBlock
    <2>3. e \in Seq(Entries) /\ Readable(e) BY <1>1, <2>1, HistoryResponsesOK, HistoryWithin
    <2>4. sent' = [header |-> h, kind |-> "stat", about |-> block, entries |-> e] /\ UNCHANGED block
        BY <2>2, SentAs
    <2>5. e = HistoryResponse(FC.BLKOFSTAT, StatBlock(block))' BY <2>1, <2>4 DEF HistoryResponse
    <2>6. AboutOK' BY <1>1, <2>4, <2>5 DEF AboutOK
    <2> QED BY <2>2, <2>3, <2>6, SentMade
<1>3. CASE SendEnvBlock(h)
    <2>1. PICK e : e = HistoryResponse(FC.BLKOFENV, EnvBlock(block)) OBVIOUS
    <2>2. Send(h, [kind |-> "env", about |-> block, entries |-> e]) BY <1>3, <2>1 DEF SendEnvBlock
    <2>3. e \in Seq(Entries) /\ Readable(e) BY <1>1, <2>1, HistoryResponsesOK, HistoryWithin
    <2>4. sent' = [header |-> h, kind |-> "env", about |-> block, entries |-> e] /\ UNCHANGED block
        BY <2>2, SentAs
    <2>5. e = HistoryResponse(FC.BLKOFENV, EnvBlock(block))' BY <2>1, <2>4 DEF HistoryResponse
    <2>6. AboutOK' BY <1>1, <2>4, <2>5 DEF AboutOK
    <2> QED BY <2>2, <2>3, <2>6, SentMade
<1> QED BY <1>1, <1>2, <1>3

(* What is made of unchanged sets and of an unchanged block is unchanged. *)
LEMMA AboutKept ==
    ASSUME UNCHANGED <<block, gcg>>
    PROVE  /\ \A type, part : /\ Nodes(type)' = Nodes(type) /\ Held(type, part)' = Held(type, part)
                              /\ Devs(type, part)' = Devs(type, part)
           /\ NotifyStat(Now)' = NotifyStat(Now) /\ NotifyEnv(Now)' = NotifyEnv(Now)
           /\ ConnectRequest(Connecting)' = ConnectRequest(Connecting)
           /\ \A code, bytes : HistoryResponse(code, bytes)' = HistoryResponse(code, bytes)
           /\ StatBlock(block)' = StatBlock(block) /\ EnvBlock(block)' = EnvBlock(block)
<1>1. \A type, part : /\ Nodes(type)' = Nodes(type) /\ Held(type, part)' = Held(type, part)
                      /\ Devs(type, part)' = Devs(type, part)
    BY DEF Nodes, Held, Devs
<1>2. NotifyStat(Now)' = NotifyStat(Now) BY <1>1, SMTT(30) DEF NotifyStat
<1>3. NotifyEnv(Now)' = NotifyEnv(Now) BY <1>1, SMTT(30) DEF NotifyEnv
<1>4. ConnectRequest(Connecting)' = ConnectRequest(Connecting) BY <1>1, SMTT(30) DEF ConnectRequest
<1>5. \A code, bytes : HistoryResponse(code, bytes)' = HistoryResponse(code, bytes) BY DEF HistoryResponse
<1> QED BY <1>1, <1>2, <1>3, <1>4, <1>5

LEMMA AboutUnchanged ==
    ASSUME AboutOK, UNCHANGED <<sent, block, gcg>>
    PROVE  AboutOK'
<1>1. /\ \A type, part : Nodes(type)' = Nodes(type) /\ Held(type, part)' = Held(type, part)
      /\ NotifyStat(Now)' = NotifyStat(Now) /\ NotifyEnv(Now)' = NotifyEnv(Now)
    BY AboutKept
<1>2. /\ HistoryResponse(FC.BLKOFSTAT, StatBlock(block))' = HistoryResponse(FC.BLKOFSTAT, StatBlock(block))
      /\ HistoryResponse(FC.BLKOFENV, EnvBlock(block))' = HistoryResponse(FC.BLKOFENV, EnvBlock(block))
    BY DEF HistoryResponse
<1> QED BY <1>1, <1>2 DEF AboutOK

LEMMA SendReportSent ==
    ASSUME GcgOK, AboutOK, SendReport
    PROVE  SentOK' /\ AboutOK'
<1>1. PICK h : h = CHOOSE header \in Headers : TRUE OBVIOUS
<1>2. h \in Headers BY <1>1, SomeHeader
<1>3. \/ stage' = "crashed" /\ UNCHANGED <<sent, block, gcg>>
      \/ Send(h, [kind |-> "statreport", entries |-> NotifyStat(Now),
                  about |-> [lists |-> <<Nodes("SNODE"), Nodes("ANODE"),
                                         Held("SNODE", "stat"), Held("ANODE", "stat")>>]])
      \/ Send(h, [kind |-> "envreport", entries |-> NotifyEnv(Now),
                  about |-> [lists |-> <<Held("SNODE", "env"), Held("ANODE", "env")>>]])
      \/ Send(h, [kind |-> "connect", entries |-> ConnectRequest(Connecting), about |-> NoBlock])
    BY <1>1, Zenon DEF SendReport
<1>4. CASE Send(h, [kind |-> "statreport", entries |-> NotifyStat(Now),
                    about |-> [lists |-> <<Nodes("SNODE"), Nodes("ANODE"),
                                           Held("SNODE", "stat"), Held("ANODE", "stat")>>]])
    <2>1. PICK e, l : e = NotifyStat(Now) /\ l = <<Nodes("SNODE"), Nodes("ANODE"),
                                                   Held("SNODE", "stat"), Held("ANODE", "stat")>>
        OBVIOUS
    <2>2. PICK b : b = [lists |-> l] OBVIOUS
    <2>3. Send(h, [kind |-> "statreport", about |-> b, entries |-> e]) BY <1>4, <2>1, <2>2
    <2>4. e \in Seq(Entries) /\ Readable(e) BY <2>1, StatReportWithin
    <2>5. sent' = [header |-> h, kind |-> "statreport", about |-> b, entries |-> e]
          /\ UNCHANGED <<block, gcg>>
        BY <2>3, SentAs
    <2>6. e = NotifyStat(Now)' /\ l = <<Nodes("SNODE")', Nodes("ANODE")',
                                        Held("SNODE", "stat")', Held("ANODE", "stat")'>>
        BY <2>1, <2>5, AboutKept
    <2>7. AboutOK' BY <2>2, <2>5, <2>6 DEF AboutOK
    <2> QED BY <1>2, <2>3, <2>4, <2>7, SentMade
<1>5. CASE Send(h, [kind |-> "envreport", entries |-> NotifyEnv(Now),
                    about |-> [lists |-> <<Held("SNODE", "env"), Held("ANODE", "env")>>]])
    <2>1. PICK e, l : e = NotifyEnv(Now) /\ l = <<Held("SNODE", "env"), Held("ANODE", "env")>>
        OBVIOUS
    <2>2. PICK b : b = [lists |-> l] OBVIOUS
    <2>3. Send(h, [kind |-> "envreport", about |-> b, entries |-> e]) BY <1>5, <2>1, <2>2
    <2>4. e \in Seq(Entries) /\ Readable(e) BY <2>1, EnvReportWithin
    <2>5. sent' = [header |-> h, kind |-> "envreport", about |-> b, entries |-> e]
          /\ UNCHANGED <<block, gcg>>
        BY <2>3, SentAs
    <2>6. e = NotifyEnv(Now)' /\ l = <<Held("SNODE", "env")', Held("ANODE", "env")'>>
        BY <2>1, <2>5, AboutKept
    <2>7. AboutOK' BY <2>2, <2>5, <2>6 DEF AboutOK
    <2> QED BY <1>2, <2>3, <2>4, <2>7, SentMade
<1>6. CASE Send(h, [kind |-> "connect", entries |-> ConnectRequest(Connecting), about |-> NoBlock])
    <2>1. PICK e : e = ConnectRequest(Connecting) OBVIOUS
    <2>2. Send(h, [kind |-> "connect", about |-> NoBlock, entries |-> e]) BY <1>6, <2>1
    <2>3. e \in Seq(Entries) /\ Readable(e) BY <2>1, ConnectWithin
    <2>4. sent' = [header |-> h, kind |-> "connect", about |-> NoBlock, entries |-> e]
        BY <2>2, SentAs
    <2>5. AboutOK' BY <2>4 DEF AboutOK
    <2> QED BY <1>2, <2>2, <2>3, <2>5, SentMade
<1>7. CASE stage' = "crashed" /\ UNCHANGED <<sent, block, gcg>>
    <2>1. SentOK' BY <1>7 DEF SentOK
    <2> QED BY <1>7, <2>1, AboutUnchanged
<1> QED BY <1>3, <1>4, <1>5, <1>6, <1>7

LEMMA MadeKept ==
    ASSUME Made, UNCHANGED <<sent, msg>>
    PROVE  Made'
<1>1. Composed(sent.header, sent.entries)' = Composed(sent.header, sent.entries) BY DEF Composed
<1> QED BY <1>1 DEF Made

LEMMA GenerateSent ==
    ASSUME SentOK, Generate
    PROVE  SentOK'
<1>1. stage = "composed" /\ UNCHANGED <<sent, msg>> BY DEF Generate
<1>2. Made BY <1>1 DEF SentOK
<1>3. Made' BY <1>1, <1>2, MadeKept
<1>4. PICK f : f = GenerateFrame(Composed(sent.header, sent.entries))
               /\ f = GenerateFrame(Composed(sent.header, sent.entries))'
    BY <1>1 DEF Composed
<1>5. stage' = "crashed" \/ (stage' = "framed" /\ frame' = f) BY <1>2, <1>4 DEF Generate, Made
<1> QED BY <1>3, <1>4, <1>5 DEF SentOK

LEMMA ParseSent ==
    ASSUME PipeOK, SentOK, Parse
    PROVE  SentOK'
<1>1. PICK p, long :
        /\ p = ParseFrame(frame)
        /\ long <=> p.stat = "NOERROR" /\ \E i \in DOMAIN frame.chunks : Overflows(frame.chunks[i])
    OBVIOUS
<1>2. /\ stage \in {"framed", "damaged"} /\ UNCHANGED <<sent, msg>>
      /\ got' = IF long THEN got ELSE p.msg
      /\ stage' = CASE long -> "crashed"
                    [] p.stat # "NOERROR" -> "refused"
                    [] p.stat = "NOERROR" /\ ~long /\ stage = "framed" -> "parsed"
                    [] p.stat = "NOERROR" /\ ~long /\ stage = "damaged" -> "misparsed"
    BY <1>1 DEF Parse
<1>3. Made /\ Made'
    <2>1. Made BY <1>2 DEF SentOK
    <2> QED BY <1>2, <2>1, MadeKept
<1>4. CASE stage = "damaged"
    <2>1. p = Parsed("CHECKSUM_NOT_MATCHED", InitMsg) BY <1>1, <1>4 DEF ParseFrame, PipeOK
    <2>2. p.stat = "CHECKSUM_NOT_MATCHED" BY <2>1 DEF Parsed
    <2>3. stage' = "refused" BY <1>1, <1>2, <2>2
    <2> QED BY <1>3, <2>3 DEF SentOK
<1>5. CASE stage = "framed"
    <2>1. p = ParseFields(InitMsg, frame.chunks) BY <1>1, <1>5 DEF ParseFrame, PipeOK
    <2>2. p \in Good BY <1>5, <2>1, ParseFieldsOK, InitMsgOK DEF PipeOK
    <2>3. p.stat = "NOERROR" BY <2>2 DEF Good
    <2>4. CASE long
        <3>1. stage' = "crashed" BY <1>2, <2>3, <2>4
        <3> QED BY <3>1 DEF SentOK
    <2>5. CASE ~long
        <3>1. stage' = "parsed" /\ got' = p.msg BY <1>2, <1>5, <2>3, <2>5
        <3>2. p.msg = Arrived(sent.header, sent.entries) BY <1>5, <2>1 DEF SentOK, Arrived
        <3>3. Arrived(sent.header, sent.entries)' = Arrived(sent.header, sent.entries)
            BY <1>2 DEF Arrived, Composed
        <3> QED BY <1>3, <3>1, <3>2, <3>3 DEF SentOK
    <2> QED BY <2>4, <2>5
<1> QED BY <1>2, <1>4, <1>5

(* Between two messages there is nothing to be about. *)
IdleOK == stage = "idle" => sent.kind = "request"

TravelInv == TransferInv /\ SentOK /\ AboutOK /\ IdleOK

LEMMA InitTravel == Init => TravelInv
<1> SUFFICES ASSUME Init PROVE TravelInv
    OBVIOUS
<1>1. stage = "idle" /\ sent.kind = "request" BY DEF Init, Nothing
<1>2. SentOK /\ AboutOK /\ IdleOK BY <1>1 DEF SentOK, AboutOK, IdleOK
<1> QED BY <1>2, InitInv DEF TravelInv

LEMMA NextTravel ==
    ASSUME TravelInv, [Next]_vars
    PROVE  TravelInv'
<1>0. TransferInv /\ TransferInv' BY NextInv DEF TravelInv
<1>1. BlockOK /\ GcgOK /\ PipeOK BY <1>0 DEF TransferInv
<1>2. SentOK /\ AboutOK /\ IdleOK BY DEF TravelInv
<1>3. ASSUME SendContent \/ SendHistory \/ SendReport PROVE SentOK' /\ AboutOK' /\ IdleOK'
    <2>1. stage' \in {"composed", "crashed"}
        BY <1>3 DEF SendContent, SendHistory, SendStatBlock, SendEnvBlock, SendReport, Send
    <2>2. IdleOK' BY <2>1 DEF IdleOK
    <2> QED BY <1>1, <1>2, <1>3, <2>2, SendContentSent, SendHistorySent, SendReportSent
<1>4. CASE Generate
    <2>1. UNCHANGED <<sent, block, gcg>> /\ stage' \in {"framed", "crashed"} BY <1>4 DEF Generate
    <2> QED BY <1>0, <1>2, <1>4, <2>1, GenerateSent, AboutUnchanged DEF TravelInv, IdleOK
<1>5. CASE Damage
    <2>1. UNCHANGED <<sent, msg, block, gcg>> /\ stage = "framed" /\ stage' = "damaged" BY <1>5 DEF Damage
    <2>2. SentOK'
        <3>1. Made BY <1>2, <2>1 DEF SentOK
        <3>2. Made' BY <2>1, <3>1, MadeKept
        <3> QED BY <2>1, <3>2 DEF SentOK
    <2> QED BY <1>0, <1>2, <2>1, <2>2, AboutUnchanged DEF TravelInv, IdleOK
<1>6. CASE Parse
    <2>1. UNCHANGED <<sent, block, gcg>> /\ stage \in {"framed", "damaged"} BY <1>6 DEF Parse
    <2>2. stage' # "idle"
        <3>1. PICK p, long : stage' = CASE long -> "crashed"
                                        [] p.stat # "NOERROR" -> "refused"
                                        [] p.stat = "NOERROR" /\ ~long /\ stage = "framed" -> "parsed"
                                        [] p.stat = "NOERROR" /\ ~long /\ stage = "damaged" -> "misparsed"
            BY <1>6 DEF Parse
        <3> QED BY <2>1, <3>1
    <2> QED BY <1>0, <1>1, <1>2, <1>6, <2>1, <2>2, ParseSent, AboutUnchanged DEF TravelInv, IdleOK
<1>7. CASE Release
    <2>1. stage' = "idle" /\ sent'.kind = "request" BY <1>7 DEF Release, Nothing
    <2>2. SentOK' /\ AboutOK' /\ IdleOK' BY <2>1 DEF SentOK, AboutOK, IdleOK
    <2> QED BY <1>0, <2>2 DEF TravelInv
<1>8. CASE FillBlock \/ ChangeNodes
    <2>1. stage = "idle" /\ UNCHANGED pipe BY <1>8 DEF FillBlock, ChangeNodes
    <2>2. sent.kind = "request" BY <1>2, <2>1 DEF IdleOK
    <2>3. stage' = "idle" /\ sent'.kind = "request" BY <2>1, <2>2 DEF pipe
    <2>4. SentOK' /\ AboutOK' /\ IdleOK' BY <2>3 DEF SentOK, AboutOK, IdleOK
    <2> QED BY <1>0, <2>4 DEF TravelInv
<1>9. CASE UNCHANGED vars
    <2>1. UNCHANGED <<stage, sent, msg, frame, got, block, gcg>> BY <1>9 DEF vars
    <2>2. SentOK' /\ IdleOK' BY <1>2, <2>1, MadeKept DEF SentOK, IdleOK, Arrived, Composed
    <2> QED BY <1>0, <1>2, <2>1, <2>2, AboutUnchanged DEF TravelInv
<1> QED BY <1>0, <1>3, <1>4, <1>5, <1>6, <1>7, <1>8, <1>9 DEF Next, TravelInv

LEMMA Travel == Spec => []TravelInv
<1>1. Init => TravelInv BY InitTravel
<1>2. TravelInv /\ [Next]_vars => TravelInv' BY NextTravel
<1> QED BY <1>1, <1>2, PTL DEF Spec

(* Whatever an application puts into a message, the other one reads: the    *)
(* header, and every number, list, text, interval and time that ReadBack    *)
(* does not leave out, of every content that fits its codes, the reports of *)
(* a GCG and the answers to history queries included.                       *)
THEOREM ContentArrives == ASSUME PastHeader = 1 PROVE Spec => []ReadBack
<1>1. ASSUME SentOK, stage = "parsed"
      PROVE  /\ SameHeader
             /\ \A i \in DOMAIN sent.entries :
                  Whole(sent.entries[i]) => Taken(got, sent.entries[i]) = sent.entries[i].val
             /\ \A i \in DOMAIN sent.entries :
                  sent.entries[i].how = "rescode" => got.header.rescode = sent.entries[i].val[1]
    <2>1. PICK h \in Headers, entries \in Seq(Entries) :
             h = sent.header /\ entries = sent.entries /\ Readable(entries) /\ got = Arrived(h, entries)
        BY <1>1, SMTT(40) DEF SentOK, Made
    <2>2. SameHeader
        <3>1. Headed(got.header, h) /\ got.header.tdate \o got.header.ttime = Today
            BY <2>1, HeaderArrives
        <3> QED BY <2>1, <3>1 DEF SameHeader, Headed
    <2>3. ASSUME NEW i \in DOMAIN entries, Whole(entries[i]) PROVE Taken(got, entries[i]) = entries[i].val
        BY <2>1, <2>3, TakenArrives
    <2>4. ASSUME NEW i \in DOMAIN entries, entries[i].how = "rescode"
          PROVE  got.header.rescode = entries[i].val[1]
        <3>1. i \in 1..Len(entries) BY LenProperties
        <3> QED BY <2>1, <2>4, <3>1, RescodeArrives
    <2> QED BY <2>1, <2>2, <2>3, <2>4
<1>2. TravelInv => ReadBack BY <1>1 DEF TravelInv, ReadBack
<1> QED BY <1>2, Travel, PTL

-----------------------------------------------------------------------------
(* What gets lost on the way *)

(* A composed message has the fields of its entries. *)
LEMMA ComposedFields ==
    ASSUME NEW h \in Headers, NEW entries \in Seq(Entries)
    PROVE  \E n \in Nat : /\ n = Len(entries) /\ DOMAIN entries = 1..n
                          /\ Composed(h, entries) \in Msgs
                          /\ Len(Composed(h, entries).fields) = n
                          /\ DOMAIN Composed(h, entries).fields = 1..n
                          /\ \A i \in 1..n : /\ entries[i] \in Entries
                                             /\ Composed(h, entries).fields[i] = FieldFor(entries[i])
<1>1. PICK n \in Nat : n = Len(entries) /\ DOMAIN entries = 1..n BY LenProperties
<1>2. PICK base \in Msgs : base.fields = << >> /\ Composed(h, entries) = FoldLeft(Put, base, entries)
    BY StartOf
<1>3. PICK m \in Msgs : m = Composed(h, entries) BY ComposedOK
<1>4. Holds(m, n, FieldsOf(entries), base.header) BY <1>1, <1>2, <1>3, PutFields
<1>5. Len(m.fields) = n /\ \A i \in 1..n : m.fields[i] = FieldFor(entries[i])
    BY <1>1, <1>4 DEF Holds, FieldsOf
<1>6. DOMAIN m.fields = 1..n
    <2>1. m.fields \in Seq(Field) BY DEF Msgs
    <2> QED BY <1>5, <2>1, LenProperties
<1>7. \A i \in 1..n : entries[i] \in Entries BY <1>1, ElementOfSeq
<1> QED BY <1>1, <1>3, <1>5, <1>6, <1>7

(* A short text, and no other entry, becomes a field that is mistaken, by  *)
(* the writer among others; of the others none arrives so.                 *)
LEMMA ShortFor ==
    ASSUME NEW e \in Entries
    PROVE  /\ Mistaken(FieldFor(e)) <=> ShortText(e)
           /\ ReadAsAddress(FieldFor(e)) <=> ShortText(e)
           /\ ~ShortText(e) => ~Mistaken(Back(e))
<1>1. PICK f \in Field : f = FieldFor(e) /\ f.code = e.code BY FieldForOK, CodeOf
<1>2. FieldLen(e.code) = 0 => f.length = Len(e.val)
    <2> SUFFICES ASSUME FieldLen(e.code) = 0 PROVE f.length = Len(e.val)
        OBVIOUS
    <2>1. e.how \in {"bytes", "rescode"} BY HowOf DEF Entries, CodesOfLength
    <2>2. CASE e.how = "bytes" BY <1>1, <2>2 DEF FieldFor, Plain
    <2>3. CASE e.how = "rescode"
        <3>1. e.val \in [1..1 -> Int] BY <2>3 DEF Entries
        <3>2. Len(e.val) = 1 BY <3>1
        <3> QED BY <1>1, <2>3, <3>2 DEF FieldFor
    <2> QED BY <2>1, <2>2, <2>3
<1>3. Short(f) <=> ShortText(e) BY <1>1, <1>2 DEF Short, ShortText
<1>4. ASSUME ~ShortText(e) PROVE ~Mistaken(Back(e))
    <2>1. PICK c \in Sent : c = FieldChunk(f) /\ c.code = f.code
        <3>1. FieldChunk(f) \in Sent /\ FieldChunk(f).code = f.code BY FieldChunkOK DEF Sent, FieldChunk
        <3> QED BY <3>1
    <2>2. FC.RESCODE <= c.code BY <2>1 DEF Field, Sound
    <2>3. PICK b \in Field : b = Received(c) /\ b = Back(e) /\ b.code = e.code
        BY <1>1, <2>1, <2>2, ReceivedOK, BackCode DEF Back
    <2>4. FieldLen(e.code) = 0 => b.length = f.length
        <3> SUFFICES ASSUME FieldLen(e.code) = 0 PROVE b.length = f.length
            OBVIOUS
        <3>1. b = Plain(c.code, c.bytes) BY <1>1, <2>1, <2>3 DEF Received
        <3>2. b.length = c.length BY <3>1 DEF Plain, Sent, Carried
        <3>3. c.length = f.length % (MaxLength + 1) BY <1>1, <2>1 DEF FieldChunk
        <3>4. f.length \in Nat /\ f.length <= MaxLength BY DEF Field, Sound
        <3> QED BY <3>2, <3>3, <3>4, ShortLength
    <2>5. ~Short(b) BY <1>1, <1>3, <1>4, <2>3, <2>4 DEF Short
    <2> QED BY <2>3, <2>5, MistakenIsShort
<1> QED BY <1>1, <1>3, <1>4, MistakenIsShort

(* A long list, and no other entry, is more than the parser has room for.  *)
LEMMA LongFor ==
    ASSUME NEW e \in Entries
    PROVE  Overflows(FieldChunk(FieldFor(e))) <=> LongList(e)
<1>1. PICK f \in Field : f = FieldFor(e) /\ f.code = e.code BY FieldForOK, CodeOf
<1>2. PICK c \in Sent : c = FieldChunk(f) /\ c.code = e.code
    <2>1. FieldChunk(f) \in Sent /\ FieldChunk(f).code = f.code BY FieldChunkOK DEF Sent, FieldChunk
    <2> QED BY <1>1, <2>1
<1>3. CASE e.how = "array"
    <2>1. e.val \in Seq(Int) /\ e.code \in CodesOfLength(-4..-1) BY <1>3 DEF Entries
    <2>2. PICK w \in 1..4 : FieldLen(e.code) = 0 - w /\ 0 - FieldLen(e.code) = w
        <3>1. PICK n \in -4..-1 : n = FieldLen(e.code) BY <2>1 DEF CodesOfLength
        <3>2. 0 - n \in 1..4 /\ n = 0 - (0 - n) OBVIOUS
        <3> QED BY <3>1, <3>2
    <2>3. PICK k \in Nat : k = Len(e.val) /\ f.length = k * 4
        <3>1. f.length = Len(FlattenSeq(Words(e.val))) BY <1>1, <1>3 DEF FieldFor, Plain
        <3> QED BY <2>1, <3>1, WordsOf
    <2>4. FieldLen(e.code) < 0 BY <2>2
    <2>5. Len(c.bytes) = k * w
        <3>1. c.length = ((f.length * w) \div 4) % (MaxLength + 1)
            BY <1>1, <1>2, <2>2, <2>4 DEF FieldChunk
        <3>2. PICK l \in Nat : l = k * w /\ (f.length * w) \div 4 = l /\ l <= k * 4
            <4>1. w = 1 \/ w = 2 \/ w = 3 \/ w = 4 OBVIOUS
            <4>2. (k * 4 * w) \div 4 = k * w /\ k * w \in Nat /\ k * w <= k * 4 BY <4>1
            <4> QED BY <2>3, <4>2
        <3>3. k * 4 <= MaxLength BY <2>3 DEF Field, Sound
        <3>4. l <= MaxLength
            <4>1. PICK y \in Nat : y = k * 4 OBVIOUS
            <4> QED BY <3>2, <3>3, <4>1, MaxLengthOf
        <3>5. l % (MaxLength + 1) = l BY <3>4, ShortLength
        <3>6. c.length = l BY <3>1, <3>2, <3>5
        <3> QED BY <3>2, <3>6 DEF Sent, Carried
    <2>6. (k * w) \div w = k
        <3>1. w = 1 \/ w = 2 \/ w = 3 \/ w = 4 OBVIOUS
        <3> QED BY <3>1
    <2>7. Overflows(c) <=> k > MaxItem BY <1>2, <2>2, <2>4, <2>5, <2>6 DEF Overflows
    <2>8. LongList(e) <=> k > MaxItem BY <1>3, <2>3 DEF LongList
    <2> QED BY <1>1, <1>2, <2>7, <2>8
<1>4. CASE e.how # "array"
    <2>1. ~(FieldLen(e.code) < 0)
        <3>1. CASE e.how = "rescode"
            <4>1. e.code = 8 BY <3>1, CodeNumbers DEF Entries
            <4> QED BY <4>1, HeaderLengths, FieldsAssumption
        <3>2. CASE e.how = "bytes"
            <4>1. e.val \in Seq(Byte) /\ Fitting(e.val, e.code) BY <3>2 DEF Entries
            <4>2. Len(e.val) \in Nat BY <4>1, LenProperties
            <4> QED BY <4>1, <4>2 DEF Fitting
        <3>3. CASE e.how \in {"num", "time", "interval"}
            <4>1. FieldLen(e.code) \in 1..7 BY <3>3 DEF Entries, CodesOfLength
            <4> QED BY <4>1
        <3> QED BY <1>4, <3>1, <3>2, <3>3, HowOf
    <2> QED BY <1>1, <1>2, <1>4, <2>1 DEF Overflows, LongList
<1> QED BY <1>3, <1>4

(* So it is with the whole message and with its frame. *)
LEMMA ShortOf ==
    ASSUME NEW h \in Headers, NEW entries \in Seq(Entries), NEW m, m = Composed(h, entries)
    PROVE  /\ AnyMistaken(m) <=> AnyShort(entries)
           /\ (\E i \in DOMAIN m.fields : ReadAsAddress(m.fields[i])) <=> AnyShort(entries)
           /\ ~AnyShort(entries) => ~AnyMistaken(Arrived(h, entries))
<1>1. PICK n \in Nat : /\ n = Len(entries) /\ DOMAIN entries = 1..n /\ DOMAIN m.fields = 1..n
                       /\ \A i \in 1..n : entries[i] \in Entries /\ m.fields[i] = FieldFor(entries[i])
    BY ComposedFields
<1>2. AnyMistaken(m) <=> AnyShort(entries) BY <1>1, ShortFor DEF AnyMistaken, AnyShort
<1>3. (\E i \in DOMAIN m.fields : ReadAsAddress(m.fields[i])) <=> AnyShort(entries)
    BY <1>1, ShortFor DEF AnyShort
<1>4. ASSUME ~AnyShort(entries) PROVE ~AnyMistaken(Arrived(h, entries))
    <2>1. PICK a : a = Arrived(h, entries) OBVIOUS
    <2>2. /\ a.fields \in Seq(Field) /\ Len(a.fields) = n
          /\ \A i \in 1..n : a.fields[i] = Back(entries[i])
        BY <1>1, <2>1, ArriveOf DEF Holds, Backs
    <2>3. DOMAIN a.fields = 1..n BY <2>2, LenProperties
    <2>4. \A i \in 1..n : ~Mistaken(a.fields[i]) BY <1>1, <1>4, <2>2, ShortFor DEF AnyShort
    <2> QED BY <2>1, <2>3, <2>4 DEF AnyMistaken
<1> QED BY <1>2, <1>3, <1>4

LEMMA LongOf ==
    ASSUME NEW h \in Headers, NEW entries \in Seq(Entries),
           NEW chunks, chunks = GenerateFrame(Composed(h, entries)).chunks
    PROVE  (\E i \in DOMAIN chunks : Overflows(chunks[i])) <=> AnyLong(entries)
<1>1. PICK m \in Msgs : m = Composed(h, entries) BY ComposedOK
<1>2. PICK n \in Nat : /\ n = Len(entries) /\ DOMAIN entries = 1..n /\ Len(m.fields) = n
                       /\ \A i \in 1..n : entries[i] \in Entries /\ m.fields[i] = FieldFor(entries[i])
    BY <1>1, ComposedFields
<1>3. PICK hc : hc = HeaderChunks(m.header) OBVIOUS
<1>4. PICK fc : fc = FieldChunks(m) OBVIOUS
<1>5. m.header \in Header BY DEF Msgs
<1>6. hc \in Seq(Sent) /\ Len(hc) = 8 /\ \A k \in 1..8 : FieldLen(hc[k].code) > 0
    <2>1. hc \in Seq(Sent) /\ Len(hc) = 8 BY <1>3, <1>5, HeaderChunksOK
    <2>2. /\ hc[1].code = 0 /\ hc[2].code = 1 /\ hc[3].code = 2 /\ hc[4].code = 3
          /\ hc[5].code = 4 /\ hc[6].code = 5 /\ hc[7].code = 6 /\ hc[8].code = 7
        BY <1>3, CodeNumbers DEF HeaderChunks, Chunk
    <2>3. ASSUME NEW k \in 1..8 PROVE FieldLen(hc[k].code) > 0
        <3>1. k = 1 \/ k = 2 \/ k = 3 \/ k = 4 \/ k = 5 \/ k = 6 \/ k = 7 \/ k = 8 OBVIOUS
        <3> QED BY <2>2, <3>1, HeaderLengths
    <2> QED BY <2>1, <2>3
<1>7. fc \in Seq(Sent) /\ Len(fc) = n /\ \A i \in 1..n : fc[i] = FieldChunk(FieldFor(entries[i]))
    <2>1. fc = [i \in 1..n |-> FieldChunk(m.fields[i])] BY <1>2, <1>4 DEF FieldChunks
    <2>2. ASSUME NEW i \in 1..n PROVE FieldChunk(m.fields[i]) \in Sent
        <3>1. m.fields[i] \in Field BY <1>2, FieldForOK
        <3> QED BY <3>1, FieldChunkOK DEF Sent
    <2>3. fc \in [1..n -> Sent] BY <2>1, <2>2
    <2> QED BY <1>2, <2>1, <2>3, FunctionIsSeq
<1>8. chunks = hc \o fc BY <1>1, <1>3, <1>4 DEF GenerateFrame
<1>9. Spliced(chunks, hc, fc, Sent) BY <1>6, <1>7, <1>8, ConcatAt
<1>10. /\ chunks \in Seq(Sent) /\ Len(chunks) = 8 + n
       /\ \A k \in 1..8 : chunks[k] = hc[k]
       /\ \A k \in 1..n : chunks[8 + k] = fc[k]
    BY <1>6, <1>7, <1>9 DEF Spliced
<1>11. DOMAIN chunks = 1..(8 + n) BY <1>10, LenProperties
<1>12. \A k \in 1..8 : ~Overflows(chunks[k])
    <2>1. ASSUME NEW k \in 1..8 PROVE ~Overflows(chunks[k])
        <3>1. PICK c \in Sent : c = hc[k] BY <1>6, ElementOfSeq
        <3>2. PICK x \in -4..10 : x = FieldLen(c.code)
            <4>1. c.code \in Range(FC) BY DEF Sent, ChunkSet
            <4> QED BY <4>1, LengthOfCode
        <3>3. ~(FieldLen(hc[k].code) < 0) BY <1>6, <3>1, <3>2
        <3> QED BY <1>10, <3>3 DEF Overflows
    <2> QED BY <2>1
<1>13. \A k \in 1..n : Overflows(chunks[8 + k]) <=> LongList(entries[k])
    BY <1>2, <1>7, <1>10, LongFor
<1>14. ASSUME NEW i \in 1..(8 + n), Overflows(chunks[i]) PROVE AnyLong(entries)
    <2>1. i \notin 1..8 BY <1>12, <1>14
    <2>2. PICK k \in 1..n : i = 8 + k
        <3>1. i - 8 \in 1..n /\ i = 8 + (i - 8) BY <2>1
        <3> QED BY <3>1
    <2> QED BY <1>2, <1>13, <1>14, <2>2 DEF AnyLong
<1>15. ASSUME NEW k \in 1..n, LongList(entries[k]) PROVE \E i \in 1..(8 + n) : Overflows(chunks[i])
    <2>1. 8 + k \in 1..(8 + n) OBVIOUS
    <2> QED BY <1>13, <1>15, <2>1
<1> QED BY <1>2, <1>11, <1>14, <1>15 DEF AnyLong

(* The message is that of the entries, once there are some, and what is    *)
(* on its way has passed the writer, then the parser.                      *)
Fresh == sent = Nothing /\ msg = InitMsg
AnyGap == \E type \in NodeType : Gaps(gcg[type]) # {}
FaultsOK ==
    /\ stage = "idle" => Fresh
    /\ stage = "crashed" => Made \/ Fresh
    /\ stage \in {"framed", "damaged", "parsed", "refused"} => ~AnyShort(sent.entries)
    /\ stage = "parsed" => ~AnyLong(sent.entries)
    /\ stage = "crashed" => AnyShort(sent.entries) \/ AnyLong(sent.entries) \/ AnyGap

LEMMA FreshKept ==
    ASSUME UNCHANGED <<sent, msg>>
    PROVE  Fresh' <=> Fresh
BY DEF Fresh

LEMMA NextFaults ==
    ASSUME TravelInv, FaultsOK, [Next]_vars
    PROVE  FaultsOK'
<1>1. PipeOK /\ SentOK BY DEF TravelInv, TransferInv
<1>2. ASSUME SendContent \/ SendHistory \/ SendReport PROVE FaultsOK'
    <2>1. CASE stage' = "composed" BY <2>1 DEF FaultsOK
    <2>2. CASE stage' # "composed"
        <3>1. SendReport BY <1>2, <2>2 DEF SendContent, SendHistory, SendStatBlock, SendEnvBlock, Send
        <3>2. /\ \E type \in NodeType : ReadsNull(gcg[type])
              /\ stage = "idle" /\ stage' = "crashed" /\ UNCHANGED <<sent, msg, gcg>>
            BY <2>2, <3>1 DEF SendReport, Send
        <3>3. AnyGap' BY <3>2 DEF AnyGap, ReadsNull
        <3>4. Fresh' BY <3>2, FreshKept DEF FaultsOK
        <3> QED BY <3>2, <3>3, <3>4 DEF FaultsOK
    <2> QED BY <2>1, <2>2
<1>3. CASE Generate
    <2>1. stage = "composed" /\ UNCHANGED <<sent, msg, gcg>> BY <1>3 DEF Generate
    <2>2. Made BY <1>1, <2>1 DEF SentOK
    <2>3. (\E i \in DOMAIN msg.fields : ReadAsAddress(msg.fields[i])) <=> AnyShort(sent.entries)
        BY <2>2, ShortOf DEF Made
    <2>4. Made' BY <2>1, <2>2, MadeKept
    <2>5. CASE AnyShort(sent.entries)
        <3>1. stage' = "crashed" BY <1>3, <2>3, <2>5 DEF Generate
        <3>2. AnyShort(sent'.entries) BY <2>1, <2>5
        <3> QED BY <2>4, <3>1, <3>2 DEF FaultsOK, AnyShort
    <2>6. CASE ~AnyShort(sent.entries)
        <3>1. stage' = "framed" BY <1>3, <2>3, <2>6 DEF Generate
        <3>2. ~AnyShort(sent'.entries) BY <2>1, <2>6
        <3> QED BY <3>1, <3>2 DEF FaultsOK, AnyShort
    <2> QED BY <2>5, <2>6
<1>4. CASE Damage
    <2>1. stage = "framed" /\ stage' = "damaged" /\ UNCHANGED sent BY <1>4 DEF Damage
    <2>2. ~AnyShort(sent'.entries) BY <2>1 DEF FaultsOK
    <2> QED BY <2>1, <2>2 DEF FaultsOK, AnyShort
<1>5. CASE Parse
    <2>1. PICK p, long :
            /\ p = ParseFrame(frame)
            /\ long <=> p.stat = "NOERROR" /\ \E i \in DOMAIN frame.chunks : Overflows(frame.chunks[i])
        OBVIOUS
    <2>2. /\ stage \in {"framed", "damaged"} /\ UNCHANGED <<sent, msg>>
          /\ stage' = CASE long -> "crashed"
                        [] p.stat # "NOERROR" -> "refused"
                        [] p.stat = "NOERROR" /\ ~long /\ stage = "framed" -> "parsed"
                        [] p.stat = "NOERROR" /\ ~long /\ stage = "damaged" -> "misparsed"
        BY <1>5, <2>1 DEF Parse
    <2>3. Made /\ Made'
        <3>1. Made BY <1>1, <2>2 DEF SentOK
        <3> QED BY <2>2, <3>1, MadeKept
    <2>4. ~AnyShort(sent'.entries) BY <2>2 DEF FaultsOK
    <2>5. CASE stage = "damaged"
        <3>1. p = Parsed("CHECKSUM_NOT_MATCHED", InitMsg) BY <1>1, <2>1, <2>5 DEF ParseFrame, PipeOK
        <3>2. p.stat = "CHECKSUM_NOT_MATCHED" BY <3>1 DEF Parsed
        <3>3. stage' = "refused" BY <2>1, <2>2, <3>2
        <3> QED BY <2>4, <3>3 DEF FaultsOK, AnyShort
    <2>6. CASE stage = "framed"
        <3>1. p = ParseFields(InitMsg, frame.chunks) BY <1>1, <2>1, <2>6 DEF ParseFrame, PipeOK
        <3>2. p \in Good BY <1>1, <2>6, <3>1, ParseFieldsOK, InitMsgOK DEF PipeOK
        <3>3. p.stat = "NOERROR" BY <3>2 DEF Good
        <3>4. frame.chunks = GenerateFrame(Composed(sent.header, sent.entries)).chunks
            BY <1>1, <2>6 DEF SentOK
        <3>5. long <=> AnyLong(sent.entries) BY <2>1, <2>3, <3>3, <3>4, LongOf DEF Made
        <3>6. CASE long
            <4>1. stage' = "crashed" BY <2>2, <3>3, <3>6
            <4>2. AnyLong(sent'.entries) BY <2>2, <3>5, <3>6
            <4> QED BY <2>3, <4>1, <4>2 DEF FaultsOK, AnyLong
        <3>7. CASE ~long
            <4>1. stage' = "parsed" BY <2>2, <2>6, <3>3, <3>7
            <4>2. ~AnyLong(sent'.entries) BY <2>2, <3>5, <3>7
            <4> QED BY <2>4, <4>1, <4>2 DEF FaultsOK, AnyLong, AnyShort
        <3> QED BY <3>6, <3>7
    <2> QED BY <2>2, <2>5, <2>6
<1>6. CASE Release
    <2>1. stage' = "idle" /\ sent' = Nothing /\ msg' = InitMsg BY <1>6 DEF Release
    <2>2. Fresh' BY <2>1 DEF Fresh, Nothing
    <2> QED BY <2>1, <2>2 DEF FaultsOK
<1>7. CASE FillBlock \/ ChangeNodes
    <2>1. stage = "idle" /\ UNCHANGED <<stage, sent, msg>> BY <1>7 DEF FillBlock, ChangeNodes, pipe
    <2>2. Fresh' BY <2>1, FreshKept DEF FaultsOK
    <2> QED BY <2>1, <2>2 DEF FaultsOK
<1>8. CASE UNCHANGED vars
    <2>1. UNCHANGED <<stage, sent, msg, gcg>> BY <1>8 DEF vars
    <2>2. (Made => Made') /\ (Fresh => Fresh') BY <2>1, MadeKept, FreshKept
    <2>3. AnyGap' <=> AnyGap BY <2>1 DEF AnyGap
    <2> QED BY <2>1, <2>2, <2>3 DEF FaultsOK, AnyShort, AnyLong
<1> QED BY <1>2, <1>3, <1>4, <1>5, <1>6, <1>7, <1>8 DEF Next

LEMMA FaultsAre ==
    ASSUME TravelInv, FaultsOK
    PROVE  FaultsKnown
<1>1. PipeOK /\ SentOK BY DEF TravelInv, TransferInv
<1>2. AnyMistaken(InitMsg) = FALSE BY DEF AnyMistaken, InitMsg
<1>3. ASSUME stage # "idle" PROVE AnyMistaken(msg) <=> AnyShort(sent.entries)
    <2>1. CASE Made BY <2>1, ShortOf DEF Made
    <2>2. CASE Fresh BY <1>2, <2>2 DEF Fresh, Nothing, AnyShort
    <2> QED BY <1>1, <1>3, <2>1, <2>2 DEF SentOK, FaultsOK
<1>4. stage # "misparsed" BY <1>1 DEF PipeOK
<1>5. ASSUME stage \in {"parsed", "refused"} PROVE ~AnyMistaken(got)
    <2>1. CASE stage = "parsed"
        <3>1. Made /\ got = Arrived(sent.header, sent.entries) BY <1>1, <2>1 DEF SentOK
        <3>2. ~AnyShort(sent.entries) BY <2>1 DEF FaultsOK
        <3> QED BY <3>1, <3>2, ShortOf DEF Made
    <2>2. CASE stage = "refused"
        <3>1. got = InitMsg BY <1>1, <2>2 DEF PipeOK
        <3> QED BY <1>2, <3>1
    <2> QED BY <1>5, <2>1, <2>2
<1> QED BY <1>3, <1>4, <1>5 DEF FaultsKnown, FaultsOK, AnyGap

(* Adding, writing, parsing and reading agree on every field but those of  *)
(* short texts, whatever the content and whichever length stands behind    *)
(* header[] for the response code (which a 0 there makes a short text);    *)
(* and a short text, a list longer than the parser's array and a node      *)
(* without devices are all that the program can be lost to on the way of a *)
(* message.                                                                *)
THEOREM FaultsConfined == Spec => []FaultsKnown
<1>1. Init => FaultsOK BY DEF Init, FaultsOK, Fresh, Nothing
<1>2. TravelInv /\ FaultsOK /\ [Next]_vars => FaultsOK' BY NextFaults
<1>3. TravelInv /\ FaultsOK => FaultsKnown BY FaultsAre
<1> QED BY <1>1, <1>2, <1>3, Travel, PTL DEF Spec

-----------------------------------------------------------------------------
(* What a GOS reads from a report *)

(* One of the entries is e. *)
Carries(entries, e) == \E i \in DOMAIN entries : entries[i] = e

LEMMA CarriesBoth ==
    ASSUME NEW a \in Seq(Entries), NEW b \in Seq(Entries), NEW e, Carries(a, e) \/ Carries(b, e)
    PROVE  Carries(a \o b, e)
<1>1. PICK m, n \in Nat : m = Len(a) /\ n = Len(b) /\ DOMAIN a = 1..m /\ DOMAIN b = 1..n
    BY LenProperties
<1>2. PICK c : c = a \o b OBVIOUS
<1>3. c \in Seq(Entries) /\ Len(c) = m + n BY <1>1, <1>2, ConcatProperties
<1>4. DOMAIN c = 1..(m + n) BY <1>3, LenProperties
<1>5. ASSUME NEW i \in 1..m, a[i] = e PROVE Carries(c, e)
    <2>1. i \in 1..(m + n) /\ i <= m OBVIOUS
    <2>2. c[i] = a[i] BY <1>1, <1>2, <2>1, ConcatProperties
    <2> QED BY <1>4, <1>5, <2>1, <2>2 DEF Carries
<1>6. ASSUME NEW j \in 1..n, b[j] = e PROVE Carries(c, e)
    <2>1. m + j \in 1..(m + n) /\ ~(m + j <= m) /\ (m + j) - m = j OBVIOUS
    <2>2. c[m + j] = b[j] BY <1>1, <1>2, <2>1, ConcatProperties
    <2> QED BY <1>4, <1>6, <2>1, <2>2 DEF Carries
<1> QED BY <1>1, <1>2, <1>5, <1>6 DEF Carries

LEMMA CarriesOne ==
    ASSUME NEW how, NEW code, NEW val
    PROVE  Carries(Entry(how, code, val), [how |-> how, code |-> code, val |-> val])
<1>1. PICK s : s = Entry(how, code, val) OBVIOUS
<1>2. 1 \in DOMAIN s /\ s[1] = [how |-> how, code |-> code, val |-> val] BY <1>1 DEF Entry
<1> QED BY <1>1, <1>2 DEF Carries

NumEntry(code, n) == [how |-> "num", code |-> code, val |-> <<n>>]
ArrayEntry(code, list) == [how |-> "array", code |-> code, val |-> list]

(* The entries of one list. *)
CarriesList(entries, number, ids, values, list) ==
    /\ Carries(entries, NumEntry(number, Len(list[1])))
    /\ Len(list[1]) > 0 =>
         Carries(entries, ArrayEntry(ids, list[1])) /\ Carries(entries, ArrayEntry(values, list[2]))

LEMMA CarriesListBoth ==
    ASSUME NEW a \in Seq(Entries), NEW b \in Seq(Entries), NEW number, NEW ids, NEW values, NEW list,
           CarriesList(a, number, ids, values, list) \/ CarriesList(b, number, ids, values, list)
    PROVE  CarriesList(a \o b, number, ids, values, list)
<1>1. \A e : Carries(a, e) \/ Carries(b, e) => Carries(a \o b, e) BY CarriesBoth
<1> QED BY <1>1, Zenon DEF CarriesList

LEMMA ListedCarries ==
    ASSUME NEW number \in CodesOfLength(1..4), NEW ids \in CodesOfLength(-4..-1),
           NEW values \in CodesOfLength(-4..-1), NEW list, Lists(list)
    PROVE  CarriesList(Listed(number, ids, values, list), number, ids, values, list)
<1>1. PICK a : a = Number(number, Len(list[1])) OBVIOUS
<1>2. PICK b : b = Entry("array", ids, list[1]) OBVIOUS
<1>3. PICK c : c = Entry("array", values, list[2]) OBVIOUS
<1>4. PICK d : d = If(Len(list[1]) > 0, b \o c) OBVIOUS
<1>5. a \in Seq(Entries)
    <2>1. Len(list[1]) \in Int BY LenProperties DEF Lists
    <2> QED BY <1>1, <2>1, NumberOf
<1>6. b \in Seq(Entries) /\ c \in Seq(Entries) BY <1>2, <1>3, ArrayOf DEF Lists
<1>7. b \o c \in Seq(Entries) BY <1>6, ConcatProperties
<1>8. d \in Seq(Entries) BY <1>4, <1>7, EmptySeq DEF If
<1>9. Listed(number, ids, values, list) = a \o d BY <1>1, <1>2, <1>3, <1>4 DEF Listed
<1>10. Carries(a, NumEntry(number, Len(list[1]))) BY <1>1, CarriesOne DEF Number, NumEntry
<1>11. Carries(b, ArrayEntry(ids, list[1])) /\ Carries(c, ArrayEntry(values, list[2]))
    BY <1>2, <1>3, CarriesOne DEF ArrayEntry
<1>12. Carries(b \o c, ArrayEntry(ids, list[1])) /\ Carries(b \o c, ArrayEntry(values, list[2]))
    BY <1>6, <1>11, CarriesBoth
<1>13. Len(list[1]) > 0 => d = b \o c BY <1>4 DEF If
<1>14. Carries(a \o d, NumEntry(number, Len(list[1]))) BY <1>5, <1>8, <1>10, CarriesBoth
<1>15. ASSUME Len(list[1]) > 0
       PROVE  Carries(a \o d, ArrayEntry(ids, list[1])) /\ Carries(a \o d, ArrayEntry(values, list[2]))
    BY <1>5, <1>8, <1>12, <1>13, <1>15, CarriesBoth
<1> QED BY <1>9, <1>14, <1>15 DEF CarriesList

(* A number that was sent is read. *)
LEMMA NumArrives ==
    ASSUME PastHeader = 1, NEW h \in Headers, NEW entries \in Seq(Entries), Readable(entries),
           NEW code, FieldLen(code) \in 1..3, NEW n, Carries(entries, NumEntry(code, n))
    PROVE  Num(Arrived(h, entries), code) = n
<1>1. PICK i \in DOMAIN entries : entries[i] = NumEntry(code, n) BY DEF Carries
<1>2. i \in 1..Len(entries) BY LenProperties
<1>3. PICK e \in Entries : e = entries[i] BY <1>2, ElementOfSeq
<1>4. e.how = "num" /\ e.code = code /\ e.val[1] = n BY <1>1, <1>3 DEF NumEntry
<1>5. Fits(e) /\ Whole(e)
    <2>1. FieldLen(e.code) # 4 BY <1>4
    <2> QED BY <1>3, <1>4, <2>1 DEF Readable, Whole
<1>6. ReadField(Arrived(h, entries), code) = FieldFor(e)
    <2>1. Back(e) = FieldFor(e) BY <1>5, FieldBack DEF Back
    <2>2. ReadField(Arrived(h, entries), entries[i].code) = Back(entries[i]) BY <1>2, EntryFound
    <2> QED BY <1>3, <1>4, <2>1, <2>2
<1>7. FieldFor(e).data = Word(n) /\ n \in Int /\ InWidth(n, FieldLen(code))
    BY <1>4, <1>5, NumField DEF Numeric
<1>8. IsInt(n)
    <2>1. FieldLen(code) \in 1..4 OBVIOUS
    <2> QED BY <1>7, <2>1, WidthIsInt
<1>9. Word(n) \in Seq(Byte) /\ Len(Word(n)) = 4 BY <1>7, WordOf
<1>10. SubSeq(Word(n), 1, 4) = Word(n)
    <2>1. PICK w \in Seq(Byte) : w = Word(n) /\ Len(w) = 4 BY <1>9
    <2>2. SubSeq(w, 1, Len(w)) = w BY SubSeqFull
    <2> QED BY <2>1, <2>2
<1>11. IntOf(Word(n)) = n BY <1>7, <1>8, WordRead
<1> QED BY <1>6, <1>7, <1>10, <1>11 DEF Num

(* A list that was sent is read. *)
LEMMA ArrayArrives ==
    ASSUME PastHeader = 1, NEW h \in Headers, NEW entries \in Seq(Entries), Readable(entries),
           NEW code \in CodesOfLength(-4..-1), NEW list, Carries(entries, ArrayEntry(code, list))
    PROVE  ReadArray(Arrived(h, entries), code) = list
<1>1. PICK i \in DOMAIN entries : entries[i] = ArrayEntry(code, list) BY DEF Carries
<1>2. PICK e : e = entries[i] OBVIOUS
<1>3. e.how = "array" /\ e.code = code /\ e.val = list BY <1>1, <1>2 DEF ArrayEntry
<1>4. Whole(e)
    <2>1. FieldLen(e.code) # 4 BY <1>3 DEF CodesOfLength
    <2> QED BY <1>3, <2>1 DEF Whole
<1>5. Taken(Arrived(h, entries), e) = e.val BY <1>2, <1>4, TakenArrives
<1>6. Taken(Arrived(h, entries), e) = ReadArray(Arrived(h, entries), code) BY <1>3 DEF Taken
<1> QED BY <1>3, <1>5, <1>6

(* Two lists of one length. *)
Paired(list) == Len(list[1]) = Len(list[2]) /\ list = <<list[1], list[2]>>

LEMMA ListArrives ==
    ASSUME PastHeader = 1, NEW h \in Headers, NEW entries \in Seq(Entries), Readable(entries),
           NEW number, FieldLen(number) \in 1..3, NEW ids \in CodesOfLength(-4..-1),
           NEW values \in CodesOfLength(-4..-1), NEW list, Lists(list), Paired(list),
           CarriesList(entries, number, ids, values, list)
    PROVE  ParseList(Arrived(h, entries), number, ids, values) = list
<1>1. PICK m, x, y : m = Arrived(h, entries) /\ x = list[1] /\ y = list[2] OBVIOUS
<1>2. PICK n \in Nat : n = Len(x) /\ n = Len(y) BY <1>1, LenProperties DEF Lists, Paired
<1>3. Num(m, number) = n BY <1>1, <1>2, NumArrives DEF CarriesList
<1>4. CASE n = 0
    <2>1. x = << >> /\ y = << >> BY <1>1, <1>2, <1>4, EmptySeq DEF Lists
    <2>2. list = << << >>, << >> >> BY <1>1, <2>1 DEF Paired
    <2> QED BY <1>1, <1>3, <1>4, <2>2 DEF ParseList
<1>5. CASE n # 0
    <2>1. n > 0 BY <1>5
    <2>2. ReadArray(m, ids) = x /\ ReadArray(m, values) = y
        BY <1>1, <1>2, <2>1, ArrayArrives DEF CarriesList
    <2>3. list = <<x, y>> BY <1>1 DEF Paired
    <2> QED BY <1>1, <1>2, <1>3, <1>5, <2>2, <2>3 DEF ParseList
<1> QED BY <1>4, <1>5

(* The devices that are counted are those the nodes have. *)
LEMMA DevsCounted ==
    ASSUME NEW nset, NsetOK(nset), NEW devs, devs = FlattenSeq(NodeList(nset, "devs"))
    PROVE  devs \in Seq(NodeDevice) /\ Len(devs) = nset.numofdev
<1>1. PICK m \in Nat : m = Len(nset.nodes) /\ nset.nodes \in Seq(Node) BY NsetFits DEF NsetOK
<1>2. PICK ss : ss = NodeList(nset, "devs") OBVIOUS
<1>3. \A k \in 1..m : nset.nodes[k].devs \in Seq(NodeDevice)
    <2>0. \A d \in NodeDevs : d \in Seq(NodeDevice) BY WidthsAssumption, SMT
    <2>1. ASSUME NEW k \in 1..m PROVE nset.nodes[k].devs \in Seq(NodeDevice)
        <3>1. nset.nodes[k] \in Node BY <1>1, ElementOfSeq
        <3>2. nset.nodes[k].devs \in NodeDevs BY <3>1 DEF Node
        <3> QED BY <2>0, <3>2
    <2> QED BY <2>1
<1>4. ss \in [1..m -> Seq(NodeDevice)] /\ \A k \in 1..m : ss[k] = nset.nodes[k].devs
    BY <1>1, <1>2, <1>3 DEF NodeList
<1>5. PICK t \in [0..m -> Nat] : Offsets(t, ss, m) BY <1>4, OffsetsExist
<1>6. PICK s : Total(s, nset.nodes) /\ nset.numofdev = s[m] BY <1>1 DEF NsetOK
<1>7. s[0] = 0 /\ \A k \in 1..m : s[k] = s[k - 1] + Len(ss[k]) BY <1>1, <1>4, <1>6 DEF Total
<1>8. t[0] = 0 /\ \A k \in 1..m : t[k] = t[k - 1] + Len(ss[k]) BY <1>5 DEF Offsets
<1> DEFINE S == {k \in Nat : k \in 0..m => s[k] = t[k]}
<1>9. 0 \in S BY <1>7, <1>8
<1>10. ASSUME NEW k \in Nat, k \in S PROVE k + 1 \in S
    <2>1. CASE k + 1 \in 0..m
        <3>1. k \in 0..m /\ k + 1 \in 1..m /\ (k + 1) - 1 = k BY <2>1
        <3>2. s[k] = t[k] BY <1>10, <3>1
        <3>3. s[k + 1] = s[k] + Len(ss[k + 1]) /\ t[k + 1] = t[k] + Len(ss[k + 1])
            BY <1>7, <1>8, <3>1
        <3>4. s[k + 1] = t[k + 1] BY <3>2, <3>3
        <3> QED BY <3>4
    <2> QED BY <2>1
<1>11. m \in S
    <2> HIDE DEF S
    <2>1. Nat \subseteq S BY <1>9, <1>10, SetInduction
    <2> QED BY <2>1
<1>12. s[m] = t[m]
    <2>1. m \in 0..m OBVIOUS
    <2> QED BY <1>11, <2>1
<1>13. Joined(devs, ss, t, m, NodeDevice) BY <1>2, <1>4, <1>5, FlattenAt
<1> QED BY <1>6, <1>12, <1>13 DEF Joined

(* So the lists a report is made of are what the application has put into  *)
(* the sets, and nothing else, unless a node without devices is in front   *)
(* of one with some.                                                       *)
LEMMA DevsHeld ==
    ASSUME GcgOK, NEW type \in NodeType, NEW part
    PROVE  /\ Gaps(gcg[type]) = {} => Devs(type, part) = Held(type, part)
           /\ Paired(Devs(type, part))
<1>1. PICK nset : nset = gcg[type] /\ NsetOK(nset) BY DEF GcgOK, NodeType
<1>2. PICK devs : devs = FlattenSeq(NodeList(nset, "devs")) OBVIOUS
<1>3. PICK n \in Nat : /\ n = nset.numofdev /\ n = Len(devs) /\ DOMAIN devs = 1..n
    <2>1. devs \in Seq(NodeDevice) /\ Len(devs) = nset.numofdev BY <1>1, <1>2, DevsCounted
    <2> QED BY <2>1, LenProperties
<1>4. ASSUME NEW p
      PROVE  /\ Gaps(nset) = {} => DevList(nset, p) = [i \in 1..n |-> devs[i][p]]
             /\ Len(DevList(nset, p)) = n
    <2>1. PICK g : g = [i \in 1..n |-> IF 1 \notin Gaps(nset) /\ i <= n THEN devs[i][p] ELSE Stack]
        OBVIOUS
    <2>2. DevList(nset, p) = g BY <1>2, <1>3, <2>1 DEF DevList
    <2>3. Gaps(nset) = {} => g = [i \in 1..n |-> devs[i][p]] BY <2>1
    <2>4. Len(g) = n BY <2>1
    <2> QED BY <2>2, <2>3, <2>4
<1>5. Devs(type, part) = <<DevList(nset, "gid"), DevList(nset, part)>> BY <1>1 DEF Devs
<1>6. Held(type, part) = <<[i \in 1..n |-> devs[i].gid], [i \in 1..n |-> devs[i][part]]>>
    BY <1>1, <1>2, <1>3 DEF Held
<1>8. ASSUME Gaps(nset) = {} PROVE Devs(type, part) = Held(type, part)
    <2>1. PICK x, y : x = DevList(nset, "gid") /\ y = DevList(nset, part) OBVIOUS
    <2>2. x = [i \in 1..n |-> devs[i].gid] /\ y = [i \in 1..n |-> devs[i][part]] BY <1>4, <1>8, <2>1
    <2> QED BY <1>5, <1>6, <2>1, <2>2
<1>9. Paired(Devs(type, part)) BY <1>4, <1>5 DEF Paired
<1> QED BY <1>1, <1>8, <1>9

LEMMA NodesPaired ==
    ASSUME GcgOK, NEW type \in NodeType
    PROVE  Paired(Nodes(type))
<1>1. PICK nset : nset = gcg[type] /\ NsetOK(nset) BY DEF GcgOK, NodeType
<1>2. PICK n \in Nat : n = Len(nset.nodes) BY <1>1, NsetFits
<1>3. ASSUME NEW p PROVE Len(NodeList(nset, p)) = n
    <2>1. PICK f : f = [i \in 1..n |-> nset.nodes[i][p]] OBVIOUS
    <2>2. Len(f) = n BY <2>1
    <2> QED BY <1>2, <2>1, <2>2 DEF NodeList
<1>4. Nodes(type) = <<NodeList(nset, "id"), NodeList(nset, "stat")>> BY <1>1 DEF Nodes
<1> QED BY <1>3, <1>4 DEF Paired

(* A report carries its lists. *)
LEMMA StatCarries ==
    ASSUME GcgOK, NEW r, r = NotifyStat(Now)
    PROVE  /\ CarriesList(r, FC.NUMOFSN, FC.ARROFSNID, FC.ARROFSNSTAT, Nodes("SNODE"))
           /\ CarriesList(r, FC.NUMOFAN, FC.ARROFANID, FC.ARROFANSTAT, Nodes("ANODE"))
           /\ CarriesList(r, FC.NUMOFSENS, FC.ARROFGSID, FC.ARROFSENSSTAT, Devs("SNODE", "stat"))
           /\ CarriesList(r, FC.NUMOFACTS, FC.ARROFGAID, FC.ARROFACTSSTAT, Devs("ANODE", "stat"))
<1>1. "SNODE" \in NodeType /\ "ANODE" \in NodeType BY DEF NodeType
<1>2. PICK sn, an, sd, ad : /\ sn = Nodes("SNODE") /\ an = Nodes("ANODE")
                            /\ sd = Devs("SNODE", "stat") /\ ad = Devs("ANODE", "stat")
    OBVIOUS
<1>3. Lists(sn) /\ Lists(an) /\ Lists(sd) /\ Lists(ad) BY <1>1, <1>2, NodeLists
<1>4. PICK a \in Seq(Entries) : a = Listed(FC.NUMOFSN, FC.ARROFSNID, FC.ARROFSNSTAT, sn)
    BY <1>3, ReportCodes, ListedOf
<1>5. PICK b \in Seq(Entries) : b = Listed(FC.NUMOFAN, FC.ARROFANID, FC.ARROFANSTAT, an)
    BY <1>3, ReportCodes, ListedOf
<1>6. PICK c \in Seq(Entries) : c = Listed(FC.NUMOFSENS, FC.ARROFGSID, FC.ARROFSENSSTAT, sd)
    BY <1>3, ReportCodes, ListedOf
<1>7. PICK d \in Seq(Entries) : d = Listed(FC.NUMOFACTS, FC.ARROFGAID, FC.ARROFACTSSTAT, ad)
    BY <1>3, ReportCodes, ListedOf
<1>8. PICK e \in Seq(Entries) : e = Entry("time", FC.TIMESTAMP, Now)
    <2>1. Now \in Times BY TransferAssumption, SMT
    <2> QED BY <2>1, ReportCodes, TimeOf
<1>9. CarriesList(a, FC.NUMOFSN, FC.ARROFSNID, FC.ARROFSNSTAT, sn)
    BY <1>3, <1>4, ReportCodes, ListedCarries
<1>10. CarriesList(b, FC.NUMOFAN, FC.ARROFANID, FC.ARROFANSTAT, an)
    BY <1>3, <1>5, ReportCodes, ListedCarries
<1>11. CarriesList(c, FC.NUMOFSENS, FC.ARROFGSID, FC.ARROFSENSSTAT, sd)
    BY <1>3, <1>6, ReportCodes, ListedCarries
<1>12. CarriesList(d, FC.NUMOFACTS, FC.ARROFGAID, FC.ARROFACTSSTAT, ad)
    BY <1>3, <1>7, ReportCodes, ListedCarries
<1>13. PICK ab \in Seq(Entries) : ab = a \o b BY ConcatProperties
<1>14. PICK abc \in Seq(Entries) : abc = ab \o c BY ConcatProperties
<1>15. PICK abcd \in Seq(Entries) : abcd = abc \o d BY ConcatProperties
<1>16. r = abcd \o e
    BY <1>2, <1>4, <1>5, <1>6, <1>7, <1>8, <1>13, <1>14, <1>15 DEF NotifyStat
<1>17. CarriesList(r, FC.NUMOFSN, FC.ARROFSNID, FC.ARROFSNSTAT, sn)
    BY <1>9, <1>13, <1>14, <1>15, <1>16, CarriesListBoth
<1>18. CarriesList(r, FC.NUMOFAN, FC.ARROFANID, FC.ARROFANSTAT, an)
    BY <1>10, <1>13, <1>14, <1>15, <1>16, CarriesListBoth
<1>19. CarriesList(r, FC.NUMOFSENS, FC.ARROFGSID, FC.ARROFSENSSTAT, sd)
    BY <1>11, <1>14, <1>15, <1>16, CarriesListBoth
<1>20. CarriesList(r, FC.NUMOFACTS, FC.ARROFGAID, FC.ARROFACTSSTAT, ad)
    BY <1>12, <1>15, <1>16, CarriesListBoth
<1> QED BY <1>2, <1>17, <1>18, <1>19, <1>20

LEMMA EnvCarries ==
    ASSUME GcgOK, NEW r, r = NotifyEnv(Now)
    PROVE  /\ CarriesList(r, FC.NUMOFSENS, FC.ARROFGSID, FC.ARROFSENSVAL, Devs("SNODE", "env"))
           /\ CarriesList(r, FC.NUMOFACTS, FC.ARROFGAID, FC.ARROFACTSVAL, Devs("ANODE", "env"))
<1>1. "SNODE" \in NodeType /\ "ANODE" \in NodeType BY DEF NodeType
<1>2. PICK sd, ad : sd = Devs("SNODE", "env") /\ ad = Devs("ANODE", "env") OBVIOUS
<1>3. Lists(sd) /\ Lists(ad) BY <1>1, <1>2, NodeLists
<1>4. PICK c \in Seq(Entries) : c = Listed(FC.NUMOFSENS, FC.ARROFGSID, FC.ARROFSENSVAL, sd)
    BY <1>3, ReportCodes, ListedOf
<1>5. PICK d \in Seq(Entries) : d = Listed(FC.NUMOFACTS, FC.ARROFGAID, FC.ARROFACTSVAL, ad)
    BY <1>3, ReportCodes, ListedOf
<1>6. PICK e \in Seq(Entries) : e = Entry("time", FC.TIMESTAMP, Now)
    <2>1. Now \in Times BY TransferAssumption, SMT
    <2> QED BY <2>1, ReportCodes, TimeOf
<1>7. CarriesList(c, FC.NUMOFSENS, FC.ARROFGSID, FC.ARROFSENSVAL, sd)
    BY <1>3, <1>4, ReportCodes, ListedCarries
<1>8. CarriesList(d, FC.NUMOFACTS, FC.ARROFGAID, FC.ARROFACTSVAL, ad)
    BY <1>3, <1>5, ReportCodes, ListedCarries
<1>9. PICK cd \in Seq(Entries) : cd = c \o d BY ConcatProperties
<1>10. r = cd \o e BY <1>2, <1>4, <1>5, <1>6, <1>9 DEF NotifyEnv
<1>11. CarriesList(r, FC.NUMOFSENS, FC.ARROFGSID, FC.ARROFSENSVAL, sd)
    BY <1>7, <1>9, <1>10, CarriesListBoth
<1>12. CarriesList(r, FC.NUMOFACTS, FC.ARROFGAID, FC.ARROFACTSVAL, ad)
    BY <1>8, <1>9, <1>10, CarriesListBoth
<1> QED BY <1>2, <1>11, <1>12

(* What a GOS reads from a report is what the GCG's application had put    *)
(* into the sets when the report was made: every node and every device,    *)
(* each with its own status or value, whatever nodes and devices there are *)
(* as long as tp3_nsettoarray meets none without devices that it does not  *)
(* step over.                                                              *)
THEOREM ReportsRead == ASSUME PastHeader = 1 PROVE Spec => []ReportArrives
<1>1. "SNODE" \in NodeType /\ "ANODE" \in NodeType BY DEF NodeType
<1>2. /\ FieldLen(FC.NUMOFSN) \in 1..3 /\ FieldLen(FC.NUMOFAN) \in 1..3
      /\ FieldLen(FC.NUMOFSENS) \in 1..3 /\ FieldLen(FC.NUMOFACTS) \in 1..3
    BY ListLengths
<1>3. ASSUME TravelInv, stage = "parsed", \A type \in NodeType : Gaps(gcg[type]) = {},
             sent.kind = "statreport"
      PROVE  ParseStatMsg(got) = sent.about.lists
    <2>1. GcgOK BY <1>3 DEF TravelInv, TransferInv
    <2>2. PICK h \in Headers, r \in Seq(Entries) :
             h = sent.header /\ r = sent.entries /\ Readable(r) /\ got = Arrived(h, r)
        BY <1>3 DEF TravelInv, SentOK, Made
    <2>3. r = NotifyStat(Now)
          /\ sent.about.lists = <<Nodes("SNODE"), Nodes("ANODE"), Held("SNODE", "stat"), Held("ANODE", "stat")>>
        BY <1>3, <2>2 DEF TravelInv, AboutOK
    <2>4. /\ Lists(Nodes("SNODE")) /\ Lists(Nodes("ANODE"))
          /\ Lists(Devs("SNODE", "stat")) /\ Lists(Devs("ANODE", "stat"))
        BY <1>1, <2>1, NodeLists
    <2>5. /\ Paired(Nodes("SNODE")) /\ Paired(Nodes("ANODE"))
          /\ Paired(Devs("SNODE", "stat")) /\ Paired(Devs("ANODE", "stat"))
        BY <1>1, <2>1, NodesPaired, DevsHeld
    <2>6. ParseList(got, FC.NUMOFSN, FC.ARROFSNID, FC.ARROFSNSTAT) = Nodes("SNODE")
        BY <1>2, <2>1, <2>2, <2>3, <2>4, <2>5, ReportCodes, StatCarries, ListArrives
    <2>7. ParseList(got, FC.NUMOFAN, FC.ARROFANID, FC.ARROFANSTAT) = Nodes("ANODE")
        BY <1>2, <2>1, <2>2, <2>3, <2>4, <2>5, ReportCodes, StatCarries, ListArrives
    <2>8. ParseList(got, FC.NUMOFSENS, FC.ARROFGSID, FC.ARROFSENSSTAT) = Devs("SNODE", "stat")
        BY <1>2, <2>1, <2>2, <2>3, <2>4, <2>5, ReportCodes, StatCarries, ListArrives
    <2>9. ParseList(got, FC.NUMOFACTS, FC.ARROFGAID, FC.ARROFACTSSTAT) = Devs("ANODE", "stat")
        BY <1>2, <2>1, <2>2, <2>3, <2>4, <2>5, ReportCodes, StatCarries, ListArrives
    <2>10. Devs("SNODE", "stat") = Held("SNODE", "stat") /\ Devs("ANODE", "stat") = Held("ANODE", "stat")
        BY <1>1, <1>3, <2>1, DevsHeld
    <2> QED BY <2>3, <2>6, <2>7, <2>8, <2>9, <2>10 DEF ParseStatMsg
<1>4. ASSUME TravelInv, stage = "parsed", \A type \in NodeType : Gaps(gcg[type]) = {},
             sent.kind = "envreport"
      PROVE  ParseEnvMsg(got) = sent.about.lists
    <2>1. GcgOK BY <1>4 DEF TravelInv, TransferInv
    <2>2. PICK h \in Headers, r \in Seq(Entries) :
             h = sent.header /\ r = sent.entries /\ Readable(r) /\ got = Arrived(h, r)
        BY <1>4 DEF TravelInv, SentOK, Made
    <2>3. r = NotifyEnv(Now) /\ sent.about.lists = <<Held("SNODE", "env"), Held("ANODE", "env")>>
        BY <1>4, <2>2 DEF TravelInv, AboutOK
    <2>4. /\ Lists(Devs("SNODE", "env")) /\ Lists(Devs("ANODE", "env"))
        BY <1>1, <2>1, NodeLists
    <2>5. /\ Paired(Devs("SNODE", "env")) /\ Paired(Devs("ANODE", "env"))
        BY <1>1, <2>1, DevsHeld
    <2>6. ParseList(got, FC.NUMOFSENS, FC.ARROFGSID, FC.ARROFSENSVAL) = Devs("SNODE", "env")
        BY <1>2, <2>1, <2>2, <2>3, <2>4, <2>5, ReportCodes, EnvCarries, ListArrives
    <2>7. ParseList(got, FC.NUMOFACTS, FC.ARROFGAID, FC.ARROFACTSVAL) = Devs("ANODE", "env")
        BY <1>2, <2>1, <2>2, <2>3, <2>4, <2>5, ReportCodes, EnvCarries, ListArrives
    <2>8. Devs("SNODE", "env") = Held("SNODE", "env") /\ Devs("ANODE", "env") = Held("ANODE", "env")
        BY <1>1, <1>4, <2>1, DevsHeld
    <2> QED BY <2>3, <2>6, <2>7, <2>8 DEF ParseEnvMsg
<1>5. TravelInv => ReportArrives BY <1>3, <1>4 DEF ReportArrives
<1> QED BY <1>5, Travel, PTL

-----------------------------------------------------------------------------
(* What a GOS reads from a block                                           *)

(* s lies in t behind its first p bytes. *)
Lies(t, p, s) == p + Len(s) <= Len(t) /\ \A j \in 1..Len(s) : t[p + j] = s[j]

LEMMA LiesWhole ==
    ASSUME NEW t \in Seq(Byte)
    PROVE  Lies(t, 0, t)
<1>1. PICK n \in Nat : n = Len(t) BY LenProperties
<1>2. \A j \in 1..n : 0 + j = j OBVIOUS
<1> QED BY <1>1, <1>2 DEF Lies

LEMMA LiesBoth ==
    ASSUME NEW a \in Seq(Byte), NEW b \in Seq(Byte), NEW t \in Seq(Byte), NEW p \in Nat,
           Lies(t, p, a \o b)
    PROVE  Lies(t, p, a) /\ Lies(t, p + Len(a), b)
<1>1. PICK c : c = a \o b OBVIOUS
<1>2. PICK m, n, l \in Nat : m = Len(a) /\ n = Len(b) /\ l = Len(t) BY LenProperties
<1>3. /\ Len(c) = m + n /\ (\A i \in 1..m : c[i] = a[i]) /\ \A j \in 1..n : c[m + j] = b[j]
    BY <1>1, <1>2, ConcatAt DEF Spliced
<1>4. p + (m + n) <= l /\ \A j \in 1..(m + n) : t[p + j] = c[j] BY <1>1, <1>2, <1>3 DEF Lies
<1>5. Lies(t, p, a)
    <2>1. p + m <= l BY <1>4
    <2>2. ASSUME NEW j \in 1..m PROVE t[p + j] = a[j]
        <3>1. j \in 1..(m + n) OBVIOUS
        <3> QED BY <1>3, <1>4, <3>1
    <2> QED BY <1>2, <2>1, <2>2 DEF Lies
<1>6. Lies(t, p + m, b)
    <2>1. (p + m) + n <= l BY <1>4
    <2>2. ASSUME NEW j \in 1..n PROVE t[(p + m) + j] = b[j]
        <3>1. m + j \in 1..(m + n) /\ p + (m + j) = (p + m) + j OBVIOUS
        <3> QED BY <1>3, <1>4, <3>1
    <2> QED BY <1>2, <2>1, <2>2 DEF Lies
<1> QED BY <1>2, <1>5, <1>6

(* Rows of w bytes: where the k-th begins, and that it ends inside. *)
LEMMA RowInside ==
    ASSUME NEW n \in Nat, NEW w \in Nat, NEW k \in 1..n
    PROVE  /\ (k - 1) * w \in Nat /\ n * w \in Nat
           /\ (k - 1) * w + w = k * w /\ (k - 1) * w + w <= n * w
<1>1. PICK a, b \in Nat : a = k - 1 /\ b = n - k OBVIOUS
<1>2. a * w \in Nat /\ b * w \in Nat OBVIOUS
<1>3. k = a + 1 /\ n = (a + b) + 1 BY <1>1
<1>4. (a + 1) * w = a * w + w /\ ((a + b) + 1) * w = (a * w + b * w) + w OBVIOUS
<1> QED BY <1>1, <1>2, <1>3, <1>4

LEMMA LiesEvery ==
    ASSUME NEW n \in Nat, NEW w \in Nat, NEW ss \in [1..n -> Seq(Byte)], AllOfLength(ss, n, w),
           NEW t \in Seq(Byte), NEW p \in Nat, Lies(t, p, FlattenSeq(ss)), NEW k \in 1..n
    PROVE  Lies(t, p + (k - 1) * w, ss[k])
<1>1. PICK f : f = FlattenSeq(ss) OBVIOUS
<1>2. Len(f) = n * w /\ EveryOther(f, ss, n, w) BY <1>1, FlattenEven, Zenon
<1>3. Len(ss[k]) = w BY DEF AllOfLength
<1>4. PICK q, l, e \in Nat : q = (k - 1) * w /\ l = Len(t) /\ e = n * w
    BY LenProperties, RowInside, Zenon
<1>5. q + w <= e BY <1>4, RowInside, Zenon
<1>6. p + e <= l /\ \A j \in 1..e : t[p + j] = f[j] BY <1>1, <1>2, <1>4 DEF Lies
<1>7. ASSUME NEW j \in 1..w PROVE t[(p + q) + j] = ss[k][j]
    <2>1. q + j \in 1..e /\ p + (q + j) = (p + q) + j BY <1>5
    <2>2. f[q + j] = ss[k][j] BY <1>2, <1>4 DEF EveryOther
    <2> QED BY <1>6, <2>1, <2>2
<1>8. (p + q) + w <= l BY <1>5, <1>6
<1> QED BY <1>3, <1>4, <1>7, <1>8 DEF Lies

IsRead(t, p, n, s) == SubSeq(t, p + 1, p + n) = s

LEMMA LiesRead ==
    ASSUME NEW t \in Seq(Byte), NEW s \in Seq(Byte), NEW p \in Nat, Lies(t, p, s), NEW n, n = Len(s)
    PROVE  IsRead(t, p, n, s)
<1>1. n \in Nat /\ Len(t) \in Nat BY LenProperties
<1>2. p + n <= Len(t) /\ \A j \in 1..n : t[p + j] = s[j] BY DEF Lies
<1>3. PICK a, z \in Nat : a = p + 1 /\ z = p + n
    <2>1. p + 1 \in Nat /\ p + n \in Nat BY <1>1
    <2> QED BY <2>1
<1>4. a \in Nat \ {0} /\ z <= Len(t) /\ a <= z + 1 /\ (z - a) + 1 = n BY <1>1, <1>2, <1>3
<1>5. PICK u : u = SubSeq(t, a, z) OBVIOUS
<1>6. u \in Seq(Byte) /\ Len(u) = n /\ \A k \in 1..n : u[k] = t[a + k - 1]
    <2>0. a \in Nat \ {0} /\ z \in Nat /\ z <= Len(t) /\ a <= z + 1 BY <1>3, <1>4
    <2>1. u \in Seq(Byte) /\ Len(u) = z - a + 1 /\ \A k \in 1..(z - a + 1) : u[k] = t[a + k - 1]
        BY <2>0, <1>5, SubSeqOf
    <2>2. z - a + 1 = n BY <1>1, <1>3
    <2> QED BY <2>1, <2>2
<1>7. ASSUME NEW k \in 1..n PROVE u[k] = s[k]
    <2>1. a + k - 1 = p + k BY <1>3
    <2> QED BY <1>2, <1>6, <2>1
<1>8. u = s BY <1>6, <1>7, SeqEqual
<1> QED BY <1>3, <1>5, <1>8 DEF IsRead

(* As many numbers as there are devices are read; behind them are zeros.   *)
Padded(v, n, w) ==
    /\ v \in [1..MaxDevices -> Int]
    /\ \A k \in 1..MaxDevices : IF k <= n THEN InWidth(v[k], w) ELSE v[k] = 0

NumberBytes(v, n, w) == [k \in 1..n |-> SetBytes(w, v[k])]

LEMMA NumbersRead ==
    ASSUME NEW n \in 0..MaxDevices, NEW w \in 1..4, NEW v, Padded(v, n, w),
           NEW t \in Seq(Byte), NEW p \in Nat, Lies(t, p, FlattenSeq(NumberBytes(v, n, w)))
    PROVE  Numbers(t, p, n, w) = v
<1>1. MaxDevices \in Nat BY HistoryAssumption
<1>2. n \in Nat /\ w \in Nat /\ \A k \in 1..n : k \in 1..MaxDevices BY <1>1
<1>3. PICK ss : ss = NumberBytes(v, n, w) OBVIOUS
<1>4. \A k \in 1..n : v[k] \in Int /\ InWidth(v[k], w) BY <1>2 DEF Padded
<1>5. ss \in [1..n -> Seq(Byte)] /\ AllOfLength(ss, n, w)
    <2>1. \A k \in 1..n : SetBytes(w, v[k]) \in Seq(Byte) /\ Len(SetBytes(w, v[k])) = w
        BY <1>4, SetBytesOf
    <2> QED BY <1>3, <2>1 DEF NumberBytes, AllOfLength
<1>6. ASSUME NEW k \in 1..n
      PROVE  ReadNum(SubSeq(t, p + (k - 1) * w + 1, p + k * w)) = v[k]
    <2>1. PICK q \in Nat : q = p + (k - 1) * w BY <1>2
    <2>2. Lies(t, q, ss[k]) BY <1>2, <1>3, <1>5, <2>1, LiesEvery
    <2>3. PICK s \in Seq(Byte) : s = ss[k] /\ Len(s) = w BY <1>5 DEF AllOfLength
    <2>4. SubSeq(t, q + 1, q + w) = s
        <3>1. Lies(t, q, s) /\ w = Len(s) BY <2>2, <2>3
        <3>2. IsRead(t, q, w, s) BY <3>1, LiesRead
        <3> QED BY <3>2 DEF IsRead
    <2>5. p + (k - 1) * w + 1 = q + 1 /\ p + k * w = q + w BY <1>2, <2>1
    <2>6. s = SetBytes(w, v[k]) BY <1>3, <2>3 DEF NumberBytes
    <2>7. ReadNum(SetBytes(w, v[k])) = v[k] BY <1>4, ReadWritten
    <2> QED BY <2>4, <2>5, <2>6, <2>7
<1>7. PICK r : r = Numbers(t, p, n, w) OBVIOUS
<1>8. r = [k \in 1..MaxDevices |->
             IF k <= n THEN ReadNum(SubSeq(t, p + (k - 1) * w + 1, p + k * w)) ELSE 0]
    BY <1>7 DEF Numbers
<1>9. ASSUME NEW k \in 1..MaxDevices PROVE r[k] = v[k]
    <2>1. CASE k <= n
        <3>1. k \in 1..n BY <2>1
        <3> QED BY <1>6, <1>8, <2>1, <3>1
    <2>2. CASE ~(k <= n) BY <1>8, <2>2 DEF Padded
    <2> QED BY <2>1, <2>2
<1>10. v \in [1..MaxDevices -> Int] BY DEF Padded
<1> QED BY <1>7, <1>8, <1>9, <1>10

(* The one byte of a number. *)
ByteAt(w, n, i) == (n \div Place[w - i + 1]) % 256

LEMMA OneByte ==
    ASSUME NEW n \in 0..255
    PROVE  ByteAt(1, n, 1) = n
<1>1. PICK place : place = Place[1] /\ place = 1 BY DEF Place
<1>2. 1 - 1 + 1 = 1 OBVIOUS
<1>3. n \div place = n BY <1>1
<1>4. n % 256 = n OBVIOUS
<1> QED BY <1>1, <1>2, <1>3, <1>4 DEF ByteAt

(* The devices of one kind, behind their number. *)
IsPart(t, p, n, ib, vb, ids, vals) ==
    /\ t[p + 1] = n /\ Numbers(t, p + 1, n, ib) = ids
    /\ Numbers(t, p + 1 + n * ib, n, vb) = vals

LEMMA PartRead ==
    ASSUME NEW n \in 0..MaxDevices, n <= 255, NEW ib \in 1..4, NEW vb \in 1..4,
           NEW ids, Padded(ids, n, ib), NEW vals, Padded(vals, n, vb),
           NEW t \in Seq(Byte), NEW p \in Nat, Lies(t, p, Devices(n, ib, vb, ids, vals))
    PROVE  IsPart(t, p, n, ib, vb, ids, vals)
<1>1. MaxDevices \in Nat /\ n \in Nat /\ ib \in Nat /\ vb \in Nat BY HistoryAssumption
<1>2. \A k \in 1..n : ids[k] \in Int /\ vals[k] \in Int BY <1>1 DEF Padded
<1>3. PICK ss, tt : ss = NumberBytes(ids, n, ib) /\ tt = NumberBytes(vals, n, vb) OBVIOUS
<1>4. /\ ss \in [1..n -> Seq(Byte)] /\ AllOfLength(ss, n, ib)
      /\ tt \in [1..n -> Seq(Byte)] /\ AllOfLength(tt, n, vb)
    <2>1. \A k \in 1..n : SetBytes(ib, ids[k]) \in Seq(Byte) /\ Len(SetBytes(ib, ids[k])) = ib
        BY <1>2, SetBytesOf
    <2>2. \A k \in 1..n : SetBytes(vb, vals[k]) \in Seq(Byte) /\ Len(SetBytes(vb, vals[k])) = vb
        BY <1>2, SetBytesOf
    <2> QED BY <1>3, <2>1, <2>2 DEF NumberBytes, AllOfLength
<1>5. PICK a \in Seq(Byte) : a = FlattenSeq(ss) /\ Len(a) = n * ib BY <1>1, <1>4, FlattenEven, ZenonT(60)
<1>6. PICK c \in Seq(Byte) : c = FlattenSeq(tt) BY <1>1, <1>4, FlattenType
<1>7. PICK h \in Seq(Byte) : h = SetBytes(1, n) /\ Len(h) = 1
    <2>1. 1 \in 1..4 /\ n \in Int BY <1>1
    <2> QED BY <2>1, SetBytesOf
<1>8. Devices(n, ib, vb, ids, vals) = (h \o a) \o c
    BY <1>3, <1>5, <1>6, <1>7 DEF Devices, NumberBytes
<1>9. PICK ha \in Seq(Byte) : ha = h \o a /\ Len(ha) = 1 + n * ib
    <2>1. h \o a \in Seq(Byte) /\ Len(h \o a) = Len(h) + Len(a) BY ConcatProperties
    <2> QED BY <1>5, <1>7, <2>1
<1>10. Lies(t, p, ha) /\ Lies(t, p + Len(ha), c)
    <2>1. Devices(n, ib, vb, ids, vals) = ha \o c BY <1>8, <1>9
    <2>2. Lies(t, p, ha \o c) BY <2>1, Zenon
    <2> QED BY <1>6, <1>9, <2>2, LiesBoth
<1>11. Lies(t, p, h) /\ Lies(t, p + 1, a)
    <2>1. Lies(t, p, h \o a) BY <1>9, <1>10
    <2> QED BY <1>5, <1>7, <2>1, LiesBoth
<1>12. t[p + 1] = n
    <2>1. n \in 0..255 BY <1>1
    <2>2. h[1] = n
        <3>1. ByteAt(1, n, 1) = n BY <2>1, OneByte
        <3>2. SetBytes(1, n)[1] = ByteAt(1, n, 1) BY DEF SetBytes, ByteAt
        <3> QED BY <1>7, <3>1, <3>2
    <2>3. 1 \in 1..Len(h)
        <3>1. 1 \in 1..1 OBVIOUS
        <3> QED BY <1>7, <3>1, Zenon
    <2>4. t[p + 1] = h[1] BY <1>11, <2>3 DEF Lies
    <2> QED BY <2>2, <2>4
<1>13. Numbers(t, p + 1, n, ib) = ids
    <2>1. PICK q \in Nat : q = p + 1 OBVIOUS
    <2>2. Lies(t, q, FlattenSeq(NumberBytes(ids, n, ib))) BY <1>3, <1>5, <1>11, <2>1
    <2> QED BY <2>1, <2>2, NumbersRead
<1>14. Numbers(t, p + 1 + n * ib, n, vb) = vals
    <2>1. PICK q \in Nat : q = p + 1 + n * ib BY <1>1
    <2>2. p + Len(ha) = q BY <1>1, <1>9, <2>1
    <2>3. Lies(t, q, FlattenSeq(NumberBytes(vals, n, vb))) BY <1>3, <1>6, <1>10, <2>2
    <2> QED BY <2>1, <2>3, NumbersRead
<1> QED BY <1>12, <1>13, <1>14 DEF IsPart

-----------------------------------------------------------------------------
(* The rows of a block *)

(* What is to be read of one kind of device in a row. *)
PartOf(b, i, d) == [ids |-> b.items[i].ids[d], vals |-> b.items[i].vals[d]]

LEMMA PartPadded ==
    ASSUME NEW n \in Nat, NEW b \in BlocksOf(n), NEW i \in 1..n, NEW d \in Dev, Ended(b),
           NEW ib, NEW vb, DevicesFit(b, d, ib, vb)
    PROVE  /\ Padded(b.items[i].ids[d], b.numofdev[d], ib)
           /\ Padded(b.items[i].vals[d], b.numofdev[d], vb)
<1>1. /\ b.rows = n /\ b.numofdev[d] \in Nat /\ MaxDevices \in Nat BY BlockNumbers
<1>2. PICK ids, vals : ids = b.items[i].ids[d] /\ vals = b.items[i].vals[d] OBVIOUS
<1>3. ids \in [1..MaxDevices -> Int] /\ vals \in [1..MaxDevices -> Int] BY <1>2, BlockParts
<1>4. \A k \in 1..b.numofdev[d] : InWidth(ids[k], ib) /\ InWidth(vals[k], vb)
    BY <1>1, <1>2 DEF DevicesFit
<1>5. \A k \in 1..MaxDevices : k > b.numofdev[d] => ids[k] = 0 /\ vals[k] = 0
    BY <1>1, <1>2 DEF Ended, EndedRow
<1>6. \A k \in 1..MaxDevices : ~(k <= b.numofdev[d]) => k > b.numofdev[d] BY <1>1
<1>7. \A k \in 1..MaxDevices : k <= b.numofdev[d] => k \in 1..b.numofdev[d] BY <1>1
<1> QED BY <1>2, <1>3, <1>4, <1>5, <1>6, <1>7, Zenon DEF Padded

LEMMA DevicesByte == ASSUME NEW n \in Nat, NEW b \in BlocksOf(n), NEW d \in Dev PROVE b.numofdev[d] <= 255
<1>1. MaxDevices <= 255 BY WidthsAssumption, SMT
<1>2. b.numofdev[d] \in 0..MaxDevices /\ MaxDevices \in Nat BY BlockNumbers
<1> QED BY <1>1, <1>2

LEMMA StatPartRead ==
    ASSUME NEW n \in Nat, NEW b \in BlocksOf(n), NEW i \in 1..n, NEW d \in Dev, Ended(b),
           DevicesFit(b, d, IdBytes(d), 1),
           NEW t \in Seq(Byte), NEW p \in Nat, Lies(t, p, SetStatBlockBytes(b, i, d))
    PROVE  /\ t[p + 1] = b.numofdev[d]
           /\ GetStatBlockBytes(t, p, b.numofdev[d], d) = PartOf(b, i, d)
<1>1. PICK m \in 0..MaxDevices : m = b.numofdev[d] /\ m <= 255 BY BlockNumbers, DevicesByte
<1>2. PICK ib \in 1..4 : ib = IdBytes(d) BY DEF IdBytes
<1>3. PICK vb \in 1..4 : vb = 1 OBVIOUS
<1>4. PICK ids, vals : ids = b.items[i].ids[d] /\ vals = b.items[i].vals[d] OBVIOUS
<1>5. Padded(ids, m, ib) /\ Padded(vals, m, vb) BY <1>1, <1>2, <1>3, <1>4, PartPadded
<1>6. Lies(t, p, Devices(m, ib, vb, ids, vals)) BY <1>1, <1>2, <1>3, <1>4 DEF SetStatBlockBytes
<1>7. IsPart(t, p, m, ib, vb, ids, vals) BY <1>1, <1>5, <1>6, PartRead
<1> QED BY <1>1, <1>2, <1>3, <1>4, <1>7 DEF GetStatBlockBytes, PartOf, IsPart

LEMMA EnvPartRead ==
    ASSUME NEW n \in Nat, NEW b \in BlocksOf(n), NEW i \in 1..n, NEW d \in Dev, Ended(b),
           DevicesFit(b, d, 4, EnvBytes(d)),
           NEW t \in Seq(Byte), NEW p \in Nat, Lies(t, p, SetEnvBlockBytes(b, i, d))
    PROVE  /\ t[p + 1] = b.numofdev[d]
           /\ GetEnvBlockBytes(t, p, b.numofdev[d], d) = PartOf(b, i, d)
<1>1. PICK m \in 0..MaxDevices : m = b.numofdev[d] /\ m <= 255 BY BlockNumbers, DevicesByte
<1>2. PICK ib \in 1..4 : ib = 4 OBVIOUS
<1>3. PICK vb \in 1..4 : vb = EnvBytes(d) BY DEF EnvBytes
<1>4. PICK ids, vals : ids = b.items[i].ids[d] /\ vals = b.items[i].vals[d] OBVIOUS
<1>5. Padded(ids, m, ib) /\ Padded(vals, m, vb) BY <1>1, <1>2, <1>3, <1>4, PartPadded
<1>6. Lies(t, p, Devices(m, ib, vb, ids, vals)) BY <1>1, <1>2, <1>3, <1>4 DEF SetEnvBlockBytes
<1>7. IsPart(t, p, m, ib, vb, ids, vals) BY <1>1, <1>5, <1>6, PartRead
<1> QED BY <1>1, <1>2, <1>3, <1>4, <1>7 DEF GetEnvBlockBytes, PartOf, IsPart

(* A time lies in the last seven bytes of a row. *)
LEMMA LiesTime ==
    ASSUME NEW t \in Seq(Byte), NEW p \in Nat, NEW time \in Times, Lies(t, p, SetTimestamp(time))
    PROVE  GetEpoch(SubSeq(t, p + 1, p + 7)) = time
<1>1. PICK s \in Seq(Byte) : s = SetTimestamp(time) /\ Len(s) = 7 BY SetTimestampOf
<1>2. PICK m : m = 7 OBVIOUS
<1>3. IsRead(t, p, m, s) BY <1>1, <1>2, LiesRead
<1>4. SubSeq(t, p + 1, p + 7) = s BY <1>2, <1>3 DEF IsRead
<1>5. GetEpoch(s) = time BY <1>1, TimeRead
<1> QED BY <1>4, <1>5

(* A row lies at its place in the block's bytes. *)
LEMMA StatRowLies ==
    ASSUME NEW n \in Nat, NEW b \in BlocksOf(n), NEW i \in 1..n, NEW t, t = StatBlock(b),
           NEW p \in Nat, p = (i - 1) * StatStep(b.numofdev)
    PROVE  t \in Seq(Byte) /\ Lies(t, p, StatRow(b, i))
<1>1. PICK w \in Nat : w = StatStep(b.numofdev) BY BlockNumbers
<1>2. PICK rows : rows = [k \in 1..n |-> StatRow(b, k)] OBVIOUS
<1>3. t = FlattenSeq(rows) BY <1>2, BlockNumbers, Zenon DEF StatBlock, StatRow, StatHead
<1>4. rows \in [1..n -> Seq(Byte)] /\ AllOfLength(rows, n, w)
    BY <1>1, <1>2, StatRowOK DEF AllOfLength
<1>5. t \in Seq(Byte) BY StatBlockOK
<1>6. PICK o \in Nat : o = 0 OBVIOUS
<1>7. Lies(t, o, FlattenSeq(rows)) BY <1>3, <1>5, <1>6, LiesWhole
<1>8. Lies(t, o + (i - 1) * w, rows[i]) BY <1>4, <1>5, <1>7, LiesEvery
<1>9. o + (i - 1) * w = p BY <1>1, <1>6
<1>10. Lies(t, p, rows[i]) BY <1>8, <1>9
<1> QED BY <1>2, <1>5, <1>10

LEMMA EnvRowLies ==
    ASSUME NEW n \in Nat, NEW b \in BlocksOf(n), NEW i \in 1..n, NEW t, t = EnvBlock(b),
           NEW p \in Nat, p = (i - 1) * EnvStep(b.numofdev)
    PROVE  t \in Seq(Byte) /\ Lies(t, p, EnvRow(b, i))
<1>1. PICK w \in Nat : w = EnvStep(b.numofdev) BY BlockNumbers
<1>2. PICK rows : rows = [k \in 1..n |-> EnvRow(b, k)] OBVIOUS
<1>3. t = FlattenSeq(rows) BY <1>2, BlockNumbers, Zenon DEF EnvBlock, EnvRow, EnvHead
<1>4. rows \in [1..n -> Seq(Byte)] /\ AllOfLength(rows, n, w)
    BY <1>1, <1>2, EnvRowOK DEF AllOfLength
<1>5. t \in Seq(Byte) BY EnvBlockOK
<1>6. PICK o \in Nat : o = 0 OBVIOUS
<1>7. Lies(t, o, FlattenSeq(rows)) BY <1>3, <1>5, <1>6, LiesWhole
<1>8. Lies(t, o + (i - 1) * w, rows[i]) BY <1>4, <1>5, <1>7, LiesEvery
<1>9. o + (i - 1) * w = p BY <1>1, <1>6
<1>10. Lies(t, p, rows[i]) BY <1>8, <1>9
<1> QED BY <1>2, <1>5, <1>10

(* The numbers of devices of a block, by their names in the code. *)
Announced(b, sn, an, sens, acts) ==
    /\ sn = b.numofdev["SNODE"] /\ an = b.numofdev["ANODE"]
    /\ sens = b.numofdev["SENSOR"] /\ acts = b.numofdev["ACTUATOR"]

(* Where the parts of a row lie. *)
InStatRow(t, o, b, i, sn, an, sens, acts) ==
    /\ Lies(t, o, SetBytes(1, b.items[i].gcgstat))
    /\ Lies(t, o + 1, SetStatBlockBytes(b, i, "SNODE"))
    /\ Lies(t, o + 4 * sn + 2, SetStatBlockBytes(b, i, "ANODE"))
    /\ Lies(t, o + 4 * sn + 4 * an + 3, SetStatBlockBytes(b, i, "SENSOR"))
    /\ Lies(t, o + 4 * sn + 4 * an + 5 * sens + 4, SetStatBlockBytes(b, i, "ACTUATOR"))
    /\ Lies(t, o + 4 * sn + 4 * an + 5 * sens + 5 * acts + 5, SetTimestamp(b.items[i].timestamp))

LEMMA StatRowSplit ==
    ASSUME NEW n \in Nat, NEW b \in BlocksOf(n), NEW i \in 1..n,
           NEW t \in Seq(Byte), NEW o \in Nat, Lies(t, o, StatRow(b, i)),
           NEW sn \in Nat, NEW an \in Nat, NEW sens \in Nat, NEW acts \in Nat,
           Announced(b, sn, an, sens, acts)
    PROVE  InStatRow(t, o, b, i, sn, an, sens, acts)
<1>0. "SNODE" \in Dev /\ "ANODE" \in Dev /\ "SENSOR" \in Dev /\ "ACTUATOR" \in Dev BY DEF Dev
<1>1. PICK p, q, r, s \in Seq(Byte) :
         /\ p = SetStatBlockBytes(b, i, "SNODE") /\ q = SetStatBlockBytes(b, i, "ANODE")
         /\ r = SetStatBlockBytes(b, i, "SENSOR") /\ s = SetStatBlockBytes(b, i, "ACTUATOR")
    BY <1>0, StatPartOK
<1>2. Len(p) = 4 * sn + 1 /\ Len(q) = 4 * an + 1 /\ Len(r) = 5 * sens + 1 /\ Len(s) = 5 * acts + 1
    <2>1. \A d \in Dev : Len(SetStatBlockBytes(b, i, d)) = 1 + b.numofdev[d] * IdBytes(d) + b.numofdev[d] * 1
        BY StatPartOK
    <2>2. /\ IdBytes("SNODE") = 3 /\ IdBytes("ANODE") = 3
          /\ IdBytes("SENSOR") = 4 /\ IdBytes("ACTUATOR") = 4
        BY DEF IdBytes
    <2>3. /\ Len(p) = 1 + sn * 3 + sn * 1 /\ Len(q) = 1 + an * 3 + an * 1
          /\ Len(r) = 1 + sens * 4 + sens * 1 /\ Len(s) = 1 + acts * 4 + acts * 1
        BY <1>0, <1>1, <2>1, <2>2, Zenon DEF Announced
    <2> QED BY <2>3
<1>3. PICK h \in Seq(Byte) : h = SetBytes(1, b.items[i].gcgstat) /\ Len(h) = 1
    <2>1. b.items[i].gcgstat \in Int /\ 1 \in 1..4 BY BlockParts
    <2> QED BY <2>1, SetBytesOf
<1>4. PICK z \in Seq(Byte) : z = SetTimestamp(b.items[i].timestamp) BY BlockParts, SetTimestampOf
<1>5. PICK hp \in Seq(Byte) : hp = h \o p /\ Len(hp) = 4 * sn + 2
    <2>1. h \o p \in Seq(Byte) /\ Len(h \o p) = Len(h) + Len(p) BY ConcatProperties
    <2>2. PICK u \in Seq(Byte) : u = h \o p /\ Len(u) = Len(h) + Len(p) BY <2>1
    <2>3. Len(h) = 1 BY <1>3
    <2>4. Len(u) = 4 * sn + 2 BY <1>2, <2>2, <2>3
    <2> QED BY <2>2, <2>4
<1>6. PICK hq \in Seq(Byte) : hq = hp \o q /\ Len(hq) = 4 * sn + 4 * an + 3
    <2>1. hp \o q \in Seq(Byte) /\ Len(hp \o q) = Len(hp) + Len(q) BY ConcatProperties
    <2>2. PICK u \in Seq(Byte) : u = hp \o q /\ Len(u) = Len(hp) + Len(q) BY <2>1
    <2>3. Len(u) = 4 * sn + 4 * an + 3 BY <1>2, <1>5, <2>2
    <2> QED BY <2>2, <2>3
<1>7. PICK hr \in Seq(Byte) : hr = hq \o r /\ Len(hr) = 4 * sn + 4 * an + 5 * sens + 4
    <2>1. hq \o r \in Seq(Byte) /\ Len(hq \o r) = Len(hq) + Len(r) BY ConcatProperties
    <2>2. PICK u \in Seq(Byte) : u = hq \o r /\ Len(u) = Len(hq) + Len(r) BY <2>1
    <2>3. Len(u) = 4 * sn + 4 * an + 5 * sens + 4 BY <1>2, <1>6, <2>2
    <2> QED BY <2>2, <2>3
<1>8. PICK hs \in Seq(Byte) : hs = hr \o s /\ Len(hs) = 4 * sn + 4 * an + 5 * sens + 5 * acts + 5
    <2>1. hr \o s \in Seq(Byte) /\ Len(hr \o s) = Len(hr) + Len(s) BY ConcatProperties
    <2>2. PICK u \in Seq(Byte) : u = hr \o s /\ Len(u) = Len(hr) + Len(s) BY <2>1
    <2>3. Len(u) = 4 * sn + 4 * an + 5 * sens + 5 * acts + 5 BY <1>2, <1>7, <2>2
    <2> QED BY <2>2, <2>3
<1>9. StatRow(b, i) = hs \o z BY <1>1, <1>3, <1>4, <1>5, <1>6, <1>7, <1>8 DEF StatRow, StatHead
<1>10. Lies(t, o, hs) /\ Lies(t, o + Len(hs), z)
    <2>1. Lies(t, o, hs \o z) BY <1>9, Zenon
    <2> QED BY <1>4, <1>8, <2>1, LiesBoth
<1>11. Lies(t, o, hr) /\ Lies(t, o + Len(hr), s)
    <2>1. Lies(t, o, hr \o s) BY <1>8, <1>10, Zenon
    <2> QED BY <1>1, <1>7, <2>1, LiesBoth
<1>12. Lies(t, o, hq) /\ Lies(t, o + Len(hq), r)
    <2>1. Lies(t, o, hq \o r) BY <1>7, <1>11, Zenon
    <2> QED BY <1>1, <1>6, <2>1, LiesBoth
<1>13. Lies(t, o, hp) /\ Lies(t, o + Len(hp), q)
    <2>1. Lies(t, o, hp \o q) BY <1>6, <1>12, Zenon
    <2> QED BY <1>1, <1>5, <2>1, LiesBoth
<1>14. Lies(t, o, h) /\ Lies(t, o + Len(h), p)
    <2>1. Lies(t, o, h \o p) BY <1>5, <1>13, Zenon
    <2> QED BY <1>1, <1>3, <2>1, LiesBoth
<1>15. /\ o + Len(hp) = o + 4 * sn + 2 /\ o + Len(hq) = o + 4 * sn + 4 * an + 3
       /\ o + Len(hr) = o + 4 * sn + 4 * an + 5 * sens + 4
       /\ o + Len(hs) = o + 4 * sn + 4 * an + 5 * sens + 5 * acts + 5
    BY <1>5, <1>6, <1>7, <1>8
<1>16. o + Len(h) = o + 1 BY <1>3
<1>17. Lies(t, o, SetBytes(1, b.items[i].gcgstat)) /\ Lies(t, o + 1, SetStatBlockBytes(b, i, "SNODE"))
    BY <1>1, <1>3, <1>14, <1>16, Zenon
<1>18. Lies(t, o + 4 * sn + 2, SetStatBlockBytes(b, i, "ANODE")) BY <1>1, <1>13, <1>15, Zenon
<1>19. Lies(t, o + 4 * sn + 4 * an + 3, SetStatBlockBytes(b, i, "SENSOR")) BY <1>1, <1>12, <1>15, Zenon
<1>20. Lies(t, o + 4 * sn + 4 * an + 5 * sens + 4, SetStatBlockBytes(b, i, "ACTUATOR"))
    BY <1>1, <1>11, <1>15, Zenon
<1>21. Lies(t, o + 4 * sn + 4 * an + 5 * sens + 5 * acts + 5, SetTimestamp(b.items[i].timestamp))
    BY <1>4, <1>10, <1>15, Zenon
<1> QED BY <1>17, <1>18, <1>19, <1>20, <1>21 DEF InStatRow

InEnvRow(t, o, b, i, sens, acts) ==
    /\ Lies(t, o, SetEnvBlockBytes(b, i, "SENSOR"))
    /\ Lies(t, o + 8 * sens + 1, SetEnvBlockBytes(b, i, "ACTUATOR"))
    /\ Lies(t, o + 8 * sens + 6 * acts + 2, SetTimestamp(b.items[i].timestamp))

LEMMA EnvRowSplit ==
    ASSUME NEW n \in Nat, NEW b \in BlocksOf(n), NEW i \in 1..n,
           NEW t \in Seq(Byte), NEW o \in Nat, Lies(t, o, EnvRow(b, i)),
           NEW sn \in Nat, NEW an \in Nat, NEW sens \in Nat, NEW acts \in Nat,
           Announced(b, sn, an, sens, acts)
    PROVE  InEnvRow(t, o, b, i, sens, acts)
<1>0. "SENSOR" \in Dev /\ "ACTUATOR" \in Dev BY DEF Dev
<1>1. PICK p, q \in Seq(Byte) :
         p = SetEnvBlockBytes(b, i, "SENSOR") /\ q = SetEnvBlockBytes(b, i, "ACTUATOR")
    BY <1>0, EnvPartOK
<1>2. Len(p) = 8 * sens + 1 /\ Len(q) = 6 * acts + 1
    <2>1. \A d \in Dev : Len(SetEnvBlockBytes(b, i, d)) = 1 + b.numofdev[d] * 4 + b.numofdev[d] * EnvBytes(d)
        BY EnvPartOK
    <2>2. EnvBytes("SENSOR") = 4 /\ EnvBytes("ACTUATOR") = 2 BY DEF EnvBytes
    <2>3. Len(p) = 1 + sens * 4 + sens * 4 /\ Len(q) = 1 + acts * 4 + acts * 2
        BY <1>0, <1>1, <2>1, <2>2, Zenon DEF Announced
    <2> QED BY <2>3
<1>3. PICK z \in Seq(Byte) : z = SetTimestamp(b.items[i].timestamp) BY BlockParts, SetTimestampOf
<1>4. PICK pq \in Seq(Byte) : pq = p \o q /\ Len(pq) = 8 * sens + 6 * acts + 2
    <2>1. p \o q \in Seq(Byte) /\ Len(p \o q) = Len(p) + Len(q) BY ConcatProperties
    <2>2. PICK u \in Seq(Byte) : u = p \o q /\ Len(u) = Len(p) + Len(q) BY <2>1
    <2>3. Len(u) = 8 * sens + 6 * acts + 2 BY <1>2, <2>2
    <2> QED BY <2>2, <2>3
<1>5. EnvRow(b, i) = pq \o z BY <1>1, <1>3, <1>4 DEF EnvRow, EnvHead
<1>6. Lies(t, o, pq) /\ Lies(t, o + Len(pq), z)
    <2>1. Lies(t, o, pq \o z) BY <1>5, Zenon
    <2> QED BY <1>3, <1>4, <2>1, LiesBoth
<1>7. Lies(t, o, p) /\ Lies(t, o + Len(p), q)
    <2>1. Lies(t, o, p \o q) BY <1>4, <1>6, Zenon
    <2> QED BY <1>1, <2>1, LiesBoth
<1>8. o + Len(p) = o + 8 * sens + 1 /\ o + Len(pq) = o + 8 * sens + 6 * acts + 2 BY <1>2, <1>4
<1>9. Lies(t, o + 8 * sens + 1, SetEnvBlockBytes(b, i, "ACTUATOR")) BY <1>1, <1>7, <1>8, Zenon
<1>10. Lies(t, o + 8 * sens + 6 * acts + 2, SetTimestamp(b.items[i].timestamp)) BY <1>3, <1>6, <1>8, Zenon
<1> QED BY <1>1, <1>7, <1>9, <1>10 DEF InEnvRow

-----------------------------------------------------------------------------
(* Blocks that are parsed *)

StatPart(t, p, sn, an, sens, acts) ==
    [SNODE |-> GetStatBlockBytes(t, p, sn, "SNODE"),
     ANODE |-> GetStatBlockBytes(t, p + 4 * sn + 1, an, "ANODE"),
     SENSOR |-> GetStatBlockBytes(t, p + 4 * sn + 4 * an + 2, sens, "SENSOR"),
     ACTUATOR |-> GetStatBlockBytes(t, p + 4 * sn + 4 * an + 5 * sens + 3, acts, "ACTUATOR")]

StatItem(t, i, step, sn, an, sens, acts) ==
    LET part == StatPart(t, (i - 1) * step + 1, sn, an, sens, acts)
    IN  [timestamp |-> GetEpoch(SubSeq(t, i * step - 6, i * step)),
         gcgstat |-> t[(i - 1) * step + 1],
         ids |-> [d \in Dev |-> part[d].ids], vals |-> [d \in Dev |-> part[d].vals]]

StatParsed(t, rows, step, sn, an, sens, acts) ==
    [NewBlock(rows, [SNODE |-> sn, ANODE |-> an, SENSOR |-> sens, ACTUATOR |-> acts])
     EXCEPT !.items = [i \in 1..rows |-> StatItem(t, i, step, sn, an, sens, acts)]]

(* The numbers of devices where tp3_parsestatblock looks for them, and the  *)
(* length of a row.                                                        *)
StatCounts(t, sn, an, sens, acts, step) ==
    /\ sn = t[2] /\ an = t[4 * sn + 3] /\ sens = t[4 * sn + 4 * an + 4]
    /\ acts = t[4 * sn + 4 * an + 5 * sens + 5]
    /\ step = 4 * sn + 4 * an + 5 * sens + 5 * acts + 12

LEMMA ParseStatIs ==
    ASSUME NEW t, NEW rows, NEW sn, NEW an, NEW sens, NEW acts, NEW step,
           StatCounts(t, sn, an, sens, acts, step)
    PROVE  ParseStatBlock(rows, t) = StatParsed(t, rows, step, sn, an, sens, acts)
<1> DEFINE sn1 == t[2]
           an1 == t[4 * sn1 + 3]
           sens1 == t[4 * sn1 + 4 * an1 + 4]
           acts1 == t[4 * sn1 + 4 * an1 + 5 * sens1 + 5]
           step1 == 4 * sn1 + 4 * an1 + 5 * sens1 + 5 * acts1 + 12
<1>1. ParseStatBlock(rows, t) = StatParsed(t, rows, step1, sn1, an1, sens1, acts1)
    BY Zenon DEF ParseStatBlock, StatParsed, StatItem, StatPart
<1>2. sn1 = sn BY DEF StatCounts
<1> HIDE DEF sn1
<1>3. an1 = an BY <1>2, Zenon DEF StatCounts, an1
<1> HIDE DEF an1
<1>4. sens1 = sens BY <1>2, <1>3, Zenon DEF StatCounts, sens1
<1> HIDE DEF sens1
<1>5. acts1 = acts BY <1>2, <1>3, <1>4, Zenon DEF StatCounts, acts1
<1> HIDE DEF acts1
<1>6. step1 = step BY <1>2, <1>3, <1>4, <1>5, Zenon DEF StatCounts, step1
<1> HIDE DEF step1
<1> QED BY <1>1, <1>2, <1>3, <1>4, <1>5, <1>6, Zenon

StatTaken(r, t, rows, step, sn, an, sens, acts) ==
    /\ r.rows = rows
    /\ r.numofdev = [SNODE |-> sn, ANODE |-> an, SENSOR |-> sens, ACTUATOR |-> acts]
    /\ \A i \in 1..rows : r.items[i] = StatItem(t, i, step, sn, an, sens, acts)

LEMMA StatParsedAs ==
    ASSUME NEW t, NEW rows \in Nat, NEW sn, NEW an, NEW sens, NEW acts, NEW step,
           NEW r, r = StatParsed(t, rows, step, sn, an, sens, acts)
    PROVE  StatTaken(r, t, rows, step, sn, an, sens, acts)
<1>1. PICK f : f = [i \in 1..rows |-> StatItem(t, i, step, sn, an, sens, acts)] OBVIOUS
<1>2. PICK new : new = NewBlock(rows, [SNODE |-> sn, ANODE |-> an, SENSOR |-> sens, ACTUATOR |-> acts])
    OBVIOUS
<1>3. r = [new EXCEPT !.items = f] BY <1>1, <1>2, Zenon DEF StatParsed
<1>4. /\ new.rows = rows /\ "items" \in DOMAIN new
      /\ new.numofdev = [SNODE |-> sn, ANODE |-> an, SENSOR |-> sens, ACTUATOR |-> acts]
    BY <1>2 DEF NewBlock
<1>5. r.rows = rows /\ r.numofdev = new.numofdev /\ r.items = f BY <1>3, <1>4
<1>6. \A i \in 1..rows : f[i] = StatItem(t, i, step, sn, an, sens, acts) BY <1>1
<1>7. \A i \in 1..rows : r.items[i] = StatItem(t, i, step, sn, an, sens, acts) BY <1>5, <1>6
<1> QED BY <1>4, <1>5, <1>7, Zenon DEF StatTaken

LEMMA StatItemAs ==
    ASSUME NEW t, NEW i, NEW step, NEW sn, NEW an, NEW sens, NEW acts,
           NEW item, item = StatItem(t, i, step, sn, an, sens, acts),
           NEW p, p = (i - 1) * step + 1
    PROVE  /\ item.timestamp = GetEpoch(SubSeq(t, i * step - 6, i * step))
           /\ item.gcgstat = t[p]
           /\ \A d \in Dev : /\ item.ids[d] = StatPart(t, p, sn, an, sens, acts)[d].ids
                             /\ item.vals[d] = StatPart(t, p, sn, an, sens, acts)[d].vals
<1>1. PICK part : part = StatPart(t, p, sn, an, sens, acts) OBVIOUS
<1>2. PICK f, g : f = [d \in Dev |-> part[d].ids] /\ g = [d \in Dev |-> part[d].vals] OBVIOUS
<1>3. item = [timestamp |-> GetEpoch(SubSeq(t, i * step - 6, i * step)), gcgstat |-> t[p],
              ids |-> f, vals |-> g]
    BY <1>1, <1>2, Zenon DEF StatItem
<1>4. \A d \in Dev : f[d] = part[d].ids /\ g[d] = part[d].vals BY <1>2
<1>5. /\ item.timestamp = GetEpoch(SubSeq(t, i * step - 6, i * step)) /\ item.gcgstat = t[p]
      /\ item.ids = f /\ item.vals = g
    BY <1>3
<1> QED BY <1>1, <1>4, <1>5

LEMMA ByteRead ==
    ASSUME NEW t, NEW p \in Nat, NEW g \in 0..255, Lies(t, p, SetBytes(1, g))
    PROVE  t[p + 1] = g
<1>1. PICK h : h = SetBytes(1, g) OBVIOUS
<1>2. Len(h) = 1
    <2>1. 1 \in 1..4 /\ g \in Int OBVIOUS
    <2> QED BY <1>1, <2>1, SetBytesOf
<1>3. h[1] = g
    <2>1. ByteAt(1, g, 1) = g BY OneByte
    <2>2. SetBytes(1, g)[1] = ByteAt(1, g, 1) BY DEF SetBytes, ByteAt
    <2> QED BY <1>1, <2>1, <2>2
<1>4. 1 \in 1..Len(h)
    <2>1. 1 \in 1..1 OBVIOUS
    <2> QED BY <1>2, <2>1, Zenon
<1>5. t[p + 1] = h[1] BY <1>1, <1>4 DEF Lies
<1> QED BY <1>3, <1>5

SameBlock(r, b, stat, kinds) ==
    /\ r.rows = b.rows
    /\ \A d \in kinds : r.numofdev[d] = b.numofdev[d]
    /\ \A i \in 1..b.rows :
         /\ r.items[i].timestamp = b.items[i].timestamp
         /\ stat => r.items[i].gcgstat = b.items[i].gcgstat
         /\ \A d \in kinds : r.items[i].ids[d] = b.items[i].ids[d]
                           /\ r.items[i].vals[d] = b.items[i].vals[d]

(* The parts of one row, where tp3_parsestatblock looks for them. *)
StatPartsAre(t, b, i, p, sn, an, sens, acts) ==
    /\ t[p + 1] = sn /\ t[p + 4 * sn + 2] = an /\ t[p + 4 * sn + 4 * an + 3] = sens
    /\ t[p + 4 * sn + 4 * an + 5 * sens + 4] = acts
    /\ \A d \in Dev : StatPart(t, p, sn, an, sens, acts)[d] = PartOf(b, i, d)

LEMMA StatPartsRead ==
    ASSUME NEW n \in Nat, NEW b \in BlocksOf(n), NEW i \in 1..n, Ended(b),
           \A d \in Dev : DevicesFit(b, d, IdBytes(d), 1),
           NEW t \in Seq(Byte), NEW o \in Nat, NEW p \in Nat, p = o + 1,
           NEW sn \in Nat, NEW an \in Nat, NEW sens \in Nat, NEW acts \in Nat,
           Announced(b, sn, an, sens, acts), InStatRow(t, o, b, i, sn, an, sens, acts)
    PROVE  StatPartsAre(t, b, i, p, sn, an, sens, acts)
<1>0. "SNODE" \in Dev /\ "ANODE" \in Dev /\ "SENSOR" \in Dev /\ "ACTUATOR" \in Dev BY DEF Dev
<1>1. PICK pa, ps, pc \in Nat :
         /\ pa = p + 4 * sn + 1 /\ ps = p + 4 * sn + 4 * an + 2
         /\ pc = p + 4 * sn + 4 * an + 5 * sens + 3
    OBVIOUS
<1>2. /\ pa = o + 4 * sn + 2 /\ ps = o + 4 * sn + 4 * an + 3
      /\ pc = o + 4 * sn + 4 * an + 5 * sens + 4
    BY <1>1
<1>3. /\ Lies(t, p, SetStatBlockBytes(b, i, "SNODE")) /\ Lies(t, pa, SetStatBlockBytes(b, i, "ANODE"))
      /\ Lies(t, ps, SetStatBlockBytes(b, i, "SENSOR")) /\ Lies(t, pc, SetStatBlockBytes(b, i, "ACTUATOR"))
    BY <1>2, Zenon DEF InStatRow
<1>4. /\ sn = b.numofdev["SNODE"] /\ an = b.numofdev["ANODE"]
      /\ sens = b.numofdev["SENSOR"] /\ acts = b.numofdev["ACTUATOR"]
    BY DEF Announced
<1>5. pa \in Nat /\ ps \in Nat /\ pc \in Nat BY <1>1
<1>6. \A d \in Dev, q \in Nat :
         Lies(t, q, SetStatBlockBytes(b, i, d)) =>
            /\ t[q + 1] = b.numofdev[d]
            /\ GetStatBlockBytes(t, q, b.numofdev[d], d) = PartOf(b, i, d)
    BY StatPartRead
<1>7. t[p + 1] = sn /\ GetStatBlockBytes(t, p, sn, "SNODE") = PartOf(b, i, "SNODE")
    BY <1>0, <1>3, <1>4, <1>6, Zenon
<1>8. t[pa + 1] = an /\ GetStatBlockBytes(t, pa, an, "ANODE") = PartOf(b, i, "ANODE")
    BY <1>0, <1>3, <1>4, <1>5, <1>6, Zenon
<1>9. t[ps + 1] = sens /\ GetStatBlockBytes(t, ps, sens, "SENSOR") = PartOf(b, i, "SENSOR")
    BY <1>0, <1>3, <1>4, <1>5, <1>6, Zenon
<1>10. t[pc + 1] = acts /\ GetStatBlockBytes(t, pc, acts, "ACTUATOR") = PartOf(b, i, "ACTUATOR")
    BY <1>0, <1>3, <1>4, <1>5, <1>6, Zenon
<1>11. /\ pa + 1 = p + 4 * sn + 2 /\ ps + 1 = p + 4 * sn + 4 * an + 3
      /\ pc + 1 = p + 4 * sn + 4 * an + 5 * sens + 4
    BY <1>1
<1>12. StatPart(t, p, sn, an, sens, acts) =
          [SNODE |-> GetStatBlockBytes(t, p, sn, "SNODE"), ANODE |-> GetStatBlockBytes(t, pa, an, "ANODE"),
           SENSOR |-> GetStatBlockBytes(t, ps, sens, "SENSOR"),
           ACTUATOR |-> GetStatBlockBytes(t, pc, acts, "ACTUATOR")]
    BY <1>1, Zenon DEF StatPart
<1>13. PICK u, v, x, y : /\ u = GetStatBlockBytes(t, p, sn, "SNODE")
                         /\ v = GetStatBlockBytes(t, pa, an, "ANODE")
                         /\ x = GetStatBlockBytes(t, ps, sens, "SENSOR")
                         /\ y = GetStatBlockBytes(t, pc, acts, "ACTUATOR")
    OBVIOUS
<1>14. PICK part : part = [SNODE |-> u, ANODE |-> v, SENSOR |-> x, ACTUATOR |-> y]
                   /\ part = StatPart(t, p, sn, an, sens, acts)
    BY <1>12, <1>13
<1>15. part["SNODE"] = u /\ part["ANODE"] = v /\ part["SENSOR"] = x /\ part["ACTUATOR"] = y BY <1>14
<1>16. \A d \in Dev : part[d] = PartOf(b, i, d) BY <1>7, <1>8, <1>9, <1>10, <1>13, <1>15, Zenon DEF Dev
<1>17. t[p + 4 * sn + 2] = an BY <1>8, <1>11, Zenon
<1>18. t[p + 4 * sn + 4 * an + 3] = sens BY <1>9, <1>11, Zenon
<1>19. t[p + 4 * sn + 4 * an + 5 * sens + 4] = acts BY <1>10, <1>11, Zenon
<1> QED BY <1>7, <1>14, <1>16, <1>17, <1>18, <1>19, Zenon DEF StatPartsAre

(* A status block is read as it was filled. *)
LEMMA StatBlockRead ==
    ASSUME NEW n \in Nat, n > 0, NEW b \in BlocksOf(n), Ended(b),
           \A d \in Dev : DevicesFit(b, d, IdBytes(d), 1),
           \A i \in 1..n : b.items[i].gcgstat \in Byte
    PROVE  SameBlock(ParseStatBlock(n, StatBlock(b)), b, TRUE, Dev)
<1>0. "SNODE" \in Dev /\ "ANODE" \in Dev /\ "SENSOR" \in Dev /\ "ACTUATOR" \in Dev BY DEF Dev
<1>1. PICK sn, an, sens, acts \in Nat : Announced(b, sn, an, sens, acts)
    BY <1>0, BlockNumbers DEF Announced
<1>2. PICK w \in Nat : w = StatStep(b.numofdev) BY BlockNumbers
<1>3. w = 4 * sn + 4 * an + 5 * sens + 5 * acts + 12
    <2>1. w = 12 + 4 * sn + 4 * an + 5 * sens + 5 * acts BY <1>1, <1>2, Zenon DEF Announced, StatStep
    <2> QED BY <2>1
<1>4. PICK t \in Seq(Byte) : t = StatBlock(b) BY StatBlockOK
<1>5. ASSUME NEW i \in 1..n, NEW o \in Nat, o = (i - 1) * w
      PROVE  /\ InStatRow(t, o, b, i, sn, an, sens, acts)
             /\ StatPartsAre(t, b, i, o + 1, sn, an, sens, acts)
    <2>1. Lies(t, o, StatRow(b, i)) BY <1>2, <1>4, <1>5, StatRowLies
    <2>2. InStatRow(t, o, b, i, sn, an, sens, acts) BY <1>1, <2>1, StatRowSplit
    <2>3. PICK p \in Nat : p = o + 1 OBVIOUS
    <2>4. StatPartsAre(t, b, i, p, sn, an, sens, acts) BY <1>1, <2>2, <2>3, StatPartsRead
    <2> QED BY <2>2, <2>3, <2>4
<1>6. StatCounts(t, sn, an, sens, acts, w)
    <2>1. PICK one \in 1..n, o \in Nat : one = 1 /\ o = (one - 1) * w BY SMT
    <2>2. o = 0 BY <2>1
    <2>3. StatPartsAre(t, b, one, 0 + 1, sn, an, sens, acts) BY <1>5, <2>1, <2>2
    <2>4. /\ (0 + 1) + 1 = 2 /\ (0 + 1) + 4 * sn + 2 = 4 * sn + 3
          /\ (0 + 1) + 4 * sn + 4 * an + 3 = 4 * sn + 4 * an + 4
          /\ (0 + 1) + 4 * sn + 4 * an + 5 * sens + 4 = 4 * sn + 4 * an + 5 * sens + 5
        BY SMTT(40)
    <2>5. /\ sn = t[2] /\ an = t[4 * sn + 3] /\ sens = t[4 * sn + 4 * an + 4]
          /\ acts = t[4 * sn + 4 * an + 5 * sens + 5]
        BY <2>3, <2>4, Zenon DEF StatPartsAre
    <2> QED BY <1>3, <2>5, Zenon DEF StatCounts
<1>7. PICK r : r = ParseStatBlock(n, t) OBVIOUS
<1>8. r = StatParsed(t, n, w, sn, an, sens, acts) BY <1>6, <1>7, ParseStatIs, Zenon
<1>9. /\ r.rows = n
      /\ r.numofdev = [SNODE |-> sn, ANODE |-> an, SENSOR |-> sens, ACTUATOR |-> acts]
      /\ \A i \in 1..n : r.items[i] = StatItem(t, i, w, sn, an, sens, acts)
    <2>1. StatTaken(r, t, n, w, sn, an, sens, acts) BY <1>8, StatParsedAs
    <2> QED BY <2>1, Zenon DEF StatTaken
<1>10. \A d \in Dev : r.numofdev[d] = b.numofdev[d] BY <1>1, <1>9 DEF Dev, Announced
<1>11. ASSUME NEW i \in 1..n
       PROVE  /\ r.items[i].timestamp = b.items[i].timestamp
              /\ r.items[i].gcgstat = b.items[i].gcgstat
              /\ \A d \in Dev : r.items[i].ids[d] = b.items[i].ids[d]
                                /\ r.items[i].vals[d] = b.items[i].vals[d]
    <2>1. PICK o \in Nat : o = (i - 1) * w BY RowInside
    <2>2. InStatRow(t, o, b, i, sn, an, sens, acts) /\ StatPartsAre(t, b, i, o + 1, sn, an, sens, acts)
        BY <1>5, <2>1
    <2>3. PICK p \in Nat : p = o + 1 OBVIOUS
    <2>4. p = (i - 1) * w + 1 BY <2>1, <2>3
    <2>5. PICK item : item = r.items[i] OBVIOUS
    <2>6. item = StatItem(t, i, w, sn, an, sens, acts) BY <1>9, <2>5
    <2>7. /\ item.timestamp = GetEpoch(SubSeq(t, i * w - 6, i * w)) /\ item.gcgstat = t[p]
          /\ \A d \in Dev : /\ item.ids[d] = StatPart(t, p, sn, an, sens, acts)[d].ids
                            /\ item.vals[d] = StatPart(t, p, sn, an, sens, acts)[d].vals
        BY <2>4, <2>6, StatItemAs
    <2>8. \A d \in Dev : StatPart(t, p, sn, an, sens, acts)[d] = PartOf(b, i, d)
        BY <2>2, <2>3 DEF StatPartsAre
    <2>9. \A d \in Dev : item.ids[d] = b.items[i].ids[d] /\ item.vals[d] = b.items[i].vals[d]
        <3>1. \A d \in Dev : PartOf(b, i, d).ids = b.items[i].ids[d] /\ PartOf(b, i, d).vals = b.items[i].vals[d]
            BY DEF PartOf
        <3> QED BY <2>7, <2>8, <3>1, Zenon
    <2>10. item.gcgstat = b.items[i].gcgstat
        <3>1. PICK g \in 0..255 : g = b.items[i].gcgstat BY DEF Byte
        <3>2. Lies(t, o, SetBytes(1, g)) BY <2>2, <3>1 DEF InStatRow
        <3>3. t[o + 1] = g BY <3>2, ByteRead
        <3> QED BY <2>3, <2>7, <3>1, <3>3
    <2>11. item.timestamp = b.items[i].timestamp
        <3>1. PICK q \in Nat : q = o + 4 * sn + 4 * an + 5 * sens + 5 * acts + 5 BY SMTT(40)
        <3>2. PICK time \in Times : time = b.items[i].timestamp BY BlockParts
        <3>3. Lies(t, q, SetTimestamp(time)) BY <2>2, <3>1, <3>2 DEF InStatRow
        <3>4. GetEpoch(SubSeq(t, q + 1, q + 7)) = time BY <3>3, LiesTime
        <3>5. o + w = i * w BY <2>1, RowInside
        <3>6. q + 7 = o + w BY <1>3, <3>1
        <3>7. PICK z \in Int : z = i * w BY <3>5
        <3>8. q + 7 = z /\ q + 1 = z - 6 BY <3>5, <3>6, <3>7
        <3> QED BY <2>7, <3>2, <3>4, <3>7, <3>8
    <2> QED BY <2>5, <2>9, <2>10, <2>11
<1>12. b.rows = n BY BlockNumbers
<1> QED BY <1>4, <1>7, <1>9, <1>10, <1>11, <1>12 DEF SameBlock

(* The same for an environment block: no nodes, and no status.             *)
EnvPart(t, p, sens, acts) ==
    [SENSOR |-> GetEnvBlockBytes(t, p, sens, "SENSOR"),
     ACTUATOR |-> GetEnvBlockBytes(t, p + 8 * sens + 1, acts, "ACTUATOR")]

EnvItem(t, i, step, sens, acts) ==
    LET part == EnvPart(t, (i - 1) * step, sens, acts)
    IN  [timestamp |-> GetEpoch(SubSeq(t, i * step - 6, i * step)), gcgstat |-> 0,
         ids |-> [d \in Dev |-> IF d \in {"SENSOR", "ACTUATOR"} THEN part[d].ids ELSE Zeros[d]],
         vals |-> [d \in Dev |-> IF d \in {"SENSOR", "ACTUATOR"} THEN part[d].vals ELSE Zeros[d]]]

EnvParsed(t, rows, step, sens, acts) ==
    [NewBlock(rows, [SNODE |-> 0, ANODE |-> 0, SENSOR |-> sens, ACTUATOR |-> acts])
     EXCEPT !.items = [i \in 1..rows |-> EnvItem(t, i, step, sens, acts)]]

LEMMA ParseEnvIs ==
    ASSUME NEW t, NEW rows, NEW sens, NEW acts, NEW step,
           sens = t[1], acts = t[8 * sens + 2], step = 8 * sens + 6 * acts + 9
    PROVE  ParseEnvBlock(rows, t) = EnvParsed(t, rows, step, sens, acts)
<1> DEFINE sens1 == t[1]
           acts1 == t[8 * sens1 + 2]
           step1 == 8 * sens1 + 6 * acts1 + 9
<1>1. ParseEnvBlock(rows, t) = EnvParsed(t, rows, step1, sens1, acts1)
    BY Zenon DEF ParseEnvBlock, EnvParsed, EnvItem, EnvPart
<1>2. sens1 = sens OBVIOUS
<1> HIDE DEF sens1
<1>3. acts1 = acts BY <1>2
<1> HIDE DEF acts1
<1>4. step1 = step BY <1>2, <1>3
<1> HIDE DEF step1
<1> QED BY <1>1, <1>2, <1>3, <1>4, Zenon

LEMMA EnvParsedAs ==
    ASSUME NEW t, NEW rows \in Nat, NEW sens, NEW acts, NEW step,
           NEW r, r = EnvParsed(t, rows, step, sens, acts)
    PROVE  /\ r.rows = rows
           /\ r.numofdev = [SNODE |-> 0, ANODE |-> 0, SENSOR |-> sens, ACTUATOR |-> acts]
           /\ \A i \in 1..rows : r.items[i] = EnvItem(t, i, step, sens, acts)
<1>1. PICK f : f = [i \in 1..rows |-> EnvItem(t, i, step, sens, acts)] OBVIOUS
<1>2. PICK new : new = NewBlock(rows, [SNODE |-> 0, ANODE |-> 0, SENSOR |-> sens, ACTUATOR |-> acts])
    OBVIOUS
<1>3. r = [new EXCEPT !.items = f] BY <1>1, <1>2, Zenon DEF EnvParsed
<1>4. /\ new.rows = rows /\ "items" \in DOMAIN new
      /\ new.numofdev = [SNODE |-> 0, ANODE |-> 0, SENSOR |-> sens, ACTUATOR |-> acts]
    BY <1>2 DEF NewBlock
<1>5. r.rows = rows /\ r.numofdev = new.numofdev /\ r.items = f BY <1>3, <1>4
<1>6. \A i \in 1..rows : f[i] = EnvItem(t, i, step, sens, acts) BY <1>1
<1> QED BY <1>4, <1>5, <1>6

LEMMA EnvItemAs ==
    ASSUME NEW t, NEW i, NEW step, NEW sens, NEW acts,
           NEW item, item = EnvItem(t, i, step, sens, acts), NEW p, p = (i - 1) * step
    PROVE  /\ item.timestamp = GetEpoch(SubSeq(t, i * step - 6, i * step))
           /\ \A d \in {"SENSOR", "ACTUATOR"} :
                /\ item.ids[d] = EnvPart(t, p, sens, acts)[d].ids
                /\ item.vals[d] = EnvPart(t, p, sens, acts)[d].vals
<1>1. PICK part : part = EnvPart(t, p, sens, acts) OBVIOUS
<1>2. PICK f, g : /\ f = [d \in Dev |-> IF d \in {"SENSOR", "ACTUATOR"} THEN part[d].ids ELSE Zeros[d]]
                  /\ g = [d \in Dev |-> IF d \in {"SENSOR", "ACTUATOR"} THEN part[d].vals ELSE Zeros[d]]
    OBVIOUS
<1>3. item = [timestamp |-> GetEpoch(SubSeq(t, i * step - 6, i * step)), gcgstat |-> 0,
              ids |-> f, vals |-> g]
    BY <1>1, <1>2, Zenon DEF EnvItem
<1>4. \A d \in {"SENSOR", "ACTUATOR"} : f[d] = part[d].ids /\ g[d] = part[d].vals BY <1>2 DEF Dev
<1>5. /\ item.timestamp = GetEpoch(SubSeq(t, i * step - 6, i * step))
      /\ item.ids = f /\ item.vals = g
    BY <1>3
<1> QED BY <1>1, <1>4, <1>5

EnvPartsAre(t, b, i, p, sens, acts) ==
    /\ t[p + 1] = sens /\ t[p + 8 * sens + 2] = acts
    /\ \A d \in {"SENSOR", "ACTUATOR"} : EnvPart(t, p, sens, acts)[d] = PartOf(b, i, d)

LEMMA EnvPartsRead ==
    ASSUME NEW n \in Nat, NEW b \in BlocksOf(n), NEW i \in 1..n, Ended(b),
           \A d \in {"SENSOR", "ACTUATOR"} : DevicesFit(b, d, 4, EnvBytes(d)),
           NEW t \in Seq(Byte), NEW p \in Nat,
           NEW sn \in Nat, NEW an \in Nat, NEW sens \in Nat, NEW acts \in Nat,
           Announced(b, sn, an, sens, acts), InEnvRow(t, p, b, i, sens, acts)
    PROVE  EnvPartsAre(t, b, i, p, sens, acts)
<1>0. "SENSOR" \in Dev /\ "ACTUATOR" \in Dev BY DEF Dev
<1>1. PICK q \in Nat : q = p + 8 * sens + 1 OBVIOUS
<1>2. Lies(t, p, SetEnvBlockBytes(b, i, "SENSOR")) /\ Lies(t, q, SetEnvBlockBytes(b, i, "ACTUATOR"))
    BY <1>1, Zenon DEF InEnvRow
<1>3. sens = b.numofdev["SENSOR"] /\ acts = b.numofdev["ACTUATOR"] BY DEF Announced
<1>4. t[p + 1] = sens /\ GetEnvBlockBytes(t, p, sens, "SENSOR") = PartOf(b, i, "SENSOR")
    BY <1>0, <1>2, <1>3, EnvPartRead
<1>5. q \in Nat BY <1>1
<1>6. t[q + 1] = acts /\ GetEnvBlockBytes(t, q, acts, "ACTUATOR") = PartOf(b, i, "ACTUATOR")
    BY <1>0, <1>2, <1>3, <1>5, EnvPartRead
<1>7. q + 1 = p + 8 * sens + 2 BY <1>1
<1>8. PICK u, v : /\ u = GetEnvBlockBytes(t, p, sens, "SENSOR")
                  /\ v = GetEnvBlockBytes(t, q, acts, "ACTUATOR")
    OBVIOUS
<1>9. PICK part : part = [SENSOR |-> u, ACTUATOR |-> v] OBVIOUS
<1>10. part = EnvPart(t, p, sens, acts) BY <1>1, <1>8, <1>9, Zenon DEF EnvPart
<1>11. part["SENSOR"] = u /\ part["ACTUATOR"] = v BY <1>9
<1>12. \A d \in {"SENSOR", "ACTUATOR"} : part[d] = PartOf(b, i, d) BY <1>4, <1>6, <1>8, <1>11, Zenon
<1>13. t[p + 8 * sens + 2] = acts BY <1>6, <1>7, Zenon
<1> QED BY <1>4, <1>10, <1>12, <1>13, Zenon DEF EnvPartsAre

LEMMA EnvBlockRead ==
    ASSUME NEW n \in Nat, n > 0, NEW b \in BlocksOf(n), Ended(b),
           \A d \in {"SENSOR", "ACTUATOR"} : DevicesFit(b, d, 4, EnvBytes(d))
    PROVE  SameBlock(ParseEnvBlock(n, EnvBlock(b)), b, FALSE, {"SENSOR", "ACTUATOR"})
<1>1. PICK sn, an, sens, acts \in Nat : Announced(b, sn, an, sens, acts)
    BY BlockNumbers DEF Announced, Dev
<1>2. PICK w \in Nat : w = EnvStep(b.numofdev) BY BlockNumbers
<1>3. w = 8 * sens + 6 * acts + 9
    <2>1. w = 9 + 8 * sens + 6 * acts BY <1>1, <1>2, Zenon DEF Announced, EnvStep
    <2> QED BY <2>1
<1>4. PICK t \in Seq(Byte) : t = EnvBlock(b) BY EnvBlockOK
<1>5. ASSUME NEW i \in 1..n, NEW o \in Nat, o = (i - 1) * w
      PROVE  InEnvRow(t, o, b, i, sens, acts) /\ EnvPartsAre(t, b, i, o, sens, acts)
    <2>1. Lies(t, o, EnvRow(b, i)) BY <1>2, <1>4, <1>5, EnvRowLies
    <2>2. InEnvRow(t, o, b, i, sens, acts) BY <1>1, <2>1, EnvRowSplit
    <2>3. EnvPartsAre(t, b, i, o, sens, acts) BY <1>1, <2>2, EnvPartsRead
    <2> QED BY <2>2, <2>3
<1>6. sens = t[1] /\ acts = t[8 * sens + 2]
    <2>1. PICK one \in 1..n, o \in Nat : one = 1 /\ o = (one - 1) * w BY SMT
    <2>2. o = 0 BY <2>1
    <2>3. EnvPartsAre(t, b, one, 0, sens, acts) BY <1>5, <2>1, <2>2
    <2>4. 0 + 1 = 1 /\ 0 + 8 * sens + 2 = 8 * sens + 2 OBVIOUS
    <2> QED BY <2>3, <2>4, Zenon DEF EnvPartsAre
<1>7. PICK r : r = ParseEnvBlock(n, t) OBVIOUS
<1>8. r = EnvParsed(t, n, w, sens, acts) BY <1>3, <1>6, <1>7, ParseEnvIs, Zenon
<1>9. /\ r.rows = n
      /\ r.numofdev = [SNODE |-> 0, ANODE |-> 0, SENSOR |-> sens, ACTUATOR |-> acts]
      /\ \A i \in 1..n : r.items[i] = EnvItem(t, i, w, sens, acts)
    BY <1>8, EnvParsedAs
<1>10. \A d \in {"SENSOR", "ACTUATOR"} : r.numofdev[d] = b.numofdev[d] BY <1>1, <1>9 DEF Announced
<1>11. ASSUME NEW i \in 1..n
       PROVE  /\ r.items[i].timestamp = b.items[i].timestamp
              /\ \A d \in {"SENSOR", "ACTUATOR"} : /\ r.items[i].ids[d] = b.items[i].ids[d]
                                                   /\ r.items[i].vals[d] = b.items[i].vals[d]
    <2>1. PICK o \in Nat : o = (i - 1) * w BY RowInside
    <2>2. InEnvRow(t, o, b, i, sens, acts) /\ EnvPartsAre(t, b, i, o, sens, acts) BY <1>5, <2>1
    <2>3. PICK item : item = r.items[i] OBVIOUS
    <2>4. item = EnvItem(t, i, w, sens, acts) BY <1>9, <2>3
    <2>5. /\ item.timestamp = GetEpoch(SubSeq(t, i * w - 6, i * w))
          /\ \A d \in {"SENSOR", "ACTUATOR"} : /\ item.ids[d] = EnvPart(t, o, sens, acts)[d].ids
                                               /\ item.vals[d] = EnvPart(t, o, sens, acts)[d].vals
        BY <2>1, <2>4, EnvItemAs
    <2>6. \A d \in {"SENSOR", "ACTUATOR"} : EnvPart(t, o, sens, acts)[d] = PartOf(b, i, d)
        BY <2>2 DEF EnvPartsAre
    <2>7. \A d \in {"SENSOR", "ACTUATOR"} : item.ids[d] = b.items[i].ids[d] /\ item.vals[d] = b.items[i].vals[d]
        <3>1. \A d : PartOf(b, i, d).ids = b.items[i].ids[d] /\ PartOf(b, i, d).vals = b.items[i].vals[d]
            BY DEF PartOf
        <3> QED BY <2>5, <2>6, <3>1, Zenon
    <2>8. item.timestamp = b.items[i].timestamp
        <3>1. PICK q \in Nat : q = o + 8 * sens + 6 * acts + 2 OBVIOUS
        <3>2. PICK time \in Times : time = b.items[i].timestamp BY BlockParts
        <3>3. Lies(t, q, SetTimestamp(time)) BY <2>2, <3>1, <3>2 DEF InEnvRow
        <3>4. GetEpoch(SubSeq(t, q + 1, q + 7)) = time BY <3>3, LiesTime
        <3>5. o + w = i * w BY <2>1, RowInside
        <3>6. q + 7 = o + w BY <1>3, <3>1
        <3>7. PICK z \in Int : z = i * w BY <3>5
        <3>8. q + 7 = z /\ q + 1 = z - 6 BY <3>5, <3>6, <3>7
        <3> QED BY <2>5, <3>2, <3>4, <3>7, <3>8
    <2> QED BY <2>3, <2>7, <2>8
<1>12. b.rows = n BY BlockNumbers
<1> QED BY <1>4, <1>7, <1>9, <1>10, <1>11, <1>12 DEF SameBlock

(* What is read from the answer to a history query. *)
LEMMA BytesArrive ==
    ASSUME PastHeader = 1, NEW h \in Headers, NEW entries \in Seq(Entries), Readable(entries),
           NEW code, FieldLen(code) = 0, NEW bytes \in Seq(Byte), Len(bytes) > 4,
           Carries(entries, [how |-> "bytes", code |-> code, val |-> bytes])
    PROVE  ReadField(Arrived(h, entries), code).data = bytes
<1>1. PICK i \in DOMAIN entries : entries[i] = [how |-> "bytes", code |-> code, val |-> bytes]
    BY DEF Carries
<1>2. i \in 1..Len(entries) BY LenProperties
<1>3. PICK e \in Entries : e = entries[i] BY <1>2, ElementOfSeq
<1>4. e.how = "bytes" /\ e.code = code /\ e.val = bytes BY <1>1, <1>3
<1>5. Fits(e) /\ Whole(e)
    <2>1. FieldLen(e.code) # 4 BY <1>4
    <2> QED BY <1>3, <1>4, <2>1 DEF Readable, Whole
<1>6. ReadField(Arrived(h, entries), code) = FieldFor(e)
    <2>1. Back(e) = FieldFor(e) BY <1>5, FieldBack DEF Back
    <2>2. ReadField(Arrived(h, entries), entries[i].code) = Back(entries[i]) BY <1>2, EntryFound
    <2> QED BY <1>3, <1>4, <2>1, <2>2
<1>7. FieldFor(e).data = Kept(bytes) BY <1>4, <1>5, BytesField DEF Plain
<1> QED BY <1>6, <1>7, PlainRead

LEMMA ResponseCarries ==
    ASSUME BlockOK, block # NoBlock, NEW n \in Nat, n = block.rows, NEW code \in FieldCodes,
           FieldLen(code) = 0, NEW bytes \in Seq(Byte), Len(bytes) \notin 1..4, Len(bytes) <= MaxLength
    PROVE  /\ Carries(HistoryResponse(code, bytes), NumEntry(FC.NUMOFBLK, n))
           /\ Carries(HistoryResponse(code, bytes), [how |-> "bytes", code |-> code, val |-> bytes])
<1>1. PICK a \in Seq(Entries) : a = Response(0) BY ResponseOf
<1>2. PICK b \in Seq(Entries) : b = Number(FC.NUMOFBLK, n)
    <2>1. FC.NUMOFBLK \in CodesOfLength(1..4) /\ n \in Int BY ReportCodes
    <2> QED BY <2>1, NumberOf
<1>3. PICK c \in Seq(Entries) : c = Entry("bytes", code, bytes)
    <2>1. Fitting(bytes, code) BY DEF Fitting, FDATA_LIMIT
    <2> QED BY <2>1, BytesOf
<1>4. PICK ab \in Seq(Entries) : ab = a \o b BY ConcatProperties
<1>5. HistoryResponse(code, bytes) = ab \o c BY <1>1, <1>2, <1>3, <1>4 DEF HistoryResponse
<1>6. Carries(b, NumEntry(FC.NUMOFBLK, n)) BY <1>2, CarriesOne DEF Number, NumEntry
<1>7. Carries(c, [how |-> "bytes", code |-> code, val |-> bytes]) BY <1>3, CarriesOne
<1>8. Carries(ab, NumEntry(FC.NUMOFBLK, n)) BY <1>4, <1>6, CarriesBoth
<1>9. Carries(ab \o c, NumEntry(FC.NUMOFBLK, n)) BY <1>8, CarriesBoth
<1>10. Carries(ab \o c, [how |-> "bytes", code |-> code, val |-> bytes]) BY <1>7, CarriesBoth
<1> QED BY <1>5, <1>9, <1>10

LEMMA AnswerRead ==
    ASSUME PastHeader = 1, BlockOK, block # NoBlock, NEW n \in Nat, n = block.rows,
           NEW code \in FieldCodes, FieldLen(code) = 0,
           NEW bytes \in Seq(Byte), Len(bytes) > 4, Len(bytes) <= MaxLength,
           NEW h \in Headers, NEW e \in Seq(Entries), Readable(e), e = HistoryResponse(code, bytes)
    PROVE  /\ Num(Arrived(h, e), FC.NUMOFBLK) = n
           /\ ReadField(Arrived(h, e), code).data = bytes
<1>1. Len(bytes) \notin 1..4
    <2>1. PICK k \in Nat : k = Len(bytes) BY LenProperties
    <2>2. k > 4 /\ k >= 5 /\ 5 > 4 BY <2>1
    <2>3. k \notin 1..4 BY <2>2, AboveFour
    <2> QED BY <2>1, <2>3
<1>2. /\ Carries(e, NumEntry(FC.NUMOFBLK, n))
      /\ Carries(e, [how |-> "bytes", code |-> code, val |-> bytes])
    BY <1>1, ResponseCarries
<1>3. FieldLen(FC.NUMOFBLK) \in 1..3 BY ListLengths
<1> QED BY <1>2, <1>3, NumArrives, BytesArrive

(* A history block arrives as it was filled, if it has a row and what is in *)
(* it fits the bytes it is written as: as many rows, devices of each kind,  *)
(* and in each row the time, the statuses, the ids and the values.          *)
THEOREM BlocksRead == ASSUME PastHeader = 1 PROVE Spec => [](BlockFits => HistoryRead)
<1>1. /\ FC.BLKOFSTAT \in FieldCodes /\ FieldLen(FC.BLKOFSTAT) = 0
      /\ FC.BLKOFENV \in FieldCodes /\ FieldLen(FC.BLKOFENV) = 0
    BY ReportCodes
<1>2. ASSUME TravelInv, BlockFits, stage = "parsed", sent.kind = "stat"
      PROVE  SameBlock(ParseStatBlock(Num(got, FC.NUMOFBLK), ReadField(got, FC.BLKOFSTAT).data),
                       sent.about, TRUE, Dev)
    <2>1. BlockOK BY <1>2 DEF TravelInv, TransferInv
    <2>2. PICK h \in Headers, e \in Seq(Entries) : e = sent.entries /\ Readable(e) /\ got = Arrived(h, e)
        BY <1>2 DEF TravelInv, SentOK, Made
    <2>3. block # NoBlock /\ sent.about = block /\ e = HistoryResponse(FC.BLKOFSTAT, StatBlock(block))
        BY <1>2, <2>2 DEF TravelInv, AboutOK
    <2>4. PICK n \in Nat : block \in BlocksOf(n) /\ Ended(block) BY <2>1, <2>3 DEF BlockOK, Blocks
    <2>5. block.rows = n BY <2>4, BlockNumbers
    <2>6. /\ n > 0 /\ \A d \in Dev : DevicesFit(block, d, IdBytes(d), 1)
          /\ \A i \in 1..n : block.items[i].gcgstat \in Byte
        BY <1>2, <2>3, <2>5 DEF BlockFits
    <2>7. StatBlock(block) \in Seq(Byte) /\ Len(StatBlock(block)) > 4 /\ Len(StatBlock(block)) <= MaxLength
        BY <2>4, <2>6, StatBlockOK
    <2>8. /\ Num(Arrived(h, e), FC.NUMOFBLK) = n
          /\ ReadField(Arrived(h, e), FC.BLKOFSTAT).data = StatBlock(block)
        BY <1>1, <2>1, <2>2, <2>3, <2>5, <2>7, AnswerRead
    <2>9. SameBlock(ParseStatBlock(n, StatBlock(block)), block, TRUE, Dev)
        BY <2>4, <2>6, StatBlockRead
    <2> QED BY <2>2, <2>3, <2>8, <2>9
<1>3. ASSUME TravelInv, BlockFits, stage = "parsed", sent.kind = "env"
      PROVE  SameBlock(ParseEnvBlock(Num(got, FC.NUMOFBLK), ReadField(got, FC.BLKOFENV).data),
                       sent.about, FALSE, {"SENSOR", "ACTUATOR"})
    <2>1. BlockOK BY <1>3 DEF TravelInv, TransferInv
    <2>2. PICK h \in Headers, e \in Seq(Entries) : e = sent.entries /\ Readable(e) /\ got = Arrived(h, e)
        BY <1>3 DEF TravelInv, SentOK, Made
    <2>3. block # NoBlock /\ sent.about = block /\ e = HistoryResponse(FC.BLKOFENV, EnvBlock(block))
        BY <1>3, <2>2 DEF TravelInv, AboutOK
    <2>4. PICK n \in Nat : block \in BlocksOf(n) /\ Ended(block) BY <2>1, <2>3 DEF BlockOK, Blocks
    <2>5. block.rows = n BY <2>4, BlockNumbers
    <2>6. n > 0 /\ \A d \in {"SENSOR", "ACTUATOR"} : DevicesFit(block, d, 4, EnvBytes(d))
        BY <1>3, <2>3, <2>5 DEF BlockFits
    <2>7. EnvBlock(block) \in Seq(Byte) /\ Len(EnvBlock(block)) > 4 /\ Len(EnvBlock(block)) <= MaxLength
        BY <2>4, <2>6, EnvBlockOK
    <2>8. /\ Num(Arrived(h, e), FC.NUMOFBLK) = n
          /\ ReadField(Arrived(h, e), FC.BLKOFENV).data = EnvBlock(block)
        BY <1>1, <2>1, <2>2, <2>3, <2>5, <2>7, AnswerRead
    <2>9. SameBlock(ParseEnvBlock(n, EnvBlock(block)), block, FALSE, {"SENSOR", "ACTUATOR"})
        BY <2>4, <2>6, EnvBlockRead
    <2> QED BY <2>2, <2>3, <2>8, <2>9
<1>4. ASSUME TravelInv, BlockFits, stage = "parsed", sent.kind \in {"stat", "env"} PROVE HistoryRead
    <2>1. CASE sent.kind = "stat" BY <1>2, <1>4, <2>1 DEF SameBlock, HistoryRead
    <2>2. CASE sent.kind = "env"
        <3>1. sent.kind # "stat" BY <2>2
        <3>2. SameBlock(ParseEnvBlock(Num(got, FC.NUMOFBLK), ReadField(got, FC.BLKOFENV).data),
                        sent.about, FALSE, {"SENSOR", "ACTUATOR"})
            BY <1>3, <1>4, <2>2
        <3> QED BY <3>1, <3>2 DEF SameBlock, HistoryRead
    <2> QED BY <1>4, <2>1, <2>2
<1>5. TravelInv => (BlockFits => HistoryRead) BY <1>4 DEF HistoryRead
<1> QED BY <1>5, Travel, PTL

(* What an application enters into a block and fits whichever block it is   *)
(* sent as.                                                                *)
SamplesFit ==
    /\ \A s \in Shapes : s.rows > 0
    /\ \A k \in DOMAIN Samples : Samples[k].gcgstat \in Byte
    /\ \A d \in Dev : \A e \in DeviceIds[d] : InWidth(e.id, IdBytes(d)) /\ e.val \in Byte

(* A byte fits whatever a value is written as. *)
LEMMA ByteWide ==
    ASSUME NEW v \in Byte
    PROVE  \A w \in 1..4 : InWidth(v, w)
<1>1. InWidth(v, 1) /\ InWidth(v, 2) /\ InWidth(v, 4) BY ByteFits
<1>2. InWidth(v, 3)
    <2>1. v \in 0..255 BY DEF Byte
    <2> QED BY <2>1, SMT DEF InWidth, Place
<1> QED BY <1>1, <1>2

LEMMA RowFits ==
    ASSUME SamplesFit, BlockOK, block # NoBlock
    PROVE  /\ block.rows > 0
           /\ \A i \in 1..block.rows : block.items[i].gcgstat \in Byte
           /\ \A d \in Dev : DevicesFit(block, d, IdBytes(d), 1)
           /\ \A d \in {"SENSOR", "ACTUATOR"} : DevicesFit(block, d, 4, EnvBytes(d))
<1>1. PICK n \in Nat : block \in BlocksOf(n) BY DEF BlockOK, Blocks
<1>2. block.rows = n /\ Drawn(block) BY <1>1, BlockNumbers DEF BlockOK
<1>3. n > 0
    <2>1. PICK s \in Shapes : s.rows = n BY <1>2 DEF Drawn
    <2> QED BY <2>1 DEF SamplesFit
<1>4. 0 \in Byte BY DEF Byte
<1>5. \A d \in Dev : IdBytes(d) \in 1..4 BY DEF IdBytes
<1>6. ASSUME NEW i \in 1..n PROVE block.items[i].gcgstat \in Byte
    <2>1. block.items[i].gcgstat \in GcgStats BY <1>1 DEF BlocksOf, Item
    <2>2. GcgStats \subseteq Byte BY <1>4 DEF GcgStats, SamplesFit
    <2> QED BY <2>1, <2>2
<1>7. ASSUME NEW d \in Dev, NEW i \in 1..n, NEW k \in 1..block.numofdev[d]
      PROVE  InWidth(block.items[i].ids[d][k], IdBytes(d)) /\ block.items[i].vals[d][k] \in Byte
    <2>1. k \in 1..MaxDevices
        <3>1. block.numofdev[d] \in 0..MaxDevices /\ MaxDevices \in Nat BY <1>1, BlockNumbers
        <3> QED BY <3>1
    <2>2. block.items[i].ids[d][k] \in OwnIds(d) /\ block.items[i].vals[d][k] \in OwnVals(d)
        BY <1>2, <2>1 DEF Drawn, DrawnRow
    <2>3. \A id \in OwnIds(d) : InWidth(id, IdBytes(d))
        <3>1. InWidth(0, IdBytes(d)) BY <1>4, <1>5, ByteWide
        <3> QED BY <3>1 DEF OwnIds, SamplesFit
    <2>4. OwnVals(d) \subseteq Byte BY <1>4 DEF OwnVals, SamplesFit
    <2> QED BY <2>2, <2>3, <2>4
<1>8. ASSUME NEW d \in Dev PROVE DevicesFit(block, d, IdBytes(d), 1)
    <2>1. ASSUME NEW i \in 1..n, NEW k \in 1..block.numofdev[d]
          PROVE  InWidth(block.items[i].ids[d][k], IdBytes(d)) /\ InWidth(block.items[i].vals[d][k], 1)
        BY <1>7, <2>1, ByteWide
    <2> QED BY <1>2, <2>1 DEF DevicesFit
<1>9. ASSUME NEW d \in {"SENSOR", "ACTUATOR"} PROVE DevicesFit(block, d, 4, EnvBytes(d))
    <2>1. d \in Dev /\ IdBytes(d) = 4 /\ EnvBytes(d) \in 1..4 BY DEF Dev, IdBytes, EnvBytes
    <2>2. ASSUME NEW i \in 1..n, NEW k \in 1..block.numofdev[d]
          PROVE  InWidth(block.items[i].ids[d][k], 4) /\ InWidth(block.items[i].vals[d][k], EnvBytes(d))
        BY <1>7, <2>1, <2>2, ByteWide
    <2> QED BY <1>2, <2>2 DEF DevicesFit
<1> QED BY <1>2, <1>3, <1>6, <1>8, <1>9

(* Then BlockFits holds of every block that is sent, and every history      *)
(* block arrives as it was filled.                                         *)
THEOREM HistoryArrives == ASSUME PastHeader = 1, SamplesFit PROVE Spec => []HistoryRead
<1>1. Spec => [](BlockFits => HistoryRead) BY BlocksRead
<1>2. ASSUME TravelInv PROVE BlockFits
    <2>1. BlockOK BY <1>2 DEF TravelInv, TransferInv
    <2>2. sent.kind \in {"stat", "env"} => block # NoBlock /\ sent.about = block
        BY <1>2 DEF TravelInv, AboutOK
    <2>3. CASE sent.kind \in {"stat", "env"} BY <2>1, <2>2, <2>3, RowFits DEF BlockFits
    <2>4. CASE sent.kind \notin {"stat", "env"} BY <2>4 DEF BlockFits
    <2> QED BY <2>3, <2>4
<1>3. TravelInv => BlockFits BY <1>2
<1> QED BY <1>1, <1>3, Travel, PTL

-----------------------------------------------------------------------------
(* What is read of a profile and of attributes                             *)

LEMMA AttributeNumbers ==
    /\ FC.IPV6ADDR = 4103 /\ FC.INSTSITE = 4104 /\ FC.MCUTYPE = 4105 /\ FC.OSTYPE = 4106
    /\ FC.OSVER = 4107 /\ FC.RAMSIZE = 4108 /\ FC.POWTYPE = 4109 /\ FC.SWVER = 4110
    /\ FC.SERIALNUM = 4100 /\ FC.MODELNUM = 4101
    /\ FC.SNID = 8192 /\ FC.SID = 8195 /\ FC.SENTYPE = 8196 /\ FC.SENDATATYPE = 8197
    /\ FC.SENGETTYPE = 8198 /\ FC.SENGETINTV = 8199
    /\ FC.ANID = 12288 /\ FC.AID = 12291 /\ FC.ACTTYPE = 12292 /\ FC.ACTDATATYPE = 12293
    /\ FC.ACTGETTYPE = 12294
BY SMT DEF FC

LEMMA AttributeLengths ==
    /\ FieldLen(FC.SERIALNUM) = 0 /\ FieldLen(FC.MODELNUM) = 0 /\ FieldLen(FC.IPV6ADDR) = 6
    /\ FieldLen(FC.INSTSITE) \in 1..3 /\ FieldLen(FC.MCUTYPE) \in 1..3 /\ FieldLen(FC.OSTYPE) \in 1..3
    /\ FieldLen(FC.OSVER) \in 1..3 /\ FieldLen(FC.RAMSIZE) \in 1..3 /\ FieldLen(FC.POWTYPE) \in 1..3
    /\ FieldLen(FC.SWVER) \in 1..3
    /\ FieldLen(FC.SNID) \in 1..3 /\ FieldLen(FC.SID) \in 1..3 /\ FieldLen(FC.SENTYPE) \in 1..3
    /\ FieldLen(FC.SENDATATYPE) \in 1..3 /\ FieldLen(FC.SENGETTYPE) \in 1..3
    /\ FieldLen(FC.SENGETINTV) = 6
    /\ FieldLen(FC.ANID) \in 1..3 /\ FieldLen(FC.AID) \in 1..3 /\ FieldLen(FC.ACTTYPE) \in 1..3
    /\ FieldLen(FC.ACTDATATYPE) \in 1..3 /\ FieldLen(FC.ACTGETTYPE) \in 1..3
<1>1. FieldLen(4100) = 0 /\ FieldLen(4101) = 0 /\ FieldLen(4103) = 6 /\ FieldLen(4104) = 2
    BY SMT DEF FieldLen
<1>2. FieldLen(4105) = 1 /\ FieldLen(4106) = 1 /\ FieldLen(4107) = 2 /\ FieldLen(4108) = 1
    BY SMT DEF FieldLen
<1>3. FieldLen(4109) = 1 /\ FieldLen(4110) = 2
    BY SMT DEF FieldLen
<1>4. FieldLen(8192) = 3 /\ FieldLen(8195) = 1 /\ FieldLen(8196) = 1 /\ FieldLen(8197) = 1
    BY SMT DEF FieldLen
<1>5. FieldLen(8198) = 1 /\ FieldLen(8199) = 6
    BY SMT DEF FieldLen
<1>6. FieldLen(12288) = 3 /\ FieldLen(12291) = 1 /\ FieldLen(12292) = 1
    BY SMT DEF FieldLen
<1>7. FieldLen(12293) = 1 /\ FieldLen(12294) = 1
    BY SMT DEF FieldLen
<1> QED BY AttributeNumbers, <1>1, <1>2, <1>3, <1>4, <1>5, <1>6, <1>7, SMT

(* A list of entries, of whatever values, in which all of E are. *)
Run(s) == \E S : s \in Seq(S)
Holding(s, E) == Run(s) /\ \A e \in E : Carries(s, e)

LEMMA RunTogether ==
    ASSUME NEW a, NEW b, Run(a), Run(b)
    PROVE  \E S : a \in Seq(S) /\ b \in Seq(S)
<1>1. PICK A, B : a \in Seq(A) /\ b \in Seq(B) BY DEF Run
<1>2. \A T : Seq(T) = UNION {[1..n -> T] : n \in Nat} BY SeqDef
<1>3. PICK m \in Nat : a \in [1..m -> A] BY <1>1, <1>2
<1>4. PICK n \in Nat : b \in [1..n -> B] BY <1>1, <1>2
<1>5. a \in [1..m -> A \cup B] /\ b \in [1..n -> A \cup B] BY <1>3, <1>4
<1>6. a \in Seq(A \cup B) /\ b \in Seq(A \cup B) BY <1>2, <1>5
<1> QED BY <1>6

LEMMA HoldingBoth ==
    ASSUME NEW a, NEW b, NEW E, NEW F, Holding(a, E), Holding(b, F)
    PROVE  Holding(a \o b, E \cup F)
<1>1. PICK S : a \in Seq(S) /\ b \in Seq(S) BY RunTogether DEF Holding
<1>2. PICK m, n \in Nat : m = Len(a) /\ n = Len(b) /\ DOMAIN a = 1..m /\ DOMAIN b = 1..n
    BY <1>1, LenProperties
<1>3. PICK c : c = a \o b OBVIOUS
<1>4. c \in Seq(S) /\ Len(c) = m + n BY <1>1, <1>2, <1>3, ConcatProperties
<1>5. DOMAIN c = 1..(m + n) BY <1>4, LenProperties
<1>6. ASSUME NEW e \in E PROVE Carries(c, e)
    <2>1. PICK i \in 1..m : a[i] = e BY <1>2 DEF Holding, Carries
    <2>2. i \in 1..(m + n) /\ i <= m OBVIOUS
    <2>3. c[i] = a[i] BY <1>1, <1>2, <1>3, <2>2, ConcatProperties
    <2> QED BY <1>5, <2>1, <2>2, <2>3 DEF Carries
<1>7. ASSUME NEW e \in F PROVE Carries(c, e)
    <2>1. PICK j \in 1..n : b[j] = e BY <1>2 DEF Holding, Carries
    <2>2. m + j \in 1..(m + n) /\ ~(m + j <= m) /\ (m + j) - m = j OBVIOUS
    <2>3. c[m + j] = b[j] BY <1>1, <1>2, <1>3, <2>2, ConcatProperties
    <2> QED BY <1>5, <2>1, <2>2, <2>3 DEF Carries
<1> QED BY <1>3, <1>4, <1>6, <1>7 DEF Holding, Run

LEMMA HoldingOne ==
    ASSUME NEW how, NEW code, NEW val
    PROVE  Holding(Entry(how, code, val), {[how |-> how, code |-> code, val |-> val]})
<1>1. PICK e : e = [how |-> how, code |-> code, val |-> val] OBVIOUS
<1>2. Entry(how, code, val) = <<e>> BY <1>1 DEF Entry
<1>3. <<e>> \in Seq({e}) OBVIOUS
<1>4. Carries(Entry(how, code, val), e) BY <1>1, CarriesOne
<1> QED BY <1>1, <1>2, <1>3, <1>4 DEF Holding, Run

LEMMA HoldingNumber ==
    ASSUME NEW code, NEW n
    PROVE  Holding(Number(code, n), {NumEntry(code, n)})
BY HoldingOne DEF Number, NumEntry

IntervalEntry(code, n) == [how |-> "interval", code |-> code, val |-> <<n>>]
BytesEntry(code, bytes) == [how |-> "bytes", code |-> code, val |-> bytes]

LEMMA HoldingInterval ==
    ASSUME NEW code, NEW n
    PROVE  Holding(Interval(code, n), {IntervalEntry(code, n)})
BY HoldingOne DEF Interval, IntervalEntry

LEMMA HoldingIf ==
    ASSUME NEW condition \in BOOLEAN, NEW s, NEW E, Holding(s, E)
    PROVE  Holding(If(condition, s), IF condition THEN E ELSE {})
<1>1. CASE condition BY <1>1 DEF If
<1>2. CASE ~condition
    <2>1. Holding(<< >>, {}) BY EmptySeq DEF Holding, Run
    <2> QED BY <1>2, <2>1 DEF If
<1> QED BY <1>1, <1>2

(* What the functions made for it put into a message. *)
LEMMA ProfileCarries ==
    ASSUME NEW p, NEW s, s = Profile(p)
    PROVE  /\ Carries(s, BytesEntry(FC.SERIALNUM, p.serial)) /\ Carries(s, BytesEntry(FC.MODELNUM, p.model))
           /\ Carries(s, BytesEntry(FC.IPV6ADDR, p.ipv6))
           /\ Carries(s, NumEntry(FC.INSTSITE, p.installsite)) /\ Carries(s, NumEntry(FC.MCUTYPE, p.mcutype))
           /\ Carries(s, NumEntry(FC.OSTYPE, p.ostype)) /\ Carries(s, NumEntry(FC.OSVER, p.osver))
           /\ Carries(s, NumEntry(FC.RAMSIZE, p.ramsize)) /\ Carries(s, NumEntry(FC.POWTYPE, p.powertype))
           /\ Carries(s, NumEntry(FC.SWVER, p.swver))
<1>1. PICK a, b, c, d : /\ a = Entry("bytes", FC.SERIALNUM, p.serial)
                        /\ b = Entry("bytes", FC.MODELNUM, p.model)
                        /\ c = Entry("bytes", FC.IPV4ADDR, p.ipv4)
                        /\ d = Entry("bytes", FC.IPV6ADDR, p.ipv6)
    OBVIOUS
<1>2. PICK x1, x2, x3, x4 : /\ x1 = BytesEntry(FC.SERIALNUM, p.serial)
                            /\ x2 = BytesEntry(FC.MODELNUM, p.model)
                            /\ x3 = BytesEntry(FC.IPV4ADDR, p.ipv4)
                            /\ x4 = BytesEntry(FC.IPV6ADDR, p.ipv6)
    OBVIOUS
<1>3. Holding(a, {x1}) /\ Holding(b, {x2}) /\ Holding(c, {x3}) /\ Holding(d, {x4})
    BY <1>1, <1>2, HoldingOne DEF BytesEntry
<1>4. PICK e, f, g, i : /\ e = Number(FC.INSTSITE, p.installsite) /\ f = Number(FC.MCUTYPE, p.mcutype)
                        /\ g = Number(FC.OSTYPE, p.ostype) /\ i = Number(FC.OSVER, p.osver)
    OBVIOUS
<1>5. PICK x5, x6, x7, x8 : /\ x5 = NumEntry(FC.INSTSITE, p.installsite)
                            /\ x6 = NumEntry(FC.MCUTYPE, p.mcutype)
                            /\ x7 = NumEntry(FC.OSTYPE, p.ostype) /\ x8 = NumEntry(FC.OSVER, p.osver)
    OBVIOUS
<1>6. Holding(e, {x5}) /\ Holding(f, {x6}) /\ Holding(g, {x7}) /\ Holding(i, {x8})
    BY <1>4, <1>5, HoldingNumber
<1>7. PICK j, k, l : /\ j = Number(FC.RAMSIZE, p.ramsize) /\ k = Number(FC.POWTYPE, p.powertype)
                     /\ l = Number(FC.SWVER, p.swver)
    OBVIOUS
<1>8. PICK x9, x10, x11 : /\ x9 = NumEntry(FC.RAMSIZE, p.ramsize)
                          /\ x10 = NumEntry(FC.POWTYPE, p.powertype) /\ x11 = NumEntry(FC.SWVER, p.swver)
    OBVIOUS
<1>9. Holding(j, {x9}) /\ Holding(k, {x10}) /\ Holding(l, {x11}) BY <1>7, <1>8, HoldingNumber
<1>10. PICK t, T : t = ((a \o b) \o c) \o d /\ T = (({x1} \cup {x2}) \cup {x3}) \cup {x4} OBVIOUS
<1>11. Holding(t, T)
    <2>1. Holding(a \o b, {x1} \cup {x2}) BY <1>3, HoldingBoth
    <2>2. Holding((a \o b) \o c, ({x1} \cup {x2}) \cup {x3}) BY <1>3, <2>1, HoldingBoth
    <2> QED BY <1>3, <1>10, <2>2, HoldingBoth
<1>12. PICK u, U : u = ((t \o e) \o f) \o g /\ U = ((T \cup {x5}) \cup {x6}) \cup {x7} OBVIOUS
<1>13. Holding(u, U)
    <2>1. Holding(t \o e, T \cup {x5}) BY <1>6, <1>11, HoldingBoth
    <2>2. Holding((t \o e) \o f, (T \cup {x5}) \cup {x6}) BY <1>6, <2>1, HoldingBoth
    <2> QED BY <1>6, <1>12, <2>2, HoldingBoth
<1>14. PICK v, V : v = (((u \o i) \o j) \o k) \o l /\ V = (((U \cup {x8}) \cup {x9}) \cup {x10}) \cup {x11}
    OBVIOUS
<1>15. Holding(v, V)
    <2>1. Holding(u \o i, U \cup {x8}) BY <1>6, <1>13, HoldingBoth
    <2>2. Holding((u \o i) \o j, (U \cup {x8}) \cup {x9}) BY <1>9, <2>1, HoldingBoth
    <2>3. Holding(((u \o i) \o j) \o k, ((U \cup {x8}) \cup {x9}) \cup {x10}) BY <1>9, <2>2, HoldingBoth, SMTT(60)
    <2> QED BY <1>9, <1>14, <2>3, HoldingBoth
<1>16. s = v BY <1>1, <1>4, <1>7, <1>10, <1>12, <1>14 DEF Profile
<1>17. /\ x1 \in V /\ x2 \in V /\ x4 \in V /\ x5 \in V /\ x6 \in V /\ x7 \in V /\ x8 \in V
       /\ x9 \in V /\ x10 \in V /\ x11 \in V
    BY <1>10, <1>12, <1>14
<1>18. \A x \in V : Carries(s, x) BY <1>15, <1>16 DEF Holding
<1> QED BY <1>2, <1>5, <1>8, <1>17, <1>18

LEMMA SensorCarries ==
    ASSUME NEW p, NEW s, s = SensorAttr(p)
    PROVE  /\ Carries(s, NumEntry(FC.SNID, GetNid(p.gsid))) /\ Carries(s, NumEntry(FC.SID, GetDevId(p.gsid)))
           /\ Carries(s, NumEntry(FC.SENTYPE, p.sentype)) /\ Carries(s, NumEntry(FC.SENDATATYPE, p.datatype))
           /\ Carries(s, NumEntry(FC.SENGETTYPE, p.gathertype))
           /\ p.gathertype = SensorPeriod => Carries(s, IntervalEntry(FC.SENGETINTV, p.gatherinterval))
           /\ p.gathertype = SensorEvent =>
                /\ Carries(s, IntervalEntry(FC.THRESHOLDTYPE, p.thresholdtype))
                /\ Carries(s, IntervalEntry(FC.THRESHOLD, p.threshold))
<1>1. PICK a, b, c, d, e : /\ a = Number(FC.SNID, GetNid(p.gsid)) /\ b = Number(FC.SID, GetDevId(p.gsid))
                           /\ c = Number(FC.SENTYPE, p.sentype) /\ d = Number(FC.SENDATATYPE, p.datatype)
                           /\ e = Number(FC.SENGETTYPE, p.gathertype)
    OBVIOUS
<1>2. PICK x1, x2, x3, x4, x5 :
         /\ x1 = NumEntry(FC.SNID, GetNid(p.gsid)) /\ x2 = NumEntry(FC.SID, GetDevId(p.gsid))
         /\ x3 = NumEntry(FC.SENTYPE, p.sentype) /\ x4 = NumEntry(FC.SENDATATYPE, p.datatype)
         /\ x5 = NumEntry(FC.SENGETTYPE, p.gathertype)
    OBVIOUS
<1>3. Holding(a, {x1}) /\ Holding(b, {x2}) /\ Holding(c, {x3}) /\ Holding(d, {x4}) /\ Holding(e, {x5})
    BY <1>1, <1>2, HoldingNumber
<1>4. PICK period \in BOOLEAN, event \in BOOLEAN :
         period = (p.gathertype = SensorPeriod) /\ event = (p.gathertype = SensorEvent)
    OBVIOUS
<1>5. PICK f, F : /\ f = If(period, Interval(FC.SENGETINTV, p.gatherinterval))
                  /\ F = IF period THEN {IntervalEntry(FC.SENGETINTV, p.gatherinterval)} ELSE {}
    OBVIOUS
<1>6. Holding(f, F) BY <1>5, HoldingInterval, HoldingIf
<1>7. PICK g, i, j, k : /\ g = Number(FC.MAXVALUE, p.maxval) /\ i = Number(FC.MINVALUE, p.minval)
                        /\ j = Number(FC.PRECISION, p.precision) /\ k = Number(FC.ERRRANGE, p.errrange)
    OBVIOUS
<1>8. PICK G, I, J, K : Holding(g, G) /\ Holding(i, I) /\ Holding(j, J) /\ Holding(k, K)
    BY <1>7, HoldingNumber
<1>9. PICK y, Y : /\ y = Interval(FC.THRESHOLDTYPE, p.thresholdtype) \o Interval(FC.THRESHOLD, p.threshold)
                  /\ Y = {IntervalEntry(FC.THRESHOLDTYPE, p.thresholdtype)}
                         \cup {IntervalEntry(FC.THRESHOLD, p.threshold)}
    OBVIOUS
<1>10. Holding(y, Y) BY <1>9, HoldingInterval, HoldingBoth
<1>11. PICK l, L : l = If(event, y) /\ L = IF event THEN Y ELSE {} OBVIOUS
<1>12. Holding(l, L) BY <1>10, <1>11, HoldingIf
<1>13. PICK t, T : /\ t = (((a \o b) \o c) \o d) \o e
                   /\ T = ((({x1} \cup {x2}) \cup {x3}) \cup {x4}) \cup {x5}
    OBVIOUS
<1>14. Holding(t, T)
    <2>1. Holding(a \o b, {x1} \cup {x2}) BY <1>3, HoldingBoth
    <2>2. Holding((a \o b) \o c, ({x1} \cup {x2}) \cup {x3}) BY <1>3, <2>1, HoldingBoth
    <2>3. Holding(((a \o b) \o c) \o d, (({x1} \cup {x2}) \cup {x3}) \cup {x4}) BY <1>3, <2>2, HoldingBoth
    <2> QED BY <1>3, <1>13, <2>3, HoldingBoth
<1>15. PICK u, U : u = ((t \o f) \o g) \o i /\ U = ((T \cup F) \cup G) \cup I OBVIOUS
<1>16. Holding(u, U)
    <2>1. Holding(t \o f, T \cup F) BY <1>6, <1>14, HoldingBoth
    <2>2. Holding((t \o f) \o g, (T \cup F) \cup G) BY <1>8, <2>1, HoldingBoth
    <2> QED BY <1>8, <1>15, <2>2, HoldingBoth
<1>17. PICK v, V : v = ((u \o j) \o k) \o l /\ V = ((U \cup J) \cup K) \cup L OBVIOUS
<1>18. Holding(v, V)
    <2>1. Holding(u \o j, U \cup J) BY <1>8, <1>16, HoldingBoth
    <2>2. Holding((u \o j) \o k, (U \cup J) \cup K) BY <1>8, <2>1, HoldingBoth, SMTT(60)
    <2> QED BY <1>12, <1>17, <2>2, HoldingBoth
<1>19. s = v BY <1>1, <1>4, <1>5, <1>7, <1>9, <1>11, <1>13, <1>15, <1>17 DEF SensorAttr
<1>20. x1 \in V /\ x2 \in V /\ x3 \in V /\ x4 \in V /\ x5 \in V /\ F \subseteq V /\ L \subseteq V
    BY <1>13, <1>15, <1>17
<1>21. \A x \in V : Carries(s, x) BY <1>18, <1>19 DEF Holding
<1>22. period => Carries(s, IntervalEntry(FC.SENGETINTV, p.gatherinterval)) BY <1>5, <1>20, <1>21
<1>23. event => /\ Carries(s, IntervalEntry(FC.THRESHOLDTYPE, p.thresholdtype))
                /\ Carries(s, IntervalEntry(FC.THRESHOLD, p.threshold))
    BY <1>9, <1>11, <1>20, <1>21
<1> QED BY <1>2, <1>4, <1>20, <1>21, <1>22, <1>23

LEMMA ActuatorCarries ==
    ASSUME NEW p, NEW s, s = ActuatorAttr(p)
    PROVE  /\ Carries(s, NumEntry(FC.ANID, GetNid(p.gaid))) /\ Carries(s, NumEntry(FC.AID, GetDevId(p.gaid)))
           /\ Carries(s, NumEntry(FC.ACTTYPE, p.acttype)) /\ Carries(s, NumEntry(FC.ACTDATATYPE, p.datatype))
           /\ Carries(s, NumEntry(FC.ACTGETTYPE, p.gathertype))
<1>1. PICK a, b, c, d, e : /\ a = Number(FC.ANID, GetNid(p.gaid)) /\ b = Number(FC.AID, GetDevId(p.gaid))
                           /\ c = Number(FC.ACTTYPE, p.acttype) /\ d = Number(FC.ACTDATATYPE, p.datatype)
                           /\ e = Number(FC.ACTGETTYPE, p.gathertype)
    OBVIOUS
<1>2. PICK x1, x2, x3, x4, x5 :
         /\ x1 = NumEntry(FC.ANID, GetNid(p.gaid)) /\ x2 = NumEntry(FC.AID, GetDevId(p.gaid))
         /\ x3 = NumEntry(FC.ACTTYPE, p.acttype) /\ x4 = NumEntry(FC.ACTDATATYPE, p.datatype)
         /\ x5 = NumEntry(FC.ACTGETTYPE, p.gathertype)
    OBVIOUS
<1>3. Holding(a, {x1}) /\ Holding(b, {x2}) /\ Holding(c, {x3}) /\ Holding(d, {x4}) /\ Holding(e, {x5})
    BY <1>1, <1>2, HoldingNumber
<1>4. PICK period \in BOOLEAN : period = (p.gathertype = ActuatorPeriod) OBVIOUS
<1>5. PICK f, F : f = If(period, Interval(FC.SENGETINTV, p.gatherinterval)) /\ Holding(f, F)
    <2>1. PICK q, Q : /\ q = Interval(FC.SENGETINTV, p.gatherinterval)
                      /\ Q = {IntervalEntry(FC.SENGETINTV, p.gatherinterval)}
        OBVIOUS
    <2>2. Holding(q, Q) BY <2>1, HoldingInterval
    <2>3. Holding(If(period, q), IF period THEN Q ELSE {}) BY <2>2, HoldingIf
    <2> QED BY <2>1, <2>3
<1>6. PICK t, T : /\ t = (((a \o b) \o c) \o d) \o e
                  /\ T = ((({x1} \cup {x2}) \cup {x3}) \cup {x4}) \cup {x5}
    OBVIOUS
<1>7. Holding(t, T)
    <2>1. Holding(a \o b, {x1} \cup {x2}) BY <1>3, HoldingBoth
    <2>2. Holding((a \o b) \o c, ({x1} \cup {x2}) \cup {x3}) BY <1>3, <2>1, HoldingBoth
    <2>3. Holding(((a \o b) \o c) \o d, (({x1} \cup {x2}) \cup {x3}) \cup {x4}) BY <1>3, <2>2, HoldingBoth
    <2> QED BY <1>3, <1>6, <2>3, HoldingBoth
<1>8. Holding(t \o f, T \cup F) BY <1>5, <1>7, HoldingBoth
<1>9. s = t \o f BY <1>1, <1>4, <1>5, <1>6 DEF ActuatorAttr
<1>10. x1 \in T /\ x2 \in T /\ x3 \in T /\ x4 \in T /\ x5 \in T BY <1>6
<1>11. \A x \in T : Carries(s, x) BY <1>8, <1>9 DEF Holding
<1> QED BY <1>2, <1>10, <1>11

(* A text that was sent is read, and so is an interval; and whatever was    *)
(* sent is there.                                                           *)
LEMMA TextArrives ==
    ASSUME PastHeader = 1, NEW h \in Headers, NEW entries \in Seq(Entries), Readable(entries),
           NEW code, FieldLen(code) \in {0, 6}, NEW bytes, Carries(entries, BytesEntry(code, bytes)),
           NEW f, f = ReadField(Arrived(h, entries), code)
    PROVE  SubSeq(f.data, 1, f.length) = bytes /\ (FieldLen(code) = 6 => f.length = 6)
<1>1. PICK i \in DOMAIN entries : entries[i] = BytesEntry(code, bytes) BY DEF Carries
<1>2. i \in 1..Len(entries) BY LenProperties
<1>3. PICK e \in Entries : e = entries[i] BY <1>2, ElementOfSeq
<1>4. e.how = "bytes" /\ e.code = code /\ e.val = bytes BY <1>1, <1>3 DEF BytesEntry
<1>5. Fits(e) /\ Whole(e)
    <2>1. FieldLen(e.code) # 4 BY <1>4
    <2> QED BY <1>3, <1>4, <2>1 DEF Readable, Whole
<1>6. Taken(Arrived(h, entries), entries[i]) = bytes BY <1>3, <1>4, <1>5, TakenArrives
<1>7. Taken(Arrived(h, entries), e) = SubSeq(f.data, 1, f.length) BY <1>4 DEF Taken
<1>8. f = FieldFor(e)
    <2>1. Back(e) = FieldFor(e) BY <1>5, FieldBack DEF Back
    <2>2. ReadField(Arrived(h, entries), entries[i].code) = Back(entries[i]) BY <1>2, EntryFound
    <2> QED BY <1>3, <1>4, <2>1, <2>2
<1>9. f.length = Len(bytes) BY <1>4, <1>8 DEF FieldFor, Plain
<1>10. FieldLen(code) = 6 => Len(bytes) = 6
    <2>1. Fitting(bytes, code) BY <1>4 DEF Entries
    <2> QED BY <2>1 DEF Fitting
<1> QED BY <1>3, <1>6, <1>7, <1>9, <1>10

LEMMA IntervalArrives ==
    ASSUME PastHeader = 1, NEW h \in Headers, NEW entries \in Seq(Entries), Readable(entries),
           NEW code, FieldLen(code) = 6, NEW n, Carries(entries, IntervalEntry(code, n))
    PROVE  GetInterval(ReadField(Arrived(h, entries), code).data) = n
<1>1. PICK i \in DOMAIN entries : entries[i] = IntervalEntry(code, n) BY DEF Carries
<1>2. PICK e : e = entries[i] OBVIOUS
<1>3. e.how = "interval" /\ e.code = code /\ e.val = <<n>> BY <1>1, <1>2 DEF IntervalEntry
<1>4. Whole(e)
    <2>1. FieldLen(e.code) # 4 /\ FieldLen(e.code) = 6 BY <1>3
    <2> QED BY <2>1 DEF Whole
<1>5. Taken(Arrived(h, entries), e) = <<n>> BY <1>2, <1>3, <1>4, TakenArrives
<1>6. Taken(Arrived(h, entries), e) = << GetInterval(ReadField(Arrived(h, entries), code).data) >>
    BY <1>3 DEF Taken
<1> QED BY <1>5, <1>6

LEMMA HasArrives ==
    ASSUME NEW h \in Headers, NEW entries \in Seq(Entries), Readable(entries),
           NEW e, Carries(entries, e)
    PROVE  Has(Arrived(h, entries), e.code)
<1>1. PICK i \in DOMAIN entries : entries[i] = e BY DEF Carries
<1>2. i \in 1..Len(entries) /\ e \in Entries
    <2>1. i \in 1..Len(entries) BY LenProperties
    <2> QED BY <1>1, <2>1, ElementOfSeq
<1>3. ReadField(Arrived(h, entries), e.code) = Back(e) BY <1>1, <1>2, EntryFound
<1>4. Back(e) \in Field
    <2>1. PICK f \in Field : f = FieldFor(e) BY <1>2, FieldForOK
    <2>2. PICK c : c = FieldChunk(f) OBVIOUS
    <2>3. c \in Sent BY <2>2, FieldChunkOK DEF Sent
    <2>4. FC.RESCODE <= c.code
        <3>1. FC.RESCODE <= f.code BY DEF Field, Sound
        <3>2. c.code = f.code BY <2>2 DEF FieldChunk
        <3> QED BY <3>1, <3>2
    <2> QED BY <2>1, <2>2, <2>3, <2>4, ReceivedOK DEF Back
<1>5. Back(e).length \in Nat BY <1>4 DEF Field
<1> QED BY <1>3, <1>5 DEF Has

LEMMA IdWhole == \A n \in Int : GetGid(GetNid(n), GetDevId(n)) = n
BY DEF GetGid, GetNid, GetDevId

(* The message came with the entries of what it is about. *)
Told(a, entries, kind) == Describes(kind, a, entries) /\ Readable(entries) /\ entries \in Seq(Entries)

LEMMA ProfileRead ==
    ASSUME PastHeader = 1, NEW h \in Headers, NEW p, NEW s, Told(p, s, "profile"), NEW m, m = Arrived(h, s)
    PROVE  \A k \in DOMAIN p \ FourBytes : k \in DOMAIN ReadProfile(m) /\ ReadProfile(m)[k] = p[k]
<1>1. p \in Profiles /\ s = Profile(p) /\ Readable(s) /\ s \in Seq(Entries) BY DEF Told, Describes
<1>2. /\ SubSeq(ReadField(m, FC.SERIALNUM).data, 1, ReadField(m, FC.SERIALNUM).length) = p.serial
      /\ SubSeq(ReadField(m, FC.MODELNUM).data, 1, ReadField(m, FC.MODELNUM).length) = p.model
    BY <1>1, ProfileCarries, AttributeLengths, TextArrives
<1>3. SubSeq(ReadField(m, FC.IPV6ADDR).data, 1, 6) = p.ipv6
    <2>1. PICK f : f = ReadField(m, FC.IPV6ADDR) OBVIOUS
    <2>2. FieldLen(FC.IPV6ADDR) \in {0, 6} /\ FieldLen(FC.IPV6ADDR) = 6 BY AttributeLengths
    <2>3. Carries(s, BytesEntry(FC.IPV6ADDR, p.ipv6)) BY <1>1, ProfileCarries
    <2>4. SubSeq(f.data, 1, f.length) = p.ipv6 /\ f.length = 6 BY <1>1, <2>1, <2>2, <2>3, TextArrives
    <2> QED BY <2>1, <2>4
<1>4. /\ Num(m, FC.INSTSITE) = p.installsite /\ Num(m, FC.MCUTYPE) = p.mcutype
      /\ Num(m, FC.OSTYPE) = p.ostype /\ Num(m, FC.OSVER) = p.osver
    BY <1>1, ProfileCarries, AttributeLengths, NumArrives
<1>5. /\ Num(m, FC.RAMSIZE) = p.ramsize /\ Num(m, FC.POWTYPE) = p.powertype
      /\ Num(m, FC.SWVER) = p.swver
    BY <1>1, ProfileCarries, AttributeLengths, NumArrives
<1>6. DOMAIN p \ FourBytes = {"serial", "model", "ipv6", "installsite", "mcutype", "ostype", "osver",
                              "ramsize", "powertype", "swver"}
    BY <1>1 DEF Profiles, FourBytes
<1>7. PICK v4 : v4 = SubSeq(ReadField(m, FC.IPV4ADDR).data, 1, 4) OBVIOUS
<1>8. ReadProfile(m) = [serial |-> p.serial, model |-> p.model, ipv4 |-> v4, ipv6 |-> p.ipv6,
                        installsite |-> p.installsite, mcutype |-> p.mcutype, ostype |-> p.ostype,
                        osver |-> p.osver, ramsize |-> p.ramsize, powertype |-> p.powertype,
                        swver |-> p.swver]
    BY <1>2, <1>3, <1>4, <1>5, <1>7 DEF ReadProfile
<1> QED BY <1>6, <1>8

LEMMA SensorRead ==
    ASSUME PastHeader = 1, NEW h \in Headers, NEW a, NEW s, Told(a, s, "sensor"), NEW m, m = Arrived(h, s),
           NEW old
    PROVE  \A k \in DOMAIN a \ (FourBytes \cup (IF a.gathertype = SensorPeriod THEN {} ELSE {"gatherinterval"})) :
             k \in DOMAIN ReadSensorAttr(m, old) /\ ReadSensorAttr(m, old)[k] = a[k]
<1>1. a \in SensorAttrs /\ s = SensorAttr(a) /\ Readable(s) /\ s \in Seq(Entries) BY DEF Told, Describes
<1>2. /\ Num(m, FC.SNID) = GetNid(a.gsid) /\ Num(m, FC.SID) = GetDevId(a.gsid)
      /\ Num(m, FC.SENTYPE) = a.sentype /\ Num(m, FC.SENDATATYPE) = a.datatype
      /\ Num(m, FC.SENGETTYPE) = a.gathertype
    BY <1>1, SensorCarries, AttributeLengths, NumArrives
<1>3. \A e : Carries(s, e) => Has(m, e.code) BY <1>1, HasArrives
<1>4. \A code, n : Carries(s, NumEntry(code, n)) => Has(m, code)
    <2>1. \A code, n : NumEntry(code, n).code = code BY DEF NumEntry
    <2> QED BY <1>3, <2>1
<1>5. \A code, n : Carries(s, IntervalEntry(code, n)) => Has(m, code)
    <2>1. \A code, n : IntervalEntry(code, n).code = code BY DEF IntervalEntry
    <2> QED BY <1>3, <2>1
<1>6. /\ Has(m, FC.SNID) /\ Has(m, FC.SID) /\ Has(m, FC.SENTYPE) /\ Has(m, FC.SENDATATYPE)
      /\ Has(m, FC.SENGETTYPE)
    BY <1>1, <1>4, SensorCarries
<1>7. a.gathertype = SensorPeriod =>
         /\ Has(m, FC.SENGETINTV)
         /\ GetInterval(ReadField(m, FC.SENGETINTV).data) = a.gatherinterval
    BY <1>1, <1>5, SensorCarries, AttributeLengths, IntervalArrives
<1>8. a.gathertype = SensorEvent => Has(m, FC.THRESHOLDTYPE) /\ Has(m, FC.THRESHOLD)
    BY <1>1, <1>5, SensorCarries
<1>9. GetGid(GetNid(a.gsid), GetDevId(a.gsid)) = a.gsid
    <2>1. a.gsid \in Int BY <1>1 DEF SensorAttrs
    <2> QED BY <2>1, IdWhole
<1>10. PICK r : r = ReadSensorAttr(m, old) OBVIOUS
<1>11. PICK x1, x2, x3, x4, x5, x6 :
         r = [stat |-> "NOERROR", gsid |-> a.gsid, sentype |-> a.sentype, datatype |-> a.datatype,
              gathertype |-> a.gathertype,
              gatherinterval |-> IF a.gathertype = SensorPeriod THEN a.gatherinterval ELSE old.gatherinterval,
              maxval |-> x1, minval |-> x2, precision |-> x3, errrange |-> x4,
              thresholdtype |-> x5, threshold |-> x6]
    <2> DEFINE or(code, kept) == IF ReadField(m, code).length > 0 THEN Num(m, code) ELSE kept
               event == a.gathertype = SensorEvent
    <2>1. PICK x1, x2, x3, x4, x5, x6 :
             /\ x1 = or(FC.MAXVALUE, old.maxval) /\ x2 = or(FC.MINVALUE, old.minval)
             /\ x3 = or(FC.PRECISION, old.precision) /\ x4 = or(FC.ERRRANGE, old.errrange)
             /\ x5 = IF event THEN Num(m, FC.THRESHOLDTYPE) ELSE old.thresholdtype
             /\ x6 = IF event THEN Num(m, FC.THRESHOLD) ELSE old.threshold
        OBVIOUS
    <2>2. PICK n : n = IF a.gathertype = SensorPeriod THEN a.gatherinterval ELSE old.gatherinterval
        OBVIOUS
    <2>3. n = IF a.gathertype = SensorPeriod THEN GetInterval(ReadField(m, FC.SENGETINTV).data)
              ELSE old.gatherinterval
        BY <1>7, <2>2
    <2>4. r = [stat |-> "NOERROR", gsid |-> a.gsid, sentype |-> a.sentype, datatype |-> a.datatype,
               gathertype |-> a.gathertype, gatherinterval |-> n, maxval |-> x1, minval |-> x2,
               precision |-> x3, errrange |-> x4, thresholdtype |-> x5, threshold |-> x6]
        BY <1>2, <1>6, <1>7, <1>8, <1>9, <1>10, <2>1, <2>3 DEF ReadSensorAttr
    <2> QED BY <2>2, <2>4
<1>12. DOMAIN a \ FourBytes = {"gsid", "sentype", "datatype", "gathertype", "gatherinterval"}
    BY <1>1 DEF SensorAttrs, FourBytes
<1>13. /\ r.gsid = a.gsid /\ r.sentype = a.sentype /\ r.datatype = a.datatype
       /\ r.gathertype = a.gathertype
       /\ a.gathertype = SensorPeriod => r.gatherinterval = a.gatherinterval
       /\ {"gsid", "sentype", "datatype", "gathertype", "gatherinterval"} \subseteq DOMAIN r
    BY <1>11
<1> QED BY <1>10, <1>12, <1>13

LEMMA ActuatorRead ==
    ASSUME PastHeader = 1, NEW h \in Headers, NEW a, NEW s, Told(a, s, "actuator"), NEW m, m = Arrived(h, s),
           NEW old, a.gathertype # ActuatorPeriod
    PROVE  \A k \in DOMAIN a \ {"gatherinterval"} :
             k \in DOMAIN ReadActuatorAttr(m, old) /\ ReadActuatorAttr(m, old)[k] = a[k]
<1>1. a \in ActuatorAttrs /\ s = ActuatorAttr(a) /\ Readable(s) /\ s \in Seq(Entries) BY DEF Told, Describes
<1>2. /\ Num(m, FC.ANID) = GetNid(a.gaid) /\ Num(m, FC.AID) = GetDevId(a.gaid)
      /\ Num(m, FC.ACTTYPE) = a.acttype /\ Num(m, FC.ACTDATATYPE) = a.datatype
      /\ Num(m, FC.ACTGETTYPE) = a.gathertype
    BY <1>1, ActuatorCarries, AttributeLengths, NumArrives
<1>3. \A code, n : Carries(s, NumEntry(code, n)) => Has(m, code)
    <2>1. \A e : Carries(s, e) => Has(m, e.code) BY <1>1, HasArrives
    <2>2. \A code, n : NumEntry(code, n).code = code BY DEF NumEntry
    <2> QED BY <2>1, <2>2
<1>4. /\ Has(m, FC.ANID) /\ Has(m, FC.AID) /\ Has(m, FC.ACTTYPE) /\ Has(m, FC.ACTDATATYPE)
      /\ Has(m, FC.ACTGETTYPE)
    BY <1>1, <1>3, ActuatorCarries
<1>5. GetGid(GetNid(a.gaid), GetDevId(a.gaid)) = a.gaid
    <2>1. a.gaid \in Int BY <1>1 DEF ActuatorAttrs
    <2> QED BY <2>1, IdWhole
<1>6. PICK r : r = ReadActuatorAttr(m, old) OBVIOUS
<1>7. r = [stat |-> "NOERROR", gaid |-> a.gaid, acttype |-> a.acttype, datatype |-> a.datatype,
           gathertype |-> a.gathertype, gatherinterval |-> old.gatherinterval]
    BY <1>2, <1>4, <1>5, <1>6 DEF ReadActuatorAttr
<1>8. DOMAIN a \ {"gatherinterval"} = {"gaid", "acttype", "datatype", "gathertype"}
    BY <1>1 DEF ActuatorAttrs
<1> QED BY <1>6, <1>7, <1>8

(* A content is what it says it is about, until it has arrived. *)
LoadOK == Describes(sent.kind, sent.about, sent.entries)

LEMMA LoadKept == TravelInv /\ LoadOK /\ [Next]_vars => LoadOK'
<1> SUFFICES ASSUME TravelInv, LoadOK, [Next]_vars PROVE LoadOK'
    OBVIOUS
<1>1. ASSUME NEW h, NEW c, Send(h, c), Describes(c.kind, c.about, c.entries) PROVE LoadOK'
    <2>1. sent' = [header |-> h, kind |-> c.kind, about |-> c.about, entries |-> c.entries]
        BY <1>1, SentOf
    <2>2. sent'.kind = c.kind /\ sent'.about = c.about /\ sent'.entries = c.entries BY <2>1
    <2> QED BY <1>1, <2>2 DEF LoadOK
<1>2. ASSUME NEW h, NEW c, Send(h, c), c.kind \notin {"profile", "sensor", "actuator"} PROVE LoadOK'
    <2>1. Describes(c.kind, c.about, c.entries) BY <1>2 DEF Describes
    <2> QED BY <1>1, <1>2, <2>1
<1>3. CASE SendContent
    <2>1. PICK h \in Headers, c \in Loads : Send(h, c) BY <1>3 DEF SendContent
    <2>2. Describes(c.kind, c.about, c.entries) BY AttributesAssumption, SMT
    <2> QED BY <1>1, <2>1, <2>2
<1>4. CASE SendHistory
    <2>1. PICK h : SendStatBlock(h) \/ SendEnvBlock(h) BY <1>4 DEF SendHistory
    <2>2. PICK c : Send(h, c) /\ c.kind \in {"stat", "env"}
        <3>1. CASE SendStatBlock(h) BY <3>1 DEF SendStatBlock
        <3>2. CASE SendEnvBlock(h) BY <3>2 DEF SendEnvBlock
        <3> QED BY <2>1, <3>1, <3>2
    <2> QED BY <1>2, <2>2
<1>5. CASE SendReport
    <2>1. CASE UNCHANGED sent BY <2>1 DEF LoadOK
    <2>2. CASE ~UNCHANGED sent
        <3>1. PICK h, c : Send(h, c) /\ c.kind \in {"statreport", "envreport", "connect"}
            BY <1>5, <2>2 DEF SendReport
        <3> QED BY <1>2, <3>1
    <2> QED BY <2>1, <2>2
<1>6. CASE Release
    <2>1. sent'.kind = "request" BY <1>6 DEF Release, Nothing
    <2> QED BY <2>1 DEF LoadOK, Describes
<1>7. CASE UNCHANGED sent
    BY <1>7 DEF LoadOK
<1>8. Generate \/ Damage \/ Parse \/ FillBlock \/ ChangeNodes \/ UNCHANGED vars => UNCHANGED sent
    BY DEF Generate, Damage, Parse, FillBlock, ChangeNodes, pipe, vars
<1> QED BY <1>3, <1>4, <1>5, <1>6, <1>7, <1>8 DEF Next

(* Two applications that use the functions the library has for it agree on  *)
(* a profile and on the attributes of sensors and actuators, but for the    *)
(* values of four bytes, the threshold and an actuator's interval - which   *)
(* they disagree on, as AttributesRead shows.                               *)
THEOREM AttributesArrive == ASSUME PastHeader = 1 PROVE Spec => []SmallAttributesRead
<1>1. Init => LoadOK BY DEF Init, Nothing, LoadOK, Describes
<1>2. Spec => []TravelInv BY Travel
<1>3. TravelInv /\ LoadOK /\ [Next]_vars => LoadOK' BY LoadKept
<1>4. ASSUME TravelInv, LoadOK, Described, ~(sent.kind = "actuator" /\ sent.about.gathertype = ActuatorPeriod)
      PROVE  Agree(sent.kind, sent.about, FourBytes)
    <2>0. PICK a : a = sent.about OBVIOUS
    <2>1. PICK h \in Headers, s \in Seq(Entries) :
             s = sent.entries /\ got = Arrived(h, s) /\ Readable(s) /\ a = sent.about
        BY <1>4, <2>0 DEF TravelInv, SentOK, Made, Described
    <2>2. Told(a, s, sent.kind) BY <1>4, <2>1 DEF LoadOK, Told
    <2>3. CASE sent.kind = "profile"
        <3>1. Read("profile", a) = ReadProfile(got) /\ Unused("profile", a) = {} BY DEF Read, Unused
        <3> QED BY <2>1, <2>2, <2>3, <3>1, ProfileRead DEF Agree
    <2>4. CASE sent.kind = "sensor"
        <3>1. Read("sensor", a) = ReadSensorAttr(got, Other(a)) BY DEF Read
        <3>2. PICK U : U = (IF a.gathertype = SensorPeriod THEN {} ELSE {"gatherinterval"}) OBVIOUS
        <3>3. U \subseteq Unused("sensor", a) BY <3>2 DEF Unused
        <3>4. \A k \in DOMAIN a \ (FourBytes \cup U) :
                 k \in DOMAIN ReadSensorAttr(got, Other(a)) /\ ReadSensorAttr(got, Other(a))[k] = a[k]
            BY <2>1, <2>2, <2>4, <3>2, SensorRead
        <3> QED BY <2>1, <2>4, <3>1, <3>3, <3>4 DEF Agree
    <2>5. CASE sent.kind = "actuator"
        <3>1. a.gathertype # ActuatorPeriod BY <1>4, <2>1, <2>5
        <3>2. Read("actuator", a) = ReadActuatorAttr(got, Other(a)) BY DEF Read
        <3>3. Unused("actuator", a) = {"gatherinterval"} BY <3>1 DEF Unused
        <3>4. \A k \in DOMAIN a \ {"gatherinterval"} :
                 k \in DOMAIN ReadActuatorAttr(got, Other(a)) /\ ReadActuatorAttr(got, Other(a))[k] = a[k]
            BY <2>1, <2>2, <2>5, <3>1, ActuatorRead
        <3> QED BY <2>1, <2>5, <3>2, <3>3, <3>4 DEF Agree
    <2> QED BY <1>4, <2>3, <2>4, <2>5 DEF Described
<1>5. TravelInv /\ LoadOK => SmallAttributesRead BY <1>4 DEF SmallAttributesRead
<1> QED BY <1>1, <1>2, <1>3, <1>5, PTL DEF Spec
=============================================================================
