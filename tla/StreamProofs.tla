---------------------------- MODULE StreamProofs ----------------------------
(***************************************************************************)
(* Proofs about Stream, for every set of frames, every header length and   *)
(* every way the bytes are cut up.                                         *)
(***************************************************************************)
EXTENDS Stream, SequenceTheorems, TLAPS

LEMMA FunctionIsSeq ==
    ASSUME NEW S, NEW n \in Nat, NEW g \in [1..n -> S]
    PROVE  g \in Seq(S) /\ Len(g) = n
<1>1. g \in Seq(S) BY SeqDef, Zenon
<1> QED BY <1>1, LenProperties

(* tp3_set4bytes and tp3_readnum are inverses on the numbers an int holds. *)
LEMMA WordRoundTrip ==
    ASSUME NEW n \in 0..IntMax
    PROVE  /\ SetBytes(4, n) \in Seq(Byte) /\ Len(SetBytes(4, n)) = 4
           /\ ReadNum(SetBytes(4, n)) = n
<1> DEFINE b == SetBytes(4, n)
<1>1. b = [i \in 1..4 |-> (n \div Place[5 - i]) % 256]
    BY DEF SetBytes
<1>2. /\ b[1] = (n \div (256 * 256 * 256)) % 256 /\ b[2] = (n \div (256 * 256)) % 256
      /\ b[3] = (n \div 256) % 256 /\ b[4] = n % 256
    BY <1>1, SMT DEF Place
<1>3. n \in Nat /\ n < 128 * 256 * 256 * 256
    BY SMT DEF IntMax, Place
<1> HIDE DEF b
<1>4. \A i \in 1..4 : b[i] \in Byte
    BY <1>2, <1>3, SMT DEF Byte
<1>5. b[1] < 128
    BY <1>2, <1>3, SMT
<1>6. b[4] + 256 * b[3] + (256 * 256) * b[2] + (256 * 256 * 256) * b[1] = n
    BY <1>2, <1>3, SMT
<1>7. b \in Seq(Byte) /\ Len(b) = 4
    <2>1. b \in [1..4 -> Byte] BY <1>1, <1>4, SMT
    <2>2. 4 \in Nat OBVIOUS
    <2> QED BY <2>1, <2>2, FunctionIsSeq, ZenonT(30)
<1>8. ReadNum(b) = b[4] + 256 * b[3] + (256 * 256) * b[2] + (256 * 256 * 256) * b[1]
    BY <1>4, <1>5, <1>7, SMT DEF ReadNum, Place, Byte
<1> QED BY <1>6, <1>7, <1>8 DEF b

-----------------------------------------------------------------------------
(* Type correctness *)

LEMMA InitType == Init => TypeOK
<1> SUFFICES ASSUME Init PROVE TypeOK
    OBVIOUS
<1>1. \A S : << >> \in Seq(S) /\ Len(<< >>) = 0
    BY EmptySeq
<1>2. arrived \in 0..Len(out) /\ taken \in 0..arrived
    BY <1>1 DEF Init
<1> QED BY <1>1, <1>2 DEF Init, TypeOK

LEMMA ConcatThree ==
    ASSUME NEW S, NEW a \in Seq(S), NEW b \in Seq(S), NEW c \in Seq(S),
           NEW o, o = a \o b \o c
    PROVE  /\ o \in Seq(S) /\ Len(o) = Len(a) + Len(b) + Len(c)
           /\ \A k \in 1..Len(a) : o[k] = a[k]
           /\ \A k \in 1..Len(b) : o[Len(a) + k] = b[k]
           /\ \A k \in 1..Len(c) : o[Len(a) + Len(b) + k] = c[k]
<1>1. Len(a) \in Nat /\ Len(b) \in Nat /\ Len(c) \in Nat
    BY LenProperties
<1>2. PICK q \in Seq(S) : q = a \o b
    BY ConcatProperties
<1>3. /\ Len(q) = Len(a) + Len(b)
      /\ \A k \in 1 .. Len(a) + Len(b) : q[k] = IF k <= Len(a) THEN a[k] ELSE b[k - Len(a)]
    BY <1>2, ConcatProperties
<1>4. o \in Seq(S) /\ o = q \o c
    BY <1>2, ConcatProperties
<1>5. /\ Len(o) = Len(q) + Len(c)
      /\ \A k \in 1 .. Len(q) + Len(c) : o[k] = IF k <= Len(q) THEN q[k] ELSE c[k - Len(q)]
    BY <1>4, ConcatProperties
<1>6. Len(o) = Len(a) + Len(b) + Len(c)
    BY <1>1, <1>3, <1>5
<1>8. ASSUME NEW k \in 1..Len(a) PROVE o[k] = a[k]
    <2>1. k \in 1 .. Len(a) + Len(b) /\ k \in 1 .. Len(q) + Len(c) /\ k <= Len(q) /\ k <= Len(a)
        BY <1>1, <1>3
    <2> QED BY <2>1, <1>3, <1>5
<1>9. ASSUME NEW k \in 1..Len(b) PROVE o[Len(a) + k] = b[k]
    <2> DEFINE j == Len(a) + k
    <2>1. /\ j \in 1 .. Len(a) + Len(b) /\ j \in 1 .. Len(q) + Len(c)
          /\ j <= Len(q) /\ ~(j <= Len(a)) /\ j - Len(a) = k
        BY <1>1, <1>3
    <2> HIDE DEF j
    <2>2. o[j] = q[j] /\ q[j] = b[k] BY <2>1, <1>3, <1>5
    <2> QED BY <2>2 DEF j
<1>10. ASSUME NEW k \in 1..Len(c) PROVE o[Len(a) + Len(b) + k] = c[k]
    <2> DEFINE j == Len(a) + Len(b) + k
    <2>1. /\ j \in 1 .. Len(q) + Len(c) /\ ~(j <= Len(q)) /\ j - Len(q) = k
        BY <1>1, <1>3
    <2> HIDE DEF j
    <2>2. o[j] = c[k] BY <2>1, <1>5
    <2> QED BY <2>2 DEF j
<1> QED BY <1>4, <1>6, <1>8, <1>9, <1>10

(* What tp3_writeframe puts on the stream behind what is there. *)
LEMMA Written ==
    ASSUME TypeOK, NEW f \in Frame
    PROVE  LET p == SetBytes(4, Len(f))
               o == out \o p \o f
           IN  /\ f \in Seq(Byte) /\ Len(f) \in 0..IntMax
               /\ p \in Seq(Byte) /\ Len(p) = 4 /\ ReadNum(p) = Len(f)
               /\ o \in Seq(Byte) /\ Len(o) = Len(out) + FrameSize(f)
               /\ \A k \in 1..Len(out) : o[k] = out[k]
               /\ \A k \in 1..4 : o[Len(out) + k] = p[k]
               /\ \A k \in 1..Len(f) : o[Len(out) + 4 + k] = f[k]
<1> DEFINE p == SetBytes(4, Len(f))
           o == out \o p \o f
<1>1. IntMax \in Nat BY SMT DEF IntMax, Place
<1>2. f \in Seq(Byte) /\ Len(f) \in 0..IntMax
    BY <1>1, StreamOK, LenProperties
<1>3. p \in Seq(Byte) /\ Len(p) = 4 /\ ReadNum(p) = Len(f)
    BY <1>2, WordRoundTrip
<1>4. out \in Seq(Byte) BY DEF TypeOK
<1>5. /\ o \in Seq(Byte) /\ Len(o) = Len(out) + Len(p) + Len(f)
      /\ \A k \in 1..Len(out) : o[k] = out[k]
      /\ \A k \in 1..Len(p) : o[Len(out) + k] = p[k]
      /\ \A k \in 1..Len(f) : o[Len(out) + Len(p) + k] = f[k]
    <2>1. o = out \o p \o f OBVIOUS
    <2> HIDE DEF p, o
    <2>2. f \in Seq(Byte) /\ p \in Seq(Byte) BY <1>2, <1>3
    <2> QED BY <2>1, <2>2, <1>4, ConcatThree
<1> HIDE DEF o, p
<1>6. Len(out) \in Nat /\ Len(f) \in Nat BY <1>2, <1>4, LenProperties
<1>7. /\ Len(o) = Len(out) + FrameSize(f)
      /\ \A k \in 1..4 : o[Len(out) + k] = p[k]
      /\ \A k \in 1..Len(f) : o[Len(out) + 4 + k] = f[k]
    BY <1>3, <1>5, <1>6 DEF FrameSize
<1> QED BY <1>2, <1>3, <1>5, <1>7, Zenon DEF o, p

-----------------------------------------------------------------------------
(* The inductive invariant: where every frame lies in the stream, and that *)
(* the reader stands at the beginning of one.                              *)

Holds(o, es, fs, i) ==
    LET e == EndOf(es, i - 1)
    IN  /\ es[i] = e + FrameSize(fs[i])
        /\ \A k \in 1..4 : o[e + k] = SetBytes(4, Len(fs[i]))[k]
        /\ \A k \in 1..Len(fs[i]) : o[e + 4 + k] = fs[i][k]

Layout ==
    /\ Len(ends) = Len(sent)
    /\ Len(out) = EndOf(ends, Len(sent))
    /\ \A i \in 1..Len(sent) : ends[i] <= Len(out) /\ Holds(out, ends, sent, i)

InSync == ReadInOrder /\ taken = EndOf(ends, Len(got))

IInv == TypeOK /\ Layout /\ InSync

LEMMA InitInv == Init => IInv
<1> SUFFICES ASSUME Init PROVE IInv
    OBVIOUS
<1>1. Len(<< >>) = 0 BY EmptySeq
<1>2. EndOf(ends, 0) = 0 BY DEF EndOf
<1> QED BY <1>1, <1>2, InitType DEF Init, IInv, Layout, InSync, ReadInOrder

(* The types of what a step reads, for the provers. *)
LEMMA Lengths ==
    ASSUME IInv
    PROVE  /\ Len(sent) \in Nat /\ Len(got) \in 0..Len(sent) /\ Len(ends) = Len(sent)
           /\ Len(out) \in Nat /\ arrived \in 0..Len(out) /\ taken \in 0..arrived
           /\ \A i \in 1..Len(sent) : ends[i] \in Nat /\ sent[i] \in Frame
           /\ \A i \in 0..Len(sent) : EndOf(ends, i) \in Nat
<1>1. sent \in Seq(Frame) /\ got \in Seq(Seq(Byte)) /\ out \in Seq(Byte) /\ ends \in Seq(Nat)
    BY DEF IInv, TypeOK
<1>2. Len(sent) \in Nat /\ Len(got) \in Nat /\ Len(out) \in Nat
    BY <1>1, LenProperties
<1>3. Len(got) <= Len(sent) /\ Len(ends) = Len(sent)
    BY DEF IInv, InSync, ReadInOrder, Layout
<1>4. \A i \in 1..Len(sent) : ends[i] \in Nat /\ sent[i] \in Frame
    BY <1>1, <1>3, ElementOfSeq
<1>5. \A i \in 0..Len(sent) : EndOf(ends, i) \in Nat
    BY <1>2, <1>4 DEF EndOf
<1> QED BY <1>2, <1>3, <1>4, <1>5 DEF IInv, TypeOK

(* When four bytes are in the buffer, they are the length of the frame     *)
(* that is to be read next, and its data follows them in the stream.       *)
LEMMA HeadFrame ==
    ASSUME IInv, InBuf >= 4
    PROVE  LET i == Len(got) + 1
           IN  /\ i \in 1..Len(sent) /\ sent[i] \in Seq(Byte) /\ Len(sent[i]) \in Nat
               /\ Length = Len(sent[i])
               /\ ends[i] = taken + 4 + Len(sent[i])
               /\ SubSeq(out, taken + 5, taken + 4 + Length) = sent[i]
<1> DEFINE i == Len(got) + 1
<1>1. i \in 1..Len(sent)
    <2>1. Len(got) # Len(sent)
        BY Lengths DEF IInv, InSync, Layout, InBuf
    <2> QED BY <2>1, Lengths
<1>2. EndOf(ends, i - 1) = taken
    BY Lengths DEF IInv, InSync
<1>3. /\ ends[i] <= Len(out) /\ Holds(out, ends, sent, i)
    BY <1>1 DEF IInv, Layout
<1>4. PICK f \in Frame : f = sent[i]
    BY <1>1, Lengths
<1>5. f \in Seq(Byte) /\ Len(f) \in 0..IntMax
    <2>1. IntMax \in Nat BY SMT DEF IntMax, Place
    <2> QED BY <2>1, StreamOK, LenProperties
<1>6. /\ ends[i] = taken + 4 + Len(f)
      /\ \A k \in 1..4 : out[taken + k] = SetBytes(4, Len(f))[k]
      /\ \A k \in 1..Len(f) : out[taken + 4 + k] = f[k]
    <2> HIDE DEF i
    <2>1. /\ ends[i] = EndOf(ends, i - 1) + (4 + Len(f))
          /\ \A k \in 1..4 : out[EndOf(ends, i - 1) + k] = SetBytes(4, Len(f))[k]
          /\ \A k \in 1..Len(f) : out[EndOf(ends, i - 1) + 4 + k] = f[k]
        BY <1>3, <1>4, Zenon DEF Holds, FrameSize
    <2>2. taken \in Nat /\ Len(f) \in Nat BY <1>5, Lengths
    <2>3. ends[i] = taken + 4 + Len(f) BY <2>1, <2>2, <1>2
    <2> QED BY <2>1, <2>3, <1>2, Zenon
<1>7. taken \in Nat /\ Len(f) \in Nat /\ taken + 4 + Len(f) <= Len(out)
    BY <1>3, <1>5, <1>6, Lengths
<1>8. \A k \in 1..Len(out) : out[k] \in Byte
    BY ElementOfSeq DEF IInv, TypeOK
<1> HIDE DEF i
<1>9. SubSeq(out, taken + 1, taken + 4) = SetBytes(4, Len(f))
    <2> DEFINE s == SubSeq(out, taken + 1, taken + 4)
               p == SetBytes(4, Len(f))
    <2>1. \A k \in taken + 1 .. taken + 4 : out[k] \in Byte
        BY <1>7, <1>8, Lengths
    <2>2. /\ s \in Seq(Byte) /\ Len(s) = 4
          /\ \A k \in 1..4 : s[k] = out[taken + k]
        BY <2>1, <1>7, SubSeqProperties
    <2>3. p \in Seq(Byte) /\ Len(p) = 4
        BY <1>5, WordRoundTrip
    <2>4. \A k \in 1..4 : s[k] = p[k]
        BY <2>2, <1>6
    <2> HIDE DEF s, p
    <2> QED BY <2>2, <2>3, <2>4, SeqEqual DEF s, p
<1>10. Length = Len(f)
    BY <1>5, <1>9, WordRoundTrip DEF Length
<1>11. SubSeq(out, taken + 5, taken + 4 + Len(f)) = f
    <2> DEFINE s == SubSeq(out, taken + 5, taken + 4 + Len(f))
    <2>1. \A k \in taken + 5 .. taken + 4 + Len(f) : out[k] \in Byte
        BY <1>7, <1>8, Lengths
    <2>2. /\ s \in Seq(Byte) /\ Len(s) = Len(f)
          /\ \A k \in 1..Len(f) : s[k] = out[taken + 4 + k]
        BY <2>1, <1>7, SubSeqProperties
    <2>3. \A k \in 1..Len(s) : s[k] = f[k]
        BY <2>2, <1>6
    <2> HIDE DEF s
    <2> QED BY <2>2, <2>3, <1>5, SeqEqual DEF s
<1> QED BY <1>1, <1>4, <1>5, <1>6, <1>7, <1>10, <1>11 DEF i

-----------------------------------------------------------------------------
(* Every step preserves the invariant. *)

LEMMA WriteInv ==
    ASSUME IInv, NEW f \in Frame, NEW len \in BufLen, Write(f, len)
    PROVE  IInv'
<1>1. CASE stat' = "FRAMEFMT_ERR" /\ UNCHANGED <<sent, ends, out>>
    <2>1. UNCHANGED <<arrived, taken, need, frame, ret, got>>
        BY DEF Write, reader
    <2> QED BY <1>1, <2>1 DEF IInv, TypeOK, Layout, Holds, EndOf, InSync, ReadInOrder
<1>2. CASE /\ stat' = "NOERROR" /\ out' = out \o SetBytes(4, Len(f)) \o f
           /\ sent' = Append(sent, f) /\ ends' = Append(ends, Len(out) + FrameSize(f))
    <2>1. UNCHANGED <<arrived, taken, need, frame, ret, got>>
        BY DEF Write, reader
    <2>2. /\ f \in Seq(Byte) /\ Len(f) \in Nat
          /\ out' \in Seq(Byte) /\ Len(out') = Len(out) + FrameSize(f)
          /\ \A k \in 1..Len(out) : out'[k] = out[k]
          /\ \A k \in 1..4 : out'[Len(out) + k] = SetBytes(4, Len(f))[k]
          /\ \A k \in 1..Len(f) : out'[Len(out) + 4 + k] = f[k]
        BY <1>2, Written, LenProperties DEF IInv
    <2>3. Len(out) + FrameSize(f) \in Nat
        BY <2>2, Lengths DEF FrameSize
    <2>4. sent \in Seq(Frame) /\ ends \in Seq(Nat)
        BY DEF IInv, TypeOK
    <2>5. /\ sent' \in Seq(Frame) /\ Len(sent') = Len(sent) + 1
          /\ \A i \in 1..Len(sent) : sent'[i] = sent[i]
          /\ sent'[Len(sent) + 1] = f
        BY <1>2, <2>4, AppendProperties
    <2>a. /\ ends' \in Seq(Nat) /\ Len(ends') = Len(ends) + 1
          /\ \A i \in 1..Len(ends) : ends'[i] = ends[i]
          /\ ends'[Len(ends) + 1] = Len(out) + FrameSize(f)
        BY <1>2, <2>3, <2>4, AppendProperties
    <2>6. /\ ends' \in Seq(Nat) /\ Len(ends') = Len(sent) + 1
          /\ \A i \in 1..Len(sent) : ends'[i] = ends[i]
          /\ ends'[Len(sent) + 1] = Len(out) + FrameSize(f)
        BY <2>a, Lengths
    <2>7. TypeOK'
        BY <1>2, <2>1, <2>2, <2>3, <2>5, <2>6, Lengths DEF IInv, TypeOK, FrameSize
    <2>8. /\ \A i \in 0..Len(sent) : EndOf(ends', i) = EndOf(ends, i)
          /\ EndOf(ends', Len(sent) + 1) = Len(out')
        <3>1. ASSUME NEW i \in 0..Len(sent) PROVE EndOf(ends', i) = EndOf(ends, i)
            BY <2>6, Lengths DEF EndOf
        <3>2. Len(sent) + 1 # 0 BY Lengths
        <3> QED BY <3>1, <3>2, <2>2, <2>6 DEF EndOf
    <2>9. ASSUME NEW i \in 1..Len(sent) PROVE ends'[i] <= Len(out') /\ Holds(out', ends', sent', i)
        <3>1. PICK g \in Frame : g = sent[i] /\ Len(g) \in Nat
            BY Lengths, StreamOK, LenProperties
        <3>2. PICK e \in Nat : e = EndOf(ends, i - 1) /\ e = EndOf(ends', i - 1)
            <4>1. i - 1 \in 0..Len(sent) BY Lengths
            <4> QED BY <4>1, <2>8, Lengths
        <3>3. /\ ends[i] <= Len(out) /\ ends[i] = e + FrameSize(g)
              /\ \A k \in 1..4 : out[e + k] = SetBytes(4, Len(g))[k]
              /\ \A k \in 1..Len(g) : out[e + 4 + k] = g[k]
            <4>1. ends[i] <= Len(out) /\ Holds(out, ends, sent, i) BY DEF IInv, Layout
            <4> QED BY <4>1, <3>1, <3>2, Zenon DEF Holds
        <3>4. e + 4 + Len(g) <= Len(out) /\ e \in Nat /\ Len(g) \in Nat
            BY <3>1, <3>2, <3>3, Lengths DEF FrameSize
        <3>5. ASSUME NEW k \in 1..4 PROVE out'[e + k] = SetBytes(4, Len(g))[k]
            <4>1. e + k \in 1..Len(out)
                <5>1. Len(out) \in Nat BY Lengths
                <5> QED BY <3>4, <5>1
            <4> QED BY <4>1, <3>3, <2>2
        <3>6. ASSUME NEW k \in 1..Len(g) PROVE out'[e + 4 + k] = g[k]
            <4>1. e + 4 + k \in 1..Len(out)
                <5>1. Len(out) \in Nat BY Lengths
                <5> QED BY <3>4, <5>1
            <4> QED BY <4>1, <3>3, <2>2
        <3>7. ends'[i] = e + FrameSize(g) /\ sent'[i] = g
            BY <3>1, <3>3, <2>5, <2>6
        <3>8. ends'[i] <= Len(out')
            BY <3>3, <2>2, <2>3, <2>6, Lengths DEF FrameSize
        <3> QED BY <3>2, <3>5, <3>6, <3>7, <3>8, Zenon DEF Holds
    <2>10. ends'[Len(sent) + 1] <= Len(out') /\ Holds(out', ends', sent', Len(sent) + 1)
        <3> DEFINE i == Len(sent) + 1
        <3>1. EndOf(ends', i - 1) = Len(out)
            BY <2>8, Lengths DEF IInv, Layout
        <3>2. ends'[i] = Len(out) + FrameSize(f) /\ sent'[i] = f /\ ends'[i] <= Len(out')
            BY <2>2, <2>3, <2>5, <2>6
        <3> HIDE DEF i
        <3>3. Holds(out', ends', sent', i) BY <3>1, <3>2, <2>2, Zenon DEF Holds
        <3> QED BY <3>2, <3>3 DEF i
    <2>11. Layout'
        <3>1. \A i \in 1 .. Len(sent) + 1 : ends'[i] <= Len(out') /\ Holds(out', ends', sent', i)
            <4>1. \A i \in 1 .. Len(sent) + 1 : i \in 1..Len(sent) \/ i = Len(sent) + 1
                BY Lengths
            <4> QED BY <4>1, <2>9, <2>10, Zenon
        <3> QED BY <3>1, <2>5, <2>6, <2>8, Zenon DEF Layout
    <2>12. InSync'
        BY <2>1, <2>5, <2>8, Lengths DEF IInv, InSync, ReadInOrder
    <2> QED BY <2>7, <2>11, <2>12 DEF IInv
<1> QED BY <1>1, <1>2 DEF Write

LEMMA ArriveInv ==
    ASSUME IInv, NEW n \in 1..(Len(out) - arrived), Arrive(n)
    PROVE  IInv'
<1>1. UNCHANGED <<writer, reader>> /\ arrived' \in 0..Len(out) /\ arrived <= arrived'
    BY Lengths DEF Arrive
<1>2. taken \in 0..arrived'
    BY <1>1, Lengths
<1> QED BY <1>1, <1>2 DEF writer, reader, IInv, TypeOK, Layout, Holds, EndOf, InSync, ReadInOrder

(* A call of tp3_readframe that takes nothing from the buffer. *)
LEMMA WaitInv ==
    ASSUME IInv, UNCHANGED <<writer, arrived, taken, got>>,
           ret' \in Int, need' \in Nat, frame' \in [length : Int, data : Seq(Byte)]
    PROVE  IInv'
BY DEF writer, IInv, TypeOK, Layout, Holds, EndOf, InSync, ReadInOrder

LEMMA ReadInv ==
    ASSUME IInv, Read
    PROVE  IInv'
<1> USE DEF Read, Called
<1>1. frame \in [length : Int, data : Seq(Byte)] /\ InBuf \in Nat /\ HeaderLen \in Nat
    BY Lengths, StreamOK DEF IInv, TypeOK, InBuf
<1>2. CASE ReadPrefix
    <2>1. ret' = InBuf - 4 /\ need' = 4
        BY <1>1, <1>2 DEF ReadPrefix, Short, Missing
    <2> QED BY <1>1, <1>2, <2>1, WaitInv DEF ReadPrefix, Short
<1>3. CASE ReadPart
    <2>1. Length \in Nat BY <1>3, HeadFrame DEF ReadPart
    <2>2. ret' = InBuf - (Length + 4) /\ need' = Length + 4
        BY <1>1, <1>3, <2>1 DEF ReadPart, Short, Missing
    <2>3. frame' \in [length : Int, data : Seq(Byte)]
        BY <1>1, <1>3, <2>1 DEF ReadPart
    <2> QED BY <1>1, <1>3, <2>1, <2>2, <2>3, WaitInv DEF ReadPart, Short
<1>4. CASE ReadBad
    <2>1. Length \in Nat BY <1>4, HeadFrame DEF ReadBad
    <2>2. ret' = -HeaderLen /\ need' = InBuf + HeaderLen
        BY <1>1, <1>4 DEF ReadBad, Short
    <2>3. frame' \in [length : Int, data : Seq(Byte)]
        BY <1>1, <1>4, <2>1 DEF ReadBad
    <2> QED BY <1>1, <1>4, <2>2, <2>3, WaitInv DEF ReadBad, Short
<1>5. CASE ReadNoMemory
    <2>1. Length \in Nat BY <1>5, HeadFrame DEF ReadNoMemory
    <2>2. frame' \in [length : Int, data : Seq(Byte)]
        BY <1>5, <2>1, EmptySeq DEF ReadNoMemory
    <2>3. need' \in Nat /\ ret' = 0
        BY <1>5 DEF ReadNoMemory, IInv, TypeOK
    <2> QED BY <1>5, <2>2, <2>3, WaitInv DEF ReadNoMemory
<1>6. CASE ReadWhole
    <2> DEFINE i == Len(got) + 1
    <2>1. /\ i \in 1..Len(sent) /\ sent[i] \in Seq(Byte)
          /\ Length \in Nat /\ ends[i] = taken + 4 + Length
          /\ SubSeq(out, taken + 5, taken + 4 + Length) = sent[i]
        BY <1>6, HeadFrame DEF ReadWhole
    <2>2. /\ frame' = [length |-> Length, data |-> sent[i]]
          /\ ret' = Length + 4 /\ taken' = ends[i] /\ need' = 0
          /\ got' = Append(got, sent[i]) /\ taken' <= arrived
        <3> HIDE DEF i
        <3>1. frame' = [length |-> Length, data |-> sent[i]]
            BY <1>6, <2>1, Zenon DEF ReadWhole
        <3>2. got' = Append(got, sent[i]) /\ need' = 0
            <4>1. got' = Append(got, frame'.data) /\ need' = 0 BY <1>6 DEF ReadWhole
            <4> QED BY <4>1, <3>1
        <3>3. ret' = Length + 4 /\ taken' = taken + ret' /\ arrived - taken >= Length + 4
            BY <1>6, Zenon DEF ReadWhole, Used, InBuf
        <3>4. taken \in Nat /\ arrived \in Nat BY Lengths
        <3> QED BY <2>1, <3>1, <3>2, <3>3, <3>4
    <2>3. got \in Seq(Seq(Byte)) BY DEF IInv, TypeOK
    <2>4. /\ got' \in Seq(Seq(Byte)) /\ Len(got') = i
          /\ \A j \in 1..Len(got) : got'[j] = got[j]
          /\ got'[i] = sent[i]
        BY <2>1, <2>2, <2>3, AppendProperties
    <2>5. UNCHANGED <<sent, ends, out, stat, arrived>>
        BY DEF writer
    <2>6. TypeOK'
        <3> HIDE DEF i
        <3>1. Length \in Int /\ sent[i] \in Seq(Byte) /\ ends[i] \in Nat
            BY <2>1, Lengths
        <3>2. /\ sent \in Seq(Frame) /\ out \in Seq(Byte) /\ ends \in Seq(Nat)
              /\ stat \in {"NOERROR", "FRAMEFMT_ERR"} /\ arrived \in 0..Len(out)
            BY DEF IInv, TypeOK
        <3>3. frame' \in [length : Int, data : Seq(Byte)]
            BY <2>2, <3>1, Zenon
        <3>4. arrived' \in Nat /\ taken' \in 0..arrived'
            BY <2>2, <2>5, <3>1, Lengths
        <3>5. ret' \in Int /\ need' \in Nat
            BY <2>2, <3>1
        <3>6. /\ sent' \in Seq(Frame) /\ out' \in Seq(Byte) /\ ends' \in Seq(Nat)
              /\ stat' \in {"NOERROR", "FRAMEFMT_ERR"} /\ arrived' \in 0..Len(out')
            BY <2>5, <3>2
        <3> QED BY <2>4, <3>3, <3>4, <3>5, <3>6, Zenon DEF TypeOK
    <2>7. Layout'
        BY <2>5 DEF IInv, Layout, Holds, EndOf
    <2>8. EndOf(ends', Len(got')) = taken'
        BY <2>1, <2>2, <2>4, <2>5 DEF EndOf
    <2>9. ReadInOrder'
        <3>1. Len(got) \in Nat /\ Len(got') <= Len(sent')
            BY <2>1, <2>4, <2>5, Lengths
        <3>2. \A j \in 1..Len(got) : got[j] = sent[j]
            BY DEF IInv, InSync, ReadInOrder
        <3>3. ASSUME NEW j \in 1..Len(got') PROVE got'[j] = sent'[j]
            <4>1. j \in 1..Len(got) \/ j = i BY <2>4, <3>1
            <4> QED BY <4>1, <2>4, <2>5, <3>2, Zenon
        <3> QED BY <3>1, <3>3 DEF ReadInOrder
    <2> QED BY <2>6, <2>7, <2>8, <2>9 DEF IInv, InSync
<1> QED BY <1>2, <1>3, <1>4, <1>5, <1>6

LEMMA StepInv == IInv /\ [Next]_vars => IInv'
<1> SUFFICES ASSUME IInv, [Next]_vars PROVE IInv'
    OBVIOUS
<1>1. CASE UNCHANGED vars
    BY <1>1 DEF vars, IInv, TypeOK, Layout, Holds, EndOf, InSync, ReadInOrder
<1>2. CASE Next
    BY <1>2, WriteInv, ArriveInv, ReadInv DEF Next
<1> QED BY <1>1, <1>2

(* The variables keep their types: the reader never drops more than has    *)
(* arrived, whatever tp3_readframe returns.                                *)
THEOREM TypeCorrect == Spec => []TypeOK
<1>1. IInv => TypeOK BY DEF IInv
<1> QED BY <1>1, InitInv, StepInv, PTL DEF Spec

(* However tp3_readframe gets the bytes, the frames it hands out are those *)
(* tp3_writeframe wrote, in order and unchanged.                           *)
THEOREM FramesInOrder == Spec => []ReadInOrder
<1>1. IInv => ReadInOrder BY DEF IInv, InSync
<1> QED BY <1>1, InitInv, StepInv, PTL DEF Spec

-----------------------------------------------------------------------------
(* What a negative result asks for *)

LEMMA AskStep ==
    ASSUME IInv, AsksForThisFrame, [Next]_vars
    PROVE  AsksForThisFrame'
<1> DEFINE i == Len(got) + 1
<1>1. need \in Nat /\ taken \in Nat /\ HeaderLen \in Nat
    BY Lengths, StreamOK DEF IInv, TypeOK
<1>2. CASE UNCHANGED vars
    BY <1>2 DEF vars, AsksForThisFrame
<1>3. ASSUME NEW f \in Frame, NEW len \in BufLen, Write(f, len)
      PROVE  AsksForThisFrame'
    <2>1. UNCHANGED <<taken, need, got>>
        BY <1>3 DEF Write, reader
    <2>2. CASE UNCHANGED <<sent, ends>>
        BY <2>1, <2>2 DEF AsksForThisFrame
    <2>3. CASE sent' = Append(sent, f) /\ ends' = Append(ends, Len(out) + FrameSize(f))
        <3>1. Len(out) + FrameSize(f) \in Nat
            BY StreamOK, Lengths, LenProperties DEF FrameSize
        <3>2. /\ Len(sent') = Len(sent) + 1
              /\ \A k \in 1..Len(sent) : ends'[k] = ends[k]
            <4>1. sent \in Seq(Frame) /\ ends \in Seq(Nat) /\ Len(ends) = Len(sent)
                BY Lengths DEF IInv, TypeOK
            <4>2. /\ Len(Append(sent, f)) = Len(sent) + 1
                  /\ \A k \in 1..Len(ends) : Append(ends, Len(out) + FrameSize(f))[k] = ends[k]
                BY <3>1, <4>1, AppendProperties
            <4> QED BY <4>1, <4>2, <2>3
        <3>3. CASE need <= 4
            BY <2>1, <3>3 DEF AsksForThisFrame
        <3>4. CASE Len(got) < Len(sent) /\ (taken + need <= ends[i] \/ sent[i] \in Stuck)
            <4>1. i \in 1..Len(sent) BY <3>4, Lengths
            <4>2. ends'[i] = ends[i] /\ Len(got) < Len(sent')
                BY <4>1, <3>2, <3>4, Lengths
            <4>3. sent'[i] = sent[i]
                <5>1. sent \in Seq(Frame) BY DEF IInv, TypeOK
                <5>2. Append(sent, f)[i] = sent[i] BY <4>1, <5>1, AppendProperties
                <5> QED BY <5>2, <2>3
            <4> QED BY <4>2, <4>3, <3>4, <2>1, Zenon DEF AsksForThisFrame
        <3> QED BY <3>3, <3>4 DEF AsksForThisFrame
    <2> QED BY <1>3, <2>2, <2>3 DEF Write
<1>4. ASSUME NEW n \in 1..(Len(out) - arrived), Arrive(n)
      PROVE  AsksForThisFrame'
    BY <1>4 DEF Arrive, writer, reader, AsksForThisFrame
<1>5. CASE Read
    <2>1. UNCHANGED <<sent, ends, arrived>>
        BY <1>5 DEF Read, Called, writer
    <2>2. CASE ReadPrefix
        <3>1. need' = 4 BY <2>2, <1>1, Lengths DEF ReadPrefix, Short, Missing, InBuf
        <3> QED BY <3>1 DEF AsksForThisFrame
    <2>3. CASE ReadPart
        <3>1. /\ i \in 1..Len(sent) /\ Length \in Nat /\ ends[i] = taken + 4 + Length
            BY <2>3, HeadFrame DEF ReadPart
        <3>2. need' = Length + 4 /\ taken' = taken /\ got' = got
            BY <2>3, <3>1, <1>1, Lengths DEF ReadPart, Short, Missing, InBuf
        <3>3. taken' + need' <= ends[i] /\ Len(got') < Len(sent)
            BY <3>1, <3>2, <1>1, Lengths
        <3> QED BY <3>2, <3>3, <2>1, Zenon DEF AsksForThisFrame
    <2>4. CASE ReadBad
        <3>1. i \in 1..Len(sent) /\ Length = Len(sent[i]) /\ Length < HeaderLen
            BY <2>4, HeadFrame DEF ReadBad
        <3>2. sent[i] \in Frame
            <4>1. sent \in Seq(Frame) BY DEF IInv, TypeOK
            <4> QED BY <3>1, <4>1, ElementOfSeq
        <3>3. sent[i] \in Stuck BY <3>1, <3>2 DEF Stuck
        <3>4. got' = got /\ Len(got) < Len(sent)
            BY <2>4, <3>1, Lengths DEF ReadBad, Short
        <3> QED BY <2>1, <3>3, <3>4, Zenon DEF AsksForThisFrame
    <2>5. CASE ReadNoMemory
        BY <2>1, <2>5, Zenon DEF ReadNoMemory, AsksForThisFrame
    <2>6. CASE ReadWhole
        <3>1. need' = 0 BY <2>6 DEF ReadWhole
        <3> QED BY <3>1 DEF AsksForThisFrame
    <2> QED BY <1>5, <2>2, <2>3, <2>4, <2>5, <2>6 DEF Read
<1> QED BY <1>2, <1>3, <1>4, <1>5 DEF Next

(* With a frame that can hold a header in front of it, tp3_readframe never *)
(* asks for more bytes than its length or the rest of it.                  *)
THEOREM AskedFor == Spec => []AsksForThisFrame
<1>1. Init => AsksForThisFrame BY DEF Init, AsksForThisFrame
<1>2. IInv /\ AsksForThisFrame /\ [Next]_vars => AsksForThisFrame' BY AskStep
<1> QED BY <1>1, <1>2, InitInv, StepInv, PTL DEF Spec

-----------------------------------------------------------------------------
(* Refinement of the queue of frames *)

LEMMA QueueInit == Init => Q!Init
BY SubSeqEmpty, EmptySeq DEF Init, Q!Init

LEMMA QueueStep ==
    ASSUME IInv, [Next]_vars
    PROVE  [Q!Next]_<<SubSeq(sent, Len(got) + 1, Len(sent)), got>>
<1> DEFINE g == Len(got)
           n == Len(sent)
           q == SubSeq(sent, g + 1, n)
<1>1. sent \in Seq(Frame) /\ n \in Nat /\ g \in 0..n
    BY Lengths DEF IInv, TypeOK
<1>2. CASE UNCHANGED <<sent, got>>
    BY <1>2
<1>3. ASSUME NEW f \in Frame, NEW len \in BufLen, Write(f, len), sent' = Append(sent, f)
      PROVE  Q!Put(f)
    <2>1. got' = got BY <1>3 DEF Write, reader
    <2>2. /\ Append(sent, f) \in Seq(Frame) /\ Len(sent') = n + 1
          /\ \A k \in 1..n : sent'[k] = sent[k]
          /\ sent'[n + 1] = f
        BY <1>1, <1>3, AppendProperties
    <2> DEFINE r == SubSeq(sent', g + 1, n + 1)
    <2>3. /\ q \in Seq(Frame) /\ Len(q) = n - g
          /\ \A k \in 1..(n - g) : q[k] = sent[g + k]
        <3>1. \A k \in g + 1 .. n : sent[k] \in Frame BY <1>1, ElementOfSeq
        <3> QED BY <3>1, <1>1, SubSeqProperties
    <2>4. /\ r \in Seq(Frame) /\ Len(r) = n + 1 - g
          /\ \A k \in 1..(n + 1 - g) : r[k] = sent'[g + k]
        <3>1. \A k \in g + 1 .. n + 1 : sent'[k] \in Frame BY <1>1, <1>3, <2>2, ElementOfSeq
        <3> QED BY <3>1, <1>1, SubSeqProperties
    <2> DEFINE a == Append(q, f)
    <2>5. /\ a \in Seq(Frame) /\ Len(a) = n - g + 1
          /\ \A k \in 1..(n - g) : a[k] = q[k]
          /\ a[n - g + 1] = f
        BY <2>3, AppendProperties
    <2>6. \A k \in 1..Len(r) : r[k] = a[k]
        BY <1>1, <2>2, <2>3, <2>4, <2>5
    <2> HIDE DEF r, a
    <2>7. r = a BY <1>1, <2>4, <2>5, <2>6, SeqEqual
    <2> QED BY <2>1, <2>2, <2>7 DEF Q!Put, r, a
<1>4. ASSUME ReadWhole, sent' = sent
      PROVE  Q!Take
    <2>1. g + 1 \in 1..n /\ got' = Append(got, sent[g + 1])
        <3>1. InBuf >= 4 /\ frame' = [length |-> Length, data |-> SubSeq(out, taken + 5, taken + 4 + Length)]
              /\ got' = Append(got, frame'.data)
            BY <1>4 DEF ReadWhole
        <3>2. frame'.data = SubSeq(out, taken + 5, taken + 4 + Length) BY <3>1
        <3> QED BY <3>1, <3>2, HeadFrame
    <2>2. Head(q) = sent[g + 1] /\ Tail(q) = SubSeq(sent, g + 2, n)
        <3>1. n \in g + 1 .. Len(sent) BY <1>1, <2>1
        <3>2. Tail(q) = SubSeq(sent, g + 1 + 1, n) /\ Head(q) = sent[g + 1]
            BY <1>1, <2>1, <3>1, HeadTailOfSubSeq
        <3>3. g + 1 + 1 = g + 2 BY <1>1
        <3> QED BY <3>2, <3>3
    <2>3. q # << >>
        <3>1. \A k \in g + 1 .. n : sent[k] \in Frame BY <1>1, ElementOfSeq
        <3>2. Len(q) = n - g BY <3>1, <1>1, <2>1, SubSeqProperties
        <3> QED BY <3>2, <1>1, <2>1, EmptySeq
    <2>6. Head(q) \notin Stuck
        <3>1. Length = Len(sent[g + 1]) /\ Length >= HeaderLen
            BY <1>4, HeadFrame DEF ReadWhole
        <3>2. Length \in Nat BY <1>4, HeadFrame DEF ReadWhole
        <3>3. sent[g + 1] \notin Stuck BY <3>1, <3>2, StreamOK DEF Stuck
        <3>4. Head(q) = sent[g + 1] BY <2>2
        <3> HIDE DEF q
        <3> QED BY <3>3, <3>4, Zenon
    <2>4. Len(got') = g + 1
        <3>1. sent[g + 1] \in Seq(Byte) BY <2>1, Lengths, StreamOK
        <3>2. got \in Seq(Seq(Byte)) BY DEF IInv, TypeOK
        <3> QED BY <3>1, <3>2, <2>1, AppendProperties
    <2>5. SubSeq(sent', Len(got') + 1, Len(sent')) = SubSeq(sent, g + 2, n)
        BY <1>1, <1>4, <2>4
    <2> QED BY <2>1, <2>2, <2>3, <2>5, <2>6 DEF Q!Take
<1>5. ASSUME NEW f \in Frame, NEW len \in BufLen, Write(f, len) PROVE sent' = Append(sent, f) \/ UNCHANGED <<sent, got>>
    BY <1>5 DEF Write, reader
<1>6. CASE Read
    <2>1. sent' = sent BY <1>6 DEF Read, Called, writer
    <2>2. ~ReadWhole => got' = got
        BY <1>6, Zenon DEF Read, ReadPrefix, ReadPart, ReadBad, ReadNoMemory, Short
    <2> QED BY <1>2, <1>4, <2>1, <2>2 DEF Q!Next
<1>7. \A k : Arrive(k) => UNCHANGED <<sent, got>>
    BY DEF Arrive, writer, reader
<1>8. UNCHANGED vars => UNCHANGED <<sent, got>>
    BY DEF vars
<1>9. (\E f \in Frame : Q!Put(f)) => Q!Next BY DEF Q!Next
<1> QED BY <1>2, <1>3, <1>5, <1>6, <1>7, <1>8, <1>9 DEF Next

(* The stream is a queue of frames: every step of the writer, the reader   *)
(* and the stream between them is a step of the queue, or none.  (That the *)
(* queue is emptied in the end is model-checked, with ImplementsQueue.)    *)
THEOREM QueueRefined ==
    Spec => Q!Init /\ [][Q!Next]_<<SubSeq(sent, Len(got) + 1, Len(sent)), got>>
<1>1. IInv /\ [Next]_vars => [Q!Next]_<<SubSeq(sent, Len(got) + 1, Len(sent)), got>>
    BY QueueStep
<1> QED BY <1>1, QueueInit, InitInv, StepInv, PTL DEF Spec
=============================================================================
