------------------------------- MODULE Codec --------------------------------
(* tp3_generateframe and tp3_parseframe: messages to frames and back.       *)
(* A frame is the fields it carries, each with its code, its 16-bit length  *)
(* and its bytes, and the two digits of the checksum over all of them.      *)
EXTENDS Fields, FiniteSetsExt

CONSTANTS Today,    \* the eight digits of the date and the six of the time
          MaxItem   \* _TP3_MAX_ITEM, 256 in the code

MaxLength == 65535         \* the largest length two bytes can hold
MaxInts == MaxLength \div 4 \* and the longest list it tells

ASSUME CodecAssumption == Today \in [1..14 -> 48..57] /\ MaxItem \in Nat

InterfaceType == <<71, 79, 83, 95, 71, 67, 71, 32, 32, 32>> \* "GOS_GCG   "

Chunk(code, bytes) == [code |-> code, length |-> Len(bytes), bytes |-> bytes]

(* tp3_setheadertoframedata; the date and the time are those of the call.   *)
HeaderChunks(h) ==
    << Chunk(FC.INTERFACETYPE, InterfaceType),
       Chunk(FC.MESSAGETYPE, SetBytes(1, h.msgtype)),
       Chunk(FC.TRANSTYPE, SetBytes(1, h.transtype)),
       Chunk(FC.GCGID, SetBytes(3, h.gcgid)), Chunk(FC.GOSID, SetBytes(3, h.gosid)),
       Chunk(FC.TRANSDATE, SubSeq(Today, 1, 8)), Chunk(FC.TRANSTIME, SubSeq(Today, 9, 14)),
       Chunk(FC.MSGSEQNUM, [k \in 1..6 |-> 48 + ((h.msgseq \div 10 ^ (6 - k)) % 10)]) >>

(* Mutant of CopyNByte: the high bytes of each int are copied. *)
CopyNByteHigh(data, base, length) ==
    FlattenSeq([i \in 1..length \div base |-> SubSeq(Reverse(SubSeq(data, 4 * i - 3, 4 * i)), 1, base)])

(* tp3_copynbyte: the low bytes of each int of an array. *)
CopyNByte(data, base, length) ==
    FlattenSeq([i \in 1..length \div base |-> SetBytes(base, IntOf(SubSeq(data, 4 * i - 3, 4 * i)))])

(* tp3_setfieldstoframedata, one field: numbers of up to four bytes are     *)
(* written high byte first, and the next field goes behind the bytes of the *)
(* length; other bytes are written as they are, arrays item by item.        *)
FieldBytes(f, n, length) ==
    CASE n \in 1..4 -> SubSeq(SetBytes(n, IntOf(SubSeq(f.data, 1, 4))), 1, length)
      [] n = 0 \/ n > 4 -> SubSeq(f.data, 1, length)
      [] n < 0 -> CopyNByte(f.data, 0 - n, length)

(* Mutant of FieldChunk: an array has the length of its ints (base.c:202).  *)
FieldChunkOfInts(f) ==
    [code |-> f.code, length |-> f.length % (MaxLength + 1),
     bytes |-> FieldBytes(f, FieldLen(f.code),
                          IF FieldLen(f.code) < 0 THEN (f.length * (0 - FieldLen(f.code))) \div 4
                          ELSE f.length)]

FieldChunk(f) ==
    LET n == FieldLen(f.code)
        length == (IF n < 0 THEN (f.length * (0 - n)) \div 4 ELSE f.length) % (MaxLength + 1)
    IN  [code |-> f.code, length |-> length, bytes |-> FieldBytes(f, n, length)]

(* A field that keeps its bytes by value and is written as if it kept their *)
(* address (base.c:235): its code tells the writer so, its length does not. *)
ReadAsAddress(f) ==
    /\ FieldLen(f.code) = 0 \/ FieldLen(f.code) > FDATA_LIMIT
    /\ f.length \in 1..FDATA_LIMIT

FieldChunks(m) == [i \in 1..Len(m.fields) |-> FieldChunk(m.fields[i])]

-----------------------------------------------------------------------------
(* The bytes of a frame: a code and a length are two each, low byte first.  *)
Flat(chunks) ==
    FlattenSeq([i \in 1..Len(chunks) |->
        Reverse(SetBytes(2, chunks[i].code)) \o Reverse(SetBytes(2, chunks[i].length))
            \o chunks[i].bytes])

Parity(bytes, k) == Quantify(DOMAIN bytes, LAMBDA i : (bytes[i] \div 2 ^ k) % 2 = 1) % 2

(* Mutant of Checksum: the low half of every byte is left out. *)
ChecksumHalf(chunks) ==
    LET bytes == Flat(chunks) IN [k \in 0..7 |-> IF k < 4 THEN 0 ELSE Parity(bytes, k)]

(* tp3_calculatechecksum: each bit is the parity of that bit of all bytes   *)
(* but the two digits.                                                      *)
Checksum(chunks) == LET bytes == Flat(chunks) IN [k \in 0..7 |-> Parity(bytes, k)]

(* The two digits "0".."F" behind the fields, as numbers. *)
HexDigits(sum) == << sum[7] * 8 + sum[6] * 4 + sum[5] * 2 + sum[4],
                     sum[3] * 8 + sum[2] * 4 + sum[1] * 2 + sum[0] >>

(* Mutant of Estimate: the codes and lengths of the fields are forgotten. *)
EstimateBare(m) == FoldLeft(LAMBDA sum, f : sum + f.length, 72, m.fields)

(* The bytes tp3_generateframe allocates, and the bytes it writes there.    *)
Estimate(m) == FoldLeft(LAMBDA sum, f : sum + f.length + 4, 72, m.fields)

Written(chunks) == Len(Flat(chunks)) + 2

GenerateFrame(m) ==
    LET chunks == HeaderChunks(m.header) \o FieldChunks(m)
    IN  [chunks |-> chunks, check |-> HexDigits(Checksum(chunks)), room |-> Estimate(m)]

-----------------------------------------------------------------------------
(* tp3_addfield_array: an item of the frame becomes an int of the message.  *)
Items(base, bytes) ==
    [i \in 1..Len(bytes) \div base |-> ReadNum(SubSeq(bytes, base * (i - 1) + 1, base * i))]

(* Mutant of AddChunk: an array is added as the bytes it came as. *)
AddChunkBytes(m, c) ==
    IF FieldLen(c.code) > 0 /\ c.length < FDATA_LIMIT THEN AddNum(m, c.code, ReadNum(c.bytes))
    ELSE AddNBytes(m, c.code, c.bytes)

(* One round of the loop of tp3_parseframe. *)
AddChunk(m, c) ==
    LET n == FieldLen(c.code)
    IN  CASE n > 0 /\ c.length < FDATA_LIMIT -> AddNum(m, c.code, ReadNum(c.bytes))
          [] n > 0 /\ c.length >= FDATA_LIMIT -> AddNBytes(m, c.code, c.bytes)
          [] n = 0 -> AddNBytes(m, c.code, c.bytes)
          [] n < 0 -> AddArray(m, c.code, Items(0 - n, c.bytes))

Foreign(c) == c.code = FC.INTERFACETYPE /\ SubSeq(c.bytes, 1, 7) # SubSeq(InterfaceType, 1, 7)

(* tp3_parseframe into a message that tp3_initmsg made: the checksum first, *)
(* then the fields in order, until one says the frame is not of this kind.  *)
Parsed(stat, m) == [stat |-> stat, msg |-> m]
ParseFields(m, chunks) ==
    FoldLeft(LAMBDA p, c : IF p.stat # "NOERROR" THEN p
                           ELSE IF Foreign(c) THEN Parsed("INTERFACETYPE_NOT_MATCHED", p.msg)
                           ELSE Parsed("NOERROR", AddChunk(p.msg, c)),
             Parsed("NOERROR", m), chunks)

ParseFrame(frame) ==
    IF frame.check # HexDigits(Checksum(frame.chunks)) THEN Parsed("CHECKSUM_NOT_MATCHED", InitMsg)
    ELSE ParseFields(InitMsg, frame.chunks)

(* An array with more items than tp3_addfield_array has room for. *)
Overflows(c) == FieldLen(c.code) < 0 /\ Len(c.bytes) \div (0 - FieldLen(c.code)) > MaxItem
=============================================================================
