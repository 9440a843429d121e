------------------------------- MODULE Fields -------------------------------
(* The fields of a message and their values (ttap3_base.c, ttap3_define.h). *)
(* A field keeps the four bytes of an int, or, when it is longer, a copy of *)
(* its bytes; which of the two is decided again by each function that reads *)
(* it.  Who owns the copies is the subject of the module Message.           *)
EXTENDS Bytes, SequencesExt, TLC

CONSTANTS PastHeader, \* what tp3_getfieldlen finds behind its table header[]
          Stack       \* a byte of an int that nobody wrote

(* Behind header[] lies what the build puts there: the next table, which    *)
(* begins with the length of a number, or the zeros of padding.  A number   *)
(* of four bytes would end behind the buffer of a response's frame.         *)
ASSUME FieldsAssumption == PastHeader \in 0..3 /\ Stack \in Byte

FDATA_LIMIT == 4

FC == [INTERFACETYPE |-> 0, MESSAGETYPE |-> 1, TRANSTYPE |-> 2, GCGID |-> 3,
       GOSID |-> 4, TRANSDATE |-> 5, TRANSTIME |-> 6, MSGSEQNUM |-> 7, RESCODE |-> 8,
       NUMOFSN |-> \h1000, ARROFSNID |-> \h1001, NUMOFAN |-> \h1002, ARROFANID |-> \h1003,
       SERIALNUM |-> \h1004, MODELNUM |-> \h1005, IPV4ADDR |-> \h1006, IPV6ADDR |-> \h1007,
       INSTSITE |-> \h1008, MCUTYPE |-> \h1009, OSTYPE |-> \h100A, OSVER |-> \h100B,
       RAMSIZE |-> \h100C, POWTYPE |-> \h100D, SWVER |-> \h100E,
       SNID |-> \h2000, NUMOFSENS |-> \h2001, ARROFGSID |-> \h2002, SID |-> \h2003,
       SENTYPE |-> \h2004, SENDATATYPE |-> \h2005, SENGETTYPE |-> \h2006,
       SENGETINTV |-> \h2007, MAXVALUE |-> \h2008, MINVALUE |-> \h2009,
       PRECISION |-> \h200A, ERRRANGE |-> \h200B, THRESHOLDTYPE |-> \h200C,
       THRESHOLD |-> \h200D,
       ANID |-> \h3000, NUMOFACTS |-> \h3001, ARROFGAID |-> \h3002, AID |-> \h3003,
       ACTTYPE |-> \h3004, ACTDATATYPE |-> \h3005, ACTGETTYPE |-> \h3006,
       ACTGETINTV |-> \h3007,
       GCGSTAT |-> \h4000, ARROFSNSTAT |-> \h4001, ARROFANSTAT |-> \h4002,
       ARROFSENSSTAT |-> \h4003, ARROFACTSSTAT |-> \h4005, TIMESTAMP |-> \h4006,
       ARROFSENSVAL |-> \h5000, ARROFACTSVAL |-> \h5001,
       HISTREQTYPE |-> \h6000, SDATETIME |-> \h6001, EDATETIME |-> \h6002,
       NUMOFBLK |-> \h6003, BLKOFSTAT |-> \h6004, BLKOFENV |-> \h6005,
       CONTINFO |-> \h6006, FALUTMETHOD |-> \h7000, SWBINARY |-> \h7001]

(* The length a code stands for: positive for numbers and bytes of a fixed   *)
(* length, 0 for bytes of any length, negative for an array of items of that *)
(* many bytes.  TP3_FC_RESCODE is one past the end of header[].              *)
FieldLen(code) ==
    LET lengths(table) ==
            CASE table = 0 -> <<10, 1, 1, 3, 3, 8, 6, 6, PastHeader>>
              [] table = 16 -> <<1, -3, 1, -3, 0, 0, 4, 6, 2, 1, 1, 2, 1, 1, 2>>
              [] table = 32 -> <<3, 2, -4, 1, 1, 1, 1, 6, 4, 4, 4, 4, 1, 4>>
              [] table = 48 -> <<3, 2, -4, 1, 1, 1, 1, 6>>
              [] table = 64 -> <<1, -1, -1, -1, 0, -1, 7>>
              [] table = 80 -> <<-4, -2>>
              [] table = 96 -> <<1, 7, 7, 1, 0, 0, 1>>
              [] table = 112 -> <<1, 0>>
    IN  lengths(code \div 256)[(code % 256) + 1]

-----------------------------------------------------------------------------
(* The union of a field: an int is four bytes, the lowest first. *)
Word(n) == Reverse(SetBytes(4, n))
IntOf(word) == ReadNum(Reverse(word))

(* What a field keeps of bytes it is given: longer than an int, a copy; the  *)
(* others are copied over the low bytes of an int.                           *)
Kept(bytes) ==
    IF Len(bytes) > FDATA_LIMIT THEN bytes
    ELSE [k \in 1..4 |-> IF k <= Len(bytes) THEN bytes[k] ELSE Stack]

Digits(n, digits) == FoldLeft(LAMBDA sum, d : sum * 10 + d - 48, n, digits)

(* tp3_addheaderfield: the header keeps a number, a date or a time of its own. *)
HeaderWith(h, code, data) ==
    CASE code = FC.MESSAGETYPE -> [h EXCEPT !.msgtype = IntOf(data)]
      [] code = FC.TRANSTYPE -> [h EXCEPT !.transtype = IntOf(data)]
      [] code = FC.GCGID -> [h EXCEPT !.gcgid = IntOf(data)]
      [] code = FC.GOSID -> [h EXCEPT !.gosid = IntOf(data)]
      [] code = FC.TRANSDATE -> [h EXCEPT !.tdate = SubSeq(data, 1, 8)]
      [] code = FC.TRANSTIME -> [h EXCEPT !.ttime = SubSeq(data, 1, 6)]
      [] code = FC.MSGSEQNUM -> [h EXCEPT !.msgseq = Digits(0, SubSeq(data, 1, 6))]
      [] code = FC.RESCODE -> [h EXCEPT !.rescode = IntOf(data)]
      [] OTHER -> h

(* tp3_initmsg: every byte of the message is 0. *)
InitMsg == [header |-> [msgtype |-> 0, transtype |-> 0, gcgid |-> 0, gosid |-> 0,
                        tdate |-> <<>>, ttime |-> <<>>, msgseq |-> 0, rescode |-> 0],
            fields |-> <<>>]

(* Mutant of SetHeader: the number of the message is kept as it is. *)
SetHeaderAsIs(m, msgtype, transtype, gcgid, gosid, msgseq) ==
    [m EXCEPT !.header = [msgtype |-> msgtype, transtype |-> transtype, gcgid |-> gcgid,
                          gosid |-> gosid, msgseq |-> msgseq, rescode |-> 0,
                          tdate |-> <<>>, ttime |-> <<>>]]

(* tp3_setheader; _TP3_MSGSEQ_MAX is 999999. *)
SetHeader(m, msgtype, transtype, gcgid, gosid, msgseq) ==
    [m EXCEPT !.header.msgtype = msgtype, !.header.transtype = transtype,
              !.header.gcgid = gcgid, !.header.gosid = gosid,
              !.header.msgseq = msgseq % 999999]

(* tp3_addfield: codes of the header go there, a response code goes to both. *)
AddField(m, code, length, data) ==
    [header |-> HeaderWith(m.header, code, data),
     fields |-> IF code < FC.RESCODE THEN m.fields
                ELSE Append(m.fields, [code |-> code, length |-> length, data |-> data])]

AddNum(m, code, n) == AddField(m, code, FieldLen(code), Word(n))
AddBytes(m, code, bytes) == AddField(m, code, FieldLen(code), Kept(SubSeq(bytes, 1, FieldLen(code))))
AddNBytes(m, code, bytes) == AddField(m, code, Len(bytes), Kept(bytes))
AddArray(m, code, ints) == AddNBytes(m, code, FlattenSeq([i \in 1..Len(ints) |-> Word(ints[i])]))
SetResCode(m, rescode) == AddField(m, FC.RESCODE, 1, Word(rescode))

(* tp3_readfield: the first field of a code; NoField if there is none. *)
NoField == [code |-> -1, length |-> -1, data |-> Word(0)]
ReadField(m, code) ==
    LET at == SelectInSeq(m.fields, LAMBDA f : f.code = code)
    IN  IF at = 0 THEN NoField ELSE m.fields[at]

Has(m, code) == ReadField(m, code).length >= 0
Num(m, code) == IntOf(SubSeq(ReadField(m, code).data, 1, 4))

(* tp3_readfield_array, into an array that is large enough. *)
ReadArray(m, code) ==
    LET f == ReadField(m, code)
    IN  [i \in 1..f.length \div 4 |-> IntOf(SubSeq(f.data, 4 * i - 3, 4 * i))]

(* A field whose code makes a reader take its int for an address, its       *)
(* address for an int, or its bytes for ints they are not: bytes kept by    *)
(* value of a code without a number, bytes kept by address of a code with   *)
(* one, and an array that is not whole ints.                                *)
Mistaken(f) ==
    LET n == FieldLen(f.code)
    IN  \/ (n = 0 \/ n > 4) /\ f.length \in 1..FDATA_LIMIT
        \/ n \in 1..4 /\ f.length > FDATA_LIMIT
        \/ n < 0 /\ f.length % 4 # 0
=============================================================================
