------------------------------- MODULE Stream -------------------------------
(***************************************************************************)
(* Frames on a byte stream: tp3_writeframe and tp3_readframe of            *)
(* ttap3_base.c.  The stream keeps the order of its bytes and delivers     *)
(* them in pieces of any size.                                             *)
(*                                                                         *)
(* The reading application does what ttap3_base.h:201 tells it: a positive *)
(* result is what it drops from its buffer, a negative one is the number   *)
(* of bytes it waits for before it calls again, and 0 is a failed malloc,  *)
(* after which it calls again.                                             *)
(***************************************************************************)
EXTENDS Bytes

CONSTANTS
    Frame,      \* the data of the frames that are written
    BufLen,     \* sizes of the buffers given to tp3_writeframe
    HeaderLen,  \* _TP3_HEADER_LENGTH
    MaxSent     \* bound: how many frames are written

ASSUME StreamOK ==
    /\ \A f \in Frame : f \in Seq(Byte) /\ Len(f) <= IntMax - 4
    /\ HeaderLen \in Nat /\ MaxSent \in Nat /\ BufLen \subseteq Nat

(* tp3_readframe does not take a frame that cannot hold a header.  (What   *)
(* tp3_generateframe makes always can.)                                    *)
Stuck == {f \in Frame : Len(f) < HeaderLen}

VARIABLES
    sent,       \* frames written
    ends,       \* where each of them ends in the stream
    out,        \* every byte written
    stat,       \* what tp3_writeframe returned
    arrived,    \* how many bytes have reached the reader
    taken,      \* how many of them it has dropped from its buffer
    need,       \* how many it wants in its buffer before it calls again
    frame,      \* its tp3_frame_t
    ret,        \* what tp3_readframe returned
    got         \* frames read

vars == <<sent, ends, out, stat, arrived, taken, need, frame, ret, got>>
writer == <<sent, ends, out, stat>>
reader == <<taken, need, frame, ret, got>>

FrameSize(f) == 4 + Len(f)
EndOf(es, i) == IF i = 0 THEN 0 ELSE es[i]

Init ==
    /\ sent = << >> /\ ends = << >> /\ out = << >> /\ stat = "NOERROR"
    /\ arrived = 0 /\ taken = 0 /\ need = 0 /\ got = << >> /\ ret = 0
    /\ frame = [length |-> 0, data |-> << >>]

(* tp3_writeframe into a buffer of len bytes, which is then sent. *)
Write(f, len) ==
    /\ Len(sent) < MaxSent
    /\ \/ /\ len < FrameSize(f)
          /\ stat' = "FRAMEFMT_ERR"
          /\ UNCHANGED <<sent, ends, out>>
       \/ /\ len >= FrameSize(f)
          /\ stat' = "NOERROR"
          /\ out' = out \o SetBytes(4, Len(f)) \o f
          /\ sent' = Append(sent, f)
          /\ ends' = Append(ends, Len(out) + FrameSize(f))
    /\ UNCHANGED <<arrived, reader>>

Arrive(n) ==
    /\ arrived + n <= Len(out)
    /\ arrived' = arrived + n
    /\ UNCHANGED <<writer, reader>>

-----------------------------------------------------------------------------
(* tp3_readframe of what is in the buffer *)

InBuf == arrived - taken
Length == ReadNum(SubSeq(out, taken + 1, taken + 4))

(* Mutant of Missing: what the whole frame takes, not what is missing. *)
MissingAll(len, size) == 0 - size
(* What it returns when size bytes are wanted and len are there. *)
Missing(len, size) == len - size

(* A negative result: the application waits for that many bytes more. *)
Short(result) == ret' = result /\ need' = InBuf - result /\ UNCHANGED <<taken, got>>

ReadPrefix ==
    /\ InBuf < 4
    /\ Short(Missing(InBuf, 4))
    /\ UNCHANGED frame

ReadPart ==
    /\ InBuf >= 4 /\ InBuf < Length + 4
    /\ Short(Missing(InBuf, Length + 4))
    /\ frame' = [frame EXCEPT !.length = Length]

(* A frame that cannot hold a header. *)
ReadBad ==
    /\ InBuf >= 4 /\ InBuf >= Length + 4 /\ Length < HeaderLen
    /\ Short(-HeaderLen)
    /\ frame' = [frame EXCEPT !.length = Length]

(* The malloc of the frame's data fails: pframe->data is NULL. *)
ReadNoMemory ==
    /\ InBuf >= 4 /\ InBuf >= Length + 4 /\ Length >= HeaderLen
    /\ ret' = 0
    /\ frame' = [length |-> Length, data |-> << >>]
    /\ UNCHANGED <<taken, need, got>>

(* Mutant of Used: the four bytes of the length are left in the buffer. *)
UsedData(length) == length
Used(length) == length + 4

(* Mutant of ReadWhole: the frame is taken before all of it is there. *)
ReadWholeEarly ==
    /\ InBuf >= 4 /\ InBuf >= Length /\ Length >= HeaderLen
    /\ frame' = [length |-> Length, data |-> SubSeq(out, taken + 5, taken + 4 + Length)]
    /\ ret' = Length + 4
    /\ taken' = taken + ret' /\ need' = 0 /\ got' = Append(got, frame'.data)

ReadWhole ==
    /\ InBuf >= 4 /\ InBuf >= Length + 4 /\ Length >= HeaderLen
    /\ frame' = [length |-> Length, data |-> SubSeq(out, taken + 5, taken + 4 + Length)]
    /\ ret' = Used(Length)
    /\ taken' = taken + ret' /\ need' = 0 /\ got' = Append(got, frame'.data)

Called == InBuf >= need /\ UNCHANGED <<writer, arrived>>
Read == Called /\ (ReadPrefix \/ ReadPart \/ ReadBad \/ ReadNoMemory \/ ReadWhole)

Next ==
    \/ \E f \in Frame, len \in BufLen : Write(f, len)
    \/ \E n \in 1..(Len(out) - arrived) : Arrive(n)
    \/ Read

(* The stream delivers what was written to it, the application calls when  *)
(* it has what it waits for, and malloc does not fail for ever.            *)
Fairness ==
    /\ WF_vars(\E n \in 1..(Len(out) - arrived) : Arrive(n))
    /\ WF_vars(Read)
    /\ SF_vars(Called /\ ReadWhole)

Spec == Init /\ [][Next]_vars /\ Fairness

-----------------------------------------------------------------------------
(* Properties *)

TypeOK ==
    /\ sent \in Seq(Frame) /\ got \in Seq(Seq(Byte)) /\ out \in Seq(Byte)
    /\ ends \in Seq(Nat) /\ stat \in {"NOERROR", "FRAMEFMT_ERR"}
    /\ arrived \in 0..Len(out) /\ taken \in 0..arrived
    /\ need \in Nat /\ ret \in Int
    /\ frame \in [length : Int, data : Seq(Byte)]

(* A negative result of tp3_readframe is, as ttap3_base.h:201 says, the    *)
(* number of bytes that are missing: the reader is never made to wait for  *)
(* more than the length bytes or the rest of the frame at the head of its  *)
(* buffer.  (An application that waits for more waits for bytes of a frame *)
(* nobody may ever send: so it does behind a frame that is too short for a *)
(* header, where the result is -_TP3_HEADER_LENGTH at every call.)         *)
AsksForThisFrame ==
    \/ need <= 4
    \/ /\ Len(got) < Len(sent)
       /\ taken + need <= ends[Len(got) + 1] \/ sent[Len(got) + 1] \in Stuck

(* Whatever is on the stream, frames without a header included, what was   *)
(* read is what was written, from the first frame on and in the same order.*)
ReadInOrder == Len(got) <= Len(sent) /\ \A i \in 1..Len(got) : got[i] = sent[i]

Q == INSTANCE FrameQueue WITH
        queue <- SubSeq(sent, Len(got) + 1, Len(sent)), got <- got, Stuck <- Stuck

(* However the bytes are cut up, with mallocs that fail and buffers that   *)
(* are too small, the frames written are read once each, whole, in order,  *)
(* and in the end all of them up to one that is too short for a header.    *)
ImplementsQueue == Q!Spec
=============================================================================
