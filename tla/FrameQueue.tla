----------------------------- MODULE FrameQueue -----------------------------
(***************************************************************************)
(* What tp3_writeframe and tp3_readframe promise together: the frames one  *)
(* side writes are the frames the other side reads, each once, whole and   *)
(* in order, and every one of them in the end, as long as none of those    *)
(* before it is Stuck: such a frame stays where it is for ever.            *)
(***************************************************************************)
EXTENDS Sequences, Naturals

CONSTANTS Frame, Stuck

VARIABLES
    queue,  \* frames written and not yet read
    got     \* frames read

Init == queue = << >> /\ got = << >>

Put(f) == queue' = Append(queue, f) /\ UNCHANGED got

Take == /\ queue # << >> /\ Head(queue) \notin Stuck
        /\ got' = Append(got, Head(queue))
        /\ queue' = Tail(queue)

Next == Take \/ \E f \in Frame : Put(f)

Spec == Init /\ [][Next]_<<queue, got>> /\ WF_<<queue, got>>(Take)
=============================================================================
