----------------------------- MODULE NodeExport -----------------------------
(***************************************************************************)
(* Reports: what the messages of the greenhouse controller carry of a node *)
(* set (tp3_nsettoarray, by tp3_notifystatmsg and tp3_notifyenvmsg), and   *)
(* what the operating system reads there (tp3_parse_statmsg and            *)
(* tp3_parse_envmsg).  Every array is extracted by a call of its own; the  *)
(* receiver pairs them up by position.                                     *)
(*                                                                         *)
(* A message carries such fields for a set of sensor nodes and for one of  *)
(* actuator nodes, with codes of their own: they are the same operations   *)
(* on two node sets, and one of them is modelled.                          *)
(***************************************************************************)
EXTENDS NodeSet, FiniteSetsExt, SequencesExt

CONSTANTS
    Uninit,     \* an element malloc returned and nobody wrote
    Crash       \* an element read through NULL or past the last node

DeviceField == {"gids", "stats", "envs"}

(* Mutant of Cursor: j is not reset when pdev moves on to the next node. *)
CursorNoReset ==
    LET at[k \in 0..numofdev] ==
            IF k = 0 THEN [node |-> 0, dev |-> 0]
            ELSE LET c == at[k - 1] IN
                 IF c.node \notin Slots THEN c
                 ELSE IF c.dev + 1 = nodedata[c.node].numofdev
                 THEN [node |-> c.node + 1, dev |-> c.dev + 1]
                 ELSE [c EXCEPT !.dev = @ + 1]
    IN  at

(* The cursor (pdev, j) in front of the k-th device read. *)
Cursor ==
    LET at[k \in 0..numofdev] ==
            IF k = 0 THEN [node |-> 0, dev |-> 0]
            ELSE LET c == at[k - 1] IN
                 IF c.node \notin Slots THEN c
                 ELSE IF c.dev + 1 = nodedata[c.node].numofdev
                 THEN [node |-> c.node + 1, dev |-> 0]
                 ELSE [c EXCEPT !.dev = @ + 1]
    IN  at

DeviceAt(c, field) ==
    IF c.node \notin Slots THEN Crash
    ELSE IF nodedata[c.node].blk = Null \/ c.dev >= nodedata[c.node].numofdev THEN Crash
    ELSE heap[nodedata[c.node].blk][field][c.dev + 1]

(* ARROFGSID, ARROFSENSSTAT, ARROFSENSVAL and their actuator twins: only   *)
(* the first node's pointer is tested before the devices are walked.       *)
DeviceArray(field) ==
    IF nodedata[0].blk = Null THEN [k \in 1..numofdev |-> Uninit]
    ELSE LET at == Cursor IN [k \in 1..numofdev |-> DeviceAt(at[k - 1], field)]

(* ARROFSNID and ARROFSNSTAT. *)
NodeArray(arr) == [k \in 1..numofnode |-> arr[k - 1]]

(* The arrays of a report: the status of nodes, the status of devices, or  *)
(* their environment values.                                               *)
Kind == {"nodestat", "devstat", "devenv"}
Count(kind) == IF kind = "nodestat" THEN numofnode ELSE numofdev
Ids(kind) == IF kind = "nodestat" THEN NodeArray(nids) ELSE DeviceArray("gids")
Values(kind) == CASE kind = "nodestat" -> NodeArray(stats)
                  [] kind = "devstat"  -> DeviceArray("stats")
                  [] kind = "devenv"   -> DeviceArray("envs")

(* The fields tp3_notifystatmsg and tp3_notifyenvmsg add: the number, and  *)
(* the arrays if there is something in them.                               *)
Report(kind) ==
    IF Count(kind) > 0
      THEN [num |-> Count(kind), ids |-> Ids(kind), vals |-> Values(kind)]
      ELSE [num |-> 0]

(* tp3_readfield_array: how many elements fit into an array of size len,   *)
(* -1 if the field is missing.                                             *)
ReadCount(msg, field, len) ==
    IF field \notin DOMAIN msg THEN -1 ELSE Min({Len(msg[field]), len})

Unread(stat) == [stat |-> stat, ids |-> << >>, vals |-> << >>]

(* tp3_parse_statmsg and tp3_parse_envmsg into arrays of size len. *)
Parse(msg, len) ==
    IF msg.num = 0 THEN Unread("NOERROR")
    ELSE IF msg.num > len THEN Unread("NOT_ENOUGH_SPACE")
    ELSE IF \E field \in {"ids", "vals"} : ReadCount(msg, field, len) # msg.num
      THEN Unread("FRAMEFMT_ERR")
    ELSE [stat |-> "NOERROR", ids |-> msg.ids, vals |-> msg.vals]

(* A set whose pointers can be followed, to blocks that are its own. *)
Exporting == arrays # "invalid" /\ Ownership

-----------------------------------------------------------------------------
(* Properties *)

(* The devices of the nodes in the first i slots. *)
DevsBefore[i \in 0..numofnode] ==
    IF i = 0 THEN 0 ELSE DevsBefore[i - 1] + nodedata[i - 1].numofdev

(* numofdev is the number of devices of all nodes, whatever was added,     *)
(* replaced and deleted before (ttap3_util.h:160).                         *)
DevCount == arrays = "live" => numofdev = DevsBefore[numofnode]

(* The registered nodes, in the order of the report, and what the registry *)
(* says of their devices, node after node.                                 *)
Registered == {id \in NodeId : Entry(id) # Absent}
Devices(field) == FlattenSeq([k \in 1..numofnode |-> Entry(nids[k - 1]).devs[field]])

Pairs(ids, vals) == {<<ids[k], vals[k]>> : k \in DOMAIN ids}

TellsNodes(got) ==
    /\ Len(got.ids) = Cardinality(Registered)
    /\ Pairs(got.ids, got.vals) = {<<id, Entry(id).stat>> : id \in Registered}

TellsDevices(got, field) == got.ids = Devices("gids") /\ got.vals = Devices(field)

(* What is read from a report is the registry: every registered node once, *)
(* with its status, and the devices of the nodes in one order with their   *)
(* own values, whatever was added, replaced, deleted and moved before; and *)
(* too small an array is refused (tp3_nsettoarray, tp3_parse_statmsg,      *)
(* tp3_parse_envmsg; ttap3_util.h:306-314).                                *)
ReportRead ==
    Exporting => \A kind \in Kind : \A len \in 0..(Count(kind) + 1) :
        LET got == Parse(Report(kind), len) IN
        IF len < Count(kind) THEN got.stat = "NOT_ENOUGH_SPACE"
        ELSE /\ got.stat = "NOERROR"
             /\ CASE kind = "nodestat" -> TellsNodes(got)
                  [] kind = "devstat"  -> TellsDevices(got, "stats")
                  [] kind = "devenv"   -> TellsDevices(got, "envs")
=============================================================================
