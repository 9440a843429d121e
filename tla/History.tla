------------------------------ MODULE History -------------------------------
(* The result of a history query (tp3_block_t of ttap3_util.c): a GCG fills *)
(* the rows of a block one after the other, device by device, and the block *)
(* travels as the bytes of one field.                                       *)
EXTENDS Contents

CONSTANTS Shapes,     \* the shapes of blocks: rows and numbers of devices
          Samples,    \* a row's timestamp and status, in the order they are taken
          DeviceIds,  \* ids and values a row is filled with
          Epoch,      \* the local time of the timestamp 0, which marks an empty row
          MaxDevices  \* _TP3_MAX_DEVICES, 32 in the code

VARIABLE block        \* the block being filled; NoBlock before tp3_initblock

Dev == {"SNODE", "ANODE", "SENSOR", "ACTUATOR"}
NoBlock == [rows |-> 0]

(* The bytes of a row: tp3_addfield_statblock and tp3_addfield_envblock. *)
StatStep(n) == 12 + 4 * n["SNODE"] + 4 * n["ANODE"] + 5 * n["SENSOR"] + 5 * n["ACTUATOR"]
EnvStep(n) == 9 + 8 * n["SENSOR"] + 6 * n["ACTUATOR"]

(* A block that a field's length is enough for, whichever way it is sent. *)
Sendable(rows, n) == rows * StatStep(n) <= MaxLength /\ rows * EnvStep(n) <= MaxLength

ASSUME HistoryAssumption ==
    /\ MaxDevices \in Nat
    /\ Epoch \in Times
    /\ \A k \in DOMAIN Samples : Samples[k].timestamp \in Times \ {Epoch} /\ Samples[k].gcgstat \in Int
    /\ \A d \in Dev : \A e \in DeviceIds[d] : e.id \in Int \ {0} /\ e.val \in Int
    /\ \A s \in Shapes : 1..s.rows \subseteq DOMAIN Samples /\ s.rows \in Nat
                         /\ s.numofdev \in [Dev -> 0..MaxDevices] /\ Sendable(s.rows, s.numofdev)

Zeros == [d \in Dev |-> [k \in 1..MaxDevices |-> 0]]
EmptyItem == [timestamp |-> Epoch, gcgstat |-> 0, ids |-> Zeros, vals |-> Zeros]

(* tp3_initblock; itemidx is first written by tp3_nextemptyblockitem. *)
NewBlock(rows, numofdev) ==
    [rows |-> rows, numofdev |-> numofdev, items |-> [i \in 1..rows |-> EmptyItem],
     cur |-> 1, itemidx |-> [d \in Dev |-> 0]]

BlockInit == block = NoBlock

InitBlock ==
    /\ block = NoBlock
    /\ \E s \in Shapes : block' = NewBlock(s.rows, s.numofdev)

(* The rows from the current one on that still have the timestamp 0. *)
EmptyRows(b) == {i \in b.cur..b.rows : b.items[i].timestamp = Epoch}

(* Mutant of NextRow: the current row is taken again. *)
NextRowStays(b) == b.cur

(* tp3_nextemptyblockitem goes on from the current row to the first without *)
(* a timestamp, with no bound: the caller calls it at most once for a row.  *)
NextRow(b) == CHOOSE i \in EmptyRows(b) : \A j \in EmptyRows(b) : i <= j

(* No device of a new row has been written. *)
Restarted == [d \in Dev |-> 0]

NextEmptyBlockItem ==
    /\ block # NoBlock /\ EmptyRows(block) # {}
    /\ LET row == NextRow(block)
       IN  block' = [block EXCEPT !.cur = row, !.itemidx = Restarted,
                                  !.items[row].timestamp = Samples[row].timestamp,
                                  !.items[row].gcgstat = Samples[row].gcgstat]

(* tp3_setblockitem.  The caller has begun a row, and writes no more        *)
(* devices of a kind than it has announced: the function checks neither.    *)
SetBlockItem ==
    /\ block # NoBlock /\ block.cur <= block.rows /\ block.items[block.cur].timestamp # Epoch
    /\ \E dev \in Dev : \E e \in DeviceIds[dev] :
         LET k == block.itemidx[dev] + 1
         IN  /\ k <= block.numofdev[dev]
             /\ block' = [block EXCEPT !.items[block.cur].ids[dev][k] = e.id,
                                       !.items[block.cur].vals[dev][k] = e.val,
                                       !.itemidx[dev] = k]

ReleaseBlock == block # NoBlock /\ block' = NoBlock

-----------------------------------------------------------------------------
(* A row of a block as bytes: for each kind of device the number of them,   *)
(* their ids, then their values, and the timestamp.                         *)
Devices(n, idbytes, valbytes, ids, vals) ==
    SetBytes(1, n) \o FlattenSeq([k \in 1..n |-> SetBytes(idbytes, ids[k])])
                   \o FlattenSeq([k \in 1..n |-> SetBytes(valbytes, vals[k])])

IdBytes(dev) == IF dev \in {"SNODE", "ANODE"} THEN 3 ELSE 4

(* Mutant of SetStatBlockBytes: the ids of nodes are as wide as the others. *)
SetStatBlockBytesWide(b, i, dev) ==
    Devices(b.numofdev[dev], 4, 1, b.items[i].ids[dev], b.items[i].vals[dev])

SetStatBlockBytes(b, i, dev) ==
    Devices(b.numofdev[dev], IdBytes(dev), 1, b.items[i].ids[dev], b.items[i].vals[dev])

(* The field a status block becomes: its rows one after the other. *)
StatBlock(b) ==
    FlattenSeq([i \in 1..b.rows |->
        SetBytes(1, b.items[i].gcgstat)
        \o SetStatBlockBytes(b, i, "SNODE") \o SetStatBlockBytes(b, i, "ANODE")
        \o SetStatBlockBytes(b, i, "SENSOR") \o SetStatBlockBytes(b, i, "ACTUATOR")
        \o SetTimestamp(b.items[i].timestamp)])

EnvBytes(dev) == IF dev = "ACTUATOR" THEN 2 ELSE 4

SetEnvBlockBytes(b, i, dev) ==
    Devices(b.numofdev[dev], 4, EnvBytes(dev), b.items[i].ids[dev], b.items[i].vals[dev])

EnvBlock(b) ==
    FlattenSeq([i \in 1..b.rows |->
        SetEnvBlockBytes(b, i, "SENSOR") \o SetEnvBlockBytes(b, i, "ACTUATOR")
        \o SetTimestamp(b.items[i].timestamp)])

-----------------------------------------------------------------------------
(* The numbers at ptr (counted from 0, as in the code): n of w bytes each.  *)
Numbers(bytes, ptr, n, w) ==
    [k \in 1..MaxDevices |->
        IF k <= n THEN ReadNum(SubSeq(bytes, ptr + (k - 1) * w + 1, ptr + k * w)) ELSE 0]

(* The devices of one kind behind their number at ptr, and where they end.  *)
GetStatBlockBytes(bytes, ptr, n, dev) ==
    [ids |-> Numbers(bytes, ptr + 1, n, IdBytes(dev)),
     vals |-> Numbers(bytes, ptr + 1 + n * IdBytes(dev), n, 1)]

GetEnvBlockBytes(bytes, ptr, n, dev) ==
    [ids |-> Numbers(bytes, ptr + 1, n, 4),
     vals |-> Numbers(bytes, ptr + 1 + n * 4, n, EnvBytes(dev))]

(* tp3_parsestatblock: the numbers of devices of the first row hold for all.*)
ParseStatBlock(rows, bytes) ==
    LET sn == bytes[2]
        an == bytes[4 * sn + 3]
        sens == bytes[4 * sn + 4 * an + 4]
        acts == bytes[4 * sn + 4 * an + 5 * sens + 5]
        step == 4 * sn + 4 * an + 5 * sens + 5 * acts + 12
        part(i) == LET p == (i - 1) * step + 1 IN
            [SNODE |-> GetStatBlockBytes(bytes, p, sn, "SNODE"),
             ANODE |-> GetStatBlockBytes(bytes, p + 4 * sn + 1, an, "ANODE"),
             SENSOR |-> GetStatBlockBytes(bytes, p + 4 * sn + 4 * an + 2, sens, "SENSOR"),
             ACTUATOR |-> GetStatBlockBytes(bytes, p + 4 * sn + 4 * an + 5 * sens + 3, acts, "ACTUATOR")]
    IN  [NewBlock(rows, [SNODE |-> sn, ANODE |-> an, SENSOR |-> sens, ACTUATOR |-> acts])
         EXCEPT !.items = [i \in 1..rows |->
            [timestamp |-> GetEpoch(SubSeq(bytes, i * step - 6, i * step)),
             gcgstat |-> bytes[(i - 1) * step + 1],
             ids |-> [d \in Dev |-> part(i)[d].ids], vals |-> [d \in Dev |-> part(i)[d].vals]]]]

(* tp3_parseenvblock: the rows have no nodes and no status. *)
ParseEnvBlock(rows, bytes) ==
    LET sens == bytes[1]
        acts == bytes[8 * sens + 2]
        step == 8 * sens + 6 * acts + 9
        part(i) == LET p == (i - 1) * step IN
            [SENSOR |-> GetEnvBlockBytes(bytes, p, sens, "SENSOR"),
             ACTUATOR |-> GetEnvBlockBytes(bytes, p + 8 * sens + 1, acts, "ACTUATOR")]
        kinds == {"SENSOR", "ACTUATOR"}
    IN  [NewBlock(rows, [SNODE |-> 0, ANODE |-> 0, SENSOR |-> sens, ACTUATOR |-> acts])
         EXCEPT !.items = [i \in 1..rows |->
            [timestamp |-> GetEpoch(SubSeq(bytes, i * step - 6, i * step)), gcgstat |-> 0,
             ids |-> [d \in Dev |-> IF d \in kinds THEN part(i)[d].ids ELSE Zeros[d]],
             vals |-> [d \in Dev |-> IF d \in kinds THEN part(i)[d].vals ELSE Zeros[d]]]]]
=============================================================================
