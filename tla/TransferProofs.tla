--------------------------- MODULE TransferProofs ---------------------------
(***************************************************************************)
(* Proofs about Transfer, for every content, header, shape and damage.     *)
(***************************************************************************)
EXTENDS Transfer, CodecProofs

-----------------------------------------------------------------------------
(* Blocks being filled *)

Stamps == {Epoch} \cup {Samples[k].timestamp : k \in DOMAIN Samples}
GcgStats == {0} \cup {Samples[k].gcgstat : k \in DOMAIN Samples}
Ids == {0} \cup UNION {{e.id : e \in DeviceIds[d]} : d \in Dev}
Vals == {0} \cup UNION {{e.val : e \in DeviceIds[d]} : d \in Dev}
Item == [timestamp : Stamps, gcgstat : GcgStats,
         ids : [Dev -> [1..MaxDevices -> Ids]], vals : [Dev -> [1..MaxDevices -> Vals]]]
BlocksOf(n) == [rows : {n}, numofdev : {f \in [Dev -> 0..MaxDevices] : Sendable(n, f)},
                items : [1..n -> Item], cur : Nat \ {0}, itemidx : [Dev -> 0..MaxDevices]]
Blocks == UNION {BlocksOf(n) : n \in Nat}

(* There is a sample for each row; a row without a timestamp has no        *)
(* devices, and the current one none behind those counted.                 *)
Unwritten(b) ==
    /\ 1..b.rows \subseteq DOMAIN Samples
    /\ \A i \in 1..b.rows : b.items[i].timestamp = Epoch =>
          \A d \in Dev, k \in 1..MaxDevices : b.items[i].ids[d][k] = 0
    /\ \A d \in Dev, k \in 1..MaxDevices :
          (b.cur \in 1..b.rows /\ b.items[b.cur].timestamp # Epoch /\ k > b.itemidx[d])
             => b.items[b.cur].ids[d][k] = 0

(* No row has more devices of a kind than the block was made for. *)
EndedRow(item, n) ==
    \A d \in Dev, k \in 1..MaxDevices : k > n[d] => item.ids[d][k] = 0 /\ item.vals[d][k] = 0
Ended(b) == \A i \in 1..b.rows : EndedRow(b.items[i], b.numofdev)

(* A block is of one of the shapes, and its rows hold ids and values the   *)
(* application has entered.                                                *)
OwnIds(d) == {0} \cup {e.id : e \in DeviceIds[d]}
OwnVals(d) == {0} \cup {e.val : e \in DeviceIds[d]}
DrawnRow(item) ==
    \A d \in Dev, k \in 1..MaxDevices : item.ids[d][k] \in OwnIds(d) /\ item.vals[d][k] \in OwnVals(d)
Drawn(b) ==
    /\ \E s \in Shapes : s.rows = b.rows
    /\ \A i \in 1..b.rows : DrawnRow(b.items[i])

(* A byte counts the rows. *)
BlockOK ==
    block # NoBlock =>
        block \in Blocks /\ Unwritten(block) /\ Ended(block) /\ Drawn(block) /\ block.rows <= 255

LEMMA InitBlockOK == InitBlock => BlockOK'
<1> SUFFICES ASSUME InitBlock PROVE BlockOK'
    OBVIOUS
<1>1. PICK s \in Shapes : block' = NewBlock(s.rows, s.numofdev) BY DEF InitBlock
<1>2. /\ s.rows \in Nat /\ s.numofdev \in [Dev -> 0..MaxDevices] /\ MaxDevices \in Nat
      /\ Sendable(s.rows, s.numofdev)
    BY HistoryAssumption
<1>3. EmptyItem \in Item
    BY DEF EmptyItem, Item, Stamps, GcgStats, Ids, Vals, Zeros
<1>4. block' \in Blocks
    <2>1. [i \in 1..s.rows |-> EmptyItem] \in [1..s.rows -> Item] BY <1>3
    <2>2. [d \in Dev |-> 0] \in [Dev -> 0..MaxDevices] BY <1>2
    <2>3. NewBlock(s.rows, s.numofdev) \in BlocksOf(s.rows)
        BY <1>2, <2>1, <2>2 DEF NewBlock, BlocksOf
    <2>4. block' \in BlocksOf(s.rows) BY <1>1, <2>3
    <2> QED BY <1>2, <2>4 DEF Blocks
<1>5. \A i \in 1..block'.rows : block'.items[i] = EmptyItem
    BY <1>1 DEF NewBlock
<1>6. Unwritten(block')
    <2>1. /\ EmptyItem.timestamp = Epoch
          /\ \A d \in Dev, k \in 1..MaxDevices : EmptyItem.ids[d][k] = 0
        BY DEF EmptyItem, Zeros
    <2>2. block'.rows = s.rows BY <1>1 DEF NewBlock
    <2>3. 1..s.rows \subseteq DOMAIN Samples BY HistoryAssumption
    <2> QED BY <1>5, <2>1, <2>2, <2>3 DEF Unwritten
<1>7. block'.rows <= 255
    <2>1. s.rows <= 255 BY WidthsAssumption, SMT
    <2>2. block'.rows = s.rows BY <1>1 DEF NewBlock
    <2> QED BY <2>1, <2>2
<1>8. Ended(block')
    <2>1. \A n : EndedRow(EmptyItem, n) BY DEF EndedRow, EmptyItem, Zeros
    <2> QED BY <1>5, <2>1 DEF Ended
<1>9. Drawn(block')
    <2>1. DrawnRow(EmptyItem) BY DEF DrawnRow, EmptyItem, Zeros, OwnIds, OwnVals
    <2>2. block'.rows = s.rows BY <1>1 DEF NewBlock
    <2> QED BY <1>5, <2>1, <2>2 DEF Drawn
<1> QED BY <1>4, <1>6, <1>7, <1>8, <1>9 DEF BlockOK

(* What a step may change in a block without losing anything of its rows.  *)
KeptRow(i) ==
    /\ block.items[i].timestamp # Epoch =>
         /\ block'.items[i].timestamp = block.items[i].timestamp
         /\ block'.items[i].gcgstat = block.items[i].gcgstat
    /\ \A d \in Dev : \A k \in Entered(block, i, d) :
         /\ block'.items[i].ids[d][k] = block.items[i].ids[d][k]
         /\ block'.items[i].vals[d][k] = block.items[i].vals[d][k]
KeptRows == block' # NoBlock => \A i \in 1..block.rows : KeptRow(i)

LEMMA NextEmptyBlockItemOK ==
    ASSUME BlockOK, NextEmptyBlockItem
    PROVE  BlockOK' /\ KeptRows
<1>1. PICK n \in Nat : block \in BlocksOf(n) BY DEF BlockOK, Blocks, NextEmptyBlockItem
<1>2. Unwritten(block) /\ Ended(block) /\ Drawn(block) /\ block.rows <= 255
    BY DEF BlockOK, NextEmptyBlockItem
<1> DEFINE row == NextRow(block)
<1>3. row \in EmptyRows(block)
    <2>1. EmptyRows(block) \subseteq Nat /\ EmptyRows(block) # {}
        BY <1>1 DEF NextEmptyBlockItem, EmptyRows, BlocksOf
    <2>2. \E i \in EmptyRows(block) : \A j \in EmptyRows(block) : i <= j
        BY <2>1, LeastNat
    <2> QED BY <2>2 DEF NextRow
<1>4. row \in 1..n /\ block.items[row].timestamp = Epoch /\ block.rows = n
    BY <1>1, <1>3 DEF EmptyRows, BlocksOf
<1> HIDE DEF row
<1> DEFINE item == [block.items[row] EXCEPT !.timestamp = Samples[row].timestamp,
                                            !.gcgstat = Samples[row].gcgstat]
<1>5. /\ block' = [block EXCEPT !.cur = row, !.itemidx = Restarted,
                                !.items = [@ EXCEPT ![row] = item]]
      /\ row \in DOMAIN block.items
    <2>1. block' = [block EXCEPT !.cur = row, !.itemidx = Restarted,
                                 !.items[row].timestamp = Samples[row].timestamp,
                                 !.items[row].gcgstat = Samples[row].gcgstat]
        BY DEF NextEmptyBlockItem, row
    <2> QED BY <1>1, <1>4, <2>1 DEF BlocksOf
<1>6. block.items[row] \in Item
    BY <1>1, <1>4 DEF BlocksOf
<1>7. /\ Samples[row].timestamp \in Stamps /\ Samples[row].gcgstat \in GcgStats
      /\ Samples[row].timestamp # Epoch
    <2>1. row \in DOMAIN Samples BY <1>2, <1>4 DEF Unwritten
    <2> QED BY <2>1, HistoryAssumption DEF Stamps, GcgStats
<1>8. /\ item \in Item /\ item.timestamp # Epoch
      /\ item.ids = block.items[row].ids /\ item.vals = block.items[row].vals
    BY <1>6, <1>7 DEF Item
<1> HIDE DEF item
<1>9. /\ block'.rows = n /\ block'.cur = row /\ block'.itemidx = Restarted
      /\ block'.numofdev = block.numofdev
      /\ \A i \in 1..n : block'.items[i] = IF i = row THEN item ELSE block.items[i]
    BY <1>1, <1>4, <1>5 DEF BlocksOf
<1>10. block' \in BlocksOf(n)
    <2>1. [block.items EXCEPT ![row] = item] \in [1..n -> Item]
        BY <1>1, <1>4, <1>8 DEF BlocksOf
    <2>2. Restarted \in [Dev -> 0..MaxDevices] BY HistoryAssumption DEF Restarted
    <2>3. row \in Nat \ {0} BY <1>4
    <2> QED BY <1>1, <1>5, <2>1, <2>2, <2>3 DEF BlocksOf
<1>11. Unwritten(block')
    <2>1. \A d \in Dev, k \in 1..MaxDevices : item.ids[d][k] = 0
        BY <1>2, <1>4, <1>8 DEF Unwritten
    <2> QED BY <1>2, <1>4, <1>8, <1>9, <2>1 DEF Unwritten
<1>12. \A i \in 1..n : KeptRow(i)
    BY <1>4, <1>8, <1>9 DEF KeptRow
<1>13. Ended(block')
    <2>1. \A i \in 1..n : EndedRow(block.items[i], block.numofdev) BY <1>2, <1>4 DEF Ended
    <2>2. EndedRow(item, block.numofdev) BY <1>4, <1>8, <2>1 DEF EndedRow
    <2> QED BY <1>9, <2>1, <2>2 DEF Ended
<1>14. Drawn(block')
    <2>1. \A i \in 1..n : DrawnRow(block.items[i]) BY <1>2, <1>4 DEF Drawn
    <2>2. DrawnRow(item) BY <1>4, <1>8, <2>1 DEF DrawnRow
    <2>3. \E s \in Shapes : s.rows = n BY <1>2, <1>4 DEF Drawn
    <2> QED BY <1>9, <2>1, <2>2, <2>3 DEF Drawn
<1>15. block' \in Blocks /\ block'.rows <= 255 BY <1>2, <1>4, <1>9, <1>10 DEF Blocks
<1> QED BY <1>4, <1>11, <1>12, <1>13, <1>14, <1>15 DEF BlockOK, KeptRows

LEMMA SetBlockItemOK ==
    ASSUME BlockOK, SetBlockItem
    PROVE  BlockOK' /\ KeptRows
<1>1. PICK n \in Nat : block \in BlocksOf(n) BY DEF BlockOK, Blocks, SetBlockItem
<1>2. Unwritten(block) /\ Ended(block) /\ Drawn(block) /\ block.rows <= 255
    BY SMTT(40) DEF BlockOK, SetBlockItem
<1>0. PICK dev \in Dev : \E e \in DeviceIds[dev] :
        /\ block.itemidx[dev] + 1 <= block.numofdev[dev]
        /\ block' = [block EXCEPT !.items[block.cur].ids[dev][block.itemidx[dev] + 1] = e.id,
                                  !.items[block.cur].vals[dev][block.itemidx[dev] + 1] = e.val,
                                  !.itemidx[dev] = block.itemidx[dev] + 1]
    BY ZenonT(60) DEF SetBlockItem
<1>3. PICK e \in DeviceIds[dev] :
        /\ block.itemidx[dev] + 1 <= block.numofdev[dev]
        /\ block' = [block EXCEPT !.items[block.cur].ids[dev][block.itemidx[dev] + 1] = e.id,
                                  !.items[block.cur].vals[dev][block.itemidx[dev] + 1] = e.val,
                                  !.itemidx[dev] = block.itemidx[dev] + 1]
    BY <1>0
<1>4. PICK row, k : row = block.cur /\ k = block.itemidx[dev] + 1
    OBVIOUS
<1>5. /\ row \in 1..n /\ block.rows = n /\ block.items[row].timestamp # Epoch
      /\ k \in 1..MaxDevices /\ block.items[row] \in Item
    <2>1. MaxDevices \in Nat BY HistoryAssumption
    <2>2. block.cur <= block.rows /\ block.items[block.cur].timestamp # Epoch BY DEF SetBlockItem
    <2>3. /\ block.rows = n /\ block.cur \in Nat \ {0} /\ block.items \in [1..n -> Item]
          /\ block.itemidx[dev] \in 0..MaxDevices /\ block.numofdev[dev] \in 0..MaxDevices
        BY <1>1 DEF BlocksOf
    <2>4. row \in 1..n BY <1>4, <2>2, <2>3
    <2>5. k \in 1..MaxDevices BY <1>3, <1>4, <2>1, <2>3
    <2> QED BY <1>4, <2>2, <2>3, <2>4, <2>5
<1>6. e.id \in Ids /\ e.val \in Vals BY DEF Ids, Vals
<1> DEFINE old == block.items[row]
           ids == [old.ids EXCEPT ![dev] = [old.ids[dev] EXCEPT ![k] = e.id]]
           vals == [old.vals EXCEPT ![dev] = [old.vals[dev] EXCEPT ![k] = e.val]]
           item == [old EXCEPT !.ids = ids, !.vals = vals]
<1>7. block' = [block EXCEPT !.items = [block.items EXCEPT ![row] = item],
                             !.itemidx = [block.itemidx EXCEPT ![dev] = k]]
    <2> DEFINE b1 == [block EXCEPT !.items = [block.items EXCEPT ![row] = [old EXCEPT !.ids = ids]]]
               b2 == [b1 EXCEPT !.items = [b1.items EXCEPT ![row] =
                        [b1.items[row] EXCEPT !.vals = vals]]]
    <2>1. row \in DOMAIN block.items BY <1>1, <1>5 DEF BlocksOf
    <2>2. "items" \in DOMAIN block /\ "itemidx" \in DOMAIN block BY <1>1 DEF BlocksOf
    <2>3. "ids" \in DOMAIN old /\ "vals" \in DOMAIN old BY <1>5 DEF Item
    <2>4. b1 = [block EXCEPT !.items[row].ids[dev][k] = e.id] OBVIOUS
    <2>5. b1.items = [block.items EXCEPT ![row] = [old EXCEPT !.ids = ids]]
          /\ b1.items[row] = [old EXCEPT !.ids = ids] /\ b1.items[row].vals = old.vals
          /\ b1.itemidx = block.itemidx
        BY <2>1, <2>2, <2>3, SMTT(40)
    <2> HIDE DEF b1
    <2>6. b2 = [b1 EXCEPT !.items[row].vals[dev][k] = e.val] BY <2>5, SMTT(40)
    <2>7. b2.items = [block.items EXCEPT ![row] = item] /\ b2.itemidx = block.itemidx
        BY <2>1, <2>2, <2>3, <2>5 DEF b1
    <2> HIDE DEF b2
    <2>8. block' = [b2 EXCEPT !.itemidx[dev] = k]
        BY <1>3, <1>4, <2>4, <2>6
    <2>9. b2 = [block EXCEPT !.items = [block.items EXCEPT ![row] = item]]
        BY <2>2, <2>5, <2>7 DEF b1, b2
    <2> QED BY <2>2, <2>7, <2>8, <2>9
<1>8. /\ item \in Item /\ item.timestamp = old.timestamp /\ item.gcgstat = old.gcgstat
      /\ \A d \in Dev, j \in 1..MaxDevices :
            /\ item.ids[d][j] = IF d = dev /\ j = k THEN e.id ELSE old.ids[d][j]
            /\ item.vals[d][j] = IF d = dev /\ j = k THEN e.val ELSE old.vals[d][j]
    <2>1. old \in Item BY <1>5
    <2>2. old.ids \in [Dev -> [1..MaxDevices -> Ids]] /\ old.vals \in [Dev -> [1..MaxDevices -> Vals]]
        BY <2>1 DEF Item
    <2> HIDE DEF old
    <2>3. ids \in [Dev -> [1..MaxDevices -> Ids]] /\ vals \in [Dev -> [1..MaxDevices -> Vals]]
        BY <1>6, <2>2
    <2>4. \A d \in Dev, j \in 1..MaxDevices :
            /\ ids[d][j] = IF d = dev /\ j = k THEN e.id ELSE old.ids[d][j]
            /\ vals[d][j] = IF d = dev /\ j = k THEN e.val ELSE old.vals[d][j]
        BY <1>5, <2>2
    <2> HIDE DEF ids, vals
    <2>5. item.ids = ids /\ item.vals = vals /\ item \in Item
          /\ item.timestamp = old.timestamp /\ item.gcgstat = old.gcgstat
        BY <2>1, <2>3 DEF Item
    <2> QED BY <2>4, <2>5
<1> HIDE DEF item
<1>9. /\ block'.rows = n /\ block'.cur = row /\ block'.numofdev = block.numofdev
      /\ block'.itemidx = [block.itemidx EXCEPT ![dev] = k]
      /\ \A i \in 1..n : block'.items[i] = IF i = row THEN item ELSE block.items[i]
    BY <1>1, <1>4, <1>5, <1>7 DEF BlocksOf
<1>10. block' \in BlocksOf(n)
    <2>1. [block.items EXCEPT ![row] = item] \in [1..n -> Item]
        BY <1>1, <1>5, <1>8 DEF BlocksOf
    <2>2. [block.itemidx EXCEPT ![dev] = k] \in [Dev -> 0..MaxDevices]
        BY <1>1, <1>5 DEF BlocksOf
    <2> QED BY <1>1, <1>7, <2>1, <2>2 DEF BlocksOf
<1>11. \A d \in Dev : block'.itemidx[d] = IF d = dev THEN k ELSE block.itemidx[d]
    BY <1>1, <1>9 DEF BlocksOf
<1>12. \A d \in Dev, j \in 1..MaxDevices : j > block.itemidx[d] => old.ids[d][j] = 0
    BY <1>2, <1>4, <1>5 DEF Unwritten
<1>13. block.itemidx[dev] \in Nat BY <1>1 DEF BlocksOf
<1>14. Unwritten(block')
    <2>1. \A d \in Dev, j \in 1..MaxDevices : j > block'.itemidx[d] => item.ids[d][j] = 0
        BY <1>4, <1>8, <1>11, <1>12, <1>13
    <2> QED BY <1>2, <1>5, <1>8, <1>9, <2>1 DEF Unwritten
<1>15. ASSUME NEW i \in 1..n PROVE KeptRow(i)
    <2>1. CASE i = row
        <3>1. \A d \in Dev : \A j \in Entered(block, i, d) :
                 j \in 1..MaxDevices /\ ~(d = dev /\ j = k)
            BY <1>4, <1>12, <1>13, <2>1 DEF Entered
        <3> QED BY <1>8, <1>9, <2>1, <3>1 DEF KeptRow
    <2>2. CASE i # row
        BY <1>9, <2>2 DEF KeptRow
    <2> QED BY <2>1, <2>2
<1>16. Ended(block')
    <2>1. \A i \in 1..n : EndedRow(block.items[i], block.numofdev) BY <1>2, <1>5 DEF Ended
    <2>2. EndedRow(old, block.numofdev) BY <1>5, <2>1
    <2>3. k <= block.numofdev[dev] BY <1>3, <1>4
    <2>4. ASSUME NEW d \in Dev, NEW j \in 1..MaxDevices, j > block.numofdev[d]
          PROVE  item.ids[d][j] = 0 /\ item.vals[d][j] = 0
        <3>1. old.ids[d][j] = 0 /\ old.vals[d][j] = 0 BY <2>2, <2>4 DEF EndedRow
        <3>2. ~(d = dev /\ j = k)
            <4>1. block.numofdev[dev] \in 0..MaxDevices BY <1>1 DEF BlocksOf
            <4> QED BY <1>5, <2>3, <2>4, <4>1
        <3> QED BY <1>8, <3>1, <3>2
    <2>5. EndedRow(item, block.numofdev) BY <2>4 DEF EndedRow
    <2> QED BY <1>9, <2>1, <2>5 DEF Ended
<1>17. Drawn(block')
    <2>1. \A i \in 1..n : DrawnRow(block.items[i]) BY <1>2, <1>5 DEF Drawn
    <2>2. DrawnRow(old) BY <1>5, <2>1
    <2>3. e.id \in OwnIds(dev) /\ e.val \in OwnVals(dev) BY DEF OwnIds, OwnVals
    <2>4. ASSUME NEW d \in Dev, NEW j \in 1..MaxDevices
          PROVE  item.ids[d][j] \in OwnIds(d) /\ item.vals[d][j] \in OwnVals(d)
        <3>1. old.ids[d][j] \in OwnIds(d) /\ old.vals[d][j] \in OwnVals(d) BY <2>2 DEF DrawnRow
        <3> QED BY <1>8, <2>3, <3>1
    <2>5. DrawnRow(item) BY <2>4 DEF DrawnRow
    <2>6. \E s \in Shapes : s.rows = n BY <1>2, <1>5 DEF Drawn
    <2> QED BY <1>9, <2>1, <2>5, <2>6 DEF Drawn
<1>18. block' \in Blocks /\ block'.rows <= 255 BY <1>2, <1>5, <1>9, <1>10 DEF Blocks
<1> QED BY <1>5, <1>14, <1>15, <1>16, <1>17, <1>18 DEF BlockOK, KeptRows

(* Whatever is written into a block stays there until it is released, in   *)
(* whichever order rows are begun and devices of all kinds are entered.    *)
THEOREM BlockRowsKept == Spec => RowsKept
<1> DEFINE Step == block # NoBlock /\ block' # NoBlock => \A i \in 1..block.rows : KeptRow(i)
<1>1. Init => BlockOK BY DEF Init, BlockInit, BlockOK
<1>2. BlockOK /\ [Next]_vars => BlockOK' /\ [Step]_block
    <2> SUFFICES ASSUME BlockOK, [Next]_vars PROVE BlockOK' /\ [Step]_block
        OBVIOUS
    <2>1. CASE UNCHANGED block
        BY <2>1 DEF BlockOK
    <2>2. CASE InitBlock
        BY <2>2, InitBlockOK DEF InitBlock
    <2>3. CASE NextEmptyBlockItem
        BY <2>3, NextEmptyBlockItemOK DEF KeptRows
    <2>4. CASE SetBlockItem
        BY <2>4, SetBlockItemOK DEF KeptRows
    <2>5. CASE ReleaseBlock
        BY <2>5 DEF ReleaseBlock, BlockOK
    <2>6. \/ UNCHANGED block \/ InitBlock \/ NextEmptyBlockItem \/ SetBlockItem
          \/ ReleaseBlock
        BY DEF Next, vars, FillBlock, SendContent, SendHistory, SendStatBlock, SendEnvBlock,
               SendReport, Send, Generate, Damage, Parse, Release, ChangeNodes
    <2> QED BY <2>1, <2>2, <2>3, <2>4, <2>5, <2>6
<1>3. [Step]_block => [block # NoBlock /\ block' # NoBlock =>
         \A i \in 1..block.rows :
           /\ block.items[i].timestamp # Epoch =>
                /\ block'.items[i].timestamp = block.items[i].timestamp
                /\ block'.items[i].gcgstat = block.items[i].gcgstat
           /\ \A d \in Dev : \A k \in Entered(block, i, d) :
                /\ block'.items[i].ids[d][k] = block.items[i].ids[d][k]
                /\ block'.items[i].vals[d][k] = block.items[i].vals[d][k]]_block
    BY DEF KeptRow
<1> HIDE DEF Step
<1> QED BY <1>1, <1>2, <1>3, PTL DEF Spec, RowsKept

-----------------------------------------------------------------------------
(* What is put into a message *)

(* The codes of a GCG's messages, and the lengths they stand for. *)
LEMMA ReportNumbers ==
    /\ FC.NUMOFSN = 4096 /\ FC.NUMOFAN = 4098 /\ FC.NUMOFSENS = 8193 /\ FC.NUMOFACTS = 12289
    /\ FC.SWVER = 4110 /\ FC.NUMOFBLK = 24579 /\ FC.ARROFSNID = 4097 /\ FC.ARROFANID = 4099
    /\ FC.ARROFGSID = 8194 /\ FC.ARROFGAID = 12290 /\ FC.ARROFSNSTAT = 16385
    /\ FC.ARROFANSTAT = 16386 /\ FC.ARROFSENSSTAT = 16387 /\ FC.ARROFACTSSTAT = 16389
    /\ FC.ARROFSENSVAL = 20480 /\ FC.ARROFACTSVAL = 20481 /\ FC.TIMESTAMP = 16390
    /\ FC.SERIALNUM = 4100 /\ FC.MODELNUM = 4101 /\ FC.BLKOFSTAT = 24580 /\ FC.BLKOFENV = 24581
BY SMT DEF FC

LEMMA ReportLengths ==
    /\ FieldLen(4096) = 1 /\ FieldLen(4098) = 1 /\ FieldLen(4110) = 2
    /\ FieldLen(4097) = -3 /\ FieldLen(4099) = -3 /\ FieldLen(4100) = 0 /\ FieldLen(4101) = 0
    /\ FieldLen(8193) = 2 /\ FieldLen(8194) = -4 /\ FieldLen(12289) = 2 /\ FieldLen(12290) = -4
    /\ FieldLen(16385) = -1 /\ FieldLen(16386) = -1 /\ FieldLen(16387) = -1 /\ FieldLen(16389) = -1
    /\ FieldLen(16390) = 7 /\ FieldLen(20480) = -4 /\ FieldLen(20481) = -2
    /\ FieldLen(24579) = 1 /\ FieldLen(24580) = 0 /\ FieldLen(24581) = 0
<1>1. /\ FieldLen(4096) = 1 /\ FieldLen(4098) = 1 /\ FieldLen(4110) = 2
      /\ FieldLen(4097) = -3 /\ FieldLen(4099) = -3
    BY SMT DEF FieldLen
<1>2. FieldLen(4100) = 0 /\ FieldLen(4101) = 0
    BY SMT DEF FieldLen
<1>3. /\ FieldLen(8193) = 2 /\ FieldLen(8194) = -4 /\ FieldLen(12289) = 2 /\ FieldLen(12290) = -4
    BY SMT DEF FieldLen
<1>4. /\ FieldLen(16385) = -1 /\ FieldLen(16386) = -1 /\ FieldLen(16387) = -1 /\ FieldLen(16389) = -1
      /\ FieldLen(16390) = 7
    BY SMT DEF FieldLen
<1>5. /\ FieldLen(20480) = -4 /\ FieldLen(20481) = -2 /\ FieldLen(24579) = 1
      /\ FieldLen(24580) = 0 /\ FieldLen(24581) = 0
    BY SMTT(40) DEF FieldLen
<1> QED BY <1>1, <1>2, <1>3, <1>4, <1>5

LEMMA ReportCodes ==
    /\ FC.NUMOFSN \in CodesOfLength(1..4) /\ FC.NUMOFAN \in CodesOfLength(1..4)
    /\ FC.NUMOFSENS \in CodesOfLength(1..4) /\ FC.NUMOFACTS \in CodesOfLength(1..4)
    /\ FC.SWVER \in CodesOfLength(1..4) /\ FC.NUMOFBLK \in CodesOfLength(1..4)
    /\ FC.ARROFSNID \in CodesOfLength(-4..-1) /\ FC.ARROFANID \in CodesOfLength(-4..-1)
    /\ FC.ARROFGSID \in CodesOfLength(-4..-1) /\ FC.ARROFGAID \in CodesOfLength(-4..-1)
    /\ FC.ARROFSNSTAT \in CodesOfLength(-4..-1) /\ FC.ARROFANSTAT \in CodesOfLength(-4..-1)
    /\ FC.ARROFSENSSTAT \in CodesOfLength(-4..-1) /\ FC.ARROFACTSSTAT \in CodesOfLength(-4..-1)
    /\ FC.ARROFSENSVAL \in CodesOfLength(-4..-1) /\ FC.ARROFACTSVAL \in CodesOfLength(-4..-1)
    /\ FC.TIMESTAMP \in CodesOfLength({7})
    /\ FC.SERIALNUM \in FieldCodes /\ FC.MODELNUM \in FieldCodes
    /\ FC.BLKOFSTAT \in FieldCodes /\ FC.BLKOFENV \in FieldCodes
    /\ FieldLen(FC.BLKOFSTAT) = 0 /\ FieldLen(FC.BLKOFENV) = 0
<1>6. /\ FC.NUMOFSN \in Range(FC) /\ FC.NUMOFAN \in Range(FC) /\ FC.NUMOFSENS \in Range(FC)
      /\ FC.NUMOFACTS \in Range(FC) /\ FC.SWVER \in Range(FC) /\ FC.NUMOFBLK \in Range(FC)
      /\ FC.ARROFSNID \in Range(FC) /\ FC.ARROFANID \in Range(FC) /\ FC.ARROFGSID \in Range(FC)
      /\ FC.ARROFGAID \in Range(FC) /\ FC.ARROFSNSTAT \in Range(FC) /\ FC.ARROFANSTAT \in Range(FC)
      /\ FC.ARROFSENSSTAT \in Range(FC) /\ FC.ARROFACTSSTAT \in Range(FC)
      /\ FC.ARROFSENSVAL \in Range(FC) /\ FC.ARROFACTSVAL \in Range(FC) /\ FC.TIMESTAMP \in Range(FC)
      /\ FC.SERIALNUM \in Range(FC) /\ FC.MODELNUM \in Range(FC)
      /\ FC.BLKOFSTAT \in Range(FC) /\ FC.BLKOFENV \in Range(FC)
    BY DEF FC, Range
<1>7. FC.RESCODE = 8 BY CodeNumbers
<1>8. \A code \in Range(FC), n \in Int : code > 8 /\ FieldLen(code) = n =>
         /\ n \in 1..4 => code \in CodesOfLength(1..4)
         /\ n \in -4..-1 => code \in CodesOfLength(-4..-1)
         /\ n = 7 => code \in CodesOfLength({7})
    BY <1>7 DEF CodesOfLength, FieldCodes
<1>9. \A code \in Range(FC) : code > 8 => code \in FieldCodes BY <1>7 DEF FieldCodes
<1>10. 4096 > 8 /\ 4097 > 8 /\ 4098 > 8 /\ 4099 > 8 /\ 4100 > 8 /\ 4101 > 8 /\ 4110 > 8 /\ 8193 > 8
       /\ 8194 > 8 /\ 12289 > 8 /\ 12290 > 8 /\ 16385 > 8 /\ 16386 > 8 /\ 16387 > 8 /\ 16389 > 8
       /\ 16390 > 8 /\ 20480 > 8 /\ 20481 > 8 /\ 24579 > 8 /\ 24580 > 8 /\ 24581 > 8
    BY SMT
<1>11. 1 \in 1..4 /\ 2 \in 1..4 /\ -1 \in -4..-1 /\ -2 \in -4..-1 /\ -3 \in -4..-1 /\ -4 \in -4..-1
    BY SMT
<1>12. /\ FC.NUMOFSN \in CodesOfLength(1..4) /\ FC.NUMOFAN \in CodesOfLength(1..4)
       /\ FC.NUMOFSENS \in CodesOfLength(1..4) /\ FC.NUMOFACTS \in CodesOfLength(1..4)
       /\ FC.SWVER \in CodesOfLength(1..4) /\ FC.NUMOFBLK \in CodesOfLength(1..4)
    BY ReportNumbers, ReportLengths, <1>6, <1>8, <1>10, <1>11, SMT
<1>13. /\ FC.ARROFSNID \in CodesOfLength(-4..-1) /\ FC.ARROFANID \in CodesOfLength(-4..-1)
       /\ FC.ARROFGSID \in CodesOfLength(-4..-1) /\ FC.ARROFGAID \in CodesOfLength(-4..-1)
    BY ReportNumbers, ReportLengths, <1>6, <1>8, <1>10, <1>11, SMT
<1>14. /\ FC.ARROFSNSTAT \in CodesOfLength(-4..-1) /\ FC.ARROFANSTAT \in CodesOfLength(-4..-1)
       /\ FC.ARROFSENSSTAT \in CodesOfLength(-4..-1) /\ FC.ARROFACTSSTAT \in CodesOfLength(-4..-1)
       /\ FC.ARROFSENSVAL \in CodesOfLength(-4..-1) /\ FC.ARROFACTSVAL \in CodesOfLength(-4..-1)
    BY ReportNumbers, ReportLengths, <1>6, <1>8, <1>10, <1>11, SMT
<1>15. FC.TIMESTAMP \in CodesOfLength({7}) BY ReportNumbers, ReportLengths, <1>6, <1>8, <1>10, SMT
<1>16. /\ FC.SERIALNUM \in FieldCodes /\ FC.MODELNUM \in FieldCodes
       /\ FC.BLKOFSTAT \in FieldCodes /\ FC.BLKOFENV \in FieldCodes
    BY ReportNumbers, <1>6, <1>9, <1>10, SMT
<1> QED BY ReportNumbers, ReportLengths, <1>12, <1>13, <1>14, <1>15, <1>16, SMTT(40)

(* A single entry is a content. *)
LEMMA EntryOf ==
    ASSUME NEW how, NEW code, NEW val, [how |-> how, code |-> code, val |-> val] \in Entries
    PROVE  Entry(how, code, val) \in Seq(Entries)
BY DEF Entry

LEMMA NumberOf ==
    ASSUME NEW code \in CodesOfLength(1..4), NEW n \in Int
    PROVE  Number(code, n) \in Seq(Entries)
<1>1. <<n>> \in [1..1 -> Int] OBVIOUS
<1>2. [how |-> "num", code |-> code, val |-> <<n>>] \in Entries BY <1>1 DEF Entries
<1> QED BY <1>2, EntryOf DEF Number

LEMMA ArrayOf ==
    ASSUME NEW code \in CodesOfLength(-4..-1), NEW list \in Seq(Int), Len(list) <= MaxInts
    PROVE  Entry("array", code, list) \in Seq(Entries)
<1>1. [how |-> "array", code |-> code, val |-> list] \in Entries BY DEF Entries
<1> QED BY <1>1, EntryOf

LEMMA BytesOf ==
    ASSUME NEW code \in FieldCodes, NEW bytes \in Seq(Byte), Fitting(bytes, code)
    PROVE  Entry("bytes", code, bytes) \in Seq(Entries)
<1>1. [how |-> "bytes", code |-> code, val |-> bytes] \in Entries BY DEF Entries
<1> QED BY <1>1, EntryOf

LEMMA TimeOf ==
    ASSUME NEW code \in CodesOfLength({7}), NEW t \in Times
    PROVE  Entry("time", code, t) \in Seq(Entries)
<1>1. [how |-> "time", code |-> code, val |-> t] \in Entries BY DEF Entries
<1> QED BY <1>1, EntryOf

LEMMA ResponseOf ==
    ASSUME NEW n \in Int
    PROVE  Response(n) \in Seq(Entries)
<1>1. <<n>> \in [1..1 -> Int] OBVIOUS
<1>2. [how |-> "rescode", code |-> FC.RESCODE, val |-> <<n>>] \in Entries BY <1>1 DEF Entries
<1> QED BY <1>2, EntryOf DEF Response

-----------------------------------------------------------------------------
(* The nodes of a GCG *)

Node == [id : NodeId, stat : Byte, devs : NodeDevs]

(* s[k] is the number of devices of the first k nodes. *)
Total(s, nodes) ==
    /\ s \in [0..Len(nodes) -> Int] /\ s[0] = 0
    /\ \A k \in 1..Len(nodes) : s[k] = s[k - 1] + Len(nodes[k].devs)

(* A set names each node once, and counts all their devices. *)
NsetOK(nset) ==
    /\ nset \in [nodes : Seq(Node), numofdev : Int]
    /\ \A i, j \in 1..Len(nset.nodes) : nset.nodes[i].id = nset.nodes[j].id => i = j
    /\ \E s : Total(s, nset.nodes) /\ nset.numofdev = s[Len(nset.nodes)]

GcgOK ==
    /\ gcg = [state |-> gcg.state, SNODE |-> gcg.SNODE, ANODE |-> gcg.ANODE]
    /\ NsetOK(gcg.SNODE) /\ NsetOK(gcg.ANODE)

LEMMA EmptyNsetOK == NsetOK(EmptyNset)
<1>1. EmptyNset.nodes = << >> /\ EmptyNset.numofdev = 0 /\ Len(<< >>) = 0
    BY DEF EmptyNset
<1>2. EmptyNset \in [nodes : Seq(Node), numofdev : Int] BY EmptySeq DEF EmptyNset
<1> DEFINE s == [k \in 0..0 |-> 0]
<1>3. Total(s, << >>) /\ s[0] = 0 BY DEF Total
<1> HIDE DEF s
<1> QED BY <1>1, <1>2, <1>3 DEF NsetOK

(* What tp3_getidxnode finds. *)
LEMMA IdxNodeOf ==
    ASSUME NEW nset, NsetOK(nset), NEW id
    PROVE  \/ IdxNode(nset, id) = 0 /\ \A i \in 1..Len(nset.nodes) : nset.nodes[i].id # id
           \/ IdxNode(nset, id) \in 1..Len(nset.nodes) /\ nset.nodes[IdxNode(nset, id)].id = id
<1> DEFINE I == {i \in 1..Len(nset.nodes) : nset.nodes[i].id = id}
<1>1. IdxNode(nset, id) = IF I # {} THEN Min(I) ELSE 0
    BY Zenon DEF IdxNode, SelectInSeq
<1>2. nset.nodes \in Seq(Node) BY DEF NsetOK
<1>3. I \subseteq Nat BY <1>2, LenProperties
<1>4. CASE I = {}
    BY <1>1, <1>4
<1>5. CASE I # {}
    <2> HIDE DEF I
    <2>1. \E x \in I : \A y \in I : x <= y BY <1>3, <1>5, LeastNat
    <2>2. Min(I) \in I BY <2>1, Zenon DEF Min
    <2> QED BY <1>1, <1>5, <2>2 DEF I
<1> QED BY <1>4, <1>5

LEMMA UpdateNsetOK ==
    ASSUME NEW nset, NsetOK(nset), NEW id \in NodeId, NEW devs \in NodeDevs
    PROVE  NsetOK(UpdateNset(nset, id, devs))
<1> DEFINE nodes == nset.nodes
           n == Len(nset.nodes)
           idx == IdxNode(nset, id)
<1>1. nodes \in Seq(Node) /\ n \in Nat /\ nset.numofdev \in Int
    BY LenProperties DEF NsetOK
<1>2. \A k \in 1..n : nodes[k] \in Node BY <1>1, ElementOfSeq
<1>3. \A d \in NodeDevs : Len(d) \in Nat BY GcgAssumption, LenProperties
<1>4. PICK s : Total(s, nodes) /\ nset.numofdev = s[n] BY DEF NsetOK
<1>5. \A i, j \in 1..n : nodes[i].id = nodes[j].id => i = j BY DEF NsetOK
<1>6. CASE idx = 0
    <2> DEFINE node == [id |-> id, stat |-> 0, devs |-> devs]
               longer == Append(nodes, node)
               t == [k \in 0..(n + 1) |-> IF k <= n THEN s[k] ELSE s[n] + Len(devs)]
    <2>1. UpdateNset(nset, id, devs) = [nodes |-> longer, numofdev |-> nset.numofdev + Len(devs)]
        BY <1>6 DEF UpdateNset
    <2>2. node \in Node BY DEF Node, Byte
    <2>0. node.id = id /\ node.devs = devs OBVIOUS
    <2> HIDE DEF node
    <2>3. /\ longer \in Seq(Node) /\ Len(longer) = n + 1 /\ longer[n + 1] = node
          /\ \A k \in 1..n : longer[k] = nodes[k]
        BY <1>1, <2>2, AppendProperties
    <2> HIDE DEF longer
    <2>4. \A i, j \in 1..(n + 1) : longer[i].id = longer[j].id => i = j
        <3>1. \A i \in 1..n : nodes[i].id # id BY <1>6, IdxNodeOf
        <3>2. \A i \in 1..(n + 1) : i \in 1..n \/ i = n + 1 BY <1>1
        <3> QED BY <1>5, <2>0, <2>3, <3>1, <3>2
    <2>5. s \in [0..n -> Int] /\ s[0] = 0 /\ \A k \in 1..n : s[k] = s[k - 1] + Len(nodes[k].devs)
        BY <1>4 DEF Total
    <2>6. t \in [0..(n + 1) -> Int]
        <3>1. s[n] + Len(devs) \in Int BY <1>1, <1>3, <2>5, SMTT(40)
        <3>2. \A k \in 0..(n + 1) : k <= n => s[k] \in Int BY <1>1, <2>5
        <3> QED BY <3>1, <3>2
    <2>7. t[0] = 0 /\ t[n + 1] = s[n] + Len(devs) /\ \A k \in 0..n : t[k] = s[k]
        BY <1>1, <2>5
    <2> HIDE DEF t
    <2>8. \A k \in 1..(n + 1) : t[k] = t[k - 1] + Len(longer[k].devs)
        <3>1. ASSUME NEW k \in 1..n PROVE t[k] = t[k - 1] + Len(longer[k].devs)
            <4>1. k \in 0..n /\ k - 1 \in 0..n OBVIOUS
            <4> QED BY <2>3, <2>5, <2>7, <4>1
        <3>2. t[n + 1] = t[(n + 1) - 1] + Len(longer[n + 1].devs)
            <4>1. (n + 1) - 1 = n /\ n \in 0..n BY <1>1
            <4> QED BY <2>0, <2>3, <2>7, <4>1
        <3>3. \A k \in 1..(n + 1) : k \in 1..n \/ k = n + 1 BY <1>1
        <3> QED BY <3>1, <3>2, <3>3
    <2>9. Total(t, longer) BY <2>3, <2>6, <2>7, <2>8 DEF Total
    <2>10. nset.numofdev + Len(devs) = t[Len(longer)] BY <1>4, <2>3, <2>7
    <2>11. nset.numofdev + Len(devs) \in Int BY <1>1, <1>3
    <2> QED BY <2>1, <2>3, <2>4, <2>9, <2>10, <2>11 DEF NsetOK
<1>7. CASE idx # 0
    <2> DEFINE node == [nodes[idx] EXCEPT !.devs = devs]
               other == [nodes EXCEPT ![idx] = node]
               d == Len(devs) - Len(nodes[idx].devs)
               t == [k \in 0..n |-> IF idx <= k THEN s[k] + d ELSE s[k]]
    <2>1. idx \in 1..n BY <1>7, IdxNodeOf
    <2>2. UpdateNset(nset, id, devs) = [nodes |-> other, numofdev |-> nset.numofdev + d]
        BY <1>7 DEF UpdateNset, Recounted
    <2>3. node \in Node /\ node.id = nodes[idx].id /\ node.devs = devs
        BY <1>2, <2>1 DEF Node
    <2>4. d \in Int /\ Len(nodes[idx].devs) \in Nat /\ d = Len(devs) - Len(nodes[idx].devs)
        <3>1. nodes[idx].devs \in NodeDevs BY <1>2, <2>1 DEF Node
        <3> QED BY <1>3, <3>1
    <2> HIDE DEF node, d
    <2>5. /\ other \in Seq(Node) /\ Len(other) = n
          /\ \A k \in 1..n : other[k] = IF k = idx THEN node ELSE nodes[k]
        <3>1. nodes \in [1..n -> Node] BY <1>1, LenProperties
        <3>2. other \in [1..n -> Node] BY <2>3, <3>1
        <3>3. \A k \in 1..n : other[k] = IF k = idx THEN node ELSE nodes[k] BY <3>1
        <3> QED BY <1>1, <3>2, <3>3, FunctionIsSeq
    <2> HIDE DEF other
    <2>6. \A i, j \in 1..n : other[i].id = other[j].id => i = j
        <3>1. \A i \in 1..n : other[i].id = nodes[i].id BY <2>3, <2>5
        <3> QED BY <1>5, <3>1
    <2>7. s \in [0..n -> Int] /\ s[0] = 0 /\ \A k \in 1..n : s[k] = s[k - 1] + Len(nodes[k].devs)
        BY <1>4 DEF Total
    <2>8. t \in [0..n -> Int] BY <2>4, <2>7
    <2>9. /\ t[0] = 0 /\ t[n] = s[n] + d
          /\ \A k \in 0..n : t[k] = IF idx <= k THEN s[k] + d ELSE s[k]
        BY <1>1, <2>1, <2>7
    <2> HIDE DEF t
    <2>10. ASSUME NEW k \in 1..n PROVE t[k] = t[k - 1] + Len(other[k].devs)
        <3>1. k \in 0..n /\ k - 1 \in 0..n /\ s[k] \in Int /\ s[k - 1] \in Int
            <4>1. k \in 0..n /\ k - 1 \in 0..n BY <1>1
            <4> HIDE DEF n
            <4> QED BY <2>7, <4>1
        <3>2. s[k] = s[k - 1] + Len(nodes[k].devs) /\ Len(nodes[k].devs) \in Nat
            <4>1. nodes[k].devs \in NodeDevs BY <1>2 DEF Node
            <4> QED BY <1>3, <2>7, <4>1
        <3>3. CASE k < idx
            <4>1. ~(idx <= k) /\ ~(idx <= k - 1) /\ k # idx BY <2>1, <3>3
            <4> QED BY <2>5, <2>9, <3>1, <3>2, <4>1
        <3>4. CASE k = idx
            <4>1. t[k] = s[k] + d /\ t[k - 1] = s[k - 1]
                <5>1. idx <= k /\ ~(idx <= k - 1) BY <2>1, <3>4
                <5> QED BY <2>9, <3>1, <5>1
            <4>2. other[k].devs = devs BY <2>3, <2>5, <3>4
            <4>3. s[k] = s[k - 1] + Len(nodes[idx].devs) BY <3>2, <3>4
            <4>4. Len(devs) \in Nat BY <1>3
            <4>5. Len(other[k].devs) = Len(devs) BY <4>2
            <4>6. s[k] + d = s[k - 1] + Len(devs)
                <5>1. PICK a, b \in Int : a = Len(devs) /\ b = Len(nodes[idx].devs) BY <2>4, <4>4
                <5>2. d = a - b /\ s[k] = s[k - 1] + b BY <2>4, <4>3, <5>1
                <5>3. PICK p, q \in Int : p = s[k] /\ q = s[k - 1] BY <3>1
                <5>4. p + d = q + a BY <5>2, <5>3
                <5> QED BY <5>1, <5>3, <5>4
            <4> QED BY <4>1, <4>5, <4>6
        <3>5. CASE k > idx
            <4>1. t[k] = s[k] + d /\ t[k - 1] = s[k - 1] + d
                <5>1. idx <= k /\ idx <= k - 1 BY <2>1, <3>5
                <5> QED BY <2>9, <3>1, <5>1
            <4>2. other[k] = nodes[k]
                <5>1. k # idx BY <2>1, <3>5
                <5> QED BY <2>5, <5>1
            <4>3. Len(other[k].devs) = Len(nodes[k].devs) BY <4>2
            <4>4. s[k] + d = (s[k - 1] + d) + Len(nodes[k].devs)
                <5>1. PICK b \in Int : b = Len(nodes[k].devs) BY <3>2
                <5>2. s[k] = s[k - 1] + b BY <3>2, <5>1
                <5>3. PICK p, q, e \in Int : p = s[k] /\ q = s[k - 1] /\ e = d BY <2>4, <3>1
                <5>4. p + e = (q + e) + b BY <5>2, <5>3
                <5> QED BY <5>1, <5>3, <5>4
            <4> QED BY <4>1, <4>3, <4>4
        <3> QED BY <2>1, <3>3, <3>4, <3>5
    <2>11. Total(t, other) BY <2>5, <2>8, <2>9, <2>10 DEF Total
    <2>12. nset.numofdev + d = t[Len(other)] BY <1>4, <2>5, <2>9
    <2>13. nset.numofdev + d \in Int BY <1>1, <2>4
    <2> QED BY <2>2, <2>5, <2>6, <2>11, <2>12, <2>13 DEF NsetOK
<1> QED BY <1>6, <1>7

LEMMA SetStatOK ==
    ASSUME NEW nset, NsetOK(nset), NEW idx \in 1..Len(nset.nodes), NEW stat \in Byte
    PROVE  NsetOK([nset EXCEPT !.nodes = [nset.nodes EXCEPT ![idx] = [nset.nodes[idx] EXCEPT !.stat = stat]]])
<1> DEFINE nodes == nset.nodes
           n == Len(nset.nodes)
           node == [nset.nodes[idx] EXCEPT !.stat = stat]
           other == [nset.nodes EXCEPT ![idx] = node]
           new == [nset EXCEPT !.nodes = other]
<1>1. nodes \in Seq(Node) /\ n \in Nat /\ nset.numofdev \in Int /\ nodes \in [1..n -> Node]
      /\ nset \in [nodes : Seq(Node), numofdev : Int]
    BY LenProperties DEF NsetOK
<1>2. node \in Node /\ node.id = nodes[idx].id /\ node.devs = nodes[idx].devs
    <2>1. nodes[idx] \in Node BY <1>1
    <2> QED BY <2>1 DEF Node
<1> HIDE DEF node
<1>3. /\ other \in Seq(Node) /\ Len(other) = n
      /\ \A k \in 1..n : other[k] = IF k = idx THEN node ELSE nodes[k]
    <2>1. other \in [1..n -> Node] BY <1>1, <1>2
    <2>2. \A k \in 1..n : other[k] = IF k = idx THEN node ELSE nodes[k] BY <1>1
    <2> QED BY <1>1, <2>1, <2>2, FunctionIsSeq
<1> HIDE DEF other
<1>4. \A k \in 1..n : other[k].id = nodes[k].id /\ other[k].devs = nodes[k].devs
    BY <1>2, <1>3
<1>5. new \in [nodes : Seq(Node), numofdev : Int] /\ new.nodes = other /\ new.numofdev = nset.numofdev
    BY <1>1, <1>3
<1> HIDE DEF new
<1>6. \A i, j \in 1..n : other[i].id = other[j].id => i = j
    BY <1>4 DEF NsetOK
<1>7. PICK s : Total(s, nodes) /\ nset.numofdev = s[n] BY DEF NsetOK
<1>8. Total(s, other)
    <2>1. \A k \in 1..n : Len(other[k].devs) = Len(nodes[k].devs) BY <1>4
    <2> QED BY <1>3, <1>7, <2>1 DEF Total
<1>9. NsetOK(new) BY <1>3, <1>5, <1>6, <1>7, <1>8 DEF NsetOK
<1> QED BY <1>9 DEF new, other, node

LEMMA GcgNextOK ==
    ASSUME GcgOK, GcgNext
    PROVE  GcgOK'
<1>1. CASE InitGcg \/ ReleaseGcg
    <2>1. gcg'.SNODE = EmptyNset /\ gcg'.ANODE = EmptyNset
          /\ gcg' = [state |-> gcg'.state, SNODE |-> gcg'.SNODE, ANODE |-> gcg'.ANODE]
        BY <1>1 DEF InitGcg, ReleaseGcg, GcgOff
    <2> QED BY <2>1, EmptyNsetOK DEF GcgOK
<1>2. CASE \E id \in NodeId, type \in NodeType, devs \in NodeDevs :
              gcg' = [gcg EXCEPT ![type] = UpdateNset(@, id, devs)]
    <2>1. PICK id \in NodeId, type \in NodeType, devs \in NodeDevs :
              gcg' = [gcg EXCEPT ![type] = UpdateNset(@, id, devs)]
        BY <1>2
    <2>2. CASE type = "SNODE"
        <3>1. PICK u : u = UpdateNset(gcg.SNODE, id, devs) OBVIOUS
        <3>2. gcg' = [state |-> gcg.state, SNODE |-> u, ANODE |-> gcg.ANODE]
            BY <2>1, <2>2, <3>1 DEF GcgOK
        <3>3. NsetOK(u) BY <3>1, UpdateNsetOK DEF GcgOK
        <3> QED BY <3>2, <3>3 DEF GcgOK
    <2>3. CASE type = "ANODE"
        <3>1. PICK u : u = UpdateNset(gcg.ANODE, id, devs) OBVIOUS
        <3>2. gcg' = [state |-> gcg.state, SNODE |-> gcg.SNODE, ANODE |-> u]
            BY <2>1, <2>3, <3>1 DEF GcgOK
        <3>3. NsetOK(u) BY <3>1, UpdateNsetOK DEF GcgOK
        <3> QED BY <3>2, <3>3 DEF GcgOK
    <2> QED BY <2>2, <2>3 DEF NodeType
<1>3. CASE gcg' = [gcg EXCEPT !.state = "crashed"]
    <2>1. gcg' = [state |-> "crashed", SNODE |-> gcg.SNODE, ANODE |-> gcg.ANODE]
        BY <1>3 DEF GcgOK
    <2> QED BY <2>1 DEF GcgOK
<1>4. CASE SetGcgNodeStat
    <2>1. PICK type \in NodeType, id \in NodeId, stat \in NodeStats :
             LET idx == IdxNode(gcg[type], id)
             IN  gcg' = IF idx = 0 THEN gcg ELSE [gcg EXCEPT ![type].nodes[idx].stat = stat]
        BY <1>4 DEF SetGcgNodeStat
    <2>2. PICK idx : idx = IdxNode(gcg[type], id) OBVIOUS
    <2>3. NsetOK(gcg[type]) BY DEF GcgOK, NodeType
    <2>4. idx = 0 \/ idx \in 1..Len(gcg[type].nodes) BY <2>2, <2>3, IdxNodeOf
    <2>5. CASE idx = 0
        BY <2>1, <2>2, <2>5 DEF GcgOK
    <2>6. CASE idx # 0
        <3>1. gcg' = [gcg EXCEPT ![type].nodes[idx].stat = stat] BY <2>1, <2>2, <2>6
        <3>2. idx \in 1..Len(gcg[type].nodes) /\ stat \in Byte
            <4>1. NodeStats \subseteq Byte BY WidthsAssumption, SMT
            <4> QED BY <2>4, <2>6, <4>1
        <3>3. PICK nset : nset = gcg[type] OBVIOUS
        <3>4. PICK u : u = [nset EXCEPT !.nodes = [nset.nodes EXCEPT ![idx] =
                                 [nset.nodes[idx] EXCEPT !.stat = stat]]]
            OBVIOUS
        <3>5. NsetOK(u) BY <2>3, <3>2, <3>3, <3>4, SetStatOK
        <3>6. gcg' = [gcg EXCEPT ![type] = u] BY <3>1, <3>3, <3>4
        <3>7. type = "SNODE" \/ type = "ANODE" BY DEF NodeType
        <3>8. CASE type = "SNODE"
            <4>1. gcg' = [state |-> gcg.state, SNODE |-> u, ANODE |-> gcg.ANODE]
                BY <3>6, <3>8 DEF GcgOK
            <4> QED BY <3>5, <4>1 DEF GcgOK
        <3>9. CASE type = "ANODE"
            <4>1. gcg' = [state |-> gcg.state, SNODE |-> gcg.SNODE, ANODE |-> u]
                BY <3>6, <3>9 DEF GcgOK
            <4> QED BY <3>5, <4>1 DEF GcgOK
        <3> QED BY <3>7, <3>8, <3>9
    <2> QED BY <2>5, <2>6
<1>5. InitGcg \/ ReleaseGcg \/ SetGcgNodeStat \/ gcg' = [gcg EXCEPT !.state = "crashed"]
      \/ \E id \in NodeId, type \in NodeType, devs \in NodeDevs :
            gcg' = [gcg EXCEPT ![type] = UpdateNset(@, id, devs)]
    BY DEF GcgNext, UpdateGcgNode
<1> QED BY <1>1, <1>2, <1>3, <1>4, <1>5

(* The nodes of a set, and all their devices, are no more than a field can *)
(* tell the length of.                                                     *)
LEMMA NsetFits ==
    ASSUME NEW nset, NsetOK(nset)
    PROVE  /\ Len(nset.nodes) \in Nat /\ Len(nset.nodes) <= MaxInts /\ Len(nset.nodes) <= 255
           /\ nset.numofdev \in Nat /\ nset.numofdev <= MaxInts
<1> DEFINE nodes == nset.nodes
           n == Len(nset.nodes)
<1>1. nodes \in Seq(Node) /\ n \in Nat /\ MaxInts \in Nat
    BY LenProperties, MaxIntsOf DEF NsetOK
<1>2. \A k \in 1..n : nodes[k] \in Node BY <1>1, ElementOfSeq
<1>3. PICK c : c = Cardinality(NodeId) OBVIOUS
<1>4. c \in Nat /\ c <= MaxInts /\ c <= 255
    <2>1. Cardinality(NodeId) <= 255 BY WidthsAssumption, SMT
    <2> QED BY <1>3, <2>1, GcgAssumption, FS_CardinalityType
<1>5. n <= c
    <2> DEFINE f == [k \in 1..n |-> nodes[k].id]
    <2>1. f \in [1..n -> NodeId] BY <1>2 DEF Node
    <2>2. \A i, j \in 1..n : f[i] = f[j] => i = j BY DEF NsetOK
    <2>3. f \in Injection(1..n, NodeId)
        <3> HIDE DEF f, n
        <3> QED BY <2>1, <2>2 DEF Injection, IsInjective
    <2>4. IsFiniteSet(1..n) /\ Cardinality(1..n) = n
        <3>1. 1 \in Int /\ n \in Int BY <1>1
        <3>2. Cardinality(1..n) = (IF 1 > n THEN 0 ELSE n - 1 + 1) /\ IsFiniteSet(1..n)
            BY <3>1, FS_Interval
        <3> QED BY <1>1, <3>2
    <2>5. Cardinality(1..n) <= Cardinality(NodeId) BY <2>3, GcgAssumption, FS_Injection
    <2> QED BY <1>3, <2>4, <2>5
<1>6. PICK s : Total(s, nodes) /\ nset.numofdev = s[n] BY DEF NsetOK
<1> DEFINE S == {k \in Nat : k \in 0..n => s[k] \in Nat /\ c * s[k] <= k * MaxInts}
<1>7. 0 \in S
    <2>1. s[0] = 0 BY <1>6 DEF Total
    <2>2. c * 0 = 0 /\ 0 * MaxInts = 0 BY <1>1, <1>4
    <2> QED BY <2>1, <2>2
<1>8. ASSUME NEW k \in Nat, k \in S PROVE k + 1 \in S
    <2>1. CASE k + 1 \in 0..n
        <3>1. k \in 0..n /\ k + 1 \in 1..n /\ (k + 1) - 1 = k BY <1>1, <2>1
        <3>2. s[k + 1] = s[k] + Len(nodes[k + 1].devs)
            <4> HIDE DEF n
            <4>1. \A i \in 1..n : s[i] = s[i - 1] + Len(nodes[i].devs) BY <1>6 DEF Total, n
            <4> QED BY <3>1, <4>1
        <3>3. nodes[k + 1].devs \in NodeDevs BY <1>2, <3>1 DEF Node
        <3>4. Len(nodes[k + 1].devs) \in Nat /\ c * Len(nodes[k + 1].devs) <= MaxInts
            BY <1>3, <3>3, GcgAssumption, LenProperties
        <3>5. s[k] \in Nat /\ c * s[k] <= k * MaxInts BY <1>8, <3>1
        <3>6. PICK p, l \in Nat : p = s[k] /\ l = Len(nodes[k + 1].devs) BY <3>4, <3>5
        <3>7. c * (p + l) = c * p + c * l /\ (k + 1) * MaxInts = k * MaxInts + MaxInts
            BY <1>1, <1>4
        <3>8. c * p <= k * MaxInts /\ c * l <= MaxInts BY <3>4, <3>5, <3>6
        <3>9. c * p \in Nat /\ c * l \in Nat /\ k * MaxInts \in Nat BY <1>1, <1>4
        <3>10. c * (p + l) <= (k + 1) * MaxInts BY <1>1, <3>7, <3>8, <3>9
        <3>11. s[k + 1] = p + l BY <3>2, <3>6
        <3> QED BY <3>10, <3>11
    <2> QED BY <2>1
<1> HIDE DEF S
<1>9. Nat \subseteq S BY <1>7, <1>8, SetInduction
<1>10. s[n] \in Nat /\ c * s[n] <= n * MaxInts
    <2>1. n \in S /\ n \in 0..n BY <1>1, <1>9
    <2> QED BY <2>1 DEF S
<1>11. PICK d \in Nat : d = s[n] BY <1>10
<1>12. CASE c = 0
    <2>1. n = 0 BY <1>1, <1>4, <1>5, <1>12
    <2>2. s[n] = 0 BY <1>6, <2>1 DEF Total
    <2> QED BY <1>1, <1>4, <1>5, <1>6, <2>1, <2>2
<1>13. CASE c # 0
    <2>1. PICK a \in Nat : a = n BY <1>1
    <2>2. a * MaxInts <= c * MaxInts BY <1>1, <1>4, <1>5, <2>1
    <2>3. c * d <= c * MaxInts
        <3>1. c * d \in Nat /\ a * MaxInts \in Nat /\ c * MaxInts \in Nat BY <1>1, <1>4
        <3>2. c * d <= a * MaxInts BY <1>10, <1>11, <2>1
        <3> QED BY <2>2, <3>1, <3>2
    <2>4. d <= MaxInts BY <1>1, <1>4, <1>13, <2>3
    <2> QED BY <1>1, <1>4, <1>5, <1>6, <1>11, <2>4
<1> QED BY <1>12, <1>13

-----------------------------------------------------------------------------
(* The reports of a GCG *)

Dvc == [gid : Int, stat : Int, env : Int]

LEMMA NodeListOf ==
    ASSUME NEW nset, NsetOK(nset), NEW part \in {"id", "stat"}
    PROVE  NodeList(nset, part) \in Seq(Int) /\ Len(NodeList(nset, part)) <= MaxInts
<1>1. nset.nodes \in Seq(Node) /\ Len(nset.nodes) \in Nat /\ Len(nset.nodes) <= MaxInts
    BY NsetFits DEF NsetOK
<1>2. ASSUME NEW k \in 1..Len(nset.nodes) PROVE nset.nodes[k][part] \in Int
    <2>1. nset.nodes[k] \in Node BY <1>1, ElementOfSeq
    <2>2. nset.nodes[k].id \in Int /\ nset.nodes[k].stat \in Int
        <3>1. nset.nodes[k].id \in NodeId /\ nset.nodes[k].stat \in Byte BY <2>1 DEF Node
        <3>2. NodeId \subseteq Int BY GcgAssumption
        <3>3. Byte \subseteq Int BY DEF Byte
        <3> QED BY <3>1, <3>2, <3>3
    <2> QED BY <2>2
<1>3. NodeList(nset, part) \in [1..Len(nset.nodes) -> Int] BY <1>2 DEF NodeList
<1> QED BY <1>1, <1>3, FunctionIsSeq

LEMMA DevListOf ==
    ASSUME NEW nset, NsetOK(nset), NEW part \in {"gid", "stat", "env"}
    PROVE  DevList(nset, part) \in Seq(Int) /\ Len(DevList(nset, part)) <= MaxInts
<1> DEFINE ss == NodeList(nset, "devs")
           devs == FlattenSeq(ss)
           m == Len(nset.nodes)
<1>1. nset.nodes \in Seq(Node) /\ m \in Nat /\ nset.numofdev \in Nat /\ nset.numofdev <= MaxInts
    BY NsetFits DEF NsetOK
<1>2. ss \in [1..m -> Seq(Dvc)]
    <2>1. ASSUME NEW k \in 1..m PROVE nset.nodes[k]["devs"] \in Seq(Dvc)
        <3>1. nset.nodes[k] \in Node BY <1>1, ElementOfSeq
        <3>2. nset.nodes[k].devs \in NodeDevs BY <3>1 DEF Node
        <3> QED BY <3>2, GcgAssumption DEF Dvc
    <2> QED BY <2>1 DEF NodeList
<1>3. devs \in Seq(Dvc)
    <2> HIDE DEF ss, m
    <2> QED BY <1>1, <1>2, FlattenType
<1>4. DevList(nset, part)
         = [i \in 1..nset.numofdev |->
               IF 1 \notin Gaps(nset) /\ i <= Len(devs) THEN devs[i][part] ELSE Stack]
    BY DEF DevList
<1> HIDE DEF devs
<1>5. Len(devs) \in Nat BY <1>3, LenProperties
<1>6. Stack \in Int BY FieldsAssumption DEF Byte
<1>7. ASSUME NEW i \in 1..nset.numofdev, i <= Len(devs) PROVE devs[i][part] \in Int
    <2>1. i \in 1..Len(devs) BY <1>1, <1>5, <1>7
    <2>2. devs[i] \in Dvc BY <1>3, <2>1, ElementOfSeq
    <2> QED BY <2>2 DEF Dvc
<1>8. DevList(nset, part) \in [1..nset.numofdev -> Int] BY <1>4, <1>6, <1>7
<1> QED BY <1>1, <1>8, FunctionIsSeq

(* The two lists of a report, both of numbers and both short enough. *)
Lists(list) ==
    /\ list[1] \in Seq(Int) /\ Len(list[1]) <= MaxInts
    /\ list[2] \in Seq(Int) /\ Len(list[2]) <= MaxInts

LEMMA ListedOf ==
    ASSUME NEW number \in CodesOfLength(1..4), NEW ids \in CodesOfLength(-4..-1),
           NEW values \in CodesOfLength(-4..-1), NEW list, Lists(list)
    PROVE  Listed(number, ids, values, list) \in Seq(Entries)
<1> DEFINE a == Number(number, Len(list[1]))
           b == Entry("array", ids, list[1])
           c == Entry("array", values, list[2])
           d == If(Len(list[1]) > 0, b \o c)
<1>1. a \in Seq(Entries)
    <2>1. Len(list[1]) \in Int BY LenProperties DEF Lists
    <2> QED BY <2>1, NumberOf
<1>2. b \in Seq(Entries) /\ c \in Seq(Entries) BY ArrayOf DEF Lists
<1> HIDE DEF a, b, c
<1>3. b \o c \in Seq(Entries) BY <1>2, ConcatProperties
<1>4. d \in Seq(Entries) BY <1>3, EmptySeq DEF If
<1>5. Listed(number, ids, values, list) = a \o d BY DEF Listed, a, b, c
<1> HIDE DEF d
<1> QED BY <1>1, <1>4, <1>5, ConcatProperties

LEMMA NodeLists ==
    ASSUME GcgOK, NEW type \in NodeType
    PROVE  /\ Lists(Nodes(type))
           /\ \A part \in {"stat", "env"} : Lists(Devs(type, part))
<1>1. NsetOK(gcg[type]) BY DEF GcgOK, NodeType
<1>2. PICK nset : nset = gcg[type] OBVIOUS
<1>3. /\ Nodes(type)[1] = NodeList(nset, "id") /\ Nodes(type)[2] = NodeList(nset, "stat")
      /\ \A part : Devs(type, part)[1] = DevList(nset, "gid") /\ Devs(type, part)[2] = DevList(nset, part)
    BY <1>2 DEF Nodes, Devs
<1>4. Lists(Nodes(type)) BY <1>1, <1>2, <1>3, NodeListOf DEF Lists
<1>5. ASSUME NEW part \in {"stat", "env"} PROVE Lists(Devs(type, part))
    <2>1. /\ DevList(nset, "gid") \in Seq(Int) /\ Len(DevList(nset, "gid")) <= MaxInts
          /\ DevList(nset, part) \in Seq(Int) /\ Len(DevList(nset, part)) <= MaxInts
        BY <1>1, <1>2, DevListOf
    <2> QED BY <1>3, <2>1 DEF Lists
<1> QED BY <1>4, <1>5

LEMMA ReportsOK ==
    ASSUME GcgOK
    PROVE  /\ NotifyStat(Now) \in Seq(Entries) /\ NotifyEnv(Now) \in Seq(Entries)
           /\ ConnectRequest(Connecting) \in Seq(Entries)
<1>1. \A a, b \in Seq(Entries) : a \o b \in Seq(Entries) BY ConcatProperties
<1>2. "SNODE" \in NodeType /\ "ANODE" \in NodeType BY DEF NodeType
<1>3. /\ Lists(Nodes("SNODE")) /\ Lists(Nodes("ANODE"))
      /\ Lists(Devs("SNODE", "stat")) /\ Lists(Devs("ANODE", "stat"))
      /\ Lists(Devs("SNODE", "env")) /\ Lists(Devs("ANODE", "env"))
    BY <1>2, NodeLists
<1>0. /\ Now \in Times
      /\ Connecting.serial \in Seq(Byte) /\ Fitting(Connecting.serial, FC.SERIALNUM)
      /\ Connecting.model \in Seq(Byte) /\ Fitting(Connecting.model, FC.MODELNUM)
      /\ Connecting.swver \in Int
    BY TransferAssumption, SMT
<1>4. PICK time \in Seq(Entries) : time = Entry("time", FC.TIMESTAMP, Now)
    BY <1>0, ReportCodes, TimeOf
<1>5. NotifyStat(Now) \in Seq(Entries)
    <2>1. PICK a \in Seq(Entries) : a = Listed(FC.NUMOFSN, FC.ARROFSNID, FC.ARROFSNSTAT, Nodes("SNODE"))
        BY <1>3, ReportCodes, ListedOf
    <2>2. PICK b \in Seq(Entries) : b = Listed(FC.NUMOFAN, FC.ARROFANID, FC.ARROFANSTAT, Nodes("ANODE"))
        BY <1>3, ReportCodes, ListedOf
    <2>3. PICK c \in Seq(Entries) : c = Listed(FC.NUMOFSENS, FC.ARROFGSID, FC.ARROFSENSSTAT, Devs("SNODE", "stat"))
        BY <1>3, ReportCodes, ListedOf
    <2>4. PICK d \in Seq(Entries) : d = Listed(FC.NUMOFACTS, FC.ARROFGAID, FC.ARROFACTSSTAT, Devs("ANODE", "stat"))
        BY <1>3, ReportCodes, ListedOf
    <2>5. NotifyStat(Now) = (((a \o b) \o c) \o d) \o time
        BY <1>4, <2>1, <2>2, <2>3, <2>4 DEF NotifyStat
    <2>6. a \o b \in Seq(Entries) BY <1>1, Zenon
    <2>7. (a \o b) \o c \in Seq(Entries) BY <1>1, <2>6, Zenon
    <2>8. ((a \o b) \o c) \o d \in Seq(Entries) BY <1>1, <2>7, Zenon
    <2>9. (((a \o b) \o c) \o d) \o time \in Seq(Entries) BY <1>1, <2>8, Zenon
    <2> QED BY <2>5, <2>9
<1>6. NotifyEnv(Now) \in Seq(Entries)
    <2>1. PICK c \in Seq(Entries) : c = Listed(FC.NUMOFSENS, FC.ARROFGSID, FC.ARROFSENSVAL, Devs("SNODE", "env"))
        BY <1>3, ReportCodes, ListedOf
    <2>2. PICK d \in Seq(Entries) : d = Listed(FC.NUMOFACTS, FC.ARROFGAID, FC.ARROFACTSVAL, Devs("ANODE", "env"))
        BY <1>3, ReportCodes, ListedOf
    <2>3. NotifyEnv(Now) = (c \o d) \o time BY <1>4, <2>1, <2>2 DEF NotifyEnv
    <2> QED BY <1>1, <2>3, Zenon
<1>7. ConnectRequest(Connecting) \in Seq(Entries)
    <2>1. ASSUME NEW number \in CodesOfLength(1..4), NEW ids \in CodesOfLength(-4..-1),
                 NEW list \in Seq(Int), Len(list) <= MaxInts
          PROVE  Counted(number, ids, list) \in Seq(Entries)
        <3>1. Len(list) \in Int BY LenProperties
        <3>2. Number(number, Len(list)) \in Seq(Entries) BY <3>1, NumberOf
        <3>3. Entry("array", ids, list) \in Seq(Entries) BY <2>1, ArrayOf
        <3> QED BY <1>1, <3>2, <3>3 DEF Counted
    <2>2. PICK a \in Seq(Entries) : a = Counted(FC.NUMOFSN, FC.ARROFSNID, Nodes("SNODE")[1])
        BY <1>3, <2>1, ReportCodes DEF Lists
    <2>3. PICK b \in Seq(Entries) : b = Counted(FC.NUMOFAN, FC.ARROFANID, Nodes("ANODE")[1])
        BY <1>3, <2>1, ReportCodes DEF Lists
    <2>4. PICK c \in Seq(Entries) : c = Entry("bytes", FC.SERIALNUM, Connecting.serial)
        BY <1>0, ReportCodes, BytesOf
    <2>5. PICK d \in Seq(Entries) : d = Entry("bytes", FC.MODELNUM, Connecting.model)
        BY <1>0, ReportCodes, BytesOf
    <2>6. PICK e \in Seq(Entries) : e = Number(FC.SWVER, Connecting.swver)
        BY <1>0, ReportCodes, NumberOf
    <2>7. ConnectRequest(Connecting) = (((a \o b) \o c) \o d) \o e
        BY <2>2, <2>3, <2>4, <2>5, <2>6 DEF ConnectRequest
    <2>8. a \o b \in Seq(Entries) BY <1>1, Zenon
    <2>9. (a \o b) \o c \in Seq(Entries) BY <1>1, <2>8, Zenon
    <2>10. ((a \o b) \o c) \o d \in Seq(Entries) BY <1>1, <2>9, Zenon
    <2>11. (((a \o b) \o c) \o d) \o e \in Seq(Entries) BY <1>1, <2>10, Zenon
    <2> QED BY <2>7, <2>11
<1> QED BY <1>5, <1>6, <1>7

-----------------------------------------------------------------------------
(* The answer to a history query *)

LEMMA AboveFour == \A k, w \in Nat : w > 4 /\ k >= w => k > 4 /\ k \notin 1..4
OBVIOUS

(* Rows of one length make a block that is empty or as long, and that fits. *)
LEMMA RowsFit ==
    ASSUME NEW n \in Nat, NEW w \in Nat, w > 4, NEW rows \in [1..n -> Seq(Byte)],
           AllOfLength(rows, n, w), n * w <= MaxLength
    PROVE  /\ FlattenSeq(rows) \in Seq(Byte)
           /\ Len(FlattenSeq(rows)) \notin 1..4 /\ Len(FlattenSeq(rows)) <= MaxLength
           /\ n > 0 => Len(FlattenSeq(rows)) > 4
<1>1. FlattenSeq(rows) \in Seq(Byte) /\ Len(FlattenSeq(rows)) = n * w BY FlattenEven, Zenon
<1>2. n * w \notin 1..4 /\ (n > 0 => n * w > 4)
    <2>1. CASE n = 0
        BY <2>1
    <2>2. CASE n # 0
        <3>1. n * w >= w BY <2>2
        <3>2. PICK l \in Nat : l = n * w OBVIOUS
        <3>3. l >= w BY <3>1, <3>2, Zenon
        <3>4. l > 4 /\ l \notin 1..4 BY <3>3, AboveFour, Zenon
        <3> QED BY <3>2, <3>4, Zenon
    <2> QED BY <2>1, <2>2
<1> QED BY <1>1, <1>2

LEMMA DevicesOf ==
    ASSUME NEW m \in 0..MaxDevices, NEW idbytes \in 1..4, NEW valbytes \in 1..4,
           NEW ids \in [1..MaxDevices -> Int], NEW vals \in [1..MaxDevices -> Int]
    PROVE  /\ Devices(m, idbytes, valbytes, ids, vals) \in Seq(Byte)
           /\ Len(Devices(m, idbytes, valbytes, ids, vals)) = 1 + m * idbytes + m * valbytes
<1>1. MaxDevices \in Nat BY HistoryAssumption
<1>2. m \in Nat /\ \A k \in 1..m : ids[k] \in Int /\ vals[k] \in Int BY <1>1
<1> DEFINE ss == [k \in 1..m |-> SetBytes(idbytes, ids[k])]
           tt == [k \in 1..m |-> SetBytes(valbytes, vals[k])]
<1>3. ss \in [1..m -> Seq(Byte)] /\ \A k \in 1..m : Len(ss[k]) = idbytes BY <1>2, SetBytesOf
<1>4. tt \in [1..m -> Seq(Byte)] /\ \A k \in 1..m : Len(tt[k]) = valbytes BY <1>2, SetBytesOf
<1>11. Devices(m, idbytes, valbytes, ids, vals)
         = SetBytes(1, m) \o FlattenSeq(ss) \o FlattenSeq(tt)
    BY DEF Devices
<1> HIDE DEF ss, tt
<1>12. /\ AllOfLength(ss, m, idbytes) /\ AllOfLength(tt, m, valbytes)
       /\ m \in Nat /\ idbytes \in Nat /\ valbytes \in Nat
    BY <1>2, <1>3, <1>4 DEF AllOfLength
<1>5. PICK a \in Seq(Byte) : a = FlattenSeq(ss) /\ Len(a) = m * idbytes
    BY <1>3, <1>12, FlattenEven, ZenonT(60)
<1>6. PICK c \in Seq(Byte) : c = FlattenSeq(tt) /\ Len(c) = m * valbytes
    BY <1>4, <1>12, FlattenEven, ZenonT(60)
<1>13. PICK x, y \in Nat : x = m * idbytes /\ y = m * valbytes BY <1>12
<1>7. PICK h \in Seq(Byte) : h = SetBytes(1, m) /\ Len(h) = 1
    <2>1. 1 \in 1..4 /\ m \in Int BY <1>2
    <2> QED BY <2>1, SetBytesOf
<1>8. Devices(m, idbytes, valbytes, ids, vals) = (h \o a) \o c
    BY <1>5, <1>6, <1>7, <1>11
<1>9. \A u, v \in Seq(Byte) : u \o v \in Seq(Byte) /\ Len(u \o v) = Len(u) + Len(v)
    BY ConcatProperties
<1>10. h \o a \in Seq(Byte) /\ Len(h \o a) = Len(h) + Len(a) BY <1>9, Zenon
<1>14. (h \o a) \o c \in Seq(Byte) /\ Len((h \o a) \o c) = Len(h \o a) + Len(c)
    BY <1>9, <1>10, Zenon
<1>15. Len((h \o a) \o c) = 1 + x + y BY <1>5, <1>6, <1>7, <1>10, <1>13, <1>14
<1> QED BY <1>8, <1>13, <1>14, <1>15

(* The parts of a block that its bytes are made of. *)
LEMMA BlockParts ==
    ASSUME NEW n \in Nat, NEW b \in BlocksOf(n), NEW i \in 1..n
    PROVE  /\ b.rows = n
           /\ b.items[i].gcgstat \in Int /\ b.items[i].timestamp \in Times
           /\ Sendable(n, b.numofdev)
           /\ \A d \in Dev : /\ b.numofdev[d] \in 0..MaxDevices
                             /\ b.items[i].ids[d] \in [1..MaxDevices -> Int]
                             /\ b.items[i].vals[d] \in [1..MaxDevices -> Int]
<1>1. /\ b.rows = n /\ b.items[i] \in Item
      /\ b.numofdev \in [Dev -> 0..MaxDevices] /\ Sendable(n, b.numofdev)
    BY DEF BlocksOf
<1>2. Stamps \subseteq Times BY HistoryAssumption DEF Stamps
<1>3. GcgStats \subseteq Int BY HistoryAssumption DEF GcgStats
<1>4. Ids \subseteq Int /\ Vals \subseteq Int
    <2>1. \A d \in Dev : \A e \in DeviceIds[d] : e.id \in Int /\ e.val \in Int BY HistoryAssumption
    <2> QED BY <2>1 DEF Ids, Vals
<1>5. PICK item \in Item : item = b.items[i] BY <1>1
<1>6. item.gcgstat \in Int /\ item.timestamp \in Times BY <1>2, <1>3 DEF Item
<1>7. \A d \in Dev : item.ids[d] \in [1..MaxDevices -> Ids] /\ item.vals[d] \in [1..MaxDevices -> Vals]
    BY DEF Item
<1>8. \A d \in Dev : item.ids[d] \in [1..MaxDevices -> Int] /\ item.vals[d] \in [1..MaxDevices -> Int]
    BY <1>4, <1>7
<1> QED BY <1>1, <1>5, <1>6, <1>8

(* A row ends with the seven bytes of its time. *)
LEMMA RowEnds ==
    ASSUME NEW a \in Seq(Byte), NEW t \in Times
    PROVE  a \o SetTimestamp(t) \in Seq(Byte) /\ Len(a \o SetTimestamp(t)) = Len(a) + 7
<1>1. Len(a) \in Nat BY LenProperties
<1>2. SetTimestamp(t) \in Seq(Byte) /\ Len(SetTimestamp(t)) = 7 BY SetTimestampOf
<1>3. PICK s \in Seq(Byte) : s = SetTimestamp(t) BY <1>2
<1>4. Len(a \o s) = Len(a) + Len(s) /\ a \o s \in Seq(Byte)
    BY ConcatProperties
<1> QED BY <1>1, <1>2, <1>3, <1>4

(* One kind of device in a row of a status block. *)
LEMMA StatPartOK ==
    ASSUME NEW n \in Nat, NEW b \in BlocksOf(n), NEW i \in 1..n, NEW d \in Dev
    PROVE  /\ SetStatBlockBytes(b, i, d) \in Seq(Byte)
           /\ Len(SetStatBlockBytes(b, i, d)) = 1 + b.numofdev[d] * IdBytes(d) + b.numofdev[d] * 1
<1>1. IdBytes(d) \in 1..4 BY DEF IdBytes
<1>2. 1 \in 1..4 OBVIOUS
<1>3. /\ b.numofdev[d] \in 0..MaxDevices
      /\ b.items[i].ids[d] \in [1..MaxDevices -> Int]
      /\ b.items[i].vals[d] \in [1..MaxDevices -> Int]
    BY BlockParts
<1> QED BY <1>1, <1>2, <1>3, DevicesOf DEF SetStatBlockBytes

(* The numbers of devices of a block. *)
LEMMA BlockNumbers ==
    ASSUME NEW n \in Nat, NEW b \in BlocksOf(n)
    PROVE  /\ b.rows = n /\ Sendable(n, b.numofdev) /\ MaxDevices \in Nat
           /\ \A d \in Dev : b.numofdev[d] \in Nat /\ b.numofdev[d] \in 0..MaxDevices
           /\ StatStep(b.numofdev) \in Nat /\ StatStep(b.numofdev) > 4
           /\ EnvStep(b.numofdev) \in Nat /\ EnvStep(b.numofdev) > 4
<1>1. /\ b.rows = n /\ b.numofdev \in [Dev -> 0..MaxDevices] /\ Sendable(n, b.numofdev)
      /\ MaxDevices \in Nat
    BY HistoryAssumption DEF BlocksOf
<1>2. \A d \in Dev : b.numofdev[d] \in Nat /\ b.numofdev[d] \in 0..MaxDevices BY <1>1
<1>3. PICK sn, an, sens, acts \in Nat :
         /\ sn = b.numofdev["SNODE"] /\ an = b.numofdev["ANODE"]
         /\ sens = b.numofdev["SENSOR"] /\ acts = b.numofdev["ACTUATOR"]
    BY <1>2 DEF Dev
<1>4. StatStep(b.numofdev) = 12 + 4 * sn + 4 * an + 5 * sens + 5 * acts BY <1>3 DEF StatStep
<1>5. EnvStep(b.numofdev) = 9 + 8 * sens + 6 * acts BY <1>3 DEF EnvStep
<1> QED BY <1>1, <1>2, <1>4, <1>5

StatHead(b, i) ==
    SetBytes(1, b.items[i].gcgstat)
    \o SetStatBlockBytes(b, i, "SNODE") \o SetStatBlockBytes(b, i, "ANODE")
    \o SetStatBlockBytes(b, i, "SENSOR") \o SetStatBlockBytes(b, i, "ACTUATOR")
StatRow(b, i) == StatHead(b, i) \o SetTimestamp(b.items[i].timestamp)

LEMMA StatRowOK ==
    ASSUME NEW n \in Nat, NEW b \in BlocksOf(n), NEW i \in 1..n
    PROVE  StatRow(b, i) \in Seq(Byte) /\ Len(StatRow(b, i)) = StatStep(b.numofdev)
<1>0. "SNODE" \in Dev /\ "ANODE" \in Dev /\ "SENSOR" \in Dev /\ "ACTUATOR" \in Dev BY DEF Dev
<1>1. PICK sn, an, sens, acts \in Nat :
         /\ sn = b.numofdev["SNODE"] /\ an = b.numofdev["ANODE"]
         /\ sens = b.numofdev["SENSOR"] /\ acts = b.numofdev["ACTUATOR"]
    BY <1>0, BlockNumbers
<1>2. PICK p, q, r, s \in Seq(Byte) :
         /\ p = SetStatBlockBytes(b, i, "SNODE") /\ q = SetStatBlockBytes(b, i, "ANODE")
         /\ r = SetStatBlockBytes(b, i, "SENSOR") /\ s = SetStatBlockBytes(b, i, "ACTUATOR")
    BY <1>0, StatPartOK
<1>3. /\ IdBytes("SNODE") = 3 /\ IdBytes("ANODE") = 3
      /\ IdBytes("SENSOR") = 4 /\ IdBytes("ACTUATOR") = 4
    BY DEF IdBytes
<1>4. /\ Len(p) = 1 + sn * 3 + sn * 1 /\ Len(q) = 1 + an * 3 + an * 1
      /\ Len(r) = 1 + sens * 4 + sens * 1 /\ Len(s) = 1 + acts * 4 + acts * 1
    <2>1. \A d \in Dev : Len(SetStatBlockBytes(b, i, d)) = 1 + b.numofdev[d] * IdBytes(d) + b.numofdev[d] * 1
        BY StatPartOK
    <2> QED BY <1>0, <1>1, <1>2, <1>3, <2>1
<1>5. PICK h \in Seq(Byte) : h = SetBytes(1, b.items[i].gcgstat) /\ Len(h) = 1
    <2>1. b.items[i].gcgstat \in Int /\ 1 \in 1..4 BY BlockParts
    <2> QED BY <2>1, SetBytesOf
<1>6. StatHead(b, i) = (((h \o p) \o q) \o r) \o s BY <1>2, <1>5 DEF StatHead
<1>7. \A x, y \in Seq(Byte) : x \o y \in Seq(Byte) /\ Len(x \o y) = Len(x) + Len(y)
    BY ConcatProperties
<1>8. h \o p \in Seq(Byte) /\ Len(h \o p) = Len(h) + Len(p) BY <1>7, Zenon
<1>9. (h \o p) \o q \in Seq(Byte) /\ Len((h \o p) \o q) = Len(h \o p) + Len(q)
    BY <1>7, <1>8, Zenon
<1>10. ((h \o p) \o q) \o r \in Seq(Byte)
       /\ Len(((h \o p) \o q) \o r) = Len((h \o p) \o q) + Len(r)
    BY <1>7, <1>9, Zenon
<1>11. (((h \o p) \o q) \o r) \o s \in Seq(Byte)
       /\ Len((((h \o p) \o q) \o r) \o s) = Len(((h \o p) \o q) \o r) + Len(s)
    BY <1>7, <1>10, Zenon
<1>12. Len((((h \o p) \o q) \o r) \o s)
         = 1 + (1 + sn * 3 + sn * 1) + (1 + an * 3 + an * 1)
             + (1 + sens * 4 + sens * 1) + (1 + acts * 4 + acts * 1)
    BY <1>4, <1>5, <1>8, <1>9, <1>10, <1>11
<1>13. PICK head \in Seq(Byte) :
         /\ head = StatHead(b, i)
         /\ Len(head) = 1 + (1 + sn * 3 + sn * 1) + (1 + an * 3 + an * 1)
                          + (1 + sens * 4 + sens * 1) + (1 + acts * 4 + acts * 1)
    BY <1>6, <1>11, <1>12
<1>14. StatStep(b.numofdev) = 12 + 4 * sn + 4 * an + 5 * sens + 5 * acts BY <1>1 DEF StatStep
<1>15. Len(head) + 7 = StatStep(b.numofdev) BY <1>13, <1>14
<1>16. b.items[i].timestamp \in Times BY BlockParts
<1> QED BY <1>13, <1>15, <1>16, RowEnds DEF StatRow

LEMMA StatBlockOK ==
    ASSUME NEW n \in Nat, NEW b \in BlocksOf(n)
    PROVE  /\ StatBlock(b) \in Seq(Byte)
           /\ Len(StatBlock(b)) \notin 1..4 /\ Len(StatBlock(b)) <= MaxLength
           /\ n > 0 => Len(StatBlock(b)) > 4
<1>1. PICK w \in Nat : w = StatStep(b.numofdev) /\ w > 4 BY BlockNumbers
<1>2. PICK rows : rows = [i \in 1..n |-> StatRow(b, i)] OBVIOUS
<1>3. StatBlock(b) = FlattenSeq(rows) BY <1>2, BlockNumbers, Zenon DEF StatBlock, StatRow, StatHead
<1>4. rows \in [1..n -> Seq(Byte)] /\ AllOfLength(rows, n, w)
    BY <1>1, <1>2, StatRowOK DEF AllOfLength
<1>5. n * w <= MaxLength BY <1>1, BlockNumbers DEF Sendable
<1> QED BY <1>1, <1>3, <1>4, <1>5, RowsFit

(* One kind of device in a row of an environment block. *)
LEMMA EnvPartOK ==
    ASSUME NEW n \in Nat, NEW b \in BlocksOf(n), NEW i \in 1..n, NEW d \in Dev
    PROVE  /\ SetEnvBlockBytes(b, i, d) \in Seq(Byte)
           /\ Len(SetEnvBlockBytes(b, i, d)) = 1 + b.numofdev[d] * 4 + b.numofdev[d] * EnvBytes(d)
<1>1. EnvBytes(d) \in 1..4 BY DEF EnvBytes
<1>2. 4 \in 1..4 OBVIOUS
<1>3. /\ b.numofdev[d] \in 0..MaxDevices
      /\ b.items[i].ids[d] \in [1..MaxDevices -> Int]
      /\ b.items[i].vals[d] \in [1..MaxDevices -> Int]
    BY BlockParts
<1> QED BY <1>1, <1>2, <1>3, DevicesOf DEF SetEnvBlockBytes

EnvHead(b, i) == SetEnvBlockBytes(b, i, "SENSOR") \o SetEnvBlockBytes(b, i, "ACTUATOR")
EnvRow(b, i) == EnvHead(b, i) \o SetTimestamp(b.items[i].timestamp)

LEMMA EnvRowOK ==
    ASSUME NEW n \in Nat, NEW b \in BlocksOf(n), NEW i \in 1..n
    PROVE  EnvRow(b, i) \in Seq(Byte) /\ Len(EnvRow(b, i)) = EnvStep(b.numofdev)
<1>0. "SENSOR" \in Dev /\ "ACTUATOR" \in Dev BY DEF Dev
<1>1. PICK sens, acts \in Nat : sens = b.numofdev["SENSOR"] /\ acts = b.numofdev["ACTUATOR"]
    BY <1>0, BlockNumbers
<1>2. PICK p, q \in Seq(Byte) :
         p = SetEnvBlockBytes(b, i, "SENSOR") /\ q = SetEnvBlockBytes(b, i, "ACTUATOR")
    BY <1>0, EnvPartOK
<1>3. EnvBytes("SENSOR") = 4 /\ EnvBytes("ACTUATOR") = 2 BY DEF EnvBytes
<1>4. Len(p) = 1 + sens * 4 + sens * 4 /\ Len(q) = 1 + acts * 4 + acts * 2
    <2>1. \A d \in Dev : Len(SetEnvBlockBytes(b, i, d)) = 1 + b.numofdev[d] * 4 + b.numofdev[d] * EnvBytes(d)
        BY EnvPartOK
    <2> QED BY <1>0, <1>1, <1>2, <1>3, <2>1
<1>5. p \o q \in Seq(Byte) /\ Len(p \o q) = Len(p) + Len(q) BY ConcatProperties
<1>6. PICK head \in Seq(Byte) :
         head = EnvHead(b, i) /\ Len(head) = (1 + sens * 4 + sens * 4) + (1 + acts * 4 + acts * 2)
    BY <1>2, <1>4, <1>5 DEF EnvHead
<1>7. EnvStep(b.numofdev) = 9 + 8 * sens + 6 * acts BY <1>1 DEF EnvStep
<1>8. Len(head) + 7 = EnvStep(b.numofdev) BY <1>6, <1>7
<1>9. b.items[i].timestamp \in Times BY BlockParts
<1> QED BY <1>6, <1>8, <1>9, RowEnds DEF EnvRow

LEMMA EnvBlockOK ==
    ASSUME NEW n \in Nat, NEW b \in BlocksOf(n)
    PROVE  /\ EnvBlock(b) \in Seq(Byte)
           /\ Len(EnvBlock(b)) \notin 1..4 /\ Len(EnvBlock(b)) <= MaxLength
           /\ n > 0 => Len(EnvBlock(b)) > 4
<1>1. PICK w \in Nat : w = EnvStep(b.numofdev) /\ w > 4 BY BlockNumbers
<1>2. PICK rows : rows = [i \in 1..n |-> EnvRow(b, i)] OBVIOUS
<1>3. EnvBlock(b) = FlattenSeq(rows) BY <1>2, BlockNumbers, Zenon DEF EnvBlock, EnvRow, EnvHead
<1>4. rows \in [1..n -> Seq(Byte)] /\ AllOfLength(rows, n, w)
    BY <1>1, <1>2, EnvRowOK DEF AllOfLength
<1>5. n * w <= MaxLength BY <1>1, BlockNumbers DEF Sendable
<1> QED BY <1>1, <1>3, <1>4, <1>5, RowsFit

LEMMA HistoryResponsesOK ==
    ASSUME BlockOK, block # NoBlock
    PROVE  /\ HistoryResponse(FC.BLKOFSTAT, StatBlock(block)) \in Seq(Entries)
           /\ HistoryResponse(FC.BLKOFENV, EnvBlock(block)) \in Seq(Entries)
<1>1. PICK n \in Nat : block \in BlocksOf(n) BY DEF BlockOK, Blocks
<1>2. block.rows = n BY <1>1 DEF BlocksOf
<1>3. Response(0) \in Seq(Entries) BY ResponseOf
<1>4. Number(FC.NUMOFBLK, block.rows) \in Seq(Entries)
    <2>1. FC.NUMOFBLK \in CodesOfLength(1..4) /\ block.rows \in Int BY <1>2, ReportCodes
    <2> QED BY <2>1, NumberOf
<1>5. ASSUME NEW code \in FieldCodes, FieldLen(code) = 0,
             NEW bytes \in Seq(Byte), Len(bytes) \notin 1..4, Len(bytes) <= MaxLength
      PROVE  HistoryResponse(code, bytes) \in Seq(Entries)
    <2>1. Fitting(bytes, code) BY <1>5 DEF Fitting, FDATA_LIMIT
    <2>2. Entry("bytes", code, bytes) \in Seq(Entries) BY <2>1, BytesOf
    <2>3. PICK a, b, c \in Seq(Entries) :
             a = Response(0) /\ b = Number(FC.NUMOFBLK, block.rows) /\ c = Entry("bytes", code, bytes)
        BY <1>3, <1>4, <2>2
    <2>4. HistoryResponse(code, bytes) = (a \o b) \o c BY <2>3 DEF HistoryResponse
    <2>5. a \o b \in Seq(Entries) BY ConcatProperties
    <2>6. (a \o b) \o c \in Seq(Entries) BY <2>5, ConcatProperties
    <2> QED BY <2>4, <2>6
<1>6. /\ FC.BLKOFSTAT \in FieldCodes /\ FC.BLKOFENV \in FieldCodes
      /\ FieldLen(FC.BLKOFSTAT) = 0 /\ FieldLen(FC.BLKOFENV) = 0
    BY ReportCodes
<1>7. /\ StatBlock(block) \in Seq(Byte) /\ Len(StatBlock(block)) \notin 1..4
      /\ EnvBlock(block) \in Seq(Byte) /\ Len(EnvBlock(block)) \notin 1..4
      /\ Len(StatBlock(block)) <= MaxLength /\ Len(EnvBlock(block)) <= MaxLength
    BY <1>1, StatBlockOK, EnvBlockOK
<1> QED BY <1>5, <1>6, <1>7

-----------------------------------------------------------------------------
(* The messages that are composed *)

(* The header they begin with; there is no field yet. *)
Headed(header, h) ==
    /\ header.msgtype = h.msgtype /\ header.transtype = h.transtype
    /\ header.gcgid = h.gcgid /\ header.gosid = h.gosid
    /\ header.msgseq = h.msgseq % 999999

LEMMA StartOf ==
    ASSUME NEW h \in Headers
    PROVE  \E base \in Msgs : /\ base.fields = << >> /\ Headed(base.header, h)
                              /\ \A entries : Composed(h, entries) = FoldLeft(Put, base, entries)
<1>1. PICK a, b, g, o, n : a = h.msgtype /\ b = h.transtype /\ g = h.gcgid /\ o = h.gosid /\ n = h.msgseq
    OBVIOUS
<1>2. a \in Int /\ b \in Int /\ g \in Gid24 /\ o \in Gid24 /\ n \in Nat
    BY <1>1, TransferAssumption, SMT DEF Gid24
<1>3. n % 999999 \in MsgSeqs BY <1>2, SMT DEF MsgSeqs
<1>4. PICK q \in MsgSeqs : q = n % 999999 BY <1>3
<1>5. SetHeader(InitMsg, a, b, g, o, n)
        = [header |-> [msgtype |-> a, transtype |-> b, gcgid |-> g, gosid |-> o, tdate |-> << >>,
                       ttime |-> << >>, msgseq |-> q, rescode |-> 0],
           fields |-> << >>]
    <2> DEFINE H == [msgtype |-> 0, transtype |-> 0, gcgid |-> 0, gosid |-> 0, tdate |-> << >>,
                     ttime |-> << >>, msgseq |-> 0, rescode |-> 0]
               Only(header) == [header |-> header, fields |-> << >>]
    <2>1. InitMsg = Only(H) BY DEF InitMsg
    <2>2. PICK m1 : m1 = [InitMsg EXCEPT !.header.msgtype = a] OBVIOUS
    <2>3. PICK m2 : m2 = [m1 EXCEPT !.header.transtype = b] OBVIOUS
    <2>4. PICK m3 : m3 = [m2 EXCEPT !.header.gcgid = g] OBVIOUS
    <2>5. PICK m4 : m4 = [m3 EXCEPT !.header.gosid = o] OBVIOUS
    <2>6. PICK m5 : m5 = [m4 EXCEPT !.header.msgseq = q] OBVIOUS
    <2>7. SetHeader(InitMsg, a, b, g, o, n) = m5
        BY <1>4, <2>2, <2>3, <2>4, <2>5, <2>6, SMT DEF SetHeader
    <2>8. m1 = Only([msgtype |-> a, transtype |-> 0, gcgid |-> 0, gosid |-> 0, tdate |-> << >>,
                     ttime |-> << >>, msgseq |-> 0, rescode |-> 0])
        BY <2>1, <2>2, SMT
    <2>9. m2 = Only([msgtype |-> a, transtype |-> b, gcgid |-> 0, gosid |-> 0, tdate |-> << >>,
                     ttime |-> << >>, msgseq |-> 0, rescode |-> 0])
        BY <2>3, <2>8, SMT
    <2>10. m3 = Only([msgtype |-> a, transtype |-> b, gcgid |-> g, gosid |-> 0, tdate |-> << >>,
                      ttime |-> << >>, msgseq |-> 0, rescode |-> 0])
        BY <2>4, <2>9, SMT
    <2>11. m4 = Only([msgtype |-> a, transtype |-> b, gcgid |-> g, gosid |-> o, tdate |-> << >>,
                      ttime |-> << >>, msgseq |-> 0, rescode |-> 0])
        BY <2>5, <2>10, SMT
    <2>12. m5 = Only([msgtype |-> a, transtype |-> b, gcgid |-> g, gosid |-> o, tdate |-> << >>,
                      ttime |-> << >>, msgseq |-> q, rescode |-> 0])
        BY <2>6, <2>11, SMT
    <2> QED BY <2>7, <2>12
<1>6. << >> \in Seq(Byte) /\ << >> \in Seq(Field) BY EmptySeq
<1>7. [msgtype |-> a, transtype |-> b, gcgid |-> g, gosid |-> o, tdate |-> << >>,
       ttime |-> << >>, msgseq |-> q, rescode |-> 0] \in Header
    BY <1>2, <1>6 DEF Header
<1>8. PICK base : base = SetHeader(InitMsg, a, b, g, o, n) OBVIOUS
<1>9. base \in Msgs BY <1>5, <1>6, <1>7, <1>8 DEF Msgs
<1>10. base.fields = << >> /\ Headed(base.header, h)
    <2>1. base.fields = << >> /\ base.header.msgtype = a /\ base.header.transtype = b
          /\ base.header.gcgid = g /\ base.header.gosid = o /\ base.header.msgseq = q
        BY <1>5, <1>8
    <2> QED BY <1>1, <1>4, <2>1 DEF Headed
<1>11. \A entries : Composed(h, entries) = FoldLeft(Put, base, entries) BY <1>1, <1>8 DEF Composed
<1> QED BY <1>9, <1>10, <1>11

LEMMA ComposedOK ==
    ASSUME NEW h \in Headers, NEW entries \in Seq(Entries)
    PROVE  Composed(h, entries) \in Msgs
BY StartOf, PutAllOK

-----------------------------------------------------------------------------
(* What may happen to a frame *)

LEMMA AlteredByte ==
    ASSUME NEW byte \in Byte, NEW d \in Noise
    PROVE  Altered(byte, d) \in Byte /\ Altered(byte, d) # byte
<1>1. d \in 1..255 BY TransferAssumption, SMT
<1>2. PICK x, y \in Nat : x = byte /\ y = d BY <1>1 DEF Byte
<1>3. x <= 255 /\ y >= 1 /\ y <= 255 BY <1>1, <1>2 DEF Byte
<1>4. (x + y) % 256 = IF x + y < 256 THEN x + y ELSE x + y - 256 BY <1>3
<1> QED BY <1>2, <1>3, <1>4 DEF Altered, Byte

(* One byte of a chunk is another one. *)
Disturbed(old, new) == new \in ChunkSet /\ \E j : DifferAt(Piece(old), Piece(new), j)

LEMMA DataDisturbed ==
    ASSUME NEW c \in ChunkSet, NEW d \in Noise, NEW new \in DamagedData(c, d)
    PROVE  Disturbed(c, new)
<1>1. c.code \in Range(FC) /\ c.length \in Len16 /\ c.bytes \in Seq(Byte)
      /\ c = [code |-> c.code, length |-> c.length, bytes |-> c.bytes]
    BY DEF ChunkSet
<1>2. PICK n \in Nat : n = Len(c.bytes) /\ c.bytes \in [1..n -> Byte] /\ DOMAIN c.bytes = 1..n
    BY <1>1, LenProperties
<1>3. PICK k \in 1..n : new = [c EXCEPT !.bytes[k] = Altered(@, d)] BY <1>2 DEF DamagedData
<1>4. PICK x : x = Altered(c.bytes[k], d) OBVIOUS
<1>5. x \in Byte /\ x # c.bytes[k] BY <1>2, <1>4, AlteredByte
<1>6. PICK s : s = [c.bytes EXCEPT ![k] = x] OBVIOUS
<1>7. s \in [1..n -> Byte] /\ s[k] = x /\ \A l \in 1..n : l # k => s[l] = c.bytes[l]
    BY <1>2, <1>5, <1>6
<1>8. s \in Seq(Byte) /\ Len(s) = n BY <1>7, FunctionIsSeq
<1>9. new = [code |-> c.code, length |-> c.length, bytes |-> s] BY <1>1, <1>3, <1>4, <1>6
<1>10. new \in ChunkSet BY <1>1, <1>8, <1>9 DEF ChunkSet
<1>11. PICK b, t : b = Piece(c) /\ t = Piece(new) OBVIOUS
<1>12. /\ b \in Seq(Byte) /\ t \in Seq(Byte) /\ Len(b) = 4 + n /\ Len(t) = 4 + n
       /\ b[1] = t[1] /\ b[2] = t[2] /\ b[3] = t[3] /\ b[4] = t[4]
       /\ \A l \in 1..n : b[4 + l] = c.bytes[l] /\ t[4 + l] = s[l]
    <2>1. /\ b \in Seq(Byte) /\ Len(b) = 4 + n
          /\ b[1] = c.code % 256 /\ b[2] = (c.code \div 256) % 256
          /\ b[3] = c.length % 256 /\ b[4] = (c.length \div 256) % 256
          /\ \A l \in 1..n : b[4 + l] = c.bytes[l]
        <3>1. /\ Piece(c) \in Seq(Byte) /\ Len(Piece(c)) = 4 + Len(c.bytes)
              /\ Piece(c)[1] = c.code % 256 /\ Piece(c)[2] = (c.code \div 256) % 256
              /\ Piece(c)[3] = c.length % 256 /\ Piece(c)[4] = (c.length \div 256) % 256
              /\ \A l \in 1..Len(c.bytes) : Piece(c)[4 + l] = c.bytes[l]
            BY PieceOf
        <3> QED BY <1>2, <1>11, <3>1
    <2>2. PICK w \in ChunkSet : w = new BY <1>10
    <2>3. w.bytes = s /\ w.code = c.code /\ w.length = c.length BY <1>9, <2>2
    <2>4. /\ Piece(w) \in Seq(Byte) /\ Len(Piece(w)) = 4 + Len(w.bytes)
          /\ Piece(w)[1] = w.code % 256 /\ Piece(w)[2] = (w.code \div 256) % 256
          /\ Piece(w)[3] = w.length % 256 /\ Piece(w)[4] = (w.length \div 256) % 256
          /\ \A l \in 1..Len(w.bytes) : Piece(w)[4 + l] = w.bytes[l]
        BY PieceOf
    <2>5. t = Piece(w) BY <1>11, <2>2
    <2>6. /\ t \in Seq(Byte) /\ Len(t) = 4 + n
          /\ t[1] = c.code % 256 /\ t[2] = (c.code \div 256) % 256
          /\ t[3] = c.length % 256 /\ t[4] = (c.length \div 256) % 256
        BY <1>8, <2>3, <2>4, <2>5
    <2>7. ASSUME NEW l \in 1..n PROVE b[4 + l] = c.bytes[l] /\ t[4 + l] = s[l]
        <3>1. b[4 + l] = c.bytes[l] BY <2>1
        <3>2. l \in 1..Len(w.bytes) /\ w.bytes[l] = s[l] BY <1>8, <2>3
        <3>3. t[4 + l] = s[l] BY <2>4, <2>5, <3>2
        <3> QED BY <3>1, <3>3
    <2> QED BY <2>1, <2>6, <2>7
<1>13. \A l \in 1..(4 + n) : l \in 1..4 \/ (l - 4 \in 1..n /\ l = 4 + (l - 4)) OBVIOUS
<1>14. \A l \in 1..(4 + n) : l # 4 + k => b[l] = t[l]
    <2>1. ASSUME NEW l \in 1..(4 + n), l # 4 + k PROVE b[l] = t[l]
        <3>1. CASE l \in 1..4
            <4>1. l = 1 \/ l = 2 \/ l = 3 \/ l = 4 BY <3>1
            <4> QED BY <1>12, <4>1
        <3>2. CASE l - 4 \in 1..n /\ l = 4 + (l - 4)
            <4>1. PICK e \in 1..n : l = 4 + e /\ e # k BY <2>1, <3>2
            <4> QED BY <1>7, <1>12, <4>1
        <3> QED BY <1>13, <3>1, <3>2
    <2> QED BY <2>1
<1>15. 4 + k \in 1..(4 + n) /\ b[4 + k] # t[4 + k]
    <2>1. 4 + k \in 1..(4 + n) OBVIOUS
    <2> QED BY <1>5, <1>7, <1>12, <2>1
<1>16. DifferAt(b, t, 4 + k) BY <1>12, <1>14, <1>15 DEF DifferAt
<1> QED BY <1>10, <1>11, <1>16 DEF Disturbed

(* The low byte of a length, or of a code, is another one. *)
LEMMA HeadDisturbed ==
    ASSUME NEW c \in ChunkSet, NEW new \in ChunkSet, NEW j \in {1, 3}, new.bytes = c.bytes,
           new.code \div 256 = c.code \div 256, new.length \div 256 = c.length \div 256,
           IF j = 1 THEN new.length = c.length /\ new.code % 256 # c.code % 256
                    ELSE new.code = c.code /\ new.length % 256 # c.length % 256
    PROVE  Disturbed(c, new)
<1>1. PICK n \in Nat : n = Len(c.bytes) BY LenProperties DEF ChunkSet
<1>2. PICK b, t : b = Piece(c) /\ t = Piece(new) OBVIOUS
<1>3. /\ b \in Seq(Byte) /\ t \in Seq(Byte) /\ Len(b) = 4 + n /\ Len(t) = 4 + n
      /\ b[1] = c.code % 256 /\ b[2] = (c.code \div 256) % 256
      /\ b[3] = c.length % 256 /\ b[4] = (c.length \div 256) % 256
      /\ t[1] = new.code % 256 /\ t[2] = (new.code \div 256) % 256
      /\ t[3] = new.length % 256 /\ t[4] = (new.length \div 256) % 256
      /\ \A l \in 1..n : b[4 + l] = c.bytes[l] /\ t[4 + l] = c.bytes[l]
    <2>1. /\ b \in Seq(Byte) /\ Len(b) = 4 + n
          /\ b[1] = c.code % 256 /\ b[2] = (c.code \div 256) % 256
          /\ b[3] = c.length % 256 /\ b[4] = (c.length \div 256) % 256
          /\ \A l \in 1..n : b[4 + l] = c.bytes[l]
        BY <1>1, <1>2, PieceOf
    <2>2. /\ t \in Seq(Byte) /\ Len(t) = 4 + Len(new.bytes)
          /\ t[1] = new.code % 256 /\ t[2] = (new.code \div 256) % 256
          /\ t[3] = new.length % 256 /\ t[4] = (new.length \div 256) % 256
          /\ \A l \in 1..Len(new.bytes) : t[4 + l] = new.bytes[l]
        BY <1>2, PieceOf, SMTT(40)
    <2> QED BY <1>1, <2>1, <2>2, SMTT(40)
<1>4. b[2] = t[2] /\ b[4] = t[4] /\ b[j] # t[j] /\ \A l \in {1, 3} : l # j => b[l] = t[l]
    BY <1>3
<1>5. ASSUME NEW l \in 1..n PROVE b[4 + l] = t[4 + l]
    <2>1. b[4 + l] = c.bytes[l] BY <1>3
    <2>2. t[4 + l] = c.bytes[l] BY <1>3
    <2> QED BY <2>1, <2>2
<1>6. \A l \in 1..(4 + n) : l \in {1, 3} \/ l = 2 \/ l = 4 \/ (l - 4 \in 1..n /\ l = 4 + (l - 4)) OBVIOUS
<1>7. \A l \in 1..(4 + n) : l # j => b[l] = t[l]
    <2>1. ASSUME NEW l \in 1..(4 + n), l # j PROVE b[l] = t[l]
        <3>1. CASE l \in {1, 3} \/ l = 2 \/ l = 4
            BY <1>4, <2>1, <3>1
        <3>2. CASE l - 4 \in 1..n /\ l = 4 + (l - 4)
            <4>1. PICK e \in 1..n : l = 4 + e BY <3>2
            <4> QED BY <1>5, <4>1
        <3> QED BY <1>6, <3>1, <3>2
    <2> QED BY <2>1
<1>8. j \in 1..(4 + n) OBVIOUS
<1>9. DifferAt(b, t, j) BY <1>3, <1>4, <1>7, <1>8 DEF DifferAt
<1> QED BY <1>2, <1>9 DEF Disturbed

LEMMA LengthDisturbed ==
    ASSUME NEW c \in ChunkSet, NEW d \in Noise, NEW new \in DamagedLength(c, d)
    PROVE  Disturbed(c, new)
<1>1. c.code \in Range(FC) /\ c.length \in Len16 /\ c.bytes \in Seq(Byte)
      /\ c = [code |-> c.code, length |-> c.length, bytes |-> c.bytes]
    BY DEF ChunkSet
<1>2. PICK x \in Nat : x = c.length BY <1>1 DEF Len16
<1>3. x < 65536 BY <1>1, <1>2, SMT DEF Len16, MaxLength
<1>4. x % 256 \in Byte BY <1>2 DEF Byte
<1>5. PICK y \in Byte : y = Altered(x % 256, d) /\ y # x % 256 BY <1>4, AlteredByte
<1>6. PICK z : z = x - (x % 256) + y OBVIOUS
<1>7. z \in Nat /\ z < 65536 /\ z \div 256 = x \div 256 /\ z % 256 = y
    <2>1. y \in 0..255 BY <1>5 DEF Byte
    <2>2. PICK q \in Nat : q = x \div 256 BY <1>2
    <2>3. x = 256 * q + (x % 256) /\ x % 256 \in 0..255 BY <1>2, <2>2
    <2>4. z = 256 * q + y BY <1>2, <1>6, <2>1, <2>2, <2>3
    <2>5. q < 256 BY <1>2, <1>3, <2>2, SMT
    <2>6. (256 * q + y) \div 256 = q /\ (256 * q + y) % 256 = y BY <2>1, SMT
    <2> QED BY <2>1, <2>2, <2>4, <2>5, <2>6, SMT
<1>8. new = [code |-> c.code, length |-> z, bytes |-> c.bytes]
    <2>1. new = [c EXCEPT !.length = c.length - (c.length % 256) + Altered(c.length % 256, d)]
        BY DEF DamagedLength
    <2> QED BY <1>1, <1>2, <1>5, <1>6, <2>1
<1>9. new \in ChunkSet BY <1>1, <1>7, <1>8, SMT DEF ChunkSet, Len16, MaxLength
<1>10. /\ new.bytes = c.bytes /\ new.code = c.code /\ new.length \div 256 = c.length \div 256
       /\ new.length % 256 # c.length % 256
    BY <1>2, <1>5, <1>7, <1>8
<1> QED BY <1>9, <1>10, HeadDisturbed

LEMMA CodeDisturbed ==
    ASSUME NEW c \in ChunkSet, NEW new \in DamagedCode(c)
    PROVE  Disturbed(c, new)
<1>1. c.code \in Range(FC) /\ c.length \in Len16 /\ c.bytes \in Seq(Byte)
      /\ c = [code |-> c.code, length |-> c.length, bytes |-> c.bytes]
    BY DEF ChunkSet
<1>2. PICK code \in Range(FC) \ {c.code} :
         new = [c EXCEPT !.code = code] /\ code \div 256 = c.code \div 256
    BY DEF DamagedCode
<1>3. new = [code |-> code, length |-> c.length, bytes |-> c.bytes] BY <1>1, <1>2
<1>4. new \in ChunkSet BY <1>1, <1>3 DEF ChunkSet
<1>5. PICK x, y \in Nat : x = c.code /\ y = code /\ x # y /\ x \div 256 = y \div 256
    BY <1>1, <1>2, LengthOfCode
<1>6. x % 256 # y % 256 BY <1>5
<1>7. /\ new.bytes = c.bytes /\ new.code \div 256 = c.code \div 256 /\ new.length = c.length
      /\ new.code % 256 # c.code % 256
    BY <1>2, <1>3, <1>5, <1>6
<1> QED BY <1>4, <1>7, HeadDisturbed

-----------------------------------------------------------------------------
(* The message on its way *)

(* What is sent is sound, and so is what arrives; a frame has its own      *)
(* checksum until a byte of it changes, and from then on another one.      *)
PipeOK ==
    /\ stage \in {"idle", "composed", "framed", "damaged", "parsed", "refused", "crashed"}
    /\ msg \in Msgs /\ got \in Msgs
    /\ frame = [chunks |-> frame.chunks, check |-> frame.check, room |-> frame.room]
    /\ frame.chunks \in Seq(ChunkSet) /\ frame.check \in [1..2 -> Byte]
    /\ stage \in {"framed", "parsed"} => frame.chunks \in Seq(Sent)
    /\ stage = "framed" => frame.check = HexDigits(Checksum(frame.chunks))
    /\ stage = "framed" => Written(frame.chunks) <= frame.room
    /\ stage = "damaged" => frame.check # HexDigits(Checksum(frame.chunks))
    /\ stage = "refused" => got = InitMsg

LEMMA SendOK ==
    ASSUME PipeOK, NEW h \in Headers, NEW content, content.entries \in Seq(Entries), Send(h, content)
    PROVE  PipeOK'
<1>1. msg' \in Msgs BY ComposedOK DEF Send
<1>2. stage' = "composed" /\ UNCHANGED <<frame, got>> BY DEF Send
<1> QED BY <1>1, <1>2 DEF PipeOK

LEMMA SendContentOK ==
    ASSUME PipeOK, SendContent
    PROVE  PipeOK'
<1>1. PICK h \in Headers, c \in Loads : Send(h, c) BY DEF SendContent
<1>2. c.entries \in Seq(Entries) BY TransferAssumption, SMT
<1> QED BY <1>1, <1>2, SendOK

LEMMA SendHistoryOK ==
    ASSUME PipeOK, BlockOK, SendHistory
    PROVE  PipeOK'
<1>1. PICK h : h = CHOOSE header \in Headers : TRUE OBVIOUS
<1>2. h \in Headers
    <2>1. Headers # {} BY TransferAssumption, SMT
    <2> QED BY <1>1, <2>1
<1>3. block # NoBlock /\ (SendStatBlock(h) \/ SendEnvBlock(h)) BY <1>1 DEF SendHistory
<1>4. ASSUME NEW kind, NEW about, NEW entries \in Seq(Entries),
             Send(h, [kind |-> kind, about |-> about, entries |-> entries])
      PROVE  PipeOK'
    <2>1. [kind |-> kind, about |-> about, entries |-> entries].entries \in Seq(Entries) OBVIOUS
    <2> QED BY <1>2, <1>4, <2>1, SendOK
<1>5. /\ HistoryResponse(FC.BLKOFSTAT, StatBlock(block)) \in Seq(Entries)
      /\ HistoryResponse(FC.BLKOFENV, EnvBlock(block)) \in Seq(Entries)
    BY <1>3, HistoryResponsesOK
<1>6. CASE SendStatBlock(h) BY <1>4, <1>5, <1>6, Zenon DEF SendStatBlock
<1>7. CASE SendEnvBlock(h) BY <1>4, <1>5, <1>7, Zenon DEF SendEnvBlock
<1> QED BY <1>3, <1>6, <1>7

LEMMA SendReportOK ==
    ASSUME PipeOK, GcgOK, SendReport
    PROVE  PipeOK'
<1>1. PICK h : h = CHOOSE header \in Headers : TRUE OBVIOUS
<1>2. h \in Headers
    <2>1. Headers # {} BY TransferAssumption, SMT
    <2> QED BY <1>1, <2>1
<1>3. CASE stage' = "crashed" /\ UNCHANGED <<msg, frame, got>>
    BY <1>3 DEF PipeOK
<1>4. CASE ~(stage' = "crashed" /\ UNCHANGED <<msg, frame, got>>)
    <2>1. PICK kind, about, entries :
            /\ Send(h, [kind |-> kind, entries |-> entries, about |-> about])
            /\ entries = NotifyStat(Now) \/ entries = NotifyEnv(Now) \/ entries = ConnectRequest(Connecting)
        BY <1>1, <1>4, Zenon DEF SendReport
    <2>2. entries \in Seq(Entries) BY <2>1, ReportsOK
    <2>3. [kind |-> kind, entries |-> entries, about |-> about].entries \in Seq(Entries) BY <2>2
    <2> QED BY <1>2, <2>1, <2>3, SendOK
<1> QED BY <1>3, <1>4

LEMMA GenerateOK ==
    ASSUME PipeOK, Generate
    PROVE  PipeOK'
<1>1. PICK f : f = GenerateFrame(msg) OBVIOUS
<1>2. \/ stage' = "crashed" /\ UNCHANGED <<msg, frame, got>>
      \/ frame' = f /\ stage' = "framed" /\ UNCHANGED <<msg, got>>
    BY <1>1 DEF Generate
<1>3. f.chunks \in Seq(Sent) /\ f.check = HexDigits(Checksum(f.chunks))
    BY <1>1, GenerateFrameOK DEF PipeOK
<1>4. f = [chunks |-> f.chunks, check |-> f.check, room |-> f.room] BY <1>1 DEF GenerateFrame
<1>5. f.chunks \in Seq(ChunkSet)
    <2>1. Sent \subseteq ChunkSet BY DEF Sent
    <2> QED BY <1>3, <2>1
<1>6. f.check \in [1..2 -> Byte]
    <2>1. PICK q : q = HexDigits(Checksum(f.chunks)) OBVIOUS
    <2>2. q \in Seq(0..15) /\ Len(q) = 2 BY <1>5, <2>1, ChecksumOf, DigitsOfSum
    <2>3. q \in [1..2 -> 0..15] BY <2>2, LenProperties
    <2>4. 0..15 \subseteq Byte BY DEF Byte
    <2> QED BY <1>3, <2>1, <2>3, <2>4
<1>7. Written(f.chunks) <= f.room BY <1>1, FrameFits DEF PipeOK
<1>8. CASE stage' = "crashed" /\ UNCHANGED <<msg, frame, got>>
    BY <1>8 DEF PipeOK
<1>9. CASE frame' = f /\ stage' = "framed" /\ UNCHANGED <<msg, got>>
    BY <1>3, <1>4, <1>5, <1>6, <1>7, <1>9 DEF PipeOK
<1> QED BY <1>2, <1>8, <1>9

LEMMA DamageOK ==
    ASSUME PipeOK, Damage
    PROVE  PipeOK'
<1>1. PICK d \in Noise :
       \/ \E i \in DOMAIN frame.chunks :
          \E c \in DamagedData(frame.chunks[i], d) \cup DamagedLength(frame.chunks[i], d)
                   \cup DamagedCode(frame.chunks[i]) :
             frame' = [frame EXCEPT !.chunks[i] = c]
       \/ \E i \in 1..2 : frame' = [frame EXCEPT !.check[i] = (frame.check[i] + d) % 256]
    BY DEF Damage
<1>2. stage = "framed" /\ stage' = "damaged" /\ UNCHANGED <<msg, got>> BY DEF Damage
<1>3. PICK old, check, room : frame = [chunks |-> old, check |-> check, room |-> room] BY DEF PipeOK
<1>4. /\ old \in Seq(ChunkSet) /\ check \in [1..2 -> Byte]
      /\ check = HexDigits(Checksum(old))
    BY <1>2, <1>3 DEF PipeOK
<1>5. PICK m \in Nat : old \in [1..m -> ChunkSet] /\ DOMAIN old = 1..m
    BY <1>4, LenProperties
<1>6. CASE \E i \in DOMAIN frame.chunks :
           \E c \in DamagedData(frame.chunks[i], d) \cup DamagedLength(frame.chunks[i], d)
                    \cup DamagedCode(frame.chunks[i]) :
              frame' = [frame EXCEPT !.chunks[i] = c]
    <2>0. frame.chunks = old /\ DOMAIN frame.chunks = 1..m BY <1>3, <1>5
    <2>1. PICK i \in DOMAIN frame.chunks :
             \E c \in DamagedData(frame.chunks[i], d) \cup DamagedLength(frame.chunks[i], d)
                      \cup DamagedCode(frame.chunks[i]) :
                frame' = [frame EXCEPT !.chunks[i] = c]
        BY <1>6
    <2>2. PICK c \in DamagedData(old[i], d) \cup DamagedLength(old[i], d) \cup DamagedCode(old[i]) :
             frame' = [frame EXCEPT !.chunks[i] = c]
        BY <2>0, <2>1, Zenon
    <2>3. i \in 1..m /\ old[i] \in ChunkSet BY <1>5, <2>0, <2>1
    <2>4. Disturbed(old[i], c)
        BY <2>2, <2>3, DataDisturbed, LengthDisturbed, CodeDisturbed, Zenon
    <2>5. PICK new : new = [old EXCEPT ![i] = c] OBVIOUS
    <2>6. new \in [1..m -> ChunkSet] /\ new[i] = c /\ \A k \in 1..m : k # i => new[k] = old[k]
        BY <1>5, <2>3, <2>4, <2>5 DEF Disturbed
    <2>7. frame' = [chunks |-> new, check |-> check, room |-> room] BY <1>3, <2>2, <2>5
    <2>8. new \in Seq(ChunkSet) BY <2>6, FunctionIsSeq
    <2>9. HexDigits(Checksum(old)) # HexDigits(Checksum(new))
        <3>1. PICK j : DifferAt(Piece(old[i]), Piece(new[i]), j) BY <2>4, <2>6 DEF Disturbed
        <3> QED BY <1>5, <2>3, <2>6, <3>1, ChecksumTells
    <2> QED BY <1>2, <1>4, <2>7, <2>8, <2>9 DEF PipeOK
<1>7. CASE \E i \in 1..2 : frame' = [frame EXCEPT !.check[i] = (frame.check[i] + d) % 256]
    <2>1. PICK i \in 1..2 : frame' = [frame EXCEPT !.check[i] = (frame.check[i] + d) % 256] BY <1>7
    <2>2. PICK x : x = Altered(check[i], d) OBVIOUS
    <2>3. x \in Byte /\ x # check[i] BY <1>4, <2>2, AlteredByte
    <2>4. PICK other : other = [check EXCEPT ![i] = x] OBVIOUS
    <2>5. other \in [1..2 -> Byte] /\ other # check BY <1>4, <2>3, <2>4
    <2>6. frame' = [chunks |-> old, check |-> other, room |-> room]
        BY <1>3, <2>1, <2>2, <2>4 DEF Altered
    <2> QED BY <1>2, <1>4, <2>5, <2>6 DEF PipeOK
<1> QED BY <1>1, <1>6, <1>7

LEMMA ParseOK ==
    ASSUME PipeOK, Parse
    PROVE  PipeOK'
<1>1. PICK p, long :
        /\ p = ParseFrame(frame)
        /\ long <=> p.stat = "NOERROR" /\ \E i \in DOMAIN frame.chunks : Overflows(frame.chunks[i])
    OBVIOUS
<1>2. /\ stage \in {"framed", "damaged"} /\ UNCHANGED <<msg, frame>>
      /\ got' = IF long THEN got ELSE p.msg
      /\ stage' = CASE long -> "crashed"
                    [] p.stat # "NOERROR" -> "refused"
                    [] p.stat = "NOERROR" /\ ~long /\ stage = "framed" -> "parsed"
                    [] p.stat = "NOERROR" /\ ~long /\ stage = "damaged" -> "misparsed"
    BY <1>1 DEF Parse
<1>3. CASE stage = "damaged"
    <2>1. p = Parsed("CHECKSUM_NOT_MATCHED", InitMsg) BY <1>1, <1>3 DEF ParseFrame, PipeOK
    <2>2. p.stat = "CHECKSUM_NOT_MATCHED" /\ p.msg = InitMsg BY <2>1 DEF Parsed
    <2>3. stage' = "refused" /\ got' = InitMsg BY <1>1, <1>2, <2>2
    <2> QED BY <1>2, <2>3, InitMsgOK DEF PipeOK
<1>4. CASE stage = "framed"
    <2>1. p = ParseFields(InitMsg, frame.chunks) BY <1>1, <1>4 DEF ParseFrame, PipeOK
    <2>2. p \in Good BY <1>4, <2>1, ParseFieldsOK, InitMsgOK DEF PipeOK
    <2>3. p.stat = "NOERROR" /\ p.msg \in Msgs BY <2>2 DEF Good
    <2>4. CASE long
        <3>1. stage' = "crashed" /\ got' = got BY <1>1, <1>2, <2>3, <2>4
        <3> QED BY <1>2, <3>1 DEF PipeOK
    <2>5. CASE ~long
        <3>1. stage' = "parsed" /\ got' \in Msgs BY <1>2, <1>4, <2>3, <2>5
        <3> QED BY <1>2, <1>4, <3>1 DEF PipeOK
    <2> QED BY <2>4, <2>5
<1> QED BY <1>2, <1>3, <1>4

LEMMA StartOK == InitMsg \in Msgs /\ << >> \in Seq(ChunkSet) /\ << >> \in Seq(Sent) /\ <<0, 0>> \in [1..2 -> Byte]
BY InitMsgOK, EmptySeq DEF Byte

LEMMA ReleaseOK ==
    ASSUME Release
    PROVE  PipeOK'
<1>1. stage' = "idle" /\ msg' = InitMsg /\ got' = InitMsg
      /\ frame' = [chunks |-> << >>, check |-> <<0, 0>>, room |-> 0]
    BY DEF Release, NoFrame
<1> QED BY <1>1, StartOK DEF PipeOK

-----------------------------------------------------------------------------
(* The invariant: the block and the nodes, which are what the messages are *)
(* made of, and the message itself.                                        *)

TransferInv == BlockOK /\ GcgOK /\ PipeOK

LEMMA InitInv == Init => TransferInv
<1> SUFFICES ASSUME Init PROVE TransferInv
    OBVIOUS
<1>1. BlockOK BY DEF Init, BlockInit, BlockOK
<1>2. GcgOK
    <2>1. gcg = [state |-> gcg.state, SNODE |-> EmptyNset, ANODE |-> EmptyNset]
        BY DEF Init, GcgInit, GcgOff
    <2> QED BY <2>1, EmptyNsetOK DEF GcgOK
<1>3. PipeOK
    <2>1. stage = "idle" /\ msg = InitMsg /\ got = InitMsg
          /\ frame = [chunks |-> << >>, check |-> <<0, 0>>, room |-> 0]
        BY DEF Init, NoFrame
    <2> QED BY <2>1, StartOK DEF PipeOK
<1> QED BY <1>1, <1>2, <1>3 DEF TransferInv

LEMMA NextInv ==
    ASSUME TransferInv, [Next]_vars
    PROVE  TransferInv'
<1> USE DEF TransferInv
<1>1. BlockOK'
    <2>1. CASE UNCHANGED block BY <2>1 DEF BlockOK
    <2>2. CASE InitBlock BY <2>2, InitBlockOK
    <2>3. CASE NextEmptyBlockItem BY <2>3, NextEmptyBlockItemOK
    <2>4. CASE SetBlockItem BY <2>4, SetBlockItemOK
    <2>5. CASE ReleaseBlock BY <2>5 DEF ReleaseBlock, BlockOK
    <2>6. \/ UNCHANGED block \/ InitBlock \/ NextEmptyBlockItem \/ SetBlockItem \/ ReleaseBlock
        BY DEF Next, vars, FillBlock, SendContent, SendHistory, SendStatBlock, SendEnvBlock,
               SendReport, Send, Generate, Damage, Parse, Release, ChangeNodes
    <2> QED BY <2>1, <2>2, <2>3, <2>4, <2>5, <2>6
<1>2. GcgOK'
    <2>1. CASE UNCHANGED gcg BY <2>1 DEF GcgOK
    <2>2. CASE GcgNext BY <2>2, GcgNextOK
    <2>3. UNCHANGED gcg \/ GcgNext
        BY DEF Next, vars, FillBlock, SendContent, SendHistory, SendStatBlock, SendEnvBlock,
               SendReport, Send, Generate, Damage, Parse, Release, ChangeNodes
    <2> QED BY <2>1, <2>2, <2>3
<1>3. PipeOK'
    <2>1. CASE SendContent BY <2>1, SendContentOK
    <2>2. CASE SendHistory BY <2>2, SendHistoryOK
    <2>3. CASE SendReport BY <2>3, SendReportOK
    <2>4. CASE Generate BY <2>4, GenerateOK
    <2>5. CASE Damage BY <2>5, DamageOK
    <2>6. CASE Parse BY <2>6, ParseOK
    <2>7. CASE Release BY <2>7, ReleaseOK
    <2>8. CASE UNCHANGED pipe BY <2>8 DEF pipe, PipeOK
    <2>9. \/ SendContent \/ SendHistory \/ SendReport \/ Generate \/ Damage \/ Parse \/ Release
          \/ UNCHANGED pipe
        BY DEF Next, vars, pipe, FillBlock, ChangeNodes
    <2> QED BY <2>1, <2>2, <2>3, <2>4, <2>5, <2>6, <2>7, <2>8, <2>9
<1> QED BY <1>1, <1>2, <1>3

LEMMA Invariance == Spec => []TransferInv
<1>1. Init => TransferInv BY InitInv
<1>2. TransferInv /\ [Next]_vars => TransferInv' BY NextInv
<1> QED BY <1>1, <1>2, PTL DEF Spec

(* Whatever is sent, a frame with one changed byte - of a field, of a      *)
(* length, of the checksum, or the code of a field - is refused, and the   *)
(* message it is parsed into stays as tp3_initmsg made it.                 *)
THEOREM DamageNoticed == Spec => []DamageRefused
<1>1. TransferInv => DamageRefused BY DEF TransferInv, PipeOK, DamageRefused
<1> QED BY <1>1, Invariance, PTL

(* tp3_generateframe writes no more bytes than it has allocated, for every  *)
(* content a frame can carry: what the comment at base.c:256 says.         *)
THEOREM BufferSuffices == Spec => []FitsBuffer
<1>1. TransferInv => FitsBuffer BY DEF TransferInv, PipeOK, FitsBuffer
<1> QED BY <1>1, Invariance, PTL

(* Every field of a frame, a list that is packed into fewer bytes than its  *)
(* ints have included, gives the number of its bytes as its length.        *)
THEOREM FieldsAdjoin == Spec => []LengthsTold
<1>1. ASSUME NEW chunks \in Seq(Sent)
      PROVE  \A i \in DOMAIN chunks : chunks[i].length = Len(chunks[i].bytes)
    <2>1. \A i \in DOMAIN chunks : chunks[i] \in Sent BY LenProperties, ElementOfSeq
    <2> QED BY <2>1 DEF Sent, Carried
<1>2. TransferInv => LengthsTold BY <1>1 DEF TransferInv, PipeOK, LengthsTold
<1> QED BY <1>2, Invariance, PTL

(* The header of a message holds numbers of its fields' widths, a field an *)
(* int's four bytes or the bytes of its length, and a frame known codes.   *)
THEOREM TypeCorrect == Spec => []TypeOK
<1>1. ASSUME NEW m \in Msgs
      PROVE  /\ m.header.msgseq \in Nat /\ m.header.msgseq < 999999
             /\ m.header.gcgid \in Nat /\ m.header.gcgid < 16777216
             /\ m.header.gosid \in Nat /\ m.header.gosid < 16777216
             /\ \A i \in DOMAIN m.fields : FieldOK(m.fields[i])
    <2>1. m.header \in Header /\ m.fields \in Seq(Field) BY DEF Msgs
    <2>2. m.header.msgseq \in MsgSeqs /\ m.header.gcgid \in Gid24 /\ m.header.gosid \in Gid24
        BY <2>1 DEF Header
    <2>3. /\ m.header.msgseq \in Nat /\ m.header.msgseq < 999999
          /\ m.header.gcgid \in Nat /\ m.header.gcgid < 16777216
          /\ m.header.gosid \in Nat /\ m.header.gosid < 16777216
        BY <2>2, SMT DEF MsgSeqs, Gid24
    <2>4. ASSUME NEW i \in DOMAIN m.fields PROVE FieldOK(m.fields[i])
        <3>1. PICK f \in Field : f = m.fields[i] BY <2>1, <2>4, LenProperties, ElementOfSeq
        <3>2. f.code \in Range(FC) /\ f.data \in Seq(Byte) /\ Sound(f) BY DEF Field
        <3>3. Range(f.data) \subseteq Byte BY <3>2, LenProperties, ElementOfSeq DEF Range
        <3>4. Len(f.data) = IF f.length > FDATA_LIMIT THEN f.length ELSE 4 BY <3>2 DEF Sound
        <3> QED BY <3>1, <3>2, <3>3, <3>4 DEF FieldOK
    <2> QED BY <2>3, <2>4, SMT
<1>2. ASSUME NEW chunks \in Seq(ChunkSet), NEW i \in DOMAIN chunks
      PROVE  chunks[i].code \in Range(FC) /\ Range(chunks[i].bytes) \subseteq Byte
    <2>1. PICK c \in ChunkSet : c = chunks[i] BY LenProperties, ElementOfSeq
    <2>2. c.code \in Range(FC) /\ c.bytes \in Seq(Byte) BY DEF ChunkSet
    <2>3. Range(c.bytes) \subseteq Byte BY <2>2, LenProperties, ElementOfSeq DEF Range
    <2> QED BY <2>1, <2>2, <2>3
<1>3. TransferInv => TypeOK
    <2> SUFFICES ASSUME TransferInv PROVE TypeOK
        OBVIOUS
    <2>1. msg \in Msgs /\ got \in Msgs /\ frame.chunks \in Seq(ChunkSet)
          /\ frame.check \in [1..2 -> Byte]
          /\ stage \in {"idle", "composed", "framed", "damaged", "parsed", "refused", "crashed"}
        BY DEF TransferInv, PipeOK
    <2>2. frame.check[1] \in Byte /\ frame.check[2] \in Byte BY <2>1
    <2>3. \A i \in DOMAIN frame.chunks :
             frame.chunks[i].code \in Range(FC) /\ Range(frame.chunks[i].bytes) \subseteq Byte
        BY <1>2, <2>1
    <2>4. \A m \in {msg, got} :
             /\ m.header.msgseq \in Nat /\ m.header.msgseq < 999999
             /\ m.header.gcgid \in Nat /\ m.header.gcgid < 16777216
             /\ m.header.gosid \in Nat /\ m.header.gosid < 16777216
             /\ \A i \in DOMAIN m.fields : FieldOK(m.fields[i])
        BY <1>1, <2>1, SMT
    <2> QED BY <2>1, <2>2, <2>3, <2>4, SMT DEF TypeOK
<1> QED BY <1>3, Invariance, PTL

=============================================================================
