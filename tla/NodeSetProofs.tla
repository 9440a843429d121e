--------------------------- MODULE NodeSetProofs ---------------------------
(***************************************************************************)
(* Proofs about NodeSet and NodeExport, for every set of nodes,            *)
(* structures, addresses and device lists: the memory of node sets, the    *)
(* registry they implement, the number of devices a set counts, and what   *)
(* is read from its reports.                                               *)
(***************************************************************************)
EXTENDS NodeExport, Recursion, FiniteSetTheorems

(* Writing one element of a sequence keeps its type, inside its domain or  *)
(* out of it.                                                              *)
LEMMA ExceptType ==
    ASSUME NEW S, NEW s \in Seq(S), NEW k, NEW e \in S
    PROVE  [s EXCEPT ![k] = e] \in Seq(S)
<1>1. s \in [1..Len(s) -> S] /\ Len(s) \in Nat
    BY LenProperties
<1>2. [s EXCEPT ![k] = e] \in [1..Len(s) -> S]
    BY <1>1
<1> QED BY <1>1, <1>2, SeqDef, Zenon

(* tp3_setdevenv and tp3_setdevstat keep a block well formed. *)
LEMMA ContentSet ==
    ASSUME NEW c \in Content, NEW k
    PROVE  /\ \A e \in Env : [c EXCEPT !.envs[k] = e] \in Content
           /\ \A s \in DevStat : [c EXCEPT !.stats[k] = s] \in Content
<1>1. ASSUME NEW e \in Env PROVE [c EXCEPT !.envs[k] = e] \in Content
    <2>1. c.envs \in Seq(Env) BY DEF Content
    <2>2. [c.envs EXCEPT ![k] = e] \in Seq(Env) BY <2>1, ExceptType
    <2> QED BY <2>2 DEF Content
<1>2. ASSUME NEW s \in DevStat PROVE [c EXCEPT !.stats[k] = s] \in Content
    <2>1. c.stats \in Seq(DevStat) BY DEF Content
    <2>2. [c.stats EXCEPT ![k] = s] \in Seq(DevStat) BY <2>1, ExceptType
    <2> QED BY <2>2 DEF Content
<1> QED BY <1>1, <1>2

(* What tp3_initnodedata leaves in a block is well formed. *)
LEMMA FreshType ==
    ASSUME NEW gids \in GidList
    PROVE  Fresh(gids) \in Content
<1>1. gids \in Seq(Gid) BY ConstantsOK
<1>2. DOMAIN gids = 1..Len(gids) /\ Len(gids) \in Nat BY <1>1, LenProperties
<1>3. [k \in DOMAIN gids |-> "NORMAL"] \in Seq(DevStat)
    BY <1>2, ConstantsOK, IsASeq
<1>4. [k \in DOMAIN gids |-> 0] \in Seq(Env)
    BY <1>2, ConstantsOK, IsASeq
<1> QED BY <1>1, <1>3, <1>4 DEF Fresh, Content

-----------------------------------------------------------------------------
(* Type correctness *)

(* A set that is not live has no slots, and empty arrays. *)
LEMMA NoSlots ==
    \A S : Empty \in [{} -> S]
BY DEF Empty

LEMMA InitType == Init => TypeOK
<1> SUFFICES ASSUME Init PROVE TypeOK
    OBVIOUS
<1>1. Slots = {} BY DEF Init, Slots
<1>2. NoNode \in NodeData BY DEF NoNode, NodeData
<1>3. app \in [Var -> [st : AppStat, node : NodeData]]
    BY <1>2 DEF Init, AppStat
<1>4. heap \in [Block -> Content \cup {Free}] BY DEF Init
<1>5. /\ nids \in [Slots -> NodeId] /\ stats \in [Slots -> NodeStat]
      /\ nodedata \in [Slots -> NodeData]
    BY <1>1, NoSlots DEF Init
<1>6. /\ numofnode = 0 /\ numofdev = 0 /\ arrays = "null"
      /\ ret \in StatusCode /\ fault \in BOOLEAN
    BY DEF Init, StatusCode
<1> QED BY <1>3, <1>4, <1>5, <1>6 DEF TypeOK

(* What the growing and the shrinking of the three arrays produce. *)
LEMMA GrownType ==
    ASSUME TypeOK, Usable, NEW S, NEW arr \in [Slots -> S], NEW x \in S
    PROVE  Grown(arr, x) \in [0..numofnode -> S]
BY DEF Grown, TypeOK, Slots, Usable

LEMMA MovedType ==
    ASSUME TypeOK, NEW S, NEW arr \in [Slots -> S], NEW i \in Slots
    PROVE  /\ arrays = "live" /\ numofnode - 1 \in Nat
           /\ Moved(arr, i) \in [0..(numofnode - 2) -> S]
BY DEF Moved, TypeOK, Slots

LEMMA ReleasedType ==
    ASSUME TypeOK, NEW B
    PROVE  Released(B) \in [Block -> Content \cup {Free}]
BY DEF Released, TypeOK

LEMMA ForgetType ==
    ASSUME TypeOK, NEW B
    PROVE  Forget(B) \in [Var -> [st : AppStat, node : NodeData]]
BY DEF Forget, TypeOK, AppStat, NodeData, NoNode

(* The part of the state the set owns is left alone. *)
LEMMA NsetUnchanged ==
    ASSUME TypeOK, UNCHANGED nset
    PROVE  /\ Slots' = Slots
           /\ numofnode' \in Nat /\ numofdev' \in Int
           /\ arrays' \in {"null", "live", "invalid"}
           /\ (arrays = "null" => numofnode = 0)'
           /\ nids' \in [Slots' -> NodeId]
           /\ stats' \in [Slots' -> NodeStat]
           /\ nodedata' \in [Slots' -> NodeData]
BY DEF TypeOK, nset, Slots

(* A tp3_initnodedata that failed leaves nothing allocated: what it        *)
(* changes is the structure it was given.                                  *)
LEMMA FailedInit ==
    ASSUME TypeOK, NEW v \in Var, NEW gids \in GidList, NEW t \in DevType,
           InitNodeFail(v, gids, t)
    PROVE  /\ UNCHANGED <<nset, heap, fault>>
           /\ ret' = "MEMORY_ALLOCATION_FAIL"
           /\ app[v].st # "own"
           /\ app' \in [Var -> [st : AppStat, node : NodeData]]
           /\ app'[v].st = "failed" /\ app'[v].node.numofdev > 0
           /\ \A w \in Var : w # v => app'[w] = app[w]
<1>1. Len(gids) \in Nat /\ Len(gids) > 0 BY ConstantsOK, LenProperties DEF InitNodeFail
<1>2. \A left \in LeftOver : left = {} BY DEF LeftOver, FreedOnFailure
<1>3. PICK b \in Block \cup {Null} :
        /\ app' = [app EXCEPT ![v] =
                     [st |-> "failed", node |-> [numofdev |-> Len(gids), blk |-> b]]]
        /\ \/ UNCHANGED heap
           \/ \E left \in LeftOver :
                heap' = IF left = {} THEN heap ELSE [heap EXCEPT ![b] = Fresh(gids)]
    BY DEF InitNodeFail
<1>4. UNCHANGED heap BY <1>2, <1>3
<1>5. [numofdev |-> Len(gids), blk |-> b] \in NodeData BY <1>1 DEF NodeData
<1> QED BY <1>1, <1>3, <1>4, <1>5 DEF InitNodeFail, TypeOK, AppStat

LEMMA NextType == TypeOK /\ [Next]_vars => TypeOK'
<1> SUFFICES ASSUME TypeOK, [Next]_vars PROVE TypeOK'
    OBVIOUS
<1> USE DEF StatusCode
<1>1. ASSUME NEW v \in Var, NEW gids \in GidList, NEW t \in DevType, InitNode(v, gids, t)
      PROVE  TypeOK'
    <2>1. Len(gids) \in Nat BY ConstantsOK, LenProperties
    <2>2. NoNode \in NodeData /\ \A b \in Block : [numofdev |-> Len(gids), blk |-> b] \in NodeData
        BY <2>1 DEF NoNode, NodeData
    <2>3. app' \in [Var -> [st : AppStat, node : NodeData]]
        BY <1>1, <2>2 DEF InitNode, TypeOK, AppStat
    <2>4. heap' \in [Block -> Content \cup {Free}]
        BY <1>1, FreshType DEF InitNode, TypeOK
    <2>5. UNCHANGED <<nset, fault>> /\ ret' = "NOERROR" BY <1>1 DEF InitNode
    <2> QED BY <2>3, <2>4, <2>5, NsetUnchanged DEF TypeOK
<1>2. ASSUME NEW v \in Var, NEW gids \in GidList, NEW t \in DevType, InitNodeFail(v, gids, t)
      PROVE  TypeOK'
    BY <1>2, FailedInit, NsetUnchanged DEF TypeOK
<1>3. ASSUME NEW v \in Var, NEW t \in DevType, InitNodeBadType(v, t)
      PROVE  TypeOK'
    BY <1>3, NsetUnchanged DEF InitNodeBadType, TypeOK
<1>4. ASSUME NEW v \in Var, ReleaseNode(v)
      PROVE  TypeOK'
    <2>1. NoNode \in NodeData BY DEF NoNode, NodeData
    <2>2. app' \in [Var -> [st : AppStat, node : NodeData]]
        BY <1>4, <2>1 DEF ReleaseNode, TypeOK, AppStat
    <2>3. fault' \in BOOLEAN BY <1>4 DEF ReleaseNode, BadFree
    <2> QED BY <1>4, <2>2, <2>3, NsetUnchanged, ReleasedType DEF ReleaseNode, TypeOK
<1>5. ASSUME NEW v \in Var, NEW gid \in Gid, SetDevice(v, gid)
      PROVE  TypeOK'
    <2> DEFINE b == app[v].node.blk
    <2>1. UNCHANGED <<nset, app>> BY <1>5 DEF SetDevice
    <2>2. CASE b = Null \/ heap[b] = Free \/ Unbuilt(v)
        BY <1>5, <2>1, <2>2, NsetUnchanged DEF SetDevice, BadPointer, TypeOK
    <2>3. CASE b # Null /\ heap[b] # Free /\ ~Unbuilt(v)
        <3>1. b \in Block /\ heap[b] \in Content
            BY <2>3 DEF TypeOK, NodeData
        <3>2. heap' \in [Block -> Content \cup {Free}]
            <4>1. CASE UNCHANGED heap BY <4>1 DEF TypeOK
            <4>2. ASSUME NEW k, NEW e \in Env, heap' = [heap EXCEPT ![b].envs[k] = e]
                  PROVE  heap' \in [Block -> Content \cup {Free}]
                <5>1. heap' = [heap EXCEPT ![b] = [heap[b] EXCEPT !.envs[k] = e]]
                    BY <4>2, Zenon
                <5> QED BY <5>1, <3>1, ContentSet DEF TypeOK
            <4>3. ASSUME NEW k, NEW s \in DevStat, heap' = [heap EXCEPT ![b].stats[k] = s]
                  PROVE  heap' \in [Block -> Content \cup {Free}]
                <5>1. heap' = [heap EXCEPT ![b] = [heap[b] EXCEPT !.stats[k] = s]]
                    BY <4>3, Zenon
                <5> QED BY <5>1, <3>1, ContentSet DEF TypeOK
            <4> QED BY <1>5, <2>3, <4>1, <4>2, <4>3, Zenon DEF SetDevice, BadPointer
        <3>3. ret' \in StatusCode /\ UNCHANGED fault
            BY <1>5, <2>3, Zenon DEF SetDevice, BadPointer
        <3> QED BY <2>1, <3>2, <3>3, NsetUnchanged DEF TypeOK
    <2> QED BY <2>2, <2>3
<1>6. ASSUME NEW v \in Var, NEW id \in NodeId, AddNew(v, id)
      PROVE  TypeOK'
    <2>1. Slots' = 0..numofnode /\ numofnode' \in Nat
        BY <1>6 DEF AddNew, Slots, TypeOK
    <2>2. nids' \in [0..numofnode -> NodeId]
        BY <1>6, GrownType DEF AddNew, TypeOK
    <2>3. stats' \in [0..numofnode -> NodeStat]
        BY <1>6, GrownType, ConstantsOK DEF AddNew, TypeOK
    <2>4. app[v].node \in NodeData BY DEF TypeOK
    <2>5. nodedata' \in [0..numofnode -> NodeData]
        BY <1>6, <2>4, GrownType DEF AddNew, TypeOK
    <2>6. app' \in [Var -> [st : AppStat, node : NodeData]]
        BY <1>6 DEF AddNew, HandOver, TypeOK, AppStat
    <2>7. numofdev' \in Int BY <1>6, <2>4 DEF AddNew, TypeOK, NodeData
    <2> QED BY <1>6, <2>1, <2>2, <2>3, <2>5, <2>6, <2>7 DEF AddNew, TypeOK
<1>7. ASSUME NEW v \in Var, NEW id \in NodeId, AddFail(v, id)
      PROVE  TypeOK'
    <2>1. Slots' = {} BY <1>7 DEF AddFail, Slots
    <2> QED BY <1>7, <2>1, NoSlots DEF AddFail, TypeOK
<1>8. ASSUME NEW v \in Var, NEW id \in NodeId, AddExisting(v, id)
      PROVE  TypeOK'
    BY <1>8, NsetUnchanged DEF AddExisting, TypeOK
<1>9. ASSUME NEW v \in Var, NEW id \in NodeId, Replace(v, id)
      PROVE  TypeOK'
    <2>1. PICK i \in Slots : /\ numofdev' = Recounted(app[v].node, nodedata[i])
                             /\ heap' = Released({nodedata[i].blk})
                             /\ fault' = BadFree(nodedata[i].blk)
                             /\ nodedata' = [nodedata EXCEPT ![i] = app[v].node]
                             /\ app' = [Forget({nodedata[i].blk}) EXCEPT
                                          ![v] = [st |-> "lent", node |-> app[v].node]]
        BY <1>9 DEF Replace
    <2>2. app[v].node \in NodeData /\ nodedata[i] \in NodeData BY DEF TypeOK
    <2>3. Slots' = Slots BY <1>9 DEF Replace, Slots
    <2>4. nodedata' \in [Slots -> NodeData] BY <2>1, <2>2 DEF TypeOK
    <2>5. app' \in [Var -> [st : AppStat, node : NodeData]]
        BY <2>1, <2>2, ForgetType DEF AppStat
    <2>6. numofdev' \in Int BY <2>1, <2>2 DEF Recounted, TypeOK, NodeData
    <2>7. fault' \in BOOLEAN BY <2>1 DEF BadFree
    <2> QED BY <1>9, <2>1, <2>3, <2>4, <2>5, <2>6, <2>7, ReleasedType DEF Replace, TypeOK
<1>10. ASSUME NEW id \in NodeId, Delete(id)
       PROVE  TypeOK'
    <2>1. PICK i \in Slots : /\ nids' = Moved(nids, i)
                             /\ stats' = Moved(stats, i)
                             /\ nodedata' = Moved(nodedata, i)
                             /\ numofdev' = numofdev - nodedata[i].numofdev
                             /\ heap' = Released({nodedata[i].blk})
                             /\ fault' = BadFree(nodedata[i].blk)
                             /\ app' = Forget({nodedata[i].blk})
        BY <1>10 DEF Delete
    <2>2. /\ nids' \in [0..(numofnode - 2) -> NodeId]
          /\ stats' \in [0..(numofnode - 2) -> NodeStat]
          /\ nodedata' \in [0..(numofnode - 2) -> NodeData]
          /\ arrays = "live" /\ numofnode - 1 \in Nat
        BY <2>1, MovedType DEF TypeOK
    <2>3. Slots' = 0..(numofnode - 2) BY <1>10, <2>2 DEF Delete, Slots, TypeOK
    <2>4. nodedata[i] \in NodeData BY DEF TypeOK
    <2>5. numofdev' \in Int BY <2>1, <2>4 DEF TypeOK, NodeData
    <2>6. fault' \in BOOLEAN BY <2>1 DEF BadFree
    <2> QED BY <1>10, <2>1, <2>2, <2>3, <2>5, <2>6, ReleasedType, ForgetType DEF Delete, TypeOK
<1>11. ASSUME NEW id \in NodeId, Unknown(id)
       PROVE  TypeOK'
    BY <1>11, NsetUnchanged DEF Unknown, TypeOK
<1>12. ASSUME NEW id \in NodeId, NEW s \in NodeStat, SetNodeStat(id, s)
       PROVE  TypeOK'
    <2>1. Slots' = Slots BY <1>12 DEF SetNodeStat, Slots
    <2>2. stats' \in [Slots -> NodeStat] BY <1>12 DEF SetNodeStat, TypeOK
    <2> QED BY <1>12, <2>1, <2>2 DEF SetNodeStat, TypeOK
<1>13. ASSUME ReleaseNset PROVE TypeOK'
    <2>1. arrays' \in {"null", "invalid"} /\ Slots' = {}
        BY <1>13 DEF ReleaseNset, Slots, Usable, TypeOK
    <2>2. arrays' = "null" => numofnode' = 0
        BY <1>13 DEF ReleaseNset, TypeOK
    <2>3. fault' \in BOOLEAN BY <1>13 DEF ReleaseNset
    <2> QED BY <1>13, <2>1, <2>2, <2>3, NoSlots, ReleasedType, ForgetType DEF ReleaseNset, TypeOK
<1>14. ASSUME InitNset PROVE TypeOK'
    <2>1. Slots' = {} BY <1>14 DEF InitNset, Slots
    <2> QED BY <1>14, <2>1, NoSlots DEF InitNset, TypeOK
<1>15. CASE CallInvalid
    BY <1>15, NsetUnchanged DEF CallInvalid, TypeOK
<1>16. CASE UNCHANGED vars
    BY <1>16, NsetUnchanged DEF vars, nset, TypeOK
<1> QED BY <1>1, <1>2, <1>3, <1>4, <1>5, <1>6, <1>7, <1>8, <1>9, <1>10, <1>11, <1>12,
           <1>13, <1>14, <1>15, <1>16 DEF Next

(* Every variable always has its type, and the three parallel arrays have  *)
(* one entry per slot, whatever the application does and whichever         *)
(* allocation fails.                                                       *)
THEOREM TypeCorrect == Spec => []TypeOK
<1> QED BY InitType, NextType, PTL DEF Spec

-----------------------------------------------------------------------------
(* Node identifiers are distinct *)

LEMMA NextDistinct == TypeOK /\ DistinctIds /\ [Next]_vars => DistinctIds'
<1> SUFFICES ASSUME TypeOK, DistinctIds, [Next]_vars PROVE DistinctIds'
    OBVIOUS
<1>1. CASE UNCHANGED <<nids, numofnode, arrays>>
    BY <1>1 DEF DistinctIds, Slots
<1>2. ASSUME NEW v \in Var, NEW id \in NodeId, AddNew(v, id)
      PROVE  DistinctIds'
    <2>1. Slots = 0..(numofnode - 1) /\ Slots' = 0..numofnode /\ numofnode \in Nat
        BY <1>2 DEF AddNew, Slots, TypeOK, Usable
    <2>2. \A i \in Slots' : nids'[i] = IF i = numofnode THEN id ELSE nids[i]
        BY <1>2, <2>1 DEF AddNew, Grown
    <2>3. \A i \in Slots : nids[i] # id
        BY <1>2 DEF AddNew, NotFound
    <2> QED BY <2>1, <2>2, <2>3 DEF DistinctIds
<1>3. ASSUME NEW id \in NodeId, Delete(id)
      PROVE  DistinctIds'
    <2>1. PICK i \in Slots : nids' = Moved(nids, i) BY <1>3 DEF Delete
    <2>2. /\ Slots = 0..(numofnode - 1) /\ Slots' = 0..(numofnode - 2)
          /\ numofnode \in Nat /\ numofnode > 0
        BY <1>3 DEF Delete, Slots, TypeOK
    <2>3. \A j \in Slots' : nids'[j] = IF j = i THEN nids[numofnode - 1] ELSE nids[j]
        BY <2>1, <2>2 DEF Moved
    <2> QED BY <2>2, <2>3 DEF DistinctIds
<1>4. CASE arrays' # "live"
    BY <1>4 DEF DistinctIds, Slots
<1>5. ASSUME NEW v \in Var, NEW gids \in GidList, NEW t \in DevType,
             InitNode(v, gids, t) \/ InitNodeFail(v, gids, t) \/ InitNodeBadType(v, t)
      PROVE  UNCHANGED <<nids, numofnode, arrays>>
    BY <1>5 DEF InitNode, InitNodeFail, InitNodeBadType, nset
<1>6. ASSUME NEW v \in Var, NEW t \in DevType, InitNodeBadType(v, t)
      PROVE  UNCHANGED <<nids, numofnode, arrays>>
    BY <1>6, SMTT(40) DEF InitNodeBadType, nset
<1>7. ASSUME NEW v \in Var, ReleaseNode(v) \/ \E gid \in Gid : SetDevice(v, gid)
      PROVE  UNCHANGED <<nids, numofnode, arrays>>
    BY <1>7 DEF ReleaseNode, SetDevice, nset
<1>8. ASSUME NEW v \in Var, NEW id \in NodeId, AddExisting(v, id) \/ Replace(v, id) \/ Unknown(id)
      PROVE  UNCHANGED <<nids, numofnode, arrays>>
    BY <1>8 DEF AddExisting, Replace, Unknown, nset
<1>9. ASSUME NEW id \in NodeId, Unknown(id) \/ \E s \in NodeStat : SetNodeStat(id, s)
      PROVE  UNCHANGED <<nids, numofnode, arrays>>
    BY <1>9 DEF SetNodeStat, Unknown, nset
<1>10. ASSUME NEW v \in Var, NEW id \in NodeId, AddFail(v, id)
       PROVE  arrays' # "live"
    BY <1>10 DEF AddFail
<1>11. CASE ReleaseNset \/ InitNset
    BY <1>11, <1>4 DEF ReleaseNset, InitNset, Usable, TypeOK
<1>12. CASE CallInvalid \/ UNCHANGED vars
    BY <1>12, <1>1 DEF CallInvalid, nset, vars
<1> QED BY <1>1, <1>2, <1>3, <1>4, <1>5, <1>6, <1>7, <1>8, <1>9, <1>10, <1>11, <1>12 DEF Next

(* No id is ever registered twice, whatever the application does and       *)
(* whichever allocation fails: tp3_updatenset and tp3_addnset look the id  *)
(* up among all slots, and deleting moves a slot without copying it.       *)
THEOREM IdsDistinct == Spec => []DistinctIds
<1>1. Init => DistinctIds BY DEF Init, DistinctIds, Slots
<1> QED BY <1>1, InitType, NextType, NextDistinct, PTL DEF Spec

-----------------------------------------------------------------------------
(* Ownership of memory, for an application that keeps to the protocol *)

OwnInv == TypeOK /\ NoFault /\ Ownership

(* What a step that takes no node in and releases none must leave alone. *)
LEMMA OwnFrame ==
    ASSUME OwnInv, UNCHANGED <<nodedata, numofnode, arrays, heap, app>>
    PROVE  Ownership'
BY DEF OwnInv, Ownership, Slots, Valid, SameBlock, Owns, Remembers

LEMMA NextOwn == ASSUME Misuse = {} PROVE OwnInv /\ [Next]_vars => NoFault' /\ Ownership'
<1> SUFFICES ASSUME OwnInv, [Next]_vars PROVE NoFault' /\ Ownership'
    OBVIOUS
<1> USE DEF OwnInv, NoFault
<1>0. \A v \in Var : ~Unbuilt(v) BY DEF Unbuilt
<1>1. ASSUME NEW v \in Var, NEW gids \in GidList, NEW t \in DevType, InitNode(v, gids, t)
      PROVE  NoFault' /\ Ownership'
    <2>1. Slots' = Slots /\ UNCHANGED <<nodedata, fault>>
        BY <1>1 DEF InitNode, nset, Slots
    <2>2. CASE Len(gids) = 0
        <3>1. /\ UNCHANGED heap /\ app'[v].node = NoNode /\ NoNode.blk = Null
              /\ NoNode.numofdev = 0
              /\ \A w \in Var : w # v => app'[w] = app[w]
            BY <1>1, <2>2 DEF InitNode, TypeOK, NoNode
        <3>2. \A i \in Slots : Valid(nodedata[i])'
            BY <2>1, <3>1 DEF Ownership, Valid
        <3>3. \A w \in Var : Remembers(w)' => Valid(app[w].node)'
            <4>1. Valid(app[v].node)' BY <3>1 DEF Valid
            <4>2. \A w \in Var \ {v} : Remembers(w)' => Valid(app[w].node)'
                BY <3>1 DEF Ownership, Valid, Remembers
            <4> QED BY <4>1, <4>2
        <3> QED BY <2>1, <3>1, <3>2, <3>3 DEF Ownership, SameBlock, Owns, Remembers
    <2>3. CASE Len(gids) > 0
        <3>1. PICK b \in Block :
                /\ heap[b] = Free
                /\ heap' = [heap EXCEPT ![b] = Fresh(gids)]
                /\ app' = [app EXCEPT ![v] =
                             [st |-> "own", node |-> [numofdev |-> Len(gids), blk |-> b]]]
            BY <1>1, <2>3 DEF InitNode
        <3>2. Fresh(gids) # Free /\ Fresh(gids).gids = gids /\ b # Null
            BY FreshType, ConstantsOK DEF Fresh
        <3>3. \A i \in Slots : Valid(nodedata[i])' /\ nodedata[i].blk # b
            BY <2>1, <3>1, <3>2 DEF Ownership, Valid, TypeOK, NodeData
        <3>4. \A w \in Var : w # v => app'[w] = app[w] /\ (Remembers(w) => app[w].node.blk # b)
            BY <3>1, <3>2 DEF Ownership, Valid, TypeOK, Remembers
        <3>5. app'[v].st = "own" /\ app'[v].node = [numofdev |-> Len(gids), blk |-> b]
            BY <3>1 DEF TypeOK
        <3>6. \A w \in Var : Remembers(w)' => Valid(app[w].node)'
            BY <3>1, <3>2, <3>4, <3>5 DEF Ownership, Valid, TypeOK, Remembers, NodeData
        <3> QED BY <2>1, <3>2, <3>3, <3>4, <3>5, <3>6
                DEF Ownership, SameBlock, Owns, Remembers
    <2>4. Len(gids) \in Nat BY ConstantsOK, LenProperties
    <2> QED BY <2>2, <2>3, <2>4
<1>2. ASSUME NEW v \in Var, NEW gids \in GidList, NEW t \in DevType, InitNodeFail(v, gids, t)
      PROVE  NoFault' /\ Ownership'
    <2>1. /\ Slots' = Slots /\ UNCHANGED <<nodedata, heap, fault>>
          /\ app'[v].st = "failed" /\ \A w \in Var : w # v => app'[w] = app[w]
        BY <1>2, FailedInit DEF nset, Slots
    <2> QED BY <2>1 DEF Ownership, Valid, SameBlock, Owns, Remembers
<1>3. ASSUME NEW v \in Var, NEW t \in DevType, InitNodeBadType(v, t)
      PROVE  NoFault' /\ Ownership'
    BY <1>3, OwnFrame DEF InitNodeBadType, nset
<1>4. ASSUME NEW v \in Var, ReleaseNode(v)
      PROVE  NoFault' /\ Ownership'
    <2> DEFINE b == app[v].node.blk
    <2>0. Owns(v) BY <1>0, <1>4 DEF ReleaseNode, Owns
    <2>1. Slots' = Slots /\ UNCHANGED nodedata BY <1>4 DEF ReleaseNode, nset, Slots
    <2>2. b = Null \/ heap[b] # Free
        BY <1>4, <2>0 DEF Owns, ReleaseNode, Ownership, Valid, Remembers
    <2>3. \A c \in Block : c # b => heap'[c] = heap[c]
        BY <1>4 DEF ReleaseNode, Released
    <2>4. \A i \in Slots : nodedata[i].blk = Null \/ nodedata[i].blk # b
        BY <2>0 DEF Ownership, SameBlock, Owns
    <2>5. \A w \in Var : w # v /\ Remembers(w) => app[w].node.blk = Null \/ app[w].node.blk # b
        BY <2>0 DEF Ownership, SameBlock, Owns
    <2>6. app'[v].st = "none" /\ \A w \in Var : w # v => app'[w] = app[w]
        BY <1>4 DEF ReleaseNode, TypeOK
    <2>7. \A i \in Slots : Valid(nodedata[i])'
        BY <2>1, <2>3, <2>4 DEF Ownership, Valid, TypeOK, NodeData
    <2>8. \A w \in Var : Remembers(w)' => Valid(app[w].node)'
        BY <2>3, <2>5, <2>6 DEF Ownership, Valid, TypeOK, NodeData, Remembers
    <2>9. NoFault' BY <1>4, <2>2 DEF ReleaseNode, BadFree
    <2> QED BY <2>1, <2>6, <2>7, <2>8, <2>9 DEF Ownership, SameBlock, Owns, Remembers
<1>5. ASSUME NEW v \in Var, NEW gid \in Gid, SetDevice(v, gid)
      PROVE  NoFault' /\ Ownership'
    <2> DEFINE b == app[v].node.blk
    <2>1. UNCHANGED <<nset, app>> BY <1>5 DEF SetDevice
    <2>2. /\ ~(Unbuilt(v) \/ BadPointer(app[v].node))
          /\ b = Null \/ heap[b] # Free
        <3>1. Valid(app[v].node) BY <1>0, <1>5 DEF SetDevice, Ownership, Remembers
        <3> QED BY <1>0, <3>1 DEF Valid, BadPointer
    <2>3. UNCHANGED fault BY <1>5, <2>2, Zenon DEF SetDevice
    <2>4. \A c \in Block : heap[c] # Free => heap'[c] # Free /\ heap'[c].gids = heap[c].gids
        <3>1. CASE UNCHANGED heap BY <3>1
        <3>2. ASSUME b # Null, NEW k, NEW e \in Env, heap' = [heap EXCEPT ![b].envs[k] = e]
              PROVE  \A c \in Block : heap[c] # Free => heap'[c] # Free /\ heap'[c].gids = heap[c].gids
            <4>1. heap' = [heap EXCEPT ![b] = [heap[b] EXCEPT !.envs[k] = e]]
                BY <3>2, Zenon
            <4>2. b \in Block /\ heap[b] \in Content BY <2>2, <3>2 DEF TypeOK, NodeData
            <4>3. [heap[b] EXCEPT !.envs[k] = e] \in Content BY <4>2, ContentSet
            <4>4. [heap[b] EXCEPT !.envs[k] = e].gids = heap[b].gids BY <4>2 DEF Content
            <4> QED BY <4>1, <4>2, <4>3, <4>4, ConstantsOK DEF TypeOK
        <3>3. ASSUME b # Null, NEW k, NEW s \in DevStat, heap' = [heap EXCEPT ![b].stats[k] = s]
              PROVE  \A c \in Block : heap[c] # Free => heap'[c] # Free /\ heap'[c].gids = heap[c].gids
            <4>1. heap' = [heap EXCEPT ![b] = [heap[b] EXCEPT !.stats[k] = s]]
                BY <3>3, Zenon
            <4>2. b \in Block /\ heap[b] \in Content BY <2>2, <3>3 DEF TypeOK, NodeData
            <4>3. [heap[b] EXCEPT !.stats[k] = s] \in Content BY <4>2, ContentSet
            <4>4. [heap[b] EXCEPT !.stats[k] = s].gids = heap[b].gids BY <4>2 DEF Content
            <4> QED BY <4>1, <4>2, <4>3, <4>4, ConstantsOK DEF TypeOK
        <3> QED BY <1>5, <2>2, <3>1, <3>2, <3>3, Zenon DEF SetDevice
    <2> QED BY <2>1, <2>3, <2>4, SMTT(120)
            DEF Ownership, Valid, SameBlock, Owns, Remembers, TypeOK, NodeData, nset, Slots
<1>6. ASSUME NEW v \in Var, NEW id \in NodeId, AddNew(v, id)
      PROVE  NoFault' /\ Ownership'
    <2>1. Slots = 0..(numofnode - 1) /\ Slots' = 0..numofnode /\ numofnode \in Nat
        BY <1>6 DEF AddNew, Slots, TypeOK, Usable
    <2>2. \A i \in Slots' : nodedata'[i] = IF i = numofnode THEN app[v].node ELSE nodedata[i]
        BY <1>6, <2>1 DEF AddNew, Grown
    <2>3. Owns(v) BY <1>0, <1>6 DEF AddNew, Offered, Owns
    <2>4. /\ app'[v].st = "lent" /\ app'[v].node = app[v].node
          /\ \A w \in Var : w # v => app'[w] = app[w]
        BY <1>6 DEF AddNew, HandOver, TypeOK
    <2>5. UNCHANGED <<heap, fault>> BY <1>6 DEF AddNew
    <2>6. \A i \in Slots' : Valid(nodedata[i])'
        BY <2>1, <2>2, <2>3, <2>5 DEF Ownership, Valid, Owns, Remembers
    <2>7. \A i, j \in Slots' : SameBlock(nodedata'[i], nodedata'[j]) => i = j
        BY <2>1, <2>2, <2>3 DEF Ownership, SameBlock
    <2>8. \A w \in Var, i \in Slots' : Owns(w)' => ~SameBlock(app'[w].node, nodedata'[i])
        BY <2>1, <2>2, <2>3, <2>4 DEF Ownership, SameBlock, Owns, Remembers
    <2>9. \A w \in Var : Remembers(w)' => Valid(app[w].node)'
        BY <2>3, <2>4, <2>5 DEF Ownership, Valid, Owns, Remembers
    <2>10. \A w, u \in Var : (Owns(w) /\ Remembers(u) /\ SameBlock(app[w].node, app[u].node))' => w = u
        BY <2>3, <2>4 DEF Ownership, SameBlock, Owns, Remembers
    <2> QED BY <2>5, <2>6, <2>7, <2>8, <2>9, <2>10 DEF Ownership, SameBlock
<1>7. ASSUME NEW v \in Var, NEW id \in NodeId, AddFail(v, id)
      PROVE  NoFault' /\ Ownership'
    BY <1>7 DEF AddFail, Slots, Ownership, Valid, SameBlock, Owns, Remembers
<1>8. ASSUME NEW v \in Var, NEW id \in NodeId, AddExisting(v, id)
      PROVE  NoFault' /\ Ownership'
    BY <1>8, OwnFrame DEF AddExisting, nset
<1>9. ASSUME NEW v \in Var, NEW id \in NodeId, Replace(v, id)
      PROVE  NoFault' /\ Ownership'
    <2>1. PICK i \in Slots : /\ heap' = Released({nodedata[i].blk})
                             /\ fault' = BadFree(nodedata[i].blk)
                             /\ nodedata' = [nodedata EXCEPT ![i] = app[v].node]
                             /\ app' = [Forget({nodedata[i].blk}) EXCEPT
                                          ![v] = [st |-> "lent", node |-> app[v].node]]
        BY <1>9 DEF Replace
    <2> DEFINE b == nodedata[i].blk
    <2>2. Owns(v) BY <1>0, <1>9 DEF Replace, Offered, Owns
    <2>3. Slots' = Slots BY <1>9 DEF Replace, Slots
    <2>4. \A c \in Block : c # b => heap'[c] = heap[c] BY <2>1 DEF Released
    <2>5. \A j \in Slots' : nodedata'[j] = IF j = i THEN app[v].node ELSE nodedata[j]
        BY <2>1, <2>3 DEF TypeOK
    <2>6. /\ app'[v].st = "lent" /\ app'[v].node = app[v].node
          /\ \A w \in Var : w # v /\ Remembers(w)' => app'[w] = app[w]
          /\ \A w \in Var : w # v /\ app'[w].st = "lent" => app[w].node.blk # b
        BY <2>1 DEF Forget, TypeOK, Remembers
    <2>7. NoFault' BY <2>1 DEF BadFree, Ownership, Valid
    <2>8. \A j \in Slots : j # i => nodedata[j].blk = Null \/ nodedata[j].blk # b
        BY DEF Ownership, SameBlock
    <2>9. \A w \in Var : Owns(w) => app[w].node.blk = Null \/ app[w].node.blk # b
        BY DEF Ownership, SameBlock
    <2>10. \A j \in Slots' : Valid(nodedata[j])'
        <3>1. ASSUME NEW n \in NodeData, Valid(n), n.blk = Null \/ n.blk # b
              PROVE  IF n.blk = Null THEN n.numofdev = 0
                     ELSE heap'[n.blk] # Free /\ Len(heap'[n.blk].gids) = n.numofdev
            BY <2>4, <3>1 DEF Valid, NodeData
        <3>2. /\ Valid(app[v].node) /\ app[v].node \in NodeData
              /\ app[v].node.blk = Null \/ app[v].node.blk # b
            BY <2>2, <2>9 DEF Ownership, Owns, Remembers, TypeOK
        <3>3. \A j \in Slots : Valid(nodedata[j]) /\ nodedata[j] \in NodeData
            BY DEF Ownership, TypeOK
        <3>4. SUFFICES ASSUME NEW j \in Slots PROVE Valid(nodedata[j])'
            BY <2>3
        <3>5. CASE j = i BY <2>3, <2>5, <3>1, <3>2, <3>5 DEF Valid
        <3>6. CASE j # i BY <2>3, <2>5, <2>8, <3>1, <3>3, <3>6 DEF Valid
        <3> QED BY <3>5, <3>6
    <2>11. \A j, k \in Slots' : SameBlock(nodedata'[j], nodedata'[k]) => j = k
        BY <2>2, <2>3, <2>5 DEF Ownership, SameBlock
    <2>12. \A w \in Var : Remembers(w)' => Valid(app[w].node)'
        <3>1. SUFFICES ASSUME NEW w \in Var, Remembers(w)' PROVE Valid(app[w].node)'
            OBVIOUS
        <3>2. app'[w].node = app[w].node /\ Remembers(w)
            BY <2>2, <2>6, <3>1 DEF Remembers, Owns
        <3>3. app[w].node.blk = Null \/ app[w].node.blk # b
            BY <2>2, <2>6, <2>9, <3>1 DEF Remembers, Owns, TypeOK, AppStat
        <3> QED BY <2>4, <3>2, <3>3 DEF Ownership, Valid, TypeOK, NodeData
    <2>13. \A w, u \in Var : (Owns(w) /\ Remembers(u) /\ SameBlock(app[w].node, app[u].node))' => w = u
        BY <2>2, <2>6 DEF Ownership, SameBlock, Owns, Remembers
    <2>14. \A w \in Var, j \in Slots' : Owns(w)' => ~SameBlock(app'[w].node, nodedata'[j])
        BY <2>2, <2>3, <2>5, <2>6 DEF Ownership, SameBlock, Owns, Remembers
    <2> QED BY <2>7, <2>10, <2>11, <2>12, <2>13, <2>14 DEF Ownership, SameBlock
<1>10. ASSUME NEW id \in NodeId, Delete(id)
       PROVE  NoFault' /\ Ownership'
    <2>1. PICK i \in Slots : /\ nodedata' = Moved(nodedata, i)
                             /\ heap' = Released({nodedata[i].blk})
                             /\ fault' = BadFree(nodedata[i].blk)
                             /\ app' = Forget({nodedata[i].blk})
        BY <1>10 DEF Delete
    <2> DEFINE b == nodedata[i].blk
    <2>2. /\ Slots = 0..(numofnode - 1) /\ Slots' = 0..(numofnode - 2)
          /\ numofnode \in Nat /\ numofnode > 0
        BY <1>10 DEF Delete, Slots, TypeOK
    <2>3. \A c \in Block : c # b => heap'[c] = heap[c] BY <2>1 DEF Released
    <2>4. \A j \in Slots' : nodedata'[j] = IF j = i THEN nodedata[numofnode - 1] ELSE nodedata[j]
        BY <2>1, <2>2 DEF Moved
    <2>5. /\ \A w \in Var : Remembers(w)' => app'[w] = app[w]
          /\ \A w \in Var : app'[w].st = "lent" => app[w].node.blk # b
        BY <2>1 DEF Forget, TypeOK, Remembers
    <2>6. NoFault' BY <2>1 DEF BadFree, Ownership, Valid
    <2>7. \A j \in Slots : j # i => nodedata[j].blk = Null \/ nodedata[j].blk # b
        BY DEF Ownership, SameBlock
    <2>8. \A w \in Var : Owns(w) => app[w].node.blk = Null \/ app[w].node.blk # b
        BY DEF Ownership, SameBlock
    <2>9. \A j \in Slots' : \E k \in Slots : k # i /\ nodedata'[j] = nodedata[k]
        BY <2>2, <2>4
    <2>10. \A j \in Slots' : Valid(nodedata[j])'
        BY <2>3, <2>7, <2>9 DEF Ownership, Valid, TypeOK, NodeData
    <2>11. \A j, k \in Slots' : SameBlock(nodedata'[j], nodedata'[k]) => j = k
        BY <2>2, <2>4 DEF Ownership, SameBlock
    <2>12. \A w \in Var : Remembers(w)' => Valid(app[w].node)'
        <3>1. SUFFICES ASSUME NEW w \in Var, Remembers(w)' PROVE Valid(app[w].node)'
            OBVIOUS
        <3>2. app'[w] = app[w] /\ Remembers(w)
            BY <2>5, <3>1 DEF Remembers
        <3>3. app[w].node.blk = Null \/ app[w].node.blk # b
            BY <2>5, <2>8, <3>1, <3>2 DEF Remembers, Owns, TypeOK, AppStat
        <3> QED BY <2>3, <3>2, <3>3 DEF Ownership, Valid, TypeOK, NodeData
    <2>13. \A w, u \in Var : (Owns(w) /\ Remembers(u) /\ SameBlock(app[w].node, app[u].node))' => w = u
        BY <2>5 DEF Ownership, SameBlock, Owns, Remembers
    <2>14. \A w \in Var, j \in Slots' : Owns(w)' => ~SameBlock(app'[w].node, nodedata'[j])
        BY <2>5, <2>9 DEF Ownership, SameBlock, Owns, Remembers
    <2> QED BY <2>6, <2>10, <2>11, <2>12, <2>13, <2>14 DEF Ownership, SameBlock
<1>11. ASSUME NEW id \in NodeId, Unknown(id)
       PROVE  NoFault' /\ Ownership'
    BY <1>11, OwnFrame DEF Unknown, nset
<1>12. ASSUME NEW id \in NodeId, NEW s \in NodeStat, SetNodeStat(id, s)
       PROVE  NoFault' /\ Ownership'
    BY <1>12, OwnFrame DEF SetNodeStat
<1>13. ASSUME ReleaseNset PROVE NoFault' /\ Ownership'
    <2>1. Slots' = {} BY <1>13 DEF ReleaseNset, Slots, Usable, TypeOK
    <2>2. NoFault'
        BY <1>13 DEF ReleaseNset, BadFree, Ownership, Valid, SameBlock
    <2>3. \A c \in Block : c \notin SetBlocks => heap'[c] = heap[c]
        BY <1>13 DEF ReleaseNset, Released
    <2>4. \A w \in Var : Remembers(w)' => /\ app'[w] = app[w] /\ Remembers(w)
                                          /\ app[w].st = "lent" => app[w].node.blk \notin SetBlocks
        BY <1>13 DEF ReleaseNset, Forget, TypeOK, Remembers
    <2>5. \A w \in Var : Owns(w) => app[w].node.blk = Null \/ app[w].node.blk \notin SetBlocks
        BY DEF Ownership, SameBlock, SetBlocks
    <2>6. \A w \in Var : Remembers(w)' => Valid(app[w].node)'
        <3>1. SUFFICES ASSUME NEW w \in Var, Remembers(w)' PROVE Valid(app[w].node)'
            OBVIOUS
        <3>2. app[w].node.blk = Null \/ app[w].node.blk \notin SetBlocks
            BY <2>4, <2>5, <3>1 DEF Remembers, Owns, TypeOK, AppStat
        <3> QED BY <2>3, <2>4, <3>1, <3>2 DEF Ownership, Valid, TypeOK, NodeData
    <2>7. \A w, u \in Var : (Owns(w) /\ Remembers(u) /\ SameBlock(app[w].node, app[u].node))' => w = u
        BY <2>4 DEF Ownership, SameBlock, Owns, Remembers
    <2> QED BY <2>1, <2>2, <2>6, <2>7 DEF Ownership, SameBlock
<1>14. ASSUME InitNset PROVE NoFault' /\ Ownership'
    <2>1. Slots' = {} /\ UNCHANGED <<heap, app, fault>> BY <1>14 DEF InitNset, Slots
    <2> QED BY <2>1 DEF Ownership, Valid, SameBlock, Owns, Remembers
<1>15. ~CallInvalid BY DEF CallInvalid
<1>16. CASE UNCHANGED vars
    BY <1>16, OwnFrame DEF vars
<1> QED BY <1>1, <1>2, <1>3, <1>4, <1>5, <1>6, <1>7, <1>8, <1>9, <1>10, <1>11, <1>12,
           <1>13, <1>14, <1>15, <1>16 DEF Next

LEMMA InitOwn == Init => NoFault /\ Ownership
BY DEF Init, NoFault, Ownership, Slots, Owns, Remembers

(* An application that keeps to the protocol never makes the set use or    *)
(* free memory twice, whichever allocation fails.                          *)
THEOREM MemorySafe == ASSUME Misuse = {} PROVE Spec => []NoFault
<1>1. Init => OwnInv BY InitType, InitOwn DEF OwnInv
<1>2. OwnInv /\ [Next]_vars => OwnInv' BY NextType, NextOwn DEF OwnInv
<1>3. OwnInv => NoFault BY DEF OwnInv
<1> QED BY <1>1, <1>2, <1>3, PTL DEF Spec

(* ... and every block keeps exactly one owner.                            *)
THEOREM MemoryOwned == ASSUME Misuse = {} PROVE Spec => []Ownership
<1>1. Init => OwnInv BY InitType, InitOwn DEF OwnInv
<1>2. OwnInv /\ [Next]_vars => OwnInv' BY NextType, NextOwn DEF OwnInv
<1>3. OwnInv => Ownership BY DEF OwnInv
<1> QED BY <1>1, <1>2, <1>3, PTL DEF Spec

-----------------------------------------------------------------------------
(* No memory is lost *)

(* A block that is allocated has a holder. *)
Held(b) == \/ \E i \in Slots : nodedata[i].blk = b
           \/ \E v \in Var : app[v].st = "own" /\ app[v].node.blk = b

(* The step has lost nothing but what it lost with the set. *)
LossStep == Lost' \subseteq Lost \cup
                (IF \/ \E v \in Var, id \in NodeId : AddFail(v, id)
                    \/ InitNset /\ arrays = "live"
                   THEN SetBlocks ELSE {})

(* Whatever is allocated after the step is held, or was lost before it. *)
LEMMA LossKept ==
    ASSUME \A b \in Block : heap'[b] # Free => Held(b)' \/ (heap[b] # Free /\ ~Held(b))
    PROVE  LossStep
BY DEF LossStep, Lost, Held, Owns

LEMMA LossFrame ==
    ASSUME UNCHANGED <<nodedata, numofnode, arrays, app>>,
           \A b \in Block : heap[b] = Free => heap'[b] = Free
    PROVE  LossStep
<1>1. \A b \in Block : Held(b)' = Held(b) BY DEF Held, Slots
<1> QED BY <1>1, LossKept

(* One allocated block has other contents. *)
Rewritten == \E b, c : heap[b] # Free /\ heap' = [heap EXCEPT ![b] = c]

LEMMA NextLoss == TypeOK /\ [Next]_vars => LossStep
<1> SUFFICES ASSUME TypeOK, [Next]_vars PROVE LossStep
    OBVIOUS
<1>1. ASSUME NEW v \in Var, NEW gids \in GidList, NEW t \in DevType, InitNode(v, gids, t)
      PROVE  LossStep
    <2>1. Slots' = Slots /\ UNCHANGED nodedata BY <1>1 DEF InitNode, nset, Slots
    <2>2. \A w \in Var : w # v => app'[w] = app[w] BY <1>1 DEF InitNode, TypeOK
    <2>3. app[v].st # "own" BY <1>1 DEF InitNode
    <2>4. \A b \in Block : Held(b) => Held(b)'
        <3>1. ASSUME NEW b \in Block, Held(b) PROVE Held(b)'
            <4>1. CASE \E i \in Slots : nodedata[i].blk = b
                BY <2>1, <4>1 DEF Held
            <4>2. CASE \E w \in Var : app[w].st = "own" /\ app[w].node.blk = b
                BY <2>2, <2>3, <4>2 DEF Held
            <4> QED BY <3>1, <4>1, <4>2 DEF Held
        <3> QED BY <3>1
    <2>5. CASE UNCHANGED heap BY <2>4, <2>5, LossKept
    <2>6. ASSUME NEW b \in Block, heap' = [heap EXCEPT ![b] = Fresh(gids)],
                 app' = [app EXCEPT ![v] =
                           [st |-> "own", node |-> [numofdev |-> Len(gids), blk |-> b]]]
          PROVE  LossStep
        <3>1. Held(b)' BY <2>6 DEF Held, TypeOK
        <3>2. \A c \in Block : c # b => heap'[c] = heap[c] BY <2>6 DEF TypeOK
        <3> QED BY <2>4, <3>1, <3>2, LossKept
    <2> QED BY <1>1, <2>5, <2>6 DEF InitNode
<1>2. ASSUME NEW v \in Var, NEW gids \in GidList, NEW t \in DevType, InitNodeFail(v, gids, t)
      PROVE  LossStep
    <2>1. Slots' = Slots /\ UNCHANGED <<nodedata, heap>>
        BY <1>2, FailedInit DEF nset, Slots
    <2>2. app[v].st # "own" /\ \A w \in Var : w # v => app'[w] = app[w]
        BY <1>2, FailedInit
    <2> QED BY <2>1, <2>2, LossKept DEF Held
<1>3. ASSUME NEW v \in Var, NEW t \in DevType, InitNodeBadType(v, t)
      PROVE  LossStep
    BY <1>3, LossFrame DEF InitNodeBadType, nset
<1>4. ASSUME NEW v \in Var, ReleaseNode(v)
      PROVE  LossStep
    <2>1. Slots' = Slots /\ UNCHANGED nodedata BY <1>4 DEF ReleaseNode, nset, Slots
    <2>2. \A b \in Block : heap'[b] # Free => heap[b] # Free /\ b # app[v].node.blk
        BY <1>4 DEF ReleaseNode, Released
    <2>3. \A w \in Var : w # v => app'[w] = app[w] BY <1>4 DEF ReleaseNode, TypeOK
    <2> QED BY <2>1, <2>2, <2>3, LossKept DEF Held
<1>5. ASSUME NEW v \in Var, NEW gid \in Gid, SetDevice(v, gid)
      PROVE  LossStep
    <2>1. UNCHANGED <<nset, app>> BY <1>5 DEF SetDevice
    <2>2. \A b \in Block : heap[b] = Free => heap'[b] = Free
        <3>1. CASE UNCHANGED heap BY <3>1
        <3>2. UNCHANGED heap \/ Rewritten
            <4>1. CASE Unbuilt(v) \/ BadPointer(app[v].node)
                BY <1>5, <4>1, Zenon DEF SetDevice
            <4>2. CASE ~(Unbuilt(v) \/ BadPointer(app[v].node))
                <5>1. app[v].node.blk = Null \/ heap[app[v].node.blk] # Free
                    BY <4>2 DEF BadPointer
                <5> QED BY <1>5, <4>2, <5>1, Zenon DEF SetDevice, Rewritten
            <4> QED BY <4>1, <4>2
        <3>3. CASE Rewritten
            <4>1. PICK b, c : heap[b] # Free /\ heap' = [heap EXCEPT ![b] = c]
                BY <3>3 DEF Rewritten
            <4> QED BY <4>1 DEF TypeOK
        <3> QED BY <3>1, <3>2, <3>3
    <2> QED BY <2>1, <2>2, LossFrame DEF nset
<1>6. ASSUME NEW v \in Var, NEW id \in NodeId, AddNew(v, id)
      PROVE  LossStep
    <2>1. Slots = 0..(numofnode - 1) /\ Slots' = 0..numofnode /\ numofnode \in Nat
        <3>1. /\ arrays \in {"null", "live"} /\ numofnode \in Nat
              /\ arrays = "null" => numofnode = 0
            BY <1>6 DEF AddNew, TypeOK, Usable
        <3>2. numofnode' = numofnode + 1 /\ arrays' = "live" BY <1>6 DEF AddNew
        <3> QED BY <3>1, <3>2 DEF Slots
    <2>2. \A i \in Slots' : nodedata'[i] = IF i = numofnode THEN app[v].node ELSE nodedata[i]
        BY <1>6, <2>1 DEF AddNew, Grown
    <2>3. UNCHANGED heap /\ \A w \in Var : w # v => app'[w] = app[w]
        BY <1>6 DEF AddNew, HandOver, TypeOK
    <2>4. \A b \in Block : Held(b) => Held(b)'
        <3>1. ASSUME NEW b \in Block, Held(b) PROVE Held(b)'
            <4>1. CASE \E i \in Slots : nodedata[i].blk = b
                <5>1. PICK i \in Slots : nodedata[i].blk = b BY <4>1
                <5>2. i \in Slots' /\ nodedata'[i] = nodedata[i] BY <2>1, <2>2, <5>1
                <5> QED BY <5>1, <5>2 DEF Held
            <4>2. CASE \E w \in Var : app[w].st = "own" /\ app[w].node.blk = b
                <5>1. PICK w \in Var : app[w].st = "own" /\ app[w].node.blk = b BY <4>2
                <5>2. CASE w = v
                    <6>1. numofnode \in Slots' /\ nodedata'[numofnode] = app[v].node
                        BY <2>1, <2>2
                    <6> QED BY <5>1, <5>2, <6>1 DEF Held
                <5>3. CASE w # v BY <2>3, <5>1, <5>3 DEF Held
                <5> QED BY <5>2, <5>3
            <4> QED BY <3>1, <4>1, <4>2 DEF Held
        <3> QED BY <3>1
    <2> QED BY <2>3, <2>4, LossKept
<1>7. ASSUME NEW v \in Var, NEW id \in NodeId, AddFail(v, id)
      PROVE  LossStep
    <2>1. UNCHANGED <<heap, app>> BY <1>7 DEF AddFail
    <2> QED BY <1>7, <2>1 DEF LossStep, Lost, SetBlocks, Owns
<1>8. ASSUME NEW v \in Var, NEW id \in NodeId, AddExisting(v, id)
      PROVE  LossStep
    BY <1>8, LossFrame DEF AddExisting, nset
<1>9. ASSUME NEW v \in Var, NEW id \in NodeId, Replace(v, id)
      PROVE  LossStep
    <2>1. PICK i \in Slots : /\ heap' = Released({nodedata[i].blk})
                             /\ nodedata' = [nodedata EXCEPT ![i] = app[v].node]
                             /\ app' = [Forget({nodedata[i].blk}) EXCEPT
                                          ![v] = [st |-> "lent", node |-> app[v].node]]
        BY <1>9 DEF Replace
    <2>2. Slots' = Slots BY <1>9 DEF Replace, Slots
    <2>3. \A b \in Block : heap'[b] # Free => heap[b] # Free /\ b # nodedata[i].blk
        BY <2>1 DEF Released
    <2>4. \A j \in Slots : nodedata'[j] = IF j = i THEN app[v].node ELSE nodedata[j]
        BY <2>1 DEF TypeOK
    <2>5. \A w \in Var : w # v /\ app[w].st = "own" => app'[w] = app[w]
        BY <2>1 DEF Forget, TypeOK
    <2>6. \A b \in Block : Held(b) /\ b # nodedata[i].blk => Held(b)'
        <3>1. ASSUME NEW b \in Block, Held(b), b # nodedata[i].blk PROVE Held(b)'
            <4>1. CASE \E j \in Slots : nodedata[j].blk = b
                BY <2>2, <2>4, <3>1, <4>1 DEF Held
            <4>2. CASE app[v].node.blk = b
                BY <2>2, <2>4, <4>2 DEF Held
            <4>3. CASE \E w \in Var \ {v} : app[w].st = "own" /\ app[w].node.blk = b
                BY <2>5, <4>3 DEF Held
            <4> QED BY <3>1, <4>1, <4>2, <4>3 DEF Held
        <3> QED BY <3>1
    <2> QED BY <2>3, <2>6, LossKept
<1>10. ASSUME NEW id \in NodeId, Delete(id)
       PROVE  LossStep
    <2>1. PICK i \in Slots : /\ nodedata' = Moved(nodedata, i)
                             /\ heap' = Released({nodedata[i].blk})
                             /\ app' = Forget({nodedata[i].blk})
        BY <1>10 DEF Delete
    <2>2. /\ Slots = 0..(numofnode - 1) /\ Slots' = 0..(numofnode - 2)
          /\ numofnode \in Nat /\ numofnode > 0
        BY <1>10 DEF Delete, Slots, TypeOK
    <2>3. \A b \in Block : heap'[b] # Free => heap[b] # Free /\ b # nodedata[i].blk
        BY <2>1 DEF Released
    <2>4. \A j \in Slots' : nodedata'[j] = IF j = i THEN nodedata[numofnode - 1] ELSE nodedata[j]
        BY <2>1, <2>2 DEF Moved
    <2>5. \A j \in Slots : j # i => \E k \in Slots' : nodedata'[k] = nodedata[j]
        <3>1. ASSUME NEW j \in Slots, j # i PROVE \E k \in Slots' : nodedata'[k] = nodedata[j]
            <4>1. CASE j = numofnode - 1
                <5>1. i \in Slots' BY <2>2, <3>1, <4>1
                <5> QED BY <2>4, <4>1, <5>1
            <4>2. CASE j # numofnode - 1
                <5>1. j \in Slots' BY <2>2, <4>2
                <5> QED BY <2>4, <3>1, <5>1
            <4> QED BY <4>1, <4>2
        <3> QED BY <3>1
    <2>6. \A w \in Var : app[w].st = "own" => app'[w] = app[w] BY <2>1 DEF Forget
    <2>7. \A b \in Block : Held(b) /\ b # nodedata[i].blk => Held(b)'
        BY <2>5, <2>6 DEF Held
    <2> QED BY <2>3, <2>7, LossKept
<1>11. ASSUME NEW id \in NodeId, Unknown(id)
       PROVE  LossStep
    BY <1>11, LossFrame DEF Unknown, nset
<1>12. ASSUME NEW id \in NodeId, NEW s \in NodeStat, SetNodeStat(id, s)
       PROVE  LossStep
    BY <1>12, LossFrame DEF SetNodeStat
<1>13. ASSUME ReleaseNset PROVE LossStep
    <2>1. \A b \in Block : heap'[b] # Free => heap[b] # Free /\ b \notin SetBlocks
        BY <1>13 DEF ReleaseNset, Released
    <2>2. \A w \in Var : app[w].st = "own" => app'[w] = app[w]
        BY <1>13 DEF ReleaseNset, Forget
    <2>3. \A b \in Block : Held(b) /\ b \notin SetBlocks => Held(b)'
        BY <2>2 DEF Held, SetBlocks
    <2> QED BY <2>1, <2>3, LossKept
<1>14. ASSUME InitNset PROVE LossStep
    <2>1. UNCHANGED <<heap, app>> BY <1>14 DEF InitNset
    <2>2. CASE arrays = "live"
        BY <1>14, <2>1, <2>2 DEF LossStep, Lost, SetBlocks, Owns
    <2>3. CASE arrays # "live"
        <3>1. Slots = {} BY <2>3 DEF Slots
        <3>2. \A b \in Block : Held(b) => Held(b)' BY <2>1, <3>1 DEF Held
        <3> QED BY <2>1, <3>2, LossKept
    <2> QED BY <2>2, <2>3
<1>15. CASE CallInvalid \/ UNCHANGED vars
    BY <1>15, LossFrame DEF CallInvalid, nset, vars
<1> QED BY <1>1, <1>2, <1>3, <1>4, <1>5, <1>6, <1>7, <1>8, <1>9, <1>10, <1>11, <1>12,
           <1>13, <1>14, <1>15 DEF Next

(* Whichever allocations fail and whatever the application does outside    *)
(* the protocol, node memory is lost in two places only: with the set in   *)
(* a tp3_addnset that fails to grow it, and with the nodes of a set that   *)
(* tp3_initnset clears.                                                    *)
THEOREM LossConfined == Spec => LossOnlyWithSet
<1>1. TypeOK /\ [Next]_vars => [LossStep]_vars BY NextLoss
<1>2. LossOnlyWithSet <=> [][LossStep]_vars BY DEF LossOnlyWithSet, LossStep
<1> QED BY <1>1, <1>2, TypeCorrect, PTL DEF Spec

(* ... so that a protocol without these two loses nothing.                 *)
LEMMA NextNoLeak ==
    ASSUME Misuse = {}, "set" \notin AllocFails
    PROVE  TypeOK /\ NoLeak /\ [Next]_vars => NoLeak'
<1> SUFFICES ASSUME TypeOK, NoLeak, [Next]_vars PROVE NoLeak'
    OBVIOUS
<1>1. Lost = {} BY DEF NoLeak, Lost, Owns
<1>2. \A v \in Var, id \in NodeId : ~AddFail(v, id) BY DEF AddFail
<1>3. ~(InitNset /\ arrays = "live") BY DEF InitNset
<1>4. Lost' = {} BY <1>1, <1>2, <1>3, NextLoss DEF LossStep
<1> QED BY <1>4 DEF NoLeak, Lost, Owns

(* An application that keeps to the protocol, on a set whose arrays can    *)
(* always grow, never loses a block: replacing, deleting and releasing     *)
(* free exactly what the set no longer names.                              *)
THEOREM MemoryKept ==
    ASSUME Misuse = {}, "set" \notin AllocFails
    PROVE  Spec => []NoLeak
<1>1. Init => NoLeak BY DEF Init, NoLeak
<1> QED BY <1>1, InitType, NextType, NextNoLeak, PTL DEF Spec

-----------------------------------------------------------------------------
(* What a node carries *)

(* A node without a block and without devices was made of an empty list; a *)
(* block's three arrays have one entry for each of at least one device.  *)
Described(node) == node.blk = Null /\ node.numofdev = 0 => << >> \in GidList
Complete(c) == /\ c.gids \in GidList /\ c.gids # << >>
               /\ DOMAIN c.stats = DOMAIN c.gids /\ DOMAIN c.envs = DOMAIN c.gids

Named(v) == app[v].st # "none"

WellFormed ==
    /\ \A b \in Block : heap[b] # Free => Complete(heap[b])
    /\ \A v \in Var : Named(v) => Described(app[v].node)
    /\ \A i \in Slots : Described(nodedata[i])

LEMMA WellFormedFrame ==
    ASSUME WellFormed, UNCHANGED <<nodedata, numofnode, arrays, heap, app>>
    PROVE  WellFormed'
BY DEF WellFormed, Slots, Named, Described, Complete

LEMMA FreshComplete ==
    ASSUME NEW gids \in GidList, Len(gids) > 0
    PROVE  Complete(Fresh(gids))
<1>1. gids \in Seq(Gid) BY ConstantsOK
<1>2. gids # << >> BY <1>1
<1> QED BY <1>2 DEF Complete, Fresh

LEMMA SetComplete ==
    ASSUME NEW c \in Content, Complete(c), NEW k
    PROVE  /\ \A e \in Env : Complete([c EXCEPT !.envs[k] = e])
           /\ \A s \in DevStat : Complete([c EXCEPT !.stats[k] = s])
BY DEF Complete, Content

(* What a step may do to the blocks, and where a slot or a remembered      *)
(* structure may come from, without disturbing WellFormed.                   *)
LEMMA WellFormedStep ==
    ASSUME WellFormed,
           \A b \in Block : heap'[b] # Free => heap'[b] = heap[b] \/ Complete(heap'[b]),
           \A v \in Var : Named(v)' =>
                \/ Described(app'[v].node)
                \/ Named(v) /\ app'[v].node = app[v].node,
           \A i \in Slots' : \/ Described(nodedata'[i])
                             \/ \E j \in Slots : nodedata'[i] = nodedata[j]
    PROVE  WellFormed'
BY DEF WellFormed, Described, Complete

LEMMA NextWellFormed == TypeOK /\ WellFormed /\ [Next]_vars => WellFormed'
<1> SUFFICES ASSUME TypeOK, WellFormed, [Next]_vars PROVE WellFormed'
    OBVIOUS
<1>1. ASSUME NEW v \in Var, NEW gids \in GidList, NEW t \in DevType, InitNode(v, gids, t)
      PROVE  WellFormed'
    <2>1. Slots' = Slots /\ UNCHANGED nodedata BY <1>1 DEF InitNode, nset, Slots
    <2>2. gids \in Seq(Gid) /\ Len(gids) \in Nat BY ConstantsOK, LenProperties
    <2>3. \A w \in Var : w # v => app'[w] = app[w] BY <1>1 DEF InitNode, TypeOK
    <2>4. CASE Len(gids) = 0
        <3>1. gids = << >> BY <2>2, <2>4, EmptySeq
        <3>2. UNCHANGED heap /\ app'[v].node = NoNode
            BY <1>1, <2>4 DEF InitNode, TypeOK
        <3>3. Described(app'[v].node) BY <3>1, <3>2 DEF Described, NoNode
        <3> QED BY <2>1, <2>3, <3>2, <3>3, WellFormedStep DEF Named
    <2>5. CASE Len(gids) > 0
        <3>1. PICK b \in Block :
                /\ heap' = [heap EXCEPT ![b] = Fresh(gids)]
                /\ app' = [app EXCEPT ![v] =
                             [st |-> "own", node |-> [numofdev |-> Len(gids), blk |-> b]]]
            BY <1>1, <2>5 DEF InitNode
        <3>2. \A c \in Block : heap'[c] = heap[c] \/ Complete(heap'[c])
            BY <2>5, <3>1, FreshComplete DEF TypeOK
        <3>3. Described(app'[v].node) BY <3>1, ConstantsOK DEF Described, TypeOK
        <3> QED BY <2>1, <2>3, <3>2, <3>3, WellFormedStep DEF Named
    <2> QED BY <2>2, <2>4, <2>5
<1>3. ASSUME NEW v \in Var, ReleaseNode(v)
      PROVE  WellFormed'
    <2>1. Slots' = Slots /\ UNCHANGED nodedata BY <1>3 DEF ReleaseNode, nset, Slots
    <2>2. \A b \in Block : heap'[b] # Free => heap'[b] = heap[b]
        BY <1>3 DEF ReleaseNode, Released
    <2>3. app' = [app EXCEPT ![v] = [st |-> "none", node |-> NoNode]]
        BY <1>3 DEF ReleaseNode
    <2>4. \A w \in Var : Named(w)' => Named(w) /\ app'[w].node = app[w].node
        BY <2>3 DEF Named, TypeOK
    <2> QED BY <2>1, <2>2, <2>4, WellFormedStep
<1>4. ASSUME NEW v \in Var, NEW gid \in Gid, SetDevice(v, gid)
      PROVE  WellFormed'
    <2> DEFINE b == app[v].node.blk
    <2>1. UNCHANGED <<nset, app>> BY <1>4 DEF SetDevice
    <2>2. CASE UNCHANGED heap
        BY <2>1, <2>2, WellFormedFrame DEF nset
    <2>3. ASSUME b # Null, heap[b] # Free PROVE b \in Block /\ heap[b] \in Content /\ Complete(heap[b])
        <3>1. b \in Block BY <2>3 DEF TypeOK, NodeData
        <3> QED BY <2>3, <3>1 DEF TypeOK, WellFormed
    <2>4. ASSUME b \in Block, NEW c, Complete(c), heap' = [heap EXCEPT ![b] = c]
          PROVE  WellFormed'
        <3>1. \A d \in Block : heap'[d] = heap[d] \/ Complete(heap'[d])
            BY <2>4 DEF TypeOK
        <3> QED BY <2>1, <3>1, WellFormedStep DEF nset, Slots, Named
    <2>5. ASSUME b # Null, heap[b] # Free, NEW k, NEW e \in Env,
                 heap' = [heap EXCEPT ![b].envs[k] = e]
          PROVE  WellFormed'
        <3>1. heap' = [heap EXCEPT ![b] = [heap[b] EXCEPT !.envs[k] = e]]
            BY <2>5, Zenon
        <3>2. Complete([heap[b] EXCEPT !.envs[k] = e]) BY <2>3, <2>5, SetComplete, Zenon
        <3> QED BY <2>3, <2>4, <2>5, <3>1, <3>2, Zenon
    <2>6. ASSUME b # Null, heap[b] # Free, NEW k, NEW s \in DevStat,
                 heap' = [heap EXCEPT ![b].stats[k] = s]
          PROVE  WellFormed'
        <3>1. heap' = [heap EXCEPT ![b] = [heap[b] EXCEPT !.stats[k] = s]]
            BY <2>6, Zenon
        <3>2. Complete([heap[b] EXCEPT !.stats[k] = s]) BY <2>3, <2>6, SetComplete, Zenon
        <3> QED BY <2>3, <2>4, <2>6, <3>1, <3>2, Zenon
    <2> QED BY <1>4, <2>2, <2>5, <2>6, Zenon DEF SetDevice, BadPointer
<1>5. ASSUME NEW v \in Var, NEW id \in NodeId, AddNew(v, id)
      PROVE  WellFormed'
    <2>1. Slots = 0..(numofnode - 1) /\ Slots' = 0..numofnode /\ numofnode \in Nat
        BY <1>5 DEF AddNew, Slots, TypeOK, Usable
    <2>2. \A i \in Slots' : nodedata'[i] = IF i = numofnode THEN app[v].node ELSE nodedata[i]
        BY <1>5, <2>1 DEF AddNew, Grown
    <2>3. Named(v) /\ Described(app[v].node)
        BY <1>5 DEF AddNew, Offered, Unbuilt, Named, WellFormed
    <2>4. UNCHANGED heap /\ \A w \in Var : app'[w].node = app[w].node /\ (w # v => app'[w] = app[w])
        BY <1>5 DEF AddNew, HandOver, TypeOK
    <2>5. \A i \in Slots' : \/ Described(nodedata'[i])
                            \/ \E j \in Slots : nodedata'[i] = nodedata[j]
        BY <2>1, <2>2, <2>3
    <2> QED BY <2>3, <2>4, <2>5, WellFormedStep DEF Named
<1>6. ASSUME NEW v \in Var, NEW id \in NodeId, AddFail(v, id)
      PROVE  WellFormed'
    <2>1. Slots' = {} /\ UNCHANGED <<heap, app>> BY <1>6 DEF AddFail, Slots
    <2> QED BY <2>1, WellFormedStep DEF Named
<1>7. ASSUME NEW v \in Var, NEW id \in NodeId, Replace(v, id)
      PROVE  WellFormed'
    <2>1. PICK i \in Slots : /\ heap' = Released({nodedata[i].blk})
                             /\ nodedata' = [nodedata EXCEPT ![i] = app[v].node]
                             /\ app' = [Forget({nodedata[i].blk}) EXCEPT
                                          ![v] = [st |-> "lent", node |-> app[v].node]]
        BY <1>7 DEF Replace
    <2>2. Slots' = Slots BY <1>7 DEF Replace, Slots
    <2>3. \A c \in Block : heap'[c] # Free => heap'[c] = heap[c] BY <2>1 DEF Released
    <2>4. Named(v) /\ Described(app[v].node)
        BY <1>7 DEF Replace, Offered, Unbuilt, Named, WellFormed
    <2>5. \A j \in Slots' : nodedata'[j] = IF j = i THEN app[v].node ELSE nodedata[j]
        BY <2>1, <2>2 DEF TypeOK
    <2>6. \A w \in Var : Named(w)' => Named(w) /\ app'[w].node = app[w].node
        BY <2>1, <2>4 DEF Forget, Named
    <2> QED BY <2>2, <2>3, <2>4, <2>5, <2>6, WellFormedStep
<1>8. ASSUME NEW id \in NodeId, Delete(id)
      PROVE  WellFormed'
    <2>1. PICK i \in Slots : /\ nodedata' = Moved(nodedata, i)
                             /\ heap' = Released({nodedata[i].blk})
                             /\ app' = Forget({nodedata[i].blk})
        BY <1>8 DEF Delete
    <2>2. /\ Slots = 0..(numofnode - 1) /\ Slots' = 0..(numofnode - 2)
          /\ numofnode \in Nat /\ numofnode > 0
        BY <1>8 DEF Delete, Slots, TypeOK
    <2>3. \A c \in Block : heap'[c] # Free => heap'[c] = heap[c] BY <2>1 DEF Released
    <2>4. \A j \in Slots' : nodedata'[j] = IF j = i THEN nodedata[numofnode - 1] ELSE nodedata[j]
        BY <2>1, <2>2 DEF Moved
    <2>5. \A w \in Var : Named(w)' => Named(w) /\ app'[w].node = app[w].node
        BY <2>1 DEF Forget, Named
    <2>6. \A j \in Slots' : \E k \in Slots : nodedata'[j] = nodedata[k] BY <2>2, <2>4
    <2> QED BY <2>3, <2>5, <2>6, WellFormedStep
<1>9. CASE ReleaseNset
    <2>1. Slots' = {} BY <1>9 DEF ReleaseNset, Slots, Usable, TypeOK
    <2>2. \A b \in Block : heap'[b] # Free => heap'[b] = heap[b]
        BY <1>9 DEF ReleaseNset, Released
    <2>3. \A w \in Var : Named(w)' => Named(w) /\ app'[w].node = app[w].node
        BY <1>9 DEF ReleaseNset, Forget, Named
    <2> QED BY <2>1, <2>2, <2>3, WellFormedStep
<1>10. CASE InitNset
    <2>1. Slots' = {} /\ UNCHANGED <<heap, app>> BY <1>10 DEF InitNset, Slots
    <2> QED BY <2>1, WellFormedStep DEF Named
<1>11. CASE UNCHANGED <<nodedata, numofnode, arrays, heap, app>>
    BY <1>11, WellFormedFrame
<1>12. ASSUME NEW v \in Var, NEW gids \in GidList, NEW t \in DevType, InitNodeFail(v, gids, t)
       PROVE  WellFormed'
    <2>1. /\ Slots' = Slots /\ UNCHANGED <<nodedata, heap>>
          /\ \A w \in Var : w # v => app'[w] = app[w]
        BY <1>12, FailedInit DEF nset, Slots
    <2>2. Described(app'[v].node) BY <1>12, FailedInit DEF Described
    <2> QED BY <2>1, <2>2, WellFormedStep DEF Named
<1>13. ASSUME NEW v \in Var, NEW t \in DevType, InitNodeBadType(v, t)
       PROVE  WellFormed'
    BY <1>11, <1>13 DEF InitNodeBadType, nset
<1>14. ASSUME NEW v \in Var, NEW id \in NodeId, AddExisting(v, id)
       PROVE  WellFormed'
    BY <1>11, <1>14 DEF AddExisting, nset
<1>15. ASSUME NEW id \in NodeId, Unknown(id) \/ \E s \in NodeStat : SetNodeStat(id, s)
       PROVE  WellFormed'
    BY <1>11, <1>15 DEF Unknown, SetNodeStat, nset
<1>16. CASE CallInvalid \/ UNCHANGED vars
    BY <1>11, <1>16 DEF CallInvalid, nset, vars
<1> QED BY <1>1, <1>3, <1>4, <1>5, <1>6, <1>7, <1>8, <1>9, <1>10, <1>12, <1>13, <1>14,
           <1>15, <1>16 DEF Next

LEMMA InitWellFormed == Init => WellFormed
BY DEF Init, WellFormed, Slots, Named

-----------------------------------------------------------------------------
(* The node set implements the registry *)

RefInv == OwnInv /\ DistinctIds /\ WellFormed

(* What a slot says is what the map says of its node. *)
MapAgrees ==
    /\ \A id \in NodeId, i \in Slots : nids[i] = id =>
          Entry(id) = [stat |-> stats[i], devs |-> DevsOf(nodedata[i])]
    /\ \A id \in NodeId : NotFound(id) <=> Entry(id) = Absent
    /\ \A i \in Slots : stats[i] \in NodeStat /\ DevsOf(nodedata[i]) \in Content

LEMMA MapOfSlots == TypeOK /\ Ownership /\ DistinctIds => MapAgrees
<1> SUFFICES ASSUME TypeOK, Ownership, DistinctIds PROVE MapAgrees
    OBVIOUS
<1>1. ASSUME NEW id \in NodeId, NEW i \in Slots, nids[i] = id
      PROVE  Entry(id) = [stat |-> stats[i], devs |-> DevsOf(nodedata[i])]
    <2>1. ~NotFound(id) BY <1>1 DEF NotFound
    <2>2. \A j \in Slots : nids[j] = id <=> j = i
        BY <1>1 DEF DistinctIds
    <2>3. (CHOOSE j \in Slots : nids[j] = id) = i
        BY <2>2
    <2> QED BY <2>1, <2>3 DEF Entry
<1>2. ASSUME NEW i \in Slots PROVE stats[i] \in NodeStat /\ DevsOf(nodedata[i]) \in Content
    <2>1. NoDevices \in Content BY DEF NoDevices, Content
    <2>2. nodedata[i].blk # Null => heap[nodedata[i].blk] \in Content
        BY DEF Ownership, Valid, TypeOK, NodeData
    <2>3. stats[i] \in NodeStat BY DEF TypeOK
    <2> QED BY <2>1, <2>2, <2>3 DEF DevsOf
<1>3. ASSUME NEW id \in NodeId PROVE NotFound(id) <=> Entry(id) = Absent
    <2>1. CASE NotFound(id) BY <2>1 DEF Entry
    <2>2. CASE ~NotFound(id)
        <3>1. PICK i \in Slots : nids[i] = id BY <2>2 DEF NotFound
        <3>2. Entry(id) \in [stat : NodeStat, devs : Content]
            BY <1>1, <1>2, <3>1
        <3> QED BY <2>2, <3>2, ConstantsOK
    <2> QED BY <2>1, <2>2
<1> QED BY <1>1, <1>2, <1>3 DEF MapAgrees

LEMMA MapOfInv == RefInv => MapAgrees
BY MapOfSlots DEF RefInv, OwnInv

LEMMA MapOfNext == RefInv' => MapAgrees'
BY MapOfInv, PTL

-----------------------------------------------------------------------------
(* What a step of the set does to the map *)

(* A step that leaves an id's slot, status and devices alone leaves the    *)
(* map alone there; the slot may be another one afterwards.                *)
LEMMA EntryKept ==
    ASSUME MapAgrees, MapAgrees', NEW id \in NodeId, NEW i \in Slots, NEW j \in Slots',
           nids[i] = id, nids'[j] = id, stats'[j] = stats[i],
           DevsOf(nodedata[j])' = DevsOf(nodedata[i])
    PROVE  Entry(id)' = Entry(id)
BY DEF MapAgrees

LEMMA AbsentKept ==
    ASSUME MapAgrees, MapAgrees', NEW id \in NodeId, NotFound(id), NotFound(id)'
    PROVE  Entry(id)' = Entry(id)
BY DEF MapAgrees

(* A structure whose block is not touched describes the same devices. *)
LEMMA DevsKept ==
    ASSUME NEW i, NEW j, nodedata'[j] = nodedata[i],
           nodedata[i].blk = Null \/ heap'[nodedata[i].blk] = heap[nodedata[i].blk]
    PROVE  DevsOf(nodedata[j])' = DevsOf(nodedata[i])
BY DEF DevsOf

(* Steps that touch no slot and no block of a slot. *)
LEMMA MapKept ==
    ASSUME RefInv, RefInv', UNCHANGED <<nids, stats, nodedata, numofnode, arrays>>,
           \A i \in Slots : nodedata[i].blk = Null \/ heap'[nodedata[i].blk] = heap[nodedata[i].blk]
    PROVE  \A id \in NodeId : Entry(id)' = Entry(id)
<1> SUFFICES ASSUME NEW id \in NodeId PROVE Entry(id)' = Entry(id)
    OBVIOUS
<1>1. MapAgrees /\ MapAgrees' BY MapOfInv, MapOfNext
<1>2. Slots' = Slots BY DEF Slots
<1>3. CASE NotFound(id)
    <2>1. NotFound(id)' BY <1>2, <1>3 DEF NotFound
    <2> QED BY <1>1, <1>3, <2>1, AbsentKept
<1>4. CASE ~NotFound(id)
    <2>1. PICK i \in Slots : nids[i] = id BY <1>4 DEF NotFound
    <2>2. DevsOf(nodedata[i])' = DevsOf(nodedata[i]) BY DevsKept
    <2> QED BY <1>1, <1>2, <2>1, <2>2, EntryKept
<1> QED BY <1>3, <1>4

(* The actions of the registry, in terms of the map's entries. *)
LEMMA ElsewhereStep ==
    ASSUME \A id \in NodeId : Entry(id)' = Entry(id), ret' = "NOERROR"
    PROVE  R!Next
BY DEF R!Next, R!Elsewhere

LEMMA RefuseStep ==
    ASSUME \A id \in NodeId : Entry(id)' = Entry(id), MapAgrees,
           \/ ret' \in {"NOT_FOUND_DEVID", "NOT_PROPER_DEVTYPE", "MEMORY_ALLOCATION_FAIL"}
           \/ ret' = "NOT_FOUND_NODEID" /\ \E id \in NodeId : NotFound(id)
           \/ ret' = "EXIST_NODEID" /\ \E id \in NodeId : ~NotFound(id)
    PROVE  R!Next
<1>1. R!Registered = {id \in NodeId : Entry(id) # Absent} BY DEF R!Registered
<1>2. (\E id \in NodeId : NotFound(id)) => R!Registered # NodeId
    BY <1>1 DEF MapAgrees
<1>3. (\E id \in NodeId : ~NotFound(id)) => R!Registered # {}
    BY <1>1 DEF MapAgrees
<1>4. UNCHANGED [id \in NodeId |-> Entry(id)] OBVIOUS
<1> QED BY <1>2, <1>3, <1>4 DEF R!Next, R!Refuse

LEMMA ClearStep ==
    ASSUME \A id \in NodeId : Entry(id)' = Absent, ret' = "NOERROR"
    PROVE  R!Next
BY DEF R!Next, R!Clear

LEMMA RemoveStep ==
    ASSUME NEW id \in NodeId, MapAgrees, ~NotFound(id), Entry(id)' = Absent,
           \A other \in NodeId \ {id} : Entry(other)' = Entry(other),
           ret' = "NOERROR"
    PROVE  R!Next
<1> DEFINE reg == [x \in NodeId |-> Entry(x)]
<1>1. id \in R!Registered BY DEF R!Registered, MapAgrees
<1>2. reg' = [reg EXCEPT ![id] = Absent] OBVIOUS
<1>3. R!Remove(id) BY <1>1, <1>2 DEF R!Remove
<1> QED BY <1>3 DEF R!Next

LEMMA SetStatStep ==
    ASSUME NEW id \in NodeId, NEW s \in NodeStat, MapAgrees, ~NotFound(id),
           Entry(id)' = [Entry(id) EXCEPT !.stat = s],
           \A other \in NodeId \ {id} : Entry(other)' = Entry(other),
           ret' = "NOERROR"
    PROVE  R!Next
<1> DEFINE reg == [x \in NodeId |-> Entry(x)]
<1>1. id \in R!Registered BY DEF R!Registered, MapAgrees
<1>2. reg' = [reg EXCEPT ![id].stat = s] OBVIOUS
<1>3. R!SetStat(id, s) BY <1>1, <1>2 DEF R!SetStat
<1> QED BY <1>3 DEF R!Next

(* A node enters the map with a complete block, in status NORMAL or in the *)
(* one it has there.                                                       *)
LEMMA PutStep ==
    ASSUME NEW id \in NodeId, NEW c \in Content, MapAgrees,
           (c = NoDevices /\ << >> \in GidList) \/ Complete(c),
           Entry(id)' = [stat |-> IF NotFound(id) THEN "NORMAL" ELSE Entry(id).stat, devs |-> c],
           \A other \in NodeId \ {id} : Entry(other)' = Entry(other),
           ret' = "NOERROR"
    PROVE  R!Next
<1> DEFINE reg == [x \in NodeId |-> Entry(x)]
           known == {x \in NodeId : reg[x] # Absent}
<1>1. c.gids \in GidList /\ DOMAIN c.stats = DOMAIN c.gids /\ DOMAIN c.envs = DOMAIN c.gids
    BY DEF Complete, NoDevices
<1>2. /\ c.stats \in [DOMAIN c.gids -> DevStat] /\ c.envs \in [DOMAIN c.gids -> Env]
      /\ c = [gids |-> c.gids, stats |-> c.stats, envs |-> c.envs]
    BY <1>1, LenProperties DEF Content
<1>3. id \in known <=> ~NotFound(id) BY DEF MapAgrees
<1>4. reg' = [reg EXCEPT ![id] =
                [stat |-> IF id \in known THEN reg[id].stat ELSE "NORMAL",
                 devs |-> [gids |-> c.gids, stats |-> c.stats, envs |-> c.envs]]]
    BY <1>2, <1>3
<1>5. R!Put(id, c.gids)
    BY <1>2, <1>4 DEF R!Put, R!Registered
<1> QED BY <1>1, <1>5 DEF R!Next

LEMMA SetDeviceStep ==
    ASSUME NEW id \in NodeId, NEW k \in DOMAIN Entry(id).devs.gids, MapAgrees, ~NotFound(id),
           \/ \E e \in Env : Entry(id)' = [Entry(id) EXCEPT !.devs.envs[k] = e]
           \/ \E s \in DevStat : Entry(id)' = [Entry(id) EXCEPT !.devs.stats[k] = s],
           \A other \in NodeId \ {id} : Entry(other)' = Entry(other),
           ret' = "NOERROR"
    PROVE  R!Next
<1> DEFINE reg == [x \in NodeId |-> Entry(x)]
<1>1. id \in R!Registered /\ reg[id] # Absent BY DEF R!Registered, MapAgrees
<1>2. ASSUME NEW e \in Env, Entry(id)' = [Entry(id) EXCEPT !.devs.envs[k] = e]
      PROVE  reg' = [reg EXCEPT ![id].devs.envs[k] = e]
    BY <1>2
<1>3. ASSUME NEW s \in DevStat, Entry(id)' = [Entry(id) EXCEPT !.devs.stats[k] = s]
      PROVE  reg' = [reg EXCEPT ![id].devs.stats[k] = s]
    BY <1>3
<1>4. R!SetDevice(id, k)
    BY <1>1, <1>2, <1>3 DEF R!SetDevice
<1> QED BY <1>1, <1>4 DEF R!Next

-----------------------------------------------------------------------------
(* Every step of the set is a step of the registry *)

(* tp3_initnodedata and tp3_releasenodedata work on blocks no slot names.  *)
LEMMA AppStep ==
    ASSUME RefInv, RefInv', MapAgrees, UNCHANGED nset,
           \A i \in Slots : nodedata[i].blk = Null \/ heap'[nodedata[i].blk] = heap[nodedata[i].blk],
           ret' \in {"NOERROR", "NOT_FOUND_DEVID", "NOT_PROPER_DEVTYPE", "MEMORY_ALLOCATION_FAIL"}
    PROVE  R!Next
<1>1. \A id \in NodeId : Entry(id)' = Entry(id) BY MapKept DEF nset
<1> QED BY <1>1, ElsewhereStep, RefuseStep

(* tp3_setdevenv, tp3_setdevstat, tp3_setdevattr: the node whose slot      *)
(* names the block changes one value of one device; without one, none.     *)
LEMMA SetDeviceRefines ==
    ASSUME RefInv, RefInv', NEW v \in Var, NEW gid \in Gid, SetDevice(v, gid)
    PROVE  R!Next
<1> DEFINE b == app[v].node.blk
<1>1. MapAgrees /\ MapAgrees' BY MapOfInv, MapOfNext
<1>2. UNCHANGED <<nset, app>> /\ Slots' = Slots BY DEF SetDevice, nset, Slots
<1>3. TypeOK /\ Ownership BY DEF RefInv, OwnInv
<1>4. /\ ~(Unbuilt(v) \/ BadPointer(app[v].node))
      /\ b = Null \/ heap[b] # Free
    <2>1. ~fault' BY DEF RefInv, OwnInv, NoFault
    <2>2. ~(Unbuilt(v) \/ BadPointer(app[v].node)) BY <2>1, Zenon DEF SetDevice
    <2> QED BY <2>2 DEF BadPointer
<1>5. CASE UNCHANGED heap
    <2>1. ret' \in {"NOERROR", "NOT_FOUND_DEVID"} BY <1>4, Zenon DEF SetDevice
    <2> QED BY <1>1, <1>2, <1>5, <2>1, AppStep
<1>6. ASSUME b # Null, NEW c, heap' = [heap EXCEPT ![b] = c], NEW k \in DOMAIN heap[b].gids,
             ret' = "NOERROR",
             \/ \E e \in Env : c = [heap[b] EXCEPT !.envs[k] = e]
             \/ \E s \in DevStat : c = [heap[b] EXCEPT !.stats[k] = s]
      PROVE  R!Next
    <2>1. b \in Block /\ heap[b] \in Content
        <3>1. app[v].node \in NodeData /\ heap \in [Block -> Content \cup {Free}]
            BY <1>3, SMTT(40) DEF TypeOK
        <3>2. b \in Block BY <1>6, <3>1 DEF NodeData
        <3> QED BY <1>4, <1>6, <3>1, <3>2
    <2>2. heap'[b] = c /\ \A d \in Block : d # b => heap'[d] = heap[d]
        BY <1>3, <1>6, <2>1, ZenonT(60) DEF TypeOK
    <2>3. CASE \A i \in Slots : nodedata[i].blk # b
        <3>1. \A i \in Slots : nodedata[i].blk = Null \/ heap'[nodedata[i].blk] = heap[nodedata[i].blk]
            BY <1>3, <2>2, <2>3, SMTT(40) DEF TypeOK, NodeData
        <3> QED BY <1>1, <1>2, <1>6, <3>1, AppStep
    <2>4. ASSUME NEW i \in Slots, nodedata[i].blk = b PROVE R!Next
        <3>0. PICK id \in NodeId : nids[i] = id BY <1>3 DEF TypeOK
        <3>1. ~NotFound(id) BY <3>0, SMTT(40) DEF NotFound
        <3>2. Entry(id) = [stat |-> stats[i], devs |-> heap[b]]
            BY <1>1, <1>6, <2>4, <3>0, ZenonT(60) DEF MapAgrees, DevsOf
        <3>3. Entry(id)' = [stat |-> stats[i], devs |-> c]
            <4>1. DevsOf(nodedata[i])' = c BY <1>2, <1>6, <2>2, <2>4, ZenonT(60) DEF DevsOf, nset
            <4> QED BY <1>1, <1>2, <3>0, <4>1 DEF MapAgrees, nset
        <3>4. \/ \E e \in Env : Entry(id)' = [Entry(id) EXCEPT !.devs.envs[k] = e]
              \/ \E s \in DevStat : Entry(id)' = [Entry(id) EXCEPT !.devs.stats[k] = s]
            <4>1. ASSUME NEW e \in Env, c = [heap[b] EXCEPT !.envs[k] = e]
                  PROVE  Entry(id)' = [Entry(id) EXCEPT !.devs.envs[k] = e]
                BY <3>2, <3>3, <4>1, SMTT(40)
            <4>2. ASSUME NEW s \in DevStat, c = [heap[b] EXCEPT !.stats[k] = s]
                  PROVE  Entry(id)' = [Entry(id) EXCEPT !.devs.stats[k] = s]
                BY <3>2, <3>3, <4>2, SMTT(40)
            <4> QED BY <1>6, <4>1, <4>2, ZenonT(60)
        <3>5. ASSUME NEW other \in NodeId \ {id} PROVE Entry(other)' = Entry(other)
            <4>1. CASE NotFound(other)
                <5>1. NotFound(other)' BY <1>2, <4>1 DEF NotFound, nset
                <5> QED BY <1>1, <4>1, <5>1, AbsentKept
            <4>2. CASE ~NotFound(other)
                <5>1. PICK j \in Slots : nids[j] = other BY <4>2 DEF NotFound
                <5>2. j # i BY <3>0, <3>5, <5>1, SMTT(40)
                <5>3. nodedata[j].blk = Null \/ nodedata[j].blk # b
                    BY <1>3, <1>6, <2>4, <5>2 DEF Ownership, SameBlock
                <5>4. nodedata[j].blk = Null \/ heap'[nodedata[j].blk] = heap[nodedata[j].blk]
                    BY <1>3, <2>2, <5>3 DEF TypeOK, NodeData
                <5>5. DevsOf(nodedata[j])' = DevsOf(nodedata[j]) BY <1>2, <5>4, DevsKept DEF nset
                <5> QED BY <1>1, <1>2, <5>1, <5>5, EntryKept DEF nset
            <4> QED BY <4>1, <4>2
        <3>6. Entry(id).devs = heap[b] BY <3>2
        <3>7. k \in DOMAIN Entry(id).devs.gids BY <3>6, Zenon
        <3> QED BY <1>1, <1>6, <3>1, <3>4, <3>5, <3>7, SetDeviceStep
    <2> QED BY <2>3, <2>4, SMTT(40)
<1>7. ASSUME b # Null, NEW k \in DOMAIN heap[b].gids, NEW e \in Env, ret' = "NOERROR",
             heap' = [heap EXCEPT ![b].envs[k] = e]
      PROVE  R!Next
    <2>1. heap' = [heap EXCEPT ![b] = [heap[b] EXCEPT !.envs[k] = e]] BY <1>7, Zenon
    <2> QED BY <1>6, <1>7, <2>1, Zenon
<1>8. ASSUME b # Null, NEW k \in DOMAIN heap[b].gids, NEW s \in DevStat, ret' = "NOERROR",
             heap' = [heap EXCEPT ![b].stats[k] = s]
      PROVE  R!Next
    <2>1. heap' = [heap EXCEPT ![b] = [heap[b] EXCEPT !.stats[k] = s]] BY <1>8, Zenon
    <2> QED BY <1>6, <1>8, <2>1, Zenon
<1> QED BY <1>4, <1>5, <1>7, <1>8, Zenon DEF SetDevice

(* What a structure that may be handed over carries.                       *)
LEMMA CarriedDevices ==
    ASSUME Misuse = {}, RefInv, NEW v \in Var, Offered(v)
    PROVE  LET c == DevsOf(app[v].node) IN
           c \in Content /\ ((c = NoDevices /\ << >> \in GidList) \/ Complete(c))
<1>1. Remembers(v) /\ Named(v) BY DEF Offered, Unbuilt, Remembers, Named
<1>2. Valid(app[v].node) /\ Described(app[v].node) /\ app[v].node \in NodeData
    BY <1>1 DEF RefInv, OwnInv, Ownership, WellFormed, TypeOK
<1>3. CASE app[v].node.blk = Null
    BY <1>2, <1>3 DEF Valid, DevsOf, Described, NoDevices, Content
<1>4. CASE app[v].node.blk # Null
    <2>1. app[v].node.blk \in Block /\ heap[app[v].node.blk] # Free
        BY <1>2, <1>4 DEF Valid, NodeData
    <2> QED BY <1>4, <2>1 DEF DevsOf, RefInv, OwnInv, TypeOK, WellFormed
<1> QED BY <1>3, <1>4

(* tp3_addnset of a new id puts the node into the map.                     *)
LEMMA AddNewRefines ==
    ASSUME Misuse = {}, RefInv, RefInv', NEW v \in Var, NEW id \in NodeId, AddNew(v, id)
    PROVE  R!Next
<1>1. MapAgrees /\ MapAgrees' BY MapOfInv, MapOfNext
<1>2. TypeOK BY DEF RefInv, OwnInv
<1>3. /\ Slots = 0..(numofnode - 1) /\ Slots' = 0..numofnode /\ numofnode \in Nat
      /\ UNCHANGED heap
    <2>1. /\ arrays \in {"null", "live"} /\ numofnode \in Nat
          /\ arrays = "null" => numofnode = 0
        BY <1>2 DEF AddNew, TypeOK, Usable
    <2>2. numofnode' = numofnode + 1 /\ arrays' = "live" /\ UNCHANGED heap BY DEF AddNew
    <2> QED BY <2>1, <2>2 DEF Slots
<1>4. \A i \in Slots' : /\ nids'[i] = IF i = numofnode THEN id ELSE nids[i]
                        /\ stats'[i] = IF i = numofnode THEN "NORMAL" ELSE stats[i]
                        /\ nodedata'[i] = IF i = numofnode THEN app[v].node ELSE nodedata[i]
    BY <1>3 DEF AddNew, Grown
<1> DEFINE c == DevsOf(app[v].node)
<1>5. Entry(id)' = [stat |-> "NORMAL", devs |-> c]
    <2>1. numofnode \in Slots' /\ nids'[numofnode] = id /\ stats'[numofnode] = "NORMAL"
        BY <1>3, <1>4
    <2>2. nodedata'[numofnode] = app[v].node BY <2>1, <1>4
    <2> QED BY <1>1, <1>3, <2>1, <2>2 DEF MapAgrees, DevsOf
<1>6. ASSUME NEW other \in NodeId \ {id} PROVE Entry(other)' = Entry(other)
    <2>1. CASE NotFound(other)
        <3>1. NotFound(other)' BY <1>3, <1>4, <2>1 DEF NotFound
        <3> QED BY <1>1, <2>1, <3>1, AbsentKept
    <2>2. CASE ~NotFound(other)
        <3>1. PICK j \in Slots : nids[j] = other BY <2>2 DEF NotFound
        <3>2. /\ j \in Slots' /\ nids'[j] = other /\ stats'[j] = stats[j]
              /\ nodedata'[j] = nodedata[j]
            BY <1>3, <1>4, <3>1
        <3>3. DevsOf(nodedata[j])' = DevsOf(nodedata[j]) BY <1>3, <3>2, DevsKept
        <3> QED BY <1>1, <3>1, <3>2, <3>3, EntryKept
    <2> QED BY <2>1, <2>2
<1>7. c \in Content /\ ((c = NoDevices /\ << >> \in GidList) \/ Complete(c))
    BY CarriedDevices DEF AddNew
<1>8. NotFound(id) /\ ret' = "NOERROR" BY DEF AddNew
<1> QED BY <1>1, <1>5, <1>6, <1>7, <1>8, PutStep

(* tp3_updatenset of an id that is there replaces what the map holds.      *)
LEMMA ReplaceRefines ==
    ASSUME Misuse = {}, RefInv, RefInv', NEW v \in Var, NEW id \in NodeId, Replace(v, id)
    PROVE  R!Next
<1>1. MapAgrees /\ MapAgrees' BY MapOfInv, MapOfNext
<1>2. TypeOK /\ Ownership BY DEF RefInv, OwnInv
<1>3. PICK i \in Slots : /\ IsIdx(id, i)
                         /\ heap' = Released({nodedata[i].blk})
                         /\ nodedata' = [nodedata EXCEPT ![i] = app[v].node]
    BY DEF Replace
<1> DEFINE b == nodedata[i].blk
           c == DevsOf(app[v].node)
<1>4. nids[i] = id /\ ~NotFound(id) BY <1>3 DEF IsIdx, NotFound
<1>5. Slots' = Slots /\ UNCHANGED <<nids, stats>> BY DEF Replace, Slots
<1>6. \A d \in Block : d # b => heap'[d] = heap[d] BY <1>3 DEF Released
<1>7. \A j \in Slots' : nodedata'[j] = IF j = i THEN app[v].node ELSE nodedata[j]
    BY <1>2, <1>3, <1>5 DEF TypeOK
<1>8. Owns(v) BY DEF Replace, Offered, Unbuilt, Owns
<1>9. Entry(id) = [stat |-> stats[i], devs |-> DevsOf(nodedata[i])]
    BY <1>1, <1>4 DEF MapAgrees
<1>10. Entry(id)' = [stat |-> stats[i], devs |-> c]
    <2>1. app[v].node.blk = Null \/ heap'[app[v].node.blk] = heap[app[v].node.blk]
        BY <1>2, <1>6, <1>8 DEF Ownership, SameBlock, TypeOK, NodeData
    <2>2. DevsOf(nodedata[i])' = c BY <1>5, <1>7, <2>1 DEF DevsOf
    <2> QED BY <1>1, <1>4, <1>5, <2>2 DEF MapAgrees
<1>11. ASSUME NEW other \in NodeId \ {id} PROVE Entry(other)' = Entry(other)
    <2>1. CASE NotFound(other)
        <3>1. NotFound(other)' BY <1>5, <2>1 DEF NotFound
        <3> QED BY <1>1, <2>1, <3>1, AbsentKept
    <2>2. CASE ~NotFound(other)
        <3>1. PICK j \in Slots : nids[j] = other BY <2>2 DEF NotFound
        <3>2. j # i /\ nodedata'[j] = nodedata[j] BY <1>4, <1>5, <1>7, <3>1
        <3>3. nodedata[j].blk = Null \/ heap'[nodedata[j].blk] = heap[nodedata[j].blk]
            BY <1>2, <1>6, <3>2 DEF Ownership, SameBlock, TypeOK, NodeData
        <3>4. DevsOf(nodedata[j])' = DevsOf(nodedata[j]) BY <3>2, <3>3, DevsKept
        <3> QED BY <1>1, <1>5, <3>1, <3>4, EntryKept
    <2> QED BY <2>1, <2>2
<1>12. c \in Content /\ ((c = NoDevices /\ << >> \in GidList) \/ Complete(c))
    BY CarriedDevices DEF Replace
<1>13. ret' = "NOERROR" BY DEF Replace
<1> QED BY <1>1, <1>4, <1>9, <1>10, <1>11, <1>12, <1>13, PutStep

(* tp3_delnset removes the node, and the one that moves into its slot      *)
(* keeps what it says.                                                     *)
LEMMA DeleteRefines ==
    ASSUME RefInv, RefInv', NEW id \in NodeId, Delete(id)
    PROVE  R!Next
<1>1. MapAgrees /\ MapAgrees' BY MapOfInv, MapOfNext
<1>2. TypeOK /\ Ownership /\ DistinctIds BY DEF RefInv, OwnInv
<1>3. PICK i \in Slots : /\ IsIdx(id, i)
                         /\ nids' = Moved(nids, i) /\ stats' = Moved(stats, i)
                         /\ nodedata' = Moved(nodedata, i)
                         /\ heap' = Released({nodedata[i].blk})
    BY DEF Delete
<1> DEFINE b == nodedata[i].blk
<1>4. nids[i] = id /\ ~NotFound(id) BY <1>3 DEF IsIdx, NotFound
<1>5. /\ Slots = 0..(numofnode - 1) /\ Slots' = 0..(numofnode - 2)
      /\ numofnode \in Nat /\ numofnode > 0
    BY <1>2 DEF Delete, Slots, TypeOK
<1>6. \A j \in Slots' : LET k == IF j = i THEN numofnode - 1 ELSE j IN
        /\ k \in Slots /\ k # i
        /\ nids'[j] = nids[k] /\ stats'[j] = stats[k] /\ nodedata'[j] = nodedata[k]
    BY <1>3, <1>5 DEF Moved
<1>7. \A d \in Block : d # b => heap'[d] = heap[d] BY <1>3 DEF Released
<1>8. Entry(id)' = Absent
    <2>1. NotFound(id)' BY <1>2, <1>4, <1>6 DEF NotFound, DistinctIds
    <2> QED BY <1>1, <2>1 DEF MapAgrees
<1>9. ASSUME NEW other \in NodeId \ {id} PROVE Entry(other)' = Entry(other)
    <2>1. CASE NotFound(other)
        <3>1. NotFound(other)' BY <1>6, <2>1 DEF NotFound
        <3> QED BY <1>1, <2>1, <3>1, AbsentKept
    <2>2. CASE ~NotFound(other)
        <3>1. PICK k \in Slots : nids[k] = other BY <2>2 DEF NotFound
        <3>2. k # i BY <1>4, <3>1
        <3>3. PICK j \in Slots' : /\ nids'[j] = nids[k] /\ stats'[j] = stats[k]
                                  /\ nodedata'[j] = nodedata[k]
            <4>1. CASE k = numofnode - 1
                <5>1. i \in Slots' BY <1>5, <3>2, <4>1
                <5> QED BY <1>6, <4>1, <5>1
            <4>2. CASE k # numofnode - 1
                <5>1. k \in Slots' BY <1>5, <4>2
                <5> QED BY <1>6, <3>2, <5>1
            <4> QED BY <4>1, <4>2
        <3>4. nodedata[k].blk = Null \/ heap'[nodedata[k].blk] = heap[nodedata[k].blk]
            BY <1>2, <1>7, <3>2 DEF Ownership, SameBlock, TypeOK, NodeData
        <3>5. DevsOf(nodedata[j])' = DevsOf(nodedata[k]) BY <3>3, <3>4, DevsKept
        <3> QED BY <1>1, <3>1, <3>3, <3>5, EntryKept
    <2> QED BY <2>1, <2>2
<1>10. ret' = "NOERROR" BY DEF Delete
<1> QED BY <1>1, <1>4, <1>8, <1>9, <1>10, RemoveStep

(* tp3_setnodestat changes the status of one node.                         *)
LEMMA SetNodeStatRefines ==
    ASSUME RefInv, RefInv', NEW id \in NodeId, NEW s \in NodeStat, SetNodeStat(id, s)
    PROVE  R!Next
<1>1. MapAgrees /\ MapAgrees' BY MapOfInv, MapOfNext
<1>2. TypeOK BY DEF RefInv, OwnInv
<1>3. PICK i \in Slots : IsIdx(id, i) /\ stats' = [stats EXCEPT ![i] = s] BY DEF SetNodeStat
<1>4. nids[i] = id /\ ~NotFound(id) BY <1>3 DEF IsIdx, NotFound
<1>5. Slots' = Slots /\ UNCHANGED <<nids, nodedata, heap>> BY DEF SetNodeStat, Slots
<1>6. \A j \in Slots : stats'[j] = IF j = i THEN s ELSE stats[j] BY <1>2, <1>3 DEF TypeOK
<1>7. \A j \in Slots : DevsOf(nodedata[j])' = DevsOf(nodedata[j]) BY <1>5, DevsKept
<1>8. Entry(id)' = [Entry(id) EXCEPT !.stat = s]
    BY <1>1, <1>4, <1>5, <1>6, <1>7 DEF MapAgrees
<1>9. ASSUME NEW other \in NodeId \ {id} PROVE Entry(other)' = Entry(other)
    <2>1. CASE NotFound(other)
        <3>1. NotFound(other)' BY <1>5, <2>1 DEF NotFound
        <3> QED BY <1>1, <2>1, <3>1, AbsentKept
    <2>2. CASE ~NotFound(other)
        <3>1. PICK j \in Slots : nids[j] = other BY <2>2 DEF NotFound
        <3>2. j # i BY <1>4, <3>1
        <3> QED BY <1>1, <1>5, <1>6, <1>7, <3>1, <3>2, EntryKept
    <2> QED BY <2>1, <2>2
<1>10. ret' = "NOERROR" BY DEF SetNodeStat
<1> QED BY <1>1, <1>4, <1>8, <1>9, <1>10, SetStatStep

(* A set without slots is an empty map.                                    *)
LEMMA EmptiedRefines ==
    ASSUME RefInv', Slots' = {}, ret' = "NOERROR"
    PROVE  R!Next
<1>1. \A id \in NodeId : NotFound(id)' BY DEF NotFound
<1>2. \A id \in NodeId : Entry(id)' = Absent BY <1>1, MapOfNext DEF MapAgrees
<1> QED BY <1>2, ClearStep

LEMMA StepRefines ==
    ASSUME Misuse = {}, "set" \notin AllocFails
    PROVE  RefInv /\ RefInv' /\ [Next]_vars =>
               R!Next \/ UNCHANGED <<[id \in NodeId |-> Entry(id)], ret>>
<1> SUFFICES ASSUME RefInv, RefInv', [Next]_vars
             PROVE  R!Next \/ UNCHANGED <<[id \in NodeId |-> Entry(id)], ret>>
    OBVIOUS
<1>1. MapAgrees BY MapOfInv
<1>2. TypeOK /\ Ownership BY DEF RefInv, OwnInv
<1>3. ASSUME NEW v \in Var, NEW gids \in GidList, NEW t \in DevType, InitNode(v, gids, t)
      PROVE  R!Next
    <2>1. UNCHANGED nset /\ ret' = "NOERROR" BY <1>3 DEF InitNode
    <2>2. \A b \in Block : heap[b] # Free => heap'[b] = heap[b]
        BY <1>2, <1>3 DEF InitNode, TypeOK
    <2>3. \A i \in Slots : nodedata[i].blk = Null \/ heap'[nodedata[i].blk] = heap[nodedata[i].blk]
        BY <1>2, <2>2 DEF Ownership, Valid, TypeOK, NodeData
    <2> QED BY <1>1, <2>1, <2>3, AppStep
<1>4. ASSUME UNCHANGED <<nset, heap>>,
             ret' \in {"NOERROR", "NOT_FOUND_DEVID", "NOT_PROPER_DEVTYPE", "MEMORY_ALLOCATION_FAIL"}
      PROVE  R!Next
    BY <1>1, <1>4, AppStep
<1>5. ASSUME NEW v \in Var, ReleaseNode(v)
      PROVE  R!Next
    <2>1. UNCHANGED nset /\ ret' = "NOERROR" BY <1>5 DEF ReleaseNode
    <2>2. \A b \in Block : b # app[v].node.blk => heap'[b] = heap[b]
        BY <1>5 DEF ReleaseNode, Released
    <2>3. Owns(v) BY <1>5 DEF ReleaseNode, Unbuilt, Owns
    <2>4. \A i \in Slots : nodedata[i].blk = Null \/ heap'[nodedata[i].blk] = heap[nodedata[i].blk]
        BY <1>2, <2>2, <2>3 DEF Ownership, SameBlock, TypeOK, NodeData
    <2> QED BY <1>1, <2>1, <2>4, AppStep
<1>6. ASSUME NEW v \in Var, NEW id \in NodeId, AddExisting(v, id)
      PROVE  R!Next
    <2>1. UNCHANGED <<nset, heap>> /\ ret' = "EXIST_NODEID" /\ ~NotFound(id)
        BY <1>6 DEF AddExisting, IsIdx, NotFound
    <2>2. \A x \in NodeId : Entry(x)' = Entry(x) BY <2>1, MapKept DEF nset
    <2> QED BY <1>1, <2>1, <2>2, RefuseStep
<1>7. ASSUME NEW id \in NodeId, Unknown(id)
      PROVE  R!Next
    <2>1. UNCHANGED <<nset, heap>> /\ ret' = "NOT_FOUND_NODEID" /\ NotFound(id)
        BY <1>7 DEF Unknown
    <2>2. \A x \in NodeId : Entry(x)' = Entry(x) BY <2>1, MapKept DEF nset
    <2> QED BY <1>1, <2>1, <2>2, RefuseStep
<1>8. CASE ReleaseNset
    <2>1. Slots' = {} /\ ret' = "NOERROR"
        BY <1>2, <1>8 DEF ReleaseNset, Slots, Usable, TypeOK
    <2> QED BY <2>1, EmptiedRefines
<1>9. CASE InitNset
    <2>1. Slots' = {} /\ ret' = "NOERROR" BY <1>9 DEF InitNset, Slots
    <2> QED BY <2>1, EmptiedRefines
<1>10. CASE UNCHANGED vars
    <2>1. \A id \in NodeId : Entry(id)' = Entry(id) BY <1>10, MapKept DEF vars
    <2> QED BY <1>10, <2>1 DEF vars
<1>11. ASSUME NEW v \in Var, NEW gids \in GidList, NEW t \in DevType, InitNodeFail(v, gids, t)
       PROVE  R!Next
    BY <1>2, <1>4, <1>11, FailedInit
<1>12. ASSUME NEW v \in Var, NEW t \in DevType, InitNodeBadType(v, t)
       PROVE  R!Next
    BY <1>4, <1>12 DEF InitNodeBadType
<1>13. ASSUME NEW v \in Var, NEW id \in NodeId PROVE ~AddFail(v, id)
    BY DEF AddFail
<1>14. ~CallInvalid BY DEF CallInvalid
<1> HIDE DEF R!Next
<1> QED BY <1>3, <1>5, <1>6, <1>7, <1>8, <1>9, <1>10, <1>11, <1>12, <1>13, <1>14,
           SetDeviceRefines, AddNewRefines, ReplaceRefines, DeleteRefines, SetNodeStatRefines
        DEF Next

(* An application that keeps to the protocol, on a set whose arrays can    *)
(* always grow, sees a map from node identifiers to statuses and devices:  *)
(* replacing keeps a node's status, deleting one node disturbs no other, a *)
(* refused call changes nothing, and every status code names a true reason.*)
THEOREM RegistryImplemented ==
    ASSUME Misuse = {}, "set" \notin AllocFails
    PROVE  Spec => ImplementsRegistry
<1>1. Init => R!Init
    <2>1. SUFFICES ASSUME Init PROVE R!Init
        OBVIOUS
    <2>2. \A id \in NodeId : Entry(id) = Absent BY <2>1 DEF Init, Slots, NotFound, Entry
    <2> QED BY <2>1, <2>2 DEF Init, R!Init
<1>2. Init => RefInv
    BY InitType, InitOwn, InitWellFormed DEF RefInv, OwnInv, Init, DistinctIds, Slots
<1>3. RefInv /\ [Next]_vars => RefInv'
    BY NextType, NextOwn, NextDistinct, NextWellFormed DEF RefInv, OwnInv
<1>4. RefInv /\ RefInv' /\ [Next]_vars => [R!Next]_(R!vars)
    BY StepRefines DEF R!vars
<1> QED BY <1>1, <1>2, <1>3, <1>4, PTL DEF Spec, ImplementsRegistry, R!Spec

-----------------------------------------------------------------------------
(* The number of devices *)

Counts == [i \in Slots |-> nodedata[i].numofdev]

(* DevsBefore sums up the devices, slot by slot. *)
Summed == /\ Counts \in [Slots -> Nat]
          /\ RunningSum(DevsBefore, Counts, numofnode)

LEMMA DevsSummed == TypeOK /\ arrays # "invalid" => Summed
<1> SUFFICES ASSUME TypeOK, arrays # "invalid" PROVE Summed
    OBVIOUS
<1>1. numofnode \in Nat /\ Slots = 0..(numofnode - 1)
    BY DEF TypeOK, Slots
<1>2. Counts \in [Slots -> Nat] /\ \A i \in Slots : Counts[i] = nodedata[i].numofdev
    BY DEF Counts, TypeOK, NodeData
<1> DEFINE D == [p \in Nat \X Int |-> IF p[1] - 1 \in Slots THEN p[2] + Counts[p[1] - 1] ELSE 0]
<1>3. D \in [Nat \X Int -> Int] BY <1>2
<1>4. \A i \in 1..numofnode, x \in Int : D[<<i, x>>] = x + Counts[i - 1]
    <2>1. ASSUME NEW i \in 1..numofnode, NEW x \in Int PROVE D[<<i, x>>] = x + Counts[i - 1]
        <3>1. <<i, x>> \in Nat \X Int /\ i - 1 \in Slots BY <1>1
        <3> QED BY <3>1
    <2> QED BY <2>1
<1> HIDE DEF D
<1>5. PICK g \in [0..numofnode -> Int] : Follows(g, 0, D, numofnode)
    <2>1. 0 \in Int OBVIOUS
    <2> QED BY <1>1, <1>3, <2>1, RecursiveExists, Zenon
<1>6. g = [i \in 0..numofnode |-> IF i = 0 THEN 0 ELSE g[i - 1] + nodedata[i - 1].numofdev]
    <2>1. ASSUME NEW i \in 0..numofnode, i # 0
          PROVE  g[i] = g[i - 1] + nodedata[i - 1].numofdev
        <3>1. i \in 1..numofnode /\ i - 1 \in Slots /\ i - 1 \in 0..numofnode BY <1>1, <2>1
        <3>2. g[i] = D[<<i, g[i - 1]>>] BY <1>5, <3>1 DEF Follows
        <3> QED BY <1>2, <1>4, <3>1, <3>2
    <2>2. g[0] = 0 BY <1>5 DEF Follows
    <2>3. g = [i \in 0..numofnode |-> g[i]] OBVIOUS
    <2> QED BY <2>1, <2>2, <2>3
<1>7. DevsBefore = [i \in 0..numofnode |->
                      IF i = 0 THEN 0 ELSE DevsBefore[i - 1] + nodedata[i - 1].numofdev]
    BY <1>6, Zenon DEF DevsBefore
<1>8. \A i \in 1..numofnode : i \in 0..numofnode /\ i # 0 /\ i - 1 \in Slots BY <1>1
<1>9. 0 \in 0..numofnode BY <1>1
<1>10. /\ DevsBefore[0] = 0
       /\ \A i \in 1..numofnode : DevsBefore[i] = DevsBefore[i - 1] + Counts[i - 1]
    BY <1>2, <1>7, <1>8, <1>9
<1>11. DevsBefore \in [0..numofnode -> Int]
    <2> DEFINE S == {k \in Nat : k \in 0..numofnode => DevsBefore[k] \in Int}
    <2>1. 0 \in S BY <1>10
    <2>2. ASSUME NEW k \in Nat, k \in S PROVE k + 1 \in S
        <3>1. k + 1 \in 0..numofnode =>
                 k \in 0..numofnode /\ k + 1 \in 1..numofnode /\ (k + 1) - 1 = k /\ k \in Slots
            BY <1>1
        <3> QED BY <1>2, <1>10, <2>2, <3>1
    <2> HIDE DEF S
    <2>3. Nat \subseteq S BY <2>1, <2>2, SetInduction
    <2> USE DEF S
    <2>4. \A k \in 0..numofnode : DevsBefore[k] \in Int BY <1>1, <2>3
    <2> QED BY <1>7, <2>4
<1> QED BY <1>2, <1>10, <1>11 DEF Summed, RunningSum

LEMMA DevsSummedNext == TypeOK' /\ (arrays # "invalid")' => Summed'
BY DevsSummed, PTL

(* With one element replaced, or none (i past the end), in the first m     *)
(* slots, the sums of the next state are the old ones plus the difference. *)
LEMMA SumsOfStep ==
    ASSUME Summed, Summed', numofnode \in Nat, numofnode' \in Nat,
           Slots = 0..(numofnode - 1), Slots' = 0..(numofnode' - 1),
           NEW m \in Nat, m <= numofnode, m <= numofnode', NEW i \in Nat,
           \A k \in 0..(m - 1) : k # i => nodedata'[k] = nodedata[k]
    PROVE  \A k \in 0..m : DevsBefore'[k] = IF i < k THEN DevsBefore[k] + (Counts'[i] - Counts[i])
                                            ELSE DevsBefore[k]
<1>1. PICK a, b, s, t : a = Counts /\ b = Counts' /\ s = DevsBefore /\ t = DevsBefore'
    OBVIOUS
<1>2. \A k \in 0..(m - 1) : k \in Slots /\ k \in Slots'
    <2>1. \A n \in Nat : m <= n => \A k \in 0..(m - 1) : k \in 0..(n - 1) OBVIOUS
    <2> QED BY <2>1
<1>3. \A k \in 0..(m - 1) : a[k] = nodedata[k].numofdev /\ b[k] = nodedata'[k].numofdev
    BY <1>1, <1>2 DEF Counts
<1>4. \A k \in 0..(m - 1) : a[k] \in Int /\ b[k] \in Int
    <2>1. a \in [Slots -> Nat] /\ b \in [Slots' -> Nat] BY <1>1 DEF Summed
    <2>2. ASSUME NEW k \in 0..(m - 1) PROVE a[k] \in Int /\ b[k] \in Int
        <3>1. k \in Slots /\ k \in Slots' BY <1>2, Zenon
        <3>2. a[k] \in Nat BY <2>1, <3>1, Zenon
        <3>3. b[k] \in Nat BY <2>1, <3>1, Zenon
        <3> QED BY <3>2, <3>3
    <2> QED BY <2>2, Zenon
<1>5. \A k \in 0..(m - 1) : k # i => b[k] = a[k]
    BY <1>3
<1>6. RunningSum(s, a, m) /\ RunningSum(t, b, m)
    BY <1>1, SumPrefix DEF Summed
<1>7. SameBut(b, a, i, m) BY <1>4, <1>5, Zenon DEF SameBut
<1>8. OffBy(t, s, b[i] - a[i], i, m) BY <1>6, <1>7, SumReplace
<1> QED BY <1>1, <1>8 DEF OffBy

DevInv == /\ arrays = "live" => numofdev = DevsBefore[numofnode]
          /\ arrays = "null" => numofdev = 0

LEMMA DevFrame ==
    ASSUME DevInv, UNCHANGED <<nodedata, numofnode, numofdev, arrays>>
    PROVE  DevInv'
BY DEF DevInv, DevsBefore

LEMMA NextDev == TypeOK /\ TypeOK' /\ DevInv /\ [Next]_vars => DevInv'
<1> SUFFICES ASSUME TypeOK, TypeOK', DevInv, [Next]_vars PROVE DevInv'
    OBVIOUS
<1>1. numofnode \in Nat /\ numofnode' \in Nat BY DEF TypeOK
<1>2. ASSUME NEW v \in Var, NEW id \in NodeId, AddNew(v, id)
      PROVE  DevInv'
    <2>1. /\ arrays \in {"null", "live"} /\ arrays' = "live" /\ numofnode' = numofnode + 1
          /\ numofdev' = numofdev + app[v].node.numofdev
          /\ nodedata' = Grown(nodedata, app[v].node)
        BY <1>2 DEF AddNew, TypeOK, Usable
    <2>2. Slots = 0..(numofnode - 1) /\ Slots' = 0..numofnode
        <3>1. arrays = "null" => numofnode = 0 BY DEF TypeOK
        <3> QED BY <1>1, <2>1, <3>1 DEF Slots
    <2>3. \A k \in 0..numofnode : nodedata'[k] = IF k = numofnode THEN app[v].node ELSE nodedata[k]
        BY <2>1 DEF Grown
    <2>4. Summed /\ Summed' BY <2>1, DevsSummed, DevsSummedNext
    <2>5. numofnode' - 1 = numofnode /\ numofnode \in 0..numofnode /\ numofnode' \in 1..numofnode'
        BY <1>1, <2>1
    <2>6. DevsBefore'[numofnode] = DevsBefore[numofnode]
        <3>1. \A k \in 0..(numofnode - 1) : nodedata'[k] = nodedata[k]
            <4>1. \A k \in 0..(numofnode - 1) : k \in 0..numofnode /\ k # numofnode BY <1>1
            <4> QED BY <2>3, <4>1
        <3>2. Slots' = 0..(numofnode' - 1) BY <2>2, <2>5
        <3>3. numofnode <= numofnode /\ numofnode <= numofnode' BY <1>1, <2>1
        <3>4. \A k \in 0..numofnode :
                 DevsBefore'[k] = IF numofnode < k THEN DevsBefore[k] + (Counts'[numofnode] - Counts[numofnode])
                                  ELSE DevsBefore[k]
            BY <1>1, <2>2, <2>4, <3>1, <3>2, <3>3, SumsOfStep
        <3>5. ~(numofnode < numofnode) BY <1>1
        <3> QED BY <2>5, <3>4, <3>5
    <2>7. DevsBefore'[numofnode'] = DevsBefore'[numofnode] + app[v].node.numofdev
        <3>1. Counts'[numofnode] = app[v].node.numofdev
            BY <2>2, <2>3, <2>5 DEF Counts
        <3>2. DevsBefore'[numofnode'] = DevsBefore'[numofnode' - 1] + Counts'[numofnode' - 1]
            BY <2>4, <2>5 DEF Summed, RunningSum
        <3> QED BY <2>5, <3>1, <3>2
    <2>8. numofdev = DevsBefore[numofnode]
        <3>1. arrays = "null" => numofnode = 0 BY DEF TypeOK
        <3>2. DevsBefore[0] = 0 BY <2>4 DEF Summed, RunningSum
        <3> QED BY <2>1, <3>1, <3>2 DEF DevInv
    <2> QED BY <2>1, <2>6, <2>7, <2>8 DEF DevInv
<1>3. ASSUME NEW v \in Var, NEW id \in NodeId, Replace(v, id)
      PROVE  DevInv'
    <2>1. PICK i \in Slots : /\ numofdev' = Recounted(app[v].node, nodedata[i])
                             /\ nodedata' = [nodedata EXCEPT ![i] = app[v].node]
        BY <1>3 DEF Replace
    <2>2. UNCHANGED <<numofnode, arrays>> BY <1>3 DEF Replace
    <2>3. arrays = "live" /\ Slots = 0..(numofnode - 1) /\ Slots' = 0..(numofnode' - 1)
        BY <2>1, <2>2 DEF Slots
    <2>4. Summed /\ Summed' BY <2>2, <2>3, DevsSummed, DevsSummedNext
    <2>5. \A k \in Slots : nodedata'[k] = IF k = i THEN app[v].node ELSE nodedata[k]
        BY <2>1 DEF TypeOK
    <2>6. Counts'[i] = app[v].node.numofdev /\ Counts[i] = nodedata[i].numofdev
        BY <2>2, <2>3, <2>5 DEF Counts
    <2>7. \A k \in 0..numofnode :
             DevsBefore'[k] = IF i < k THEN DevsBefore[k] + (Counts'[i] - Counts[i]) ELSE DevsBefore[k]
        <3>1. \A k \in 0..(numofnode - 1) : k # i => nodedata'[k] = nodedata[k] BY <2>3, <2>5
        <3>2. i \in Nat /\ numofnode <= numofnode /\ numofnode <= numofnode' BY <1>1, <2>2, <2>3
        <3> QED BY <1>1, <2>3, <2>4, <3>1, <3>2, SumsOfStep
    <2>8. numofnode \in 0..numofnode /\ i < numofnode BY <1>1, <2>3
    <2>9. DevsBefore'[numofnode] = numofdev + (app[v].node.numofdev - nodedata[i].numofdev)
        BY <2>3, <2>6, <2>7, <2>8 DEF DevInv
    <2> QED BY <2>1, <2>2, <2>3, <2>9 DEF DevInv, Recounted
<1>4. ASSUME NEW id \in NodeId, Delete(id)
      PROVE  DevInv'
    <2>1. PICK i \in Slots : /\ numofdev' = numofdev - nodedata[i].numofdev
                             /\ nodedata' = Moved(nodedata, i)
        BY <1>4 DEF Delete
    <2>2. numofnode' = numofnode - 1 /\ UNCHANGED arrays BY <1>4 DEF Delete
    <2>3. arrays = "live" /\ Slots = 0..(numofnode - 1) /\ Slots' = 0..(numofnode' - 1)
        BY <2>1, <2>2 DEF Slots
    <2>4. Summed /\ Summed' BY <2>2, <2>3, DevsSummed, DevsSummedNext
    <2> DEFINE m == numofnode - 1
    <2>5. /\ m \in Nat /\ m \in Slots /\ m \in 0..m /\ numofnode' = m /\ m <= numofnode
          /\ m <= numofnode' /\ numofnode - 2 = m - 1 /\ numofnode \in 1..numofnode
          /\ i \in Nat /\ i <= m
        BY <1>1, <2>1, <2>2, <2>3
    <2>6. \A k \in 0..(m - 1) : nodedata'[k] = IF k = i THEN nodedata[m] ELSE nodedata[k]
        BY <2>1, <2>5 DEF Moved
    <2>7. DevsBefore[numofnode] = DevsBefore[m] + nodedata[m].numofdev
        <3>1. Counts[m] = nodedata[m].numofdev BY <2>5 DEF Counts
        <3>2. DevsBefore[numofnode] = DevsBefore[numofnode - 1] + Counts[numofnode - 1]
            BY <2>4, <2>5 DEF Summed, RunningSum
        <3> QED BY <3>1, <3>2
    <2> HIDE DEF m
    <2>8. \A k \in 0..m :
             DevsBefore'[k] = IF i < k THEN DevsBefore[k] + (Counts'[i] - Counts[i]) ELSE DevsBefore[k]
        BY <1>1, <2>3, <2>4, <2>5, <2>6, SumsOfStep
    <2>9. DevsBefore[m] \in Int /\ nodedata[m].numofdev \in Int /\ nodedata[i].numofdev \in Int
        <3>1. m \in 0..numofnode BY <1>1, <2>5
        <3>2. DevsBefore[m] \in Int BY <2>4, <3>1 DEF Summed, RunningSum
        <3> QED BY <2>5, <3>2 DEF TypeOK, NodeData
    <2>10. DevsBefore'[m] = (DevsBefore[m] + nodedata[m].numofdev) - nodedata[i].numofdev
        <3>1. CASE i = m
            <4>1. ~(i < m) BY <2>5, <3>1
            <4> QED BY <2>5, <2>8, <2>9, <3>1, <4>1
        <3>2. CASE i < m
            <4>1. i \in 0..(m - 1) /\ i \in Slots' BY <2>3, <2>5, <3>2
            <4>2. Counts'[i] = nodedata[m].numofdev /\ Counts[i] = nodedata[i].numofdev
                BY <2>6, <4>1 DEF Counts
            <4> QED BY <2>5, <2>8, <2>9, <3>2, <4>2
        <3> QED BY <2>5, <3>1, <3>2
    <2> QED BY <2>1, <2>2, <2>3, <2>5, <2>7, <2>10 DEF DevInv
<1>5. CASE UNCHANGED <<nodedata, numofnode, numofdev, arrays>>
    BY <1>5, DevFrame
<1>6. ASSUME NEW v \in Var, NEW id \in NodeId, AddFail(v, id)
      PROVE  DevInv'
    BY <1>6 DEF AddFail, DevInv
<1>7. CASE ReleaseNset
    BY <1>7 DEF ReleaseNset, DevInv, Usable, TypeOK
<1>8. CASE InitNset
    BY <1>8 DEF InitNset, DevInv
<1>9. ASSUME NEW v \in Var, NEW gids \in GidList, NEW t \in DevType,
             InitNode(v, gids, t) \/ InitNodeFail(v, gids, t)
      PROVE  DevInv'
    BY <1>5, <1>9 DEF InitNode, InitNodeFail, nset
<1>10. ASSUME NEW v \in Var, NEW t \in DevType, InitNodeBadType(v, t)
       PROVE  DevInv'
    BY <1>5, <1>10, SMTT(40) DEF InitNodeBadType, nset
<1>11. ASSUME NEW v \in Var, ReleaseNode(v) \/ \E gid \in Gid : SetDevice(v, gid)
       PROVE  DevInv'
    BY <1>5, <1>11 DEF ReleaseNode, SetDevice, nset
<1>12. ASSUME NEW v \in Var, NEW id \in NodeId, AddExisting(v, id)
       PROVE  DevInv'
    BY <1>5, <1>12 DEF AddExisting, nset
<1>13. ASSUME NEW id \in NodeId, Unknown(id) \/ \E s \in NodeStat : SetNodeStat(id, s)
       PROVE  DevInv'
    BY <1>5, <1>13 DEF Unknown, SetNodeStat, nset
<1>14. CASE CallInvalid \/ UNCHANGED vars
    BY <1>5, <1>14 DEF CallInvalid, nset, vars
<1> QED BY <1>2, <1>3, <1>4, <1>6, <1>7, <1>8, <1>9, <1>10, <1>11, <1>12, <1>13, <1>14 DEF Next

LEMMA InitDev == Init => DevInv
BY DEF Init, DevInv

(* A set always counts as many devices as its nodes have, whatever was     *)
(* added, replaced and deleted before, whatever the application does       *)
(* outside the protocol and whichever allocation fails.                    *)
THEOREM DevicesCounted == Spec => []DevCount
<1>1. DevInv => DevCount BY DEF DevInv, DevCount
<1>2. TypeOK /\ DevInv /\ [Next]_vars => TypeOK' /\ DevInv' BY NextType, NextDev
<1> QED BY <1>1, <1>2, InitType, InitDev, PTL DEF Spec

-----------------------------------------------------------------------------
(* The walk over the devices *)

Moves(c) == IF c.node \notin Slots THEN c
            ELSE IF c.dev + 1 = nodedata[c.node].numofdev
            THEN [node |-> c.node + 1, dev |-> 0]
            ELSE [c EXCEPT !.dev = @ + 1]

LEMMA CursorWalks ==
    ASSUME TypeOK, arrays # "invalid", numofdev \in Nat
    PROVE  Walk(Cursor, Counts, numofnode, numofdev)
<1> DEFINE T == [node : Nat, dev : Nat]
           c0 == [node |-> 0, dev |-> 0]
           D == [p \in Nat \X T |-> Moves(p[2])]
<1>1. numofnode \in Nat /\ Slots = 0..(numofnode - 1)
    BY DEF TypeOK, Slots
<1>2. \A c \in T : Moves(c) \in T BY DEF Moves
<1>3. c0 \in T /\ D \in [Nat \X T -> T] BY <1>2
<1>4. \A k \in 1..numofdev, c \in T : D[<<k, c>>] = Moves(c)
    <2>1. ASSUME NEW k \in 1..numofdev, NEW c \in T PROVE D[<<k, c>>] = Moves(c)
        <3>1. <<k, c>> \in Nat \X T OBVIOUS
        <3> QED BY <3>1
    <2> QED BY <2>1
<1> HIDE DEF D, T
<1>5. PICK g \in [0..numofdev -> T] : Follows(g, c0, D, numofdev)
    BY <1>3, RecursiveExists, Zenon
<1>6. g[0] = c0 /\ \A k \in 1..numofdev : g[k] = Moves(g[k - 1])
    <2>1. ASSUME NEW k \in 1..numofdev PROVE g[k] = Moves(g[k - 1])
        <3>1. k - 1 \in 0..numofdev OBVIOUS
        <3> QED BY <1>4, <1>5, <3>1 DEF Follows
    <2> QED BY <1>5, <2>1 DEF Follows
<1> DEFINE Body(at) == [k \in 0..numofdev |->
                IF k = 0 THEN [node |-> 0, dev |-> 0]
                ELSE LET c == at[k - 1] IN
                     IF c.node \notin Slots THEN c
                     ELSE IF c.dev + 1 = nodedata[c.node].numofdev
                     THEN [node |-> c.node + 1, dev |-> 0]
                     ELSE [c EXCEPT !.dev = @ + 1]]
<1>7. g = Body(g)
    <2>1. \A k \in 0..numofdev : k # 0 => k \in 1..numofdev OBVIOUS
    <2> QED BY <1>5, <1>6, <2>1 DEF Moves
<1>8. Cursor = Body(Cursor)
    BY <1>7, Zenon DEF Cursor
<1>9. Cursor[0] = c0 /\ \A k \in 1..numofdev : Cursor[k] = Moves(Cursor[k - 1])
    <2>1. \A k \in 0..numofdev : Cursor[k] = Body(Cursor)[k] BY <1>8, Zenon
    <2>2. 0 \in 0..numofdev /\ \A k \in 1..numofdev : k \in 0..numofdev /\ k # 0
        OBVIOUS
    <2> QED BY <2>1, <2>2 DEF Moves
<1>10. \A i \in Slots : Counts[i] = nodedata[i].numofdev BY DEF Counts
<1> QED BY <1>1, <1>9, <1>10 DEF Walk, Moves

-----------------------------------------------------------------------------
(* What is read from a report *)

ExportInv == TypeOK /\ DistinctIds /\ WellFormed /\ DevInv

(* The block of a slot's node, and what it shares with the registry. *)
Carried(i) == heap[nodedata[i].blk]
Shown(i) ==
    /\ nids[i] \in NodeId /\ Entry(nids[i]) = [stat |-> stats[i], devs |-> Carried(i)]
    /\ nodedata[i].blk # Null /\ Carried(i) \in Content
    /\ nodedata[i].numofdev \in Nat \ {0}
    /\ \A field \in DeviceField : Len(Carried(i)[field]) = nodedata[i].numofdev

LEMMA SlotsShown ==
    ASSUME << >> \notin GidList, ExportInv, Exporting, NEW i \in Slots
    PROVE  Shown(i)
<1> USE DEF ExportInv, Exporting
<1>1. nids[i] \in NodeId /\ nodedata[i] \in NodeData BY DEF TypeOK
<1>2. nodedata[i].blk # Null /\ nodedata[i].blk \in Block
    BY <1>1 DEF WellFormed, Described, Ownership, Valid, NodeData
<1>3. heap[nodedata[i].blk] # Free /\ Len(Carried(i).gids) = nodedata[i].numofdev
    BY <1>2 DEF Ownership, Valid, Carried
<1>4. Carried(i) \in Content /\ Complete(Carried(i))
    BY <1>2, <1>3 DEF TypeOK, WellFormed, Carried
<1>5. Entry(nids[i]) = [stat |-> stats[i], devs |-> Carried(i)]
    BY <1>1, <1>2, MapOfSlots DEF MapAgrees, DevsOf, Carried
<1>6. \A f \in DeviceField : Len(Carried(i)[f]) = nodedata[i].numofdev
    <2>1. PICK c : c = Carried(i) OBVIOUS
    <2>2. c.gids \in Seq(Gid) /\ c.stats \in Seq(DevStat) /\ c.envs \in Seq(Env)
        BY <1>4, <2>1 DEF Content
    <2>3. DOMAIN c.stats = DOMAIN c.gids /\ DOMAIN c.envs = DOMAIN c.gids
        BY <1>4, <2>1 DEF Complete
    <2>4. Len(c.stats) = Len(c.gids) /\ Len(c.envs) = Len(c.gids)
        BY <2>2, <2>3, LenProperties
    <2> QED BY <1>3, <2>1, <2>4 DEF DeviceField
<1>7. nodedata[i].numofdev \in Nat \ {0}
    <2>1. PICK g : g = Carried(i).gids OBVIOUS
    <2>2. g \in Seq(Gid) /\ g # << >> BY <1>4, <2>1 DEF Content, Complete
    <2>3. Len(g) \in Nat \ {0} BY <2>2, LenProperties, EmptySeq
    <2> QED BY <1>3, <2>1, <2>3
<1> QED BY <1>1, <1>2, <1>4, <1>5, <1>6, <1>7 DEF Shown

(* The walk reads the registry's devices, node after node, each once.      *)
LEMMA DevicesRead ==
    ASSUME << >> \notin GidList, ExportInv, Exporting, NEW field \in DeviceField
    PROVE  /\ numofdev \in Nat
           /\ (\E X : Devices(field) \in Seq(X)) /\ Len(Devices(field)) = numofdev
           /\ numofdev > 0 => DeviceArray(field) = Devices(field)
<1> USE DEF ExportInv, Exporting
<1>1. numofnode \in Nat /\ Slots = 0..(numofnode - 1) BY DEF TypeOK, Slots
<1>2. \A i \in Slots : Shown(i) BY SlotsShown
<1>3. RunningSum(DevsBefore, Counts, numofnode) BY DevsSummed DEF Summed
<1>4. \A i \in Slots : Counts[i] = nodedata[i].numofdev BY DEF Counts
<1>5. \A i \in 0..(numofnode - 1) : Counts[i] \in Nat \ {0} BY <1>1, <1>2, <1>4 DEF Shown
<1>6. \A k \in 0..numofnode : DevsBefore[k] \in Nat
    <2>1. \A i \in 0..(numofnode - 1) : Counts[i] \in Nat BY <1>5
    <2> QED BY <1>1, <1>3, <2>1, SumNat
<1>7. numofdev = DevsBefore[numofnode] /\ numofdev \in Nat
    <2>1. arrays = "null" => numofnode = 0 BY DEF TypeOK
    <2>2. DevsBefore[0] = 0 BY <1>3 DEF RunningSum
    <2>3. numofnode \in 0..numofnode BY <1>1
    <2>4. arrays \in {"null", "live", "invalid"} BY DEF TypeOK
    <2> QED BY <1>6, <2>1, <2>2, <2>3, <2>4 DEF DevInv
<1> DEFINE ss == [k \in 1..numofnode |-> Entry(nids[k - 1]).devs[field]]
<1>8. PICK X : \A c \in Content : c[field] \in Seq(X)
    BY DEF Content, DeviceField
<1>9. ASSUME NEW k \in 1..numofnode
      PROVE  /\ ss[k] = Carried(k - 1)[field] /\ ss[k] \in Seq(X)
             /\ Len(ss[k]) = Counts[k - 1]
    <2>1. k - 1 \in Slots BY <1>1
    <2>2. Shown(k - 1) BY <1>2, <2>1
    <2>3. Entry(nids[k - 1]).devs = Carried(k - 1) BY <2>2 DEF Shown
    <2>4. ss[k] = Carried(k - 1)[field] BY <2>3
    <2> QED BY <1>4, <1>8, <2>1, <2>2, <2>4 DEF Shown
<1>10. ss \in [1..numofnode -> Seq(X)] BY <1>9
<1>11. Devices(field) = FlattenSeq(ss) BY DEF Devices
<1> HIDE DEF ss
<1>12. PICK s \in [0..numofnode -> Nat] : \A k \in 0..numofnode : s[k] = DevsBefore[k]
    <2>1. [k \in 0..numofnode |-> DevsBefore[k]] \in [0..numofnode -> Nat] BY <1>6
    <2> QED BY <2>1
<1>13. Offsets(s, ss, numofnode)
    <2>1. 0 \in 0..numofnode BY <1>1
    <2>2. \A k \in 1..numofnode : k \in 0..numofnode /\ k - 1 \in 0..numofnode BY <1>1
    <2>3. \A k \in 1..numofnode : DevsBefore[k] = DevsBefore[k - 1] + Counts[k - 1]
        BY <1>3 DEF RunningSum
    <2>4. DevsBefore[0] = 0 BY <1>3 DEF RunningSum
    <2>5. \A k \in 1..numofnode : Len(ss[k]) = Counts[k - 1] BY <1>9
    <2> QED BY <1>12, <2>1, <2>2, <2>3, <2>4, <2>5 DEF Offsets
<1>14. /\ Devices(field) \in Seq(X) /\ Len(Devices(field)) = s[numofnode]
       /\ \A i \in 1..numofnode : \A j \in 1..Len(ss[i]) :
             Devices(field)[s[i - 1] + j] = ss[i][j]
    <2>1. Joined(FlattenSeq(ss), ss, s, numofnode, X)
        <3>1. s \in [0..numofnode -> Nat] BY <1>12
        <3> QED BY <1>1, <1>10, <1>13, <3>1, FlattenAt, Zenon
    <2> QED BY <1>11, <2>1 DEF Joined
<1>15. s[numofnode] = numofdev
    <2>1. numofnode \in 0..numofnode BY <1>1
    <2> QED BY <1>7, <1>12, <2>1
<1>16. ASSUME numofdev > 0 PROVE DeviceArray(field) = Devices(field)
    <2>1. Walk(Cursor, Counts, numofnode, numofdev) BY <1>7, CursorWalks
    <2>2. \A k \in 0..(numofdev - 1) : InFront(Cursor[k], k, Counts, DevsBefore, numofnode)
        BY <1>1, <1>3, <1>5, <1>7, <2>1, WalkPosition
    <2>3. ASSUME NEW k \in 1..numofdev PROVE DeviceAt(Cursor[k - 1], field) = Devices(field)[k]
        <3> DEFINE c == Cursor[k - 1]
        <3>1. k - 1 \in 0..(numofdev - 1) /\ (k - 1) + 1 = k BY <1>7
        <3>2. InFront(c, k - 1, Counts, DevsBefore, numofnode) BY <2>2, <3>1
        <3> HIDE DEF c
        <3>3. /\ c.node \in Slots /\ c.dev \in Nat /\ c.dev < nodedata[c.node].numofdev
              /\ k - 1 = DevsBefore[c.node] + c.dev
            BY <1>1, <1>4, <3>2 DEF InFront
        <3>4. Shown(c.node) BY <1>2, <3>3
        <3>5. DeviceAt(c, field) = Carried(c.node)[field][c.dev + 1]
            <4>1. nodedata[c.node].numofdev \in Nat BY <3>4 DEF Shown
            <4>2. ~(c.dev >= nodedata[c.node].numofdev) BY <3>3, <4>1
            <4> QED BY <3>3, <3>4, <4>2 DEF DeviceAt, Carried, Shown
        <3>6. /\ c.node + 1 \in 1..numofnode /\ (c.node + 1) - 1 = c.node
              /\ c.node \in 0..numofnode
            BY <1>1, <3>3, SMTT(40)
        <3>7. ss[c.node + 1] = Carried(c.node)[field] /\ Len(ss[c.node + 1]) = Counts[c.node]
            BY <1>9, <3>6
        <3>8. c.dev + 1 \in 1..Len(ss[c.node + 1])
            <4>1. Len(ss[c.node + 1]) = nodedata[c.node].numofdev BY <1>4, <3>3, <3>7
            <4>2. nodedata[c.node].numofdev \in Nat BY <3>4 DEF Shown
            <4> QED BY <3>3, <4>1, <4>2
        <3>9. Devices(field)[s[c.node] + (c.dev + 1)] = ss[c.node + 1][c.dev + 1]
            BY <1>14, <3>6, <3>8
        <3>10. s[c.node] + (c.dev + 1) = k
            <4>1. s[c.node] = DevsBefore[c.node] /\ s[c.node] \in Nat BY <1>12, <3>6
            <4> QED BY <3>1, <3>3, <4>1
        <3>11. DeviceAt(c, field) = Devices(field)[k] BY <3>5, <3>7, <3>9, <3>10
        <3> QED BY <3>11 DEF c
    <2>4. nodedata[0].blk # Null
        <3>1. numofnode # 0
            <4>1. DevsBefore[0] = 0 BY <1>3 DEF RunningSum
            <4> QED BY <1>7, <1>16, <4>1
        <3>2. 0 \in Slots BY <1>1, <3>1
        <3> QED BY <1>2, <3>2 DEF Shown
    <2>5. DeviceArray(field) = [k \in 1..numofdev |-> DeviceAt(Cursor[k - 1], field)]
        BY <2>4 DEF DeviceArray
    <2>6. Devices(field) = [k \in 1..numofdev |-> Devices(field)[k]]
        BY <1>14, <1>15, LenProperties
    <2> QED BY <2>3, <2>5, <2>6
<1>17. \E Y : Devices(field) \in Seq(Y) BY <1>14
<1> QED BY <1>7, <1>14, <1>15, <1>16, <1>17

LEMMA MinOfTwo == ASSUME NEW n \in Nat, NEW len \in Nat, n <= len PROVE Min({n, len}) = n
<1>1. n \in {n, len} /\ \A y \in {n, len} : n <= y OBVIOUS
<1>2. \A x \in {n, len} : (\A y \in {n, len} : x <= y) => x = n OBVIOUS
<1> QED BY <1>1, <1>2 DEF Min

(* With arrays of as many elements as announced, the receiver gets them if *)
(* they fit.                                                               *)
LEMMA ParseReport ==
    ASSUME NEW kind \in Kind, NEW n \in Nat, n = Count(kind), NEW len \in Nat,
           n > 0 => Len(Ids(kind)) = n /\ Len(Values(kind)) = n
    PROVE  Parse(Report(kind), len) =
             IF len < n THEN Unread("NOT_ENOUGH_SPACE")
             ELSE IF n = 0 THEN Unread("NOERROR")
             ELSE [stat |-> "NOERROR", ids |-> Ids(kind), vals |-> Values(kind)]
<1>1. CASE n = 0
    <2>1. Report(kind) = [num |-> 0] /\ ~(len < n) BY <1>1 DEF Report
    <2> QED BY <1>1, <2>1 DEF Parse
<1>2. CASE n > 0
    <2>1. PICK x, y : x = Ids(kind) /\ y = Values(kind) OBVIOUS
    <2>2. Report(kind) = [num |-> n, ids |-> x, vals |-> y] BY <1>2, <2>1 DEF Report
    <2>3. PICK msg : msg = [num |-> n, ids |-> x, vals |-> y] OBVIOUS
    <2>4. CASE len < n
        <3>1. msg.num # 0 /\ msg.num > len BY <1>2, <2>3, <2>4
        <3> QED BY <2>2, <2>3, <2>4, <3>1 DEF Parse
    <2>5. CASE ~(len < n)
        <3>1. msg.num # 0 /\ ~(msg.num > len) /\ msg.ids = x /\ msg.vals = y /\ msg.num = n
            BY <1>2, <2>3, <2>5
        <3>2. ASSUME NEW field \in {"ids", "vals"} PROVE ReadCount(msg, field, len) = n
            <4>1. field \in DOMAIN msg BY <2>3
            <4>2. Len(msg[field]) = n BY <1>2, <2>1, <2>3
            <4>3. Min({n, len}) = n BY <2>5, MinOfTwo
            <4> QED BY <4>1, <4>2, <4>3 DEF ReadCount
        <3>3. Parse(msg, len) = [stat |-> "NOERROR", ids |-> x, vals |-> y]
            BY <3>1, <3>2 DEF Parse
        <3>4. ~(n = 0) BY <1>2
        <3> QED BY <2>1, <2>2, <2>3, <2>5, <3>3, <3>4
    <2> QED BY <2>4, <2>5
<1> QED BY <1>1, <1>2

LEMMA NodesRead ==
    ASSUME ExportInv, Exporting
    PROVE  /\ Cardinality(Registered) = numofnode
           /\ {<<id, Entry(id).stat>> : id \in Registered} =
                 {<<nids[k - 1], stats[k - 1]>> : k \in 1..numofnode}
<1> USE DEF ExportInv, Exporting
<1>1. numofnode \in Nat /\ Slots = 0..(numofnode - 1) BY DEF TypeOK, Slots
<1>2. \A i \in Slots : nids[i] \in NodeId BY DEF TypeOK
<1>3. MapAgrees BY MapOfSlots
<1>4. \A id \in NodeId : id \in Registered <=> \E i \in Slots : nids[i] = id
    BY <1>3 DEF Registered, MapAgrees, NotFound
<1>5. \A i \in Slots : nids[i] \in Registered /\ Entry(nids[i]).stat = stats[i]
    BY <1>2, <1>3, <1>4 DEF MapAgrees
<1>6. \A i, j \in Slots : nids[i] = nids[j] => i = j BY DEF DistinctIds
<1>7. \A k \in 1..numofnode : k - 1 \in Slots BY <1>1
<1>8. \A i \in Slots : i + 1 \in 1..numofnode /\ (i + 1) - 1 = i BY <1>1
<1>9. \A id \in Registered : \E k \in 1..numofnode : nids[k - 1] = id
    BY <1>4, <1>8 DEF Registered
<1>10. Cardinality(Registered) = numofnode
    <2> DEFINE f == [k \in 1..numofnode |-> nids[k - 1]]
    <2>1. f \in [1..numofnode -> Registered] BY <1>5, <1>7
    <2>2. \A k, l \in 1..numofnode : f[k] = f[l] => k = l
        <3>1. ASSUME NEW k \in 1..numofnode, NEW l \in 1..numofnode, f[k] = f[l] PROVE k = l
            <4>1. k - 1 = l - 1 BY <1>6, <1>7, <3>1
            <4> QED BY <1>1, <4>1
        <3> QED BY <3>1
    <2>3. \A id \in Registered : \E k \in 1..numofnode : f[k] = id BY <1>9
    <2> HIDE DEF f
    <2>4. f \in Bijection(1..numofnode, Registered)
        BY <2>1, <2>2, <2>3 DEF Bijection, Injection, Surjection, IsInjective
    <2>5. ExistsBijection(1..numofnode, Registered) BY <2>4 DEF ExistsBijection
    <2> QED BY <1>1, <2>5, FS_CountingElements
<1>11. ASSUME NEW id \in Registered
       PROVE  \E k \in 1..numofnode : <<id, Entry(id).stat>> = <<nids[k - 1], stats[k - 1]>>
    BY <1>5, <1>7, <1>9
<1>12. ASSUME NEW k \in 1..numofnode
       PROVE  \E id \in Registered : <<id, Entry(id).stat>> = <<nids[k - 1], stats[k - 1]>>
    BY <1>5, <1>7
<1> QED BY <1>10, <1>11, <1>12

LEMMA NodesTold ==
    ASSUME ExportInv, Exporting, NEW got,
           got.ids = NodeArray(nids), got.vals = NodeArray(stats)
    PROVE  TellsNodes(got)
<1>1. numofnode \in Nat BY DEF ExportInv, TypeOK
<1>2. Len(got.ids) = numofnode /\ DOMAIN got.ids = 1..numofnode
    BY <1>1 DEF NodeArray
<1>3. Pairs(got.ids, got.vals) = {<<nids[k - 1], stats[k - 1]>> : k \in 1..numofnode}
    BY <1>2 DEF Pairs, NodeArray
<1> QED BY <1>2, <1>3, NodesRead DEF TellsNodes

LEMMA ReportOfInv == (<< >> \notin GidList) /\ ExportInv => ReportRead
<1> SUFFICES ASSUME << >> \notin GidList, ExportInv, Exporting,
                    NEW kind \in Kind, NEW len \in 0..(Count(kind) + 1)
             PROVE  LET got == Parse(Report(kind), len) IN
                    IF len < Count(kind) THEN got.stat = "NOT_ENOUGH_SPACE"
                    ELSE /\ got.stat = "NOERROR"
                         /\ CASE kind = "nodestat" -> TellsNodes(got)
                              [] kind = "devstat"  -> TellsDevices(got, "stats")
                              [] kind = "devenv"   -> TellsDevices(got, "envs")
    BY DEF ReportRead
<1>1. numofnode \in Nat BY DEF ExportInv, TypeOK
<1>2. \A field \in DeviceField :
         /\ numofdev \in Nat
         /\ (\E X : Devices(field) \in Seq(X)) /\ Len(Devices(field)) = numofdev
         /\ numofdev > 0 => DeviceArray(field) = Devices(field)
    BY DevicesRead
<1>3. {"gids", "stats", "envs"} = DeviceField BY DEF DeviceField
<1>4. numofdev \in Nat BY <1>2, <1>3
<1>5. PICK n : n = Count(kind) OBVIOUS
<1>6. n \in Nat /\ len \in Nat BY <1>1, <1>4, <1>5 DEF Count
<1>7. n > 0 => Len(Ids(kind)) = n /\ Len(Values(kind)) = n
    <2>1. CASE kind = "nodestat"
        <3>1. n = numofnode /\ Ids(kind) = NodeArray(nids) /\ Values(kind) = NodeArray(stats)
            BY <1>5, <2>1 DEF Count, Ids, Values
        <3>2. Len(NodeArray(nids)) = numofnode /\ Len(NodeArray(stats)) = numofnode
            BY <1>1 DEF NodeArray
        <3> QED BY <3>1, <3>2
    <2>2. CASE kind = "devstat"
        BY <1>2, <1>3, <1>5, <2>2 DEF Count, Ids, Values
    <2>3. CASE kind = "devenv"
        BY <1>2, <1>3, <1>5, <2>3 DEF Count, Ids, Values
    <2> QED BY <2>1, <2>2, <2>3 DEF Kind
<1>8. Parse(Report(kind), len) =
         IF len < n THEN Unread("NOT_ENOUGH_SPACE")
         ELSE IF n = 0 THEN Unread("NOERROR")
         ELSE [stat |-> "NOERROR", ids |-> Ids(kind), vals |-> Values(kind)]
    BY <1>5, <1>6, <1>7, ParseReport
<1>9. PICK got : got = Parse(Report(kind), len) OBVIOUS
<1>10. len < n => got.stat = "NOT_ENOUGH_SPACE"
    BY <1>8, <1>9 DEF Unread
<1>11. ASSUME ~(len < n)
       PROVE  /\ got.stat = "NOERROR"
              /\ got.ids = IF n = 0 THEN << >> ELSE Ids(kind)
              /\ got.vals = IF n = 0 THEN << >> ELSE Values(kind)
    BY <1>8, <1>9, <1>11 DEF Unread
<1>12. ASSUME ~(len < n), kind = "nodestat" PROVE TellsNodes(got)
    <2>1. n = numofnode /\ Ids(kind) = NodeArray(nids) /\ Values(kind) = NodeArray(stats)
        BY <1>5, <1>12 DEF Count, Ids, Values
    <2>2. n = 0 => NodeArray(nids) = << >> /\ NodeArray(stats) = << >>
        BY <2>1 DEF NodeArray
    <2> QED BY <1>11, <1>12, <2>1, <2>2, NodesTold
<1>13. ASSUME ~(len < n), kind \in {"devstat", "devenv"},
              NEW field \in DeviceField, Values(kind) = DeviceArray(field)
       PROVE  TellsDevices(got, field)
    <2>1. n = numofdev /\ Ids(kind) = DeviceArray("gids")
        BY <1>5, <1>13 DEF Count, Ids
    <2>2. n = 0 => Devices("gids") = << >> /\ Devices(field) = << >>
        BY <1>2, <1>3, <2>1, EmptySeq
    <2> QED BY <1>2, <1>3, <1>4, <1>11, <1>13, <2>1, <2>2 DEF TellsDevices
<1>14. kind = "devstat" /\ ~(len < n) => TellsDevices(got, "stats")
    BY <1>3, <1>13 DEF Values
<1>15. kind = "devenv" /\ ~(len < n) => TellsDevices(got, "envs")
    BY <1>3, <1>13 DEF Values
<1> QED BY <1>5, <1>9, <1>10, <1>11, <1>12, <1>14, <1>15 DEF Kind

(* What the operating system reads from a report is the registry, and too  *)
(* small an array is refused, for nodes with at least one device each:     *)
(* whatever was added, replaced, deleted and moved before, whatever the    *)
(* application does outside the protocol and whichever allocation fails.   *)
THEOREM ReportsTold ==
    ASSUME << >> \notin GidList
    PROVE  Spec => []ReportRead
<1>1. ExportInv => ReportRead BY ReportOfInv
<1>2. Init => ExportInv
    BY InitType, InitWellFormed, InitDev DEF ExportInv, Init, DistinctIds, Slots
<1>3. ExportInv /\ [Next]_vars => ExportInv'
    BY NextType, NextDistinct, NextWellFormed, NextDev DEF ExportInv
<1> QED BY <1>1, <1>2, <1>3, PTL DEF Spec
=============================================================================
