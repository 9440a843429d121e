------------------------------- MODULE NodeSet -------------------------------
(***************************************************************************)
(* The node set of src/ttap3_util.c: tp3_nsetdata_t, the tp3_nodedata_t    *)
(* structures an application builds and hands over to it, and the memory   *)
(* both own.                                                               *)
(*                                                                         *)
(* A tp3_nodedata_t owns four arrays (gids, stats, envs, attrs) that are   *)
(* released together, and allocated together unless one of the mallocs     *)
(* fails (InitNodeFail): they are one block of `heap'.                     *)
(* Handing a node over copies the structure, not the block, so the         *)
(* application's structure and the set's slot name the same block.         *)
(* nids, stats and nodedata are the set's three parallel arrays, indexed   *)
(* from 0 as in C; an entry at or past numofnode is never read, and the    *)
(* model does not keep it.                                                 *)
(*                                                                         *)
(* The application is the environment.  It follows the header's rule that  *)
(* a structure handed over belongs to the set, and forgets a structure     *)
(* whose block the set has released; what else it may do, rightly or not,  *)
(* is in Misuse.                                                           *)
(***************************************************************************)
EXTENDS Integers, Sequences

CONSTANTS
    NodeId, NodeStat, DevStat, Env, Gid, GidList, Absent,   \* as in NodeRegistry
    DevType,    \* the device types the application passes to tp3_initnodedata
    Var,        \* the application's tp3_nodedata_t variables
    Block,      \* addresses malloc can return for the arrays of a node
    Null,       \* the null pointer
    Free,       \* content of an address that is not allocated
    AllocFails, \* which allocations may fail
    Misuse      \* which calls outside the documented protocol are made

NodeType == {"SNODE", "ANODE"}

(* "resubmit": a structure already handed over is handed over once more.   *)
(* "reinit":   tp3_initnset on a set that holds nodes.                     *)
(* "invalid":  a call on a set that was released, or whose growth failed.  *)
(* "failed":   a structure whose tp3_initnodedata reported a failed        *)
(*             allocation is used, released or handed over all the same.   *)
MisuseKind == {"resubmit", "reinit", "invalid", "failed"}

(* "node": in tp3_initnodedata.  "set": a realloc of tp3_addnset.          *)
AllocKind == {"node", "set"}

NodeData == [numofdev : Nat, blk : Block \cup {Null}]
Content  == [gids : Seq(Gid), stats : Seq(DevStat), envs : Seq(Env)]
NoNode   == [numofdev |-> 0, blk |-> Null]

ASSUME ConstantsOK ==
    /\ "NORMAL" \in NodeStat /\ "NORMAL" \in DevStat /\ 0 \in Env
    /\ GidList \subseteq Seq(Gid)
    /\ Null \notin Block /\ Free \notin Content
    /\ Absent \notin [stat : NodeStat, devs : Content]
    /\ AllocFails \subseteq AllocKind /\ Misuse \subseteq MisuseKind

VARIABLES
    nids,       \* node identifiers, by slot
    stats,      \* node statuses, by slot
    nodedata,   \* node structures, by slot
    numofnode,
    numofdev,
    arrays,     \* what the three pointers are: null, live, or invalid
    heap,       \* content of every address
    app,        \* the application's structures
    ret,        \* status code of the last call, NOERROR for one that returns none
    fault       \* whether freed memory was used or freed again

vars == <<nids, stats, nodedata, numofnode, numofdev, arrays, heap, app, ret, fault>>
nset == <<nids, stats, nodedata, numofnode, numofdev, arrays>>


(* "own": built and not handed over; "lent": its block is the set's;       *)
(* "failed": its arrays could not be allocated.                            *)
AppStat == {"none", "own", "lent", "failed"}

StatusCode == {"NOERROR", "EXIST_NODEID", "NOT_FOUND_NODEID", "NOT_FOUND_DEVID",
               "NOT_PROPER_DEVTYPE", "MEMORY_ALLOCATION_FAIL"}

-----------------------------------------------------------------------------
(* Helpers *)

Slots == IF arrays = "live" THEN 0..(numofnode - 1) ELSE {}
Empty == [i \in {} |-> Null]

(* Mutant of NotFound: the search stops one slot early. *)
NotFoundShort(id) == \A i \in Slots : i + 1 < numofnode => nids[i] # id

(* tp3_getidxnode: the first slot that holds id, or none. *)
IsIdx(id, i) == i \in Slots /\ nids[i] = id /\ \A j \in Slots : j < i => nids[j] # id
NotFound(id) == \A i \in Slots : nids[i] # id

(* tp3_getidxdev: the first device of c with this global id, or none. *)
IsIdxDev(c, gid, k) == /\ k \in DOMAIN c.gids /\ c.gids[k] = gid
                       /\ \A j \in DOMAIN c.gids : j < k => c.gids[j] # gid

(* Mutant of Released: nothing is freed. *)
ReleasedNothing(B) == heap

(* tp3_releasenodedata on every structure whose block is in B; free(NULL)  *)
(* does nothing.                                                           *)
Released(B) == [b \in Block |-> IF b \in B THEN Free ELSE heap[b]]
BadFree(b) == b # Null /\ heap[b] = Free

(* The application forgets the structures whose block is in B. *)
Forget(B) == [v \in Var |-> IF app[v].st = "lent" /\ app[v].node.blk \in B
                              THEN [st |-> "none", node |-> NoNode]
                              ELSE app[v]]

(* The whole set's blocks, as tp3_releasenset visits them. *)
SetBlocks == {nodedata[i].blk : i \in Slots}

(* After a fault the behaviour of the program is undefined: it is not      *)
(* followed any further.                                                   *)
Running == ~fault
Usable == Running /\ arrays # "invalid"

Init ==
    /\ nids = Empty /\ stats = Empty /\ nodedata = Empty
    /\ numofnode = 0 /\ numofdev = 0 /\ arrays = "null"
    /\ heap = [b \in Block |-> Free]
    /\ app = [v \in Var |-> [st |-> "none", node |-> NoNode]]
    /\ ret = "NOERROR" /\ fault = FALSE

-----------------------------------------------------------------------------
(* The application's structures *)

(* What tp3_initnodedata leaves in the arrays: the ids given, zeros elsewhere. *)
Fresh(gids) == [gids |-> gids, stats |-> [k \in DOMAIN gids |-> "NORMAL"],
                envs |-> [k \in DOMAIN gids |-> 0]]

InitNode(v, gids, devtype) ==
    /\ Running
    /\ app[v].st # "own"
    /\ devtype \in NodeType
    /\ \/ /\ Len(gids) = 0
          /\ app' = [app EXCEPT ![v] = [st |-> "own", node |-> NoNode]]
          /\ UNCHANGED heap
       \/ /\ Len(gids) > 0
          /\ \E b \in Block :
                /\ heap[b] = Free
                /\ heap' = [heap EXCEPT ![b] = Fresh(gids)]
                /\ app' = [app EXCEPT ![v] =
                             [st |-> "own", node |-> [numofdev |-> Len(gids), blk |-> b]]]
    /\ ret' = "NOERROR"
    /\ UNCHANGED <<nset, fault>>

(* tp3_initnodedata refuses the type before it touches the structure. *)
InitNodeBadType(v, devtype) ==
    /\ Running
    /\ app[v].st # "own"
    /\ devtype \notin NodeType
    /\ ret' = "NOT_PROPER_DEVTYPE"
    /\ UNCHANGED <<nset, heap, app, fault>>

NodeArrays == {"gids", "stats", "envs", "attrs"}

(* Mutant of FreedOnFailure: the attributes are forgotten. *)
FreedButAttrs == NodeArrays \ {"attrs"}

(* The arrays tp3_initnodedata frees when the malloc of one has failed. *)
FreedOnFailure == NodeArrays

(* What stays allocated when some of the four mallocs failed, others not. *)
LeftOver == {got \ FreedOnFailure : got \in (SUBSET NodeArrays) \ {{}, NodeArrays}}

(* Mallocs failed, all four or some.  What the others returned, at the     *)
(* addresses of b, is freed again, or is left over.  The structure keeps   *)
(* its numofdev, and pointers that are null or dangle.                     *)
InitNodeFail(v, gids, devtype) ==
    /\ Running
    /\ "node" \in AllocFails
    /\ app[v].st # "own"
    /\ devtype \in NodeType
    /\ Len(gids) > 0
    /\ \E b \in Block \cup {Null} :
         /\ app' = [app EXCEPT ![v] =
                      [st |-> "failed", node |-> [numofdev |-> Len(gids), blk |-> b]]]
         /\ \/ b = Null /\ UNCHANGED heap
            \/ /\ b # Null /\ heap[b] = Free
               /\ \E left \in LeftOver :
                    heap' = IF left = {} THEN heap ELSE [heap EXCEPT ![b] = Fresh(gids)]
    /\ ret' = "MEMORY_ALLOCATION_FAIL"
    /\ UNCHANGED <<nset, fault>>

(* A structure whose pointers are not the arrays it was built with. *)
Unbuilt(v) == app[v].st = "failed" /\ "failed" \in Misuse

(* Null, with devices to be found behind it, or freed. *)
BadPointer(node) == IF node.blk = Null THEN node.numofdev > 0 ELSE heap[node.blk] = Free

(* tp3_releasenodedata, by the application, on a structure it still owns. *)
ReleaseNode(v) ==
    /\ Running
    /\ app[v].st = "own" \/ Unbuilt(v)
    /\ heap' = Released({app[v].node.blk})
    /\ fault' = BadFree(app[v].node.blk)
    /\ app' = [app EXCEPT ![v] = [st |-> "none", node |-> NoNode]]
    /\ ret' = "NOERROR"
    /\ UNCHANGED nset

(* tp3_setdevenv, tp3_setdevstat and tp3_setdevattr (a block keeps no      *)
(* attributes here), through any structure that names the block: the       *)
(* application's own, or the copy it kept of one the set owns.             *)
SetDevice(v, gid) ==
    /\ Running
    /\ app[v].st \in {"own", "lent"} \/ Unbuilt(v)
    /\ IF Unbuilt(v) \/ BadPointer(app[v].node)
         THEN fault' = TRUE /\ UNCHANGED <<heap, ret>>
         ELSE IF app[v].node.blk = Null
         THEN ret' = "NOT_FOUND_DEVID" /\ UNCHANGED <<heap, fault>>
         ELSE LET b == app[v].node.blk IN
              \/ \E k \in DOMAIN heap[b].gids :
                    /\ IsIdxDev(heap[b], gid, k)
                    /\ \/ \E e \in Env : heap' = [heap EXCEPT ![b].envs[k] = e]
                       \/ \E s \in DevStat : heap' = [heap EXCEPT ![b].stats[k] = s]
                       \/ UNCHANGED heap
                    /\ ret' = "NOERROR" /\ UNCHANGED fault
              \/ /\ \A k \in DOMAIN heap[b].gids : heap[b].gids[k] # gid
                 /\ ret' = "NOT_FOUND_DEVID" /\ UNCHANGED <<heap, fault>>
    /\ UNCHANGED <<nset, app>>

(* The structure v may be handed to the set. *)
Offered(v) == \/ app[v].st = "own"
              \/ app[v].st = "lent" /\ "resubmit" \in Misuse
              \/ Unbuilt(v)

HandOver(v) == app' = [app EXCEPT ![v].st = "lent"]

-----------------------------------------------------------------------------
(* The set *)

(* Mutant of Grown: the new last slot is not written into the array. *)
GrownNot(arr, x) == arr
Grown(arr, x) == [i \in 0..numofnode |-> IF i = numofnode THEN x ELSE arr[i]]

(* Mutant of Moved: the array only gets shorter. *)
MovedNot(arr, i) == [j \in 0..(numofnode - 2) |-> arr[j]]
Moved(arr, i) == [j \in 0..(numofnode - 2) |-> IF j = i THEN arr[numofnode - 1] ELSE arr[j]]

(* Mutant of Recounted: the devices of the old node stay counted. *)
RecountedMore(new, old) == numofdev + new.numofdev
Recounted(new, old) == numofdev + (new.numofdev - old.numofdev)

(* tp3_addnset of an id that is new: the arrays grow by one slot. *)
AddNew(v, id) ==
    /\ Offered(v) /\ Usable /\ NotFound(id)
    /\ numofnode' = numofnode + 1
    /\ nids' = Grown(nids, id)
    /\ stats' = Grown(stats, "NORMAL")
    /\ nodedata' = Grown(nodedata, app[v].node)
    /\ numofdev' = numofdev + app[v].node.numofdev
    /\ arrays' = "live"
    /\ HandOver(v)
    /\ ret' = "NOERROR"
    /\ UNCHANGED <<heap, fault>>

(* Reallocs of tp3_addnset failed, one or more of the three.  numofnode is *)
(* already counted up.  An array whose realloc succeeded has moved: its    *)
(* new memory is freed and the set's pointer dangles.  Of those that       *)
(* failed only the first is freed (an else-if chain): the others stay      *)
(* allocated and are still the set's.  nids dangles either way, and every  *)
(* call begins with a search in it.  The three arrays are not in heap; the *)
(* nodes' blocks, which are, are not released.                             *)
AddFail(v, id) ==
    /\ "set" \in AllocFails
    /\ Offered(v) /\ Usable /\ NotFound(id)
    /\ numofnode' = numofnode + 1
    /\ nids' = Empty /\ stats' = Empty /\ nodedata' = Empty
    /\ arrays' = "invalid"
    /\ ret' = "MEMORY_ALLOCATION_FAIL"
    /\ UNCHANGED <<numofdev, heap, app, fault>>

(* Mutant of AddExisting: the structure that was not taken in is released. *)
AddExistingReleases(v, id) ==
    /\ Offered(v) /\ Usable
    /\ \E i \in Slots : IsIdx(id, i)
    /\ ret' = "EXIST_NODEID"
    /\ heap' = Released({app[v].node.blk})
    /\ UNCHANGED <<nset, app, fault>>

(* tp3_addnset, called directly, of an id that is there. *)
AddExisting(v, id) ==
    /\ Offered(v) /\ Usable
    /\ \E i \in Slots : IsIdx(id, i)
    /\ ret' = "EXIST_NODEID"
    /\ UNCHANGED <<nset, heap, app, fault>>

(* tp3_updatenset of an id that is there: the old node is released, the    *)
(* structure copied over it; the node's status stays.                      *)
Replace(v, id) ==
    /\ Offered(v) /\ Usable
    /\ \E i \in Slots :
        /\ IsIdx(id, i)
        /\ numofdev' = Recounted(app[v].node, nodedata[i])
        /\ heap' = Released({nodedata[i].blk})
        /\ fault' = BadFree(nodedata[i].blk)
        /\ nodedata' = [nodedata EXCEPT ![i] = app[v].node]
        /\ app' = [Forget({nodedata[i].blk}) EXCEPT
                     ![v] = [st |-> "lent", node |-> app[v].node]]
    /\ ret' = "NOERROR"
    /\ UNCHANGED <<nids, stats, numofnode, arrays>>

(* tp3_delnset, or tp3_updatenset with NULL: the last slot moves into the  *)
(* place of the deleted one.                                               *)
Delete(id) ==
    /\ Usable
    /\ \E i \in Slots :
        /\ IsIdx(id, i)
        /\ nids' = Moved(nids, i)
        /\ stats' = Moved(stats, i)
        /\ nodedata' = Moved(nodedata, i)
        /\ numofdev' = numofdev - nodedata[i].numofdev
        /\ heap' = Released({nodedata[i].blk})
        /\ fault' = BadFree(nodedata[i].blk)
        /\ app' = Forget({nodedata[i].blk})
    /\ numofnode' = numofnode - 1
    /\ ret' = "NOERROR"
    /\ UNCHANGED arrays

(* tp3_setnodestat. *)
SetNodeStat(id, s) ==
    /\ Usable
    /\ \E i \in Slots : IsIdx(id, i) /\ stats' = [stats EXCEPT ![i] = s]
    /\ ret' = "NOERROR"
    /\ UNCHANGED <<nids, nodedata, numofnode, numofdev, arrays, heap, app, fault>>

(* tp3_delnset, tp3_updatenset with NULL, tp3_setnodestat of an unknown id. *)
Unknown(id) ==
    /\ Usable /\ NotFound(id)
    /\ ret' = "NOT_FOUND_NODEID"
    /\ UNCHANGED <<nset, heap, app, fault>>

(* tp3_releasenset: every node and the three arrays are released, the      *)
(* counters and the pointers stay as they are.                             *)
ReleaseNset ==
    /\ Usable
    /\ heap' = Released(SetBlocks)
    /\ fault' = \/ \E i \in Slots : BadFree(nodedata[i].blk)
                \/ \E i, j \in Slots : /\ i # j /\ nodedata[i].blk # Null
                                       /\ nodedata[i].blk = nodedata[j].blk
    /\ app' = Forget(SetBlocks)
    /\ nids' = Empty /\ stats' = Empty /\ nodedata' = Empty
    /\ arrays' = IF arrays = "live" THEN "invalid" ELSE arrays
    /\ ret' = "NOERROR"
    /\ UNCHANGED <<numofnode, numofdev>>

(* tp3_initnset: a memset.  Whatever the set owned is not released. *)
InitNset ==
    /\ Running
    /\ arrays # "live" \/ "reinit" \in Misuse
    /\ nids' = Empty /\ stats' = Empty /\ nodedata' = Empty
    /\ numofnode' = 0 /\ numofdev' = 0 /\ arrays' = "null"
    /\ ret' = "NOERROR"
    /\ UNCHANGED <<heap, app, fault>>

(* A call that follows the set's pointers after they became invalid. *)
CallInvalid ==
    /\ Running
    /\ "invalid" \in Misuse
    /\ arrays = "invalid"
    /\ fault' = TRUE
    /\ UNCHANGED <<nset, heap, app, ret>>

Next ==
    \/ \E v \in Var, gids \in GidList, t \in DevType :
        InitNode(v, gids, t) \/ InitNodeFail(v, gids, t)
    \/ \E v \in Var, t \in DevType : InitNodeBadType(v, t)
    \/ \E v \in Var : ReleaseNode(v)
    \/ \E v \in Var, gid \in Gid : SetDevice(v, gid)
    \/ \E v \in Var, id \in NodeId :
        AddNew(v, id) \/ AddFail(v, id) \/ AddExisting(v, id) \/ Replace(v, id)
    \/ \E id \in NodeId : Delete(id) \/ Unknown(id)
    \/ \E id \in NodeId, s \in NodeStat : SetNodeStat(id, s)
    \/ ReleaseNset
    \/ InitNset
    \/ CallInvalid

Spec == Init /\ [][Next]_vars
-----------------------------------------------------------------------------
(* Properties *)

(* Every variable has its type; a live set has one entry per slot in each  *)
(* of its three arrays (tp3_nsetdata_t, ttap3_util.h:158-165).             *)
TypeOK ==
    /\ numofnode \in Nat /\ numofdev \in Int
    /\ arrays \in {"null", "live", "invalid"}
    /\ arrays = "null" => numofnode = 0
    /\ nids \in [Slots -> NodeId]
    /\ stats \in [Slots -> NodeStat]
    /\ nodedata \in [Slots -> NodeData]
    /\ heap \in [Block -> Content \cup {Free}]
    /\ app \in [Var -> [st : AppStat, node : NodeData]]
    /\ ret \in StatusCode
    /\ fault \in BOOLEAN

(* No two slots hold the same node: tp3_updatenset and tp3_addnset never   *)
(* register an id twice, whatever was moved or released before.            *)
DistinctIds == \A i, j \in Slots : nids[i] = nids[j] => i = j

(* Memory is never used or freed after it was freed: handing over,         *)
(* replacing, deleting and releasing nodes keeps every block with one      *)
(* owner.                                                                  *)
NoFault == ~fault

(* Every block that a slot or a structure the application remembers names  *)
(* is allocated and describes as many devices as the structure says.  No   *)
(* two slots share a block, and the block of a structure the application   *)
(* owns is nobody else's.                                                  *)
Valid(node) == IF node.blk = Null THEN node.numofdev = 0
               ELSE heap[node.blk] # Free /\ Len(heap[node.blk].gids) = node.numofdev
SameBlock(m, n) == m.blk # Null /\ m.blk = n.blk
Owns(v) == app[v].st = "own"
Remembers(v) == app[v].st \in {"own", "lent"}

Ownership ==
    /\ \A i \in Slots : Valid(nodedata[i])
    /\ \A v \in Var : Remembers(v) => Valid(app[v].node)
    /\ \A i, j \in Slots : SameBlock(nodedata[i], nodedata[j]) => i = j
    /\ \A v, w \in Var : Owns(v) /\ Remembers(w) /\ SameBlock(app[v].node, app[w].node) => v = w
    /\ \A v \in Var, i \in Slots : Owns(v) => ~SameBlock(app[v].node, nodedata[i])

(* No block is lost: whatever is allocated belongs to a slot or to the     *)
(* application.                                                            *)
NoLeak ==
    \A b \in Block : heap[b] # Free =>
        \/ \E i \in Slots : nodedata[i].blk = b
        \/ \E v \in Var : app[v].st = "own" /\ app[v].node.blk = b

(* Memory that nobody can release any more: allocated, and named neither   *)
(* by a slot nor by a structure the application owns.                      *)
Lost == {b \in Block : /\ heap[b] # Free
                       /\ \A i \in Slots : nodedata[i].blk # b
                       /\ \A v \in Var : Owns(v) => app[v].node.blk # b}

(* Node memory is lost in two places only, and there only what the set     *)
(* owned: when tp3_addnset fails to grow the set (util.c:391-411), and     *)
(* when tp3_initnset clears a set that holds nodes.  In particular no      *)
(* malloc of a tp3_initnodedata that failed half way is lost               *)
(* (util.c:252-256), and a node that was refused, with whatever status, is *)
(* still the application's.  This holds whatever allocation fails and      *)
(* whatever misuse the application makes of the structures.                *)
LossOnlyWithSet ==
    [][Lost' \subseteq Lost \cup
          (IF \/ \E v \in Var, id \in NodeId : AddFail(v, id)
              \/ InitNset /\ arrays = "live"
             THEN SetBlocks ELSE {})]_vars

(* numofnode is what ttap3_util.h:161 says it is, the number of nodes: it  *)
(* is counted up only by a call that took a node in.                       *)
CountsNodes == [][numofnode' > numofnode => ret' = "NOERROR"]_vars

-----------------------------------------------------------------------------
(* Implementation of the abstract registry *)

NoDevices == [gids |-> << >>, stats |-> << >>, envs |-> << >>]
DevsOf(node) == IF node.blk = Null THEN NoDevices ELSE heap[node.blk]

Entry(id) ==
    IF NotFound(id) THEN Absent
    ELSE LET i == CHOOSE i \in Slots : nids[i] = id
         IN  [stat |-> stats[i], devs |-> DevsOf(nodedata[i])]

R == INSTANCE NodeRegistry WITH reg <- [id \in NodeId |-> Entry(id)], ret <- ret

(* The node set implements the registry: replacing keeps a node's status,  *)
(* deleting one node disturbs no other, a refused call changes nothing,    *)
(* and every status code names a true reason.                              *)
ImplementsRegistry == R!Spec
=============================================================================
