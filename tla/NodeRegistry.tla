---------------------------- MODULE NodeRegistry ----------------------------
(***************************************************************************)
(* What a node set promises to its user: a map from node identifiers to    *)
(* the node's status and the current information of its devices.  It says  *)
(* nothing of arrays, indices, memory or the order of the nodes; NodeSet   *)
(* is shown to implement it.                                               *)
(***************************************************************************)
EXTENDS Naturals, Sequences

CONSTANTS
    NodeId,     \* identifiers of nodes
    NodeStat,   \* values of tp3_nodestat_t, "NORMAL" among them
    DevStat,    \* values of tp3_devstat_t, "NORMAL" among them
    Env,        \* environment values of a device, 0 among them
    Gid,        \* global ids of devices
    GidList,    \* the device lists (sequences of global ids) nodes come with
    Absent      \* what the map holds for an unregistered node

VARIABLES
    reg,        \* the map
    ret         \* status code of the last call

vars == <<reg, ret>>

StatusCode == {"NOERROR", "EXIST_NODEID", "NOT_FOUND_NODEID", "NOT_FOUND_DEVID",
               "NOT_PROPER_DEVTYPE", "MEMORY_ALLOCATION_FAIL"}

Registered == {id \in NodeId : reg[id] # Absent}

Init == /\ reg = [id \in NodeId |-> Absent]
        /\ ret = "NOERROR"

(* Registering a node that is there replaces its devices and keeps its     *)
(* status; a new node starts in status NORMAL.                             *)
Put(id, gids) ==
    \E stats \in [DOMAIN gids -> DevStat], envs \in [DOMAIN gids -> Env] :
        /\ reg' = [reg EXCEPT ![id] =
                     [stat |-> IF id \in Registered THEN reg[id].stat ELSE "NORMAL",
                      devs |-> [gids |-> gids, stats |-> stats, envs |-> envs]]]
        /\ ret' = "NOERROR"

Remove(id) ==
    /\ id \in Registered
    /\ reg' = [reg EXCEPT ![id] = Absent]
    /\ ret' = "NOERROR"

SetStat(id, s) ==
    /\ id \in Registered
    /\ reg' = [reg EXCEPT ![id].stat = s]
    /\ ret' = "NOERROR"

(* One device of one node changes one of its values. *)
SetDevice(id, k) ==
    /\ id \in Registered
    /\ k \in DOMAIN reg[id].devs.gids
    /\ \/ \E e \in Env : reg' = [reg EXCEPT ![id].devs.envs[k] = e]
       \/ \E s \in DevStat : reg' = [reg EXCEPT ![id].devs.stats[k] = s]
    /\ ret' = "NOERROR"

(* A refused call changes nothing, and names a reason that is true. *)
Refuse ==
    /\ \/ ret' = "NOT_FOUND_NODEID" /\ Registered # NodeId
       \/ ret' = "EXIST_NODEID" /\ Registered # {}
       \/ ret' \in {"NOT_FOUND_DEVID", "NOT_PROPER_DEVTYPE", "MEMORY_ALLOCATION_FAIL"}
    /\ UNCHANGED reg

(* A call on structures that are not registered. *)
Elsewhere == ret' = "NOERROR" /\ UNCHANGED reg

Clear == /\ reg' = [id \in NodeId |-> Absent]
         /\ ret' = "NOERROR"

Next ==
    \/ \E id \in NodeId, gids \in GidList : Put(id, gids)
    \/ \E id \in NodeId : Remove(id)
    \/ \E id \in NodeId, s \in NodeStat : SetStat(id, s)
    \/ \E id \in NodeId : reg[id] # Absent
            /\ \E k \in DOMAIN reg[id].devs.gids : SetDevice(id, k)
    \/ Refuse
    \/ Elsewhere
    \/ Clear

Spec == Init /\ [][Next]_vars
=============================================================================
