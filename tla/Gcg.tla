-------------------------------- MODULE Gcg ---------------------------------
(* The nodes of a GCG (gcgdata of ttap3_gcg.c): a set of sensor nodes and a *)
(* set of actuator nodes, the reports made of them, and what a GOS reads    *)
(* from a report (ttap3_gos.c).  A set is its nodes in the order of its     *)
(* arrays and the number of their devices; NodeSet has the arrays, their    *)
(* memory and the deletions this module's interface never reaches.          *)
EXTENDS Contents

CONSTANTS NodeId,     \* identifiers of nodes
          NodeStats,  \* statuses they are given
          NodeDevs,   \* lists of devices, each with its gid, status and value
          NullCalls   \* nodes for which tp3_updategcgnode is called with NULL

(* Whatever devices its nodes have, the lengths of a report's lists can be  *)
(* told; no function checks before it makes one that they fit the arrays    *)
(* they are read into (_TP3_MAX_ITEM).                                      *)
ASSUME GcgAssumption ==
    /\ NodeId \subseteq Int /\ NodeStats \subseteq Int
    /\ IsFiniteSet(NodeId) /\ Cardinality(NodeId) <= MaxInts
    /\ \A devs \in NodeDevs :
         devs \in Seq([gid : Int, stat : Int, env : Int])
         /\ Cardinality(NodeId) * Len(devs) <= MaxInts

VARIABLE gcg          \* state of the program and the two sets

NodeType == {"SNODE", "ANODE"}

(* tp3_initnset. *)
EmptyNset == [nodes |-> <<>>, numofdev |-> 0]
GcgOff == [state |-> "off", SNODE |-> EmptyNset, ANODE |-> EmptyNset]

GcgInit == gcg = GcgOff

(* tp3_getidxnode: 0 where the code says -1. *)
IdxNode(nset, id) == SelectInSeq(nset.nodes, LAMBDA node : node.id = id)

(* Mutant of Recounted: the devices a node had before are not taken off. *)
RecountedUp(nset, idx, devs) == nset.numofdev + Len(devs)

(* tp3_updatenset of a known node, its count of devices. *)
Recounted(nset, idx, devs) == nset.numofdev + (Len(devs) - Len(nset.nodes[idx].devs))

(* tp3_updatenset with a structure: a new node is NORMAL, a known one keeps *)
(* its status.                                                              *)
UpdateNset(nset, id, devs) ==
    LET idx == IdxNode(nset, id)
    IN  IF idx = 0
        THEN [nodes |-> Append(nset.nodes, [id |-> id, stat |-> 0, devs |-> devs]),
              numofdev |-> nset.numofdev + Len(devs)]
        ELSE [nodes |-> [nset.nodes EXCEPT ![idx].devs = devs],
              numofdev |-> Recounted(nset, idx, devs)]

(* tp3_updategcgnode: the set is that of the new structure's type, and the  *)
(* structure is looked into before anything asks whether there is one.      *)
UpdateGcgNode ==
    /\ gcg.state = "on"
    /\ \E id \in NodeId :
       \/ \E type \in NodeType, devs \in NodeDevs :
             gcg' = [gcg EXCEPT ![type] = UpdateNset(@, id, devs)]
       \/ id \in NullCalls /\ gcg' = [gcg EXCEPT !.state = "crashed"]

(* tp3_setgcgsnodestat and tp3_setgcganodestat: an unknown node is not an   *)
(* error to them.                                                           *)
SetGcgNodeStat ==
    /\ gcg.state = "on"
    /\ \E type \in NodeType, id \in NodeId, stat \in NodeStats :
         LET idx == IdxNode(gcg[type], id)
         IN  gcg' = IF idx = 0 THEN gcg ELSE [gcg EXCEPT ![type].nodes[idx].stat = stat]

(* tp3_initgcg, which forgets what the sets held, and tp3_releasegcg, after *)
(* which only tp3_initgcg makes them usable again.                          *)
InitGcg == gcg.state # "crashed" /\ gcg' = [GcgOff EXCEPT !.state = "on"]
ReleaseGcg == gcg.state = "on" /\ gcg' = GcgOff

GcgNext == InitGcg \/ UpdateGcgNode \/ SetGcgNodeStat \/ ReleaseGcg

-----------------------------------------------------------------------------
(* The nodes without devices in front of nodes with some.  tp3_nsettoarray  *)
(* takes numofdev devices and asks behind each whether it was its node's    *)
(* last, so it does not step over such a node: it reads through the NULL    *)
(* there, unless it is the first node, whose pointer alone is tested.       *)
Gaps(nset) ==
    {i \in DOMAIN nset.nodes :
        nset.nodes[i].devs = <<>> /\ \E j \in i..Len(nset.nodes) : nset.nodes[j].devs # <<>>}
ReadsNull(nset) == Gaps(nset) # {} /\ 1 \notin Gaps(nset)

(* A list per node, or one per device of the nodes one after the other,     *)
(* which nobody writes when the first node has no devices.                  *)
NodeList(nset, part) == [i \in 1..Len(nset.nodes) |-> nset.nodes[i][part]]
DevList(nset, part) ==
    LET devs == FlattenSeq(NodeList(nset, "devs"))
    IN  [i \in 1..nset.numofdev |->
            IF 1 \notin Gaps(nset) /\ i <= Len(devs) THEN devs[i][part] ELSE Stack]

Nodes(type) == <<NodeList(gcg[type], "id"), NodeList(gcg[type], "stat")>>
Devs(type, part) == <<DevList(gcg[type], "gid"), DevList(gcg[type], part)>>

(* One list of a report; an empty one is only counted. *)
Listed(number, ids, values, list) ==
    Number(number, Len(list[1]))
    \o If(Len(list[1]) > 0, Entry("array", ids, list[1]) \o Entry("array", values, list[2]))

NotifyStat(now) ==
    Listed(FC.NUMOFSN, FC.ARROFSNID, FC.ARROFSNSTAT, Nodes("SNODE"))
    \o Listed(FC.NUMOFAN, FC.ARROFANID, FC.ARROFANSTAT, Nodes("ANODE"))
    \o Listed(FC.NUMOFSENS, FC.ARROFGSID, FC.ARROFSENSSTAT, Devs("SNODE", "stat"))
    \o Listed(FC.NUMOFACTS, FC.ARROFGAID, FC.ARROFACTSSTAT, Devs("ANODE", "stat"))
    \o Entry("time", FC.TIMESTAMP, now)

NotifyEnv(now) ==
    Listed(FC.NUMOFSENS, FC.ARROFGSID, FC.ARROFSENSVAL, Devs("SNODE", "env"))
    \o Listed(FC.NUMOFACTS, FC.ARROFGAID, FC.ARROFACTSVAL, Devs("ANODE", "env"))
    \o Entry("time", FC.TIMESTAMP, now)

ConnectRequest(p) ==
    Counted(FC.NUMOFSN, FC.ARROFSNID, Nodes("SNODE")[1])
    \o Counted(FC.NUMOFAN, FC.ARROFANID, Nodes("ANODE")[1])
    \o Entry("bytes", FC.SERIALNUM, p.serial) \o Entry("bytes", FC.MODELNUM, p.model)
    \o Number(FC.SWVER, p.swver)

-----------------------------------------------------------------------------
(* tp3_parse_statmsg and tp3_parse_envmsg with arrays that are large        *)
(* enough, of messages that carry the number: the lists, or an error if     *)
(* they are not as long as the number says.                                 *)
FrameError == <<"FRAMEFMT_ERR">>
ParseList(m, number, ids, values) ==
    LET num == Num(m, number)
    IN  IF num = 0 THEN << <<>>, <<>> >>
        ELSE IF Len(ReadArray(m, ids)) # num \/ Len(ReadArray(m, values)) # num THEN FrameError
        ELSE <<ReadArray(m, ids), ReadArray(m, values)>>

ParseStatMsg(m) ==
    << ParseList(m, FC.NUMOFSN, FC.ARROFSNID, FC.ARROFSNSTAT),
       ParseList(m, FC.NUMOFAN, FC.ARROFANID, FC.ARROFANSTAT),
       ParseList(m, FC.NUMOFSENS, FC.ARROFGSID, FC.ARROFSENSSTAT),
       ParseList(m, FC.NUMOFACTS, FC.ARROFGAID, FC.ARROFACTSSTAT) >>

ParseEnvMsg(m) ==
    << ParseList(m, FC.NUMOFSENS, FC.ARROFGSID, FC.ARROFSENSVAL),
       ParseList(m, FC.NUMOFACTS, FC.ARROFGAID, FC.ARROFACTSVAL) >>

(* What the application has put into the sets: ids and statuses of nodes,   *)
(* gids and statuses or values of devices, each with its own.               *)
Held(type, part) ==
    LET devs == FlattenSeq(NodeList(gcg[type], "devs"))
    IN  << [i \in DOMAIN devs |-> devs[i].gid], [i \in DOMAIN devs |-> devs[i][part]] >>
=============================================================================
