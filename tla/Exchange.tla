------------------------------ MODULE Exchange ------------------------------
(***************************************************************************)
(* Requests, responses and the callback table: how a GOS and its GCGs use  *)
(* tp3_initgos, tp3_initgcg, the request builders of src/ttap3_gos.c and   *)
(* src/ttap3_gcg.c, tp3_registcbfunc and tp3_response.                     *)
(*                                                                         *)
(* Every process that links the library has one gosdata, one gcgdata and   *)
(* one callback table.  GosProc and GcgProc say which processes play which *)
(* part; a process in both (as in test/test_gcgngos.c) plays the two with  *)
(* the same table.                                                         *)
(*                                                                         *)
(* Fields other than the header's are left out.  The transport is the      *)
(* application's: net holds every frame sent, so one may be delivered      *)
(* late, twice, out of order, or never.  Pairing responses with requests is *)
(* the application's too: all it can compare is what the header offers     *)
(* (Fits).                                                                 *)
(*                                                                         *)
(* A frame also carries what the code does not: where it comes from and    *)
(* goes to, the exchange n it belongs to and, for the output of            *)
(* tp3_response, the initialisation `at' of the process that made it (0 in *)
(* a frame that was built as a request).                                   *)
(***************************************************************************)
EXTENDS Integers, FiniteSets

CONSTANTS
    GosProc, GcgProc,   \* the processes that call tp3_initgos, tp3_initgcg
    GosId, GcgId,       \* identifiers, all of which fit a header's 3 bytes
    GosType, GcgType,   \* the message types each part requests
    AppType,            \* types of the requests built with tp3_setheader alone
    UserCb,             \* kinds of callback functions the application writes
    UserType,           \* message types it registers them for
    ZeroId,             \* an identifier field of a header that was never set
    SeqMax,             \* _TP3_MSGSEQ_MAX
    MaxGcg,             \* _TP3_MAX_GCG
    MaxInit,            \* bound: initialisations of a part in a process
    MaxReq              \* bound: requests built since an initialisation

Proc == GosProc \cup GcgProc

GcgStarted == {"KEEPALIVE", "CONNAPPROVAL", "STATINFO", "ENVINFO"}
GosStarted == {"STATHIST", "ENVHIST", "PROFQUERY", "PROFUPDATE",
               "STATQUERY", "FAULTMNG", "ACTCTRL", "ENVQUERY"}
MsgType == GcgStarted \cup GosStarted

(* tp3_transtype_t *)
CG_OS_REQ == 0
OS_CG_RES == 1
OS_CG_REQ == 2
CG_OS_RES == 3
CG_OS_NOTI == 4
OS_CG_REQA == 5
CG_OS_RESA == 6
OS_CG_ACKA == 7
TransType == CG_OS_REQ..OS_CG_ACKA

(* The transmissions a GOS receives. *)
ToGos == {CG_OS_REQ, CG_OS_RES, CG_OS_NOTI, CG_OS_RESA}

(* tp3_rescode_t; "NONE" in a frame without the field. *)
ResCode == {"NORMAL", "GCG_ERR", "GOS_ERR", "INTERNAL_ERR", "NONE"}

(* "answer": returns what tp3_setresponse returns, with a code it chooses. *)
(* "fail":   returns an error.                                             *)
(* "quiet":  returns TP3_SC_NOERROR and leaves the response alone, as a    *)
(*           function that only confirms what it receives may do.          *)
UserCbKind == {"answer", "fail", "quiet"}
Callback == {"null", "default", "acceptmsg", "defaultconfirm"} \cup UserCbKind

(* The counters of msgseq: gosdata's, gcgdata's, and one the application   *)
(* keeps for headers it sets itself.                                       *)
Counter == {"GOS", "GCG", "APP"}
Part == {"GOS", "GCG"}

Exchanges == [p : Proc, c : Counter, init : Nat, k : Nat]
Frame == [type : MsgType, trans : TransType, gcgid : GcgId \cup {ZeroId},
          gosid : GosId \cup {ZeroId}, msgseq : Nat, rescode : ResCode,
          from : Proc, to : Proc, n : Exchanges, at : Nat]

ASSUME ConstantsOK ==
    /\ GosType \subseteq GosStarted /\ GcgType \subseteq GcgStarted
    /\ AppType \subseteq MsgType /\ UserType \subseteq MsgType
    /\ UserCb \subseteq UserCbKind
    /\ ZeroId \notin GosId \cup GcgId
    /\ SeqMax \in Nat \ {0} /\ MaxGcg \in Nat /\ MaxInit \in Nat /\ MaxReq \in Nat

VARIABLES
    funcs,      \* registedfuncs of each process, by message type
    gosdata,    \* gosid and gcgids of each process
    gcgdata,    \* gcgid and gosid of each process
    seq,        \* msgseq of each process, by counter, before the modulo
    init,       \* how often each part of a process was initialised
    net         \* frames sent

vars == <<funcs, gosdata, gcgdata, seq, init, net>>
tables == <<funcs, gosdata, gcgdata, init>>

Init ==
    /\ funcs = [p \in Proc |-> [t \in MsgType |-> "null"]]
    /\ gosdata = [p \in Proc |-> [gosid |-> ZeroId, gcgids |-> {}]]
    /\ gcgdata = [p \in Proc |-> [gcgid |-> ZeroId, gosid |-> ZeroId]]
    /\ seq = [p \in Proc |-> [c \in Counter |-> 0]]
    /\ init = [p \in Proc |-> [r \in Part |-> 0]]
    /\ net = {}

-----------------------------------------------------------------------------
(* Initialisation and registration.  Initialising again is how a process   *)
(* restarts, and how a GOS changes the GCGs it accepts.                    *)

DefaultCb == [t \in MsgType |-> "default"]
GosCb == [DefaultCb EXCEPT !["CONNAPPROVAL"] = "acceptmsg",
                           !["STATINFO"] = "defaultconfirm",
                           !["ENVINFO"] = "defaultconfirm"]

(* tp3_initgos.  It copies the identifiers into an array of _TP3_MAX_GCG    *)
(* without a look at how many they are (gos.c:29); that they fit is assumed *)
(* here.  A longer list would overwrite msgseq and what is behind it.       *)
InitGos(p, id, ids) ==
    /\ init[p]["GOS"] < MaxInit
    /\ Cardinality(ids) <= MaxGcg
    /\ gosdata' = [gosdata EXCEPT ![p] = [gosid |-> id, gcgids |-> ids]]
    /\ seq' = [seq EXCEPT ![p]["GOS"] = 0]
    /\ funcs' = [funcs EXCEPT ![p] = GosCb]
    /\ init' = [init EXCEPT ![p]["GOS"] = @ + 1]
    /\ UNCHANGED <<gcgdata, net>>

(* tp3_initgcg. *)
InitGcg(p, id, gosid) ==
    /\ init[p]["GCG"] < MaxInit
    /\ gcgdata' = [gcgdata EXCEPT ![p] = [gcgid |-> id, gosid |-> gosid]]
    /\ seq' = [seq EXCEPT ![p]["GCG"] = 0]
    /\ funcs' = [funcs EXCEPT ![p] = DefaultCb]
    /\ init' = [init EXCEPT ![p]["GCG"] = @ + 1]
    /\ UNCHANGED <<gosdata, net>>

Initialised(p) == \E r \in Part : init[p][r] > 0

(* Process p starts the exchanges of type t: it receives only responses. *)
OnlyConfirms(p, t) == IF t \in GcgStarted THEN p \notin GosProc ELSE p \notin GcgProc

(* tp3_registcbfunc; a function that answers nothing is registered where   *)
(* nothing is to be answered.                                              *)
RegistCb(p, t, f) ==
    /\ Initialised(p)
    /\ f = "quiet" => OnlyConfirms(p, t)
    /\ funcs' = [funcs EXCEPT ![p][t] = f]
    /\ UNCHANGED <<gosdata, gcgdata, seq, init, net>>

-----------------------------------------------------------------------------
(* Requests *)

(* Mutant of Header: the counter's tens are taken for its units. *)
HeaderDiv(k) == k \div SeqMax

(* tp3_setheader: the msgseq of the header from that of the counter. *)
Header(k) == k % SeqMax

(* A builder sets a header with its counter's msgseq, which it increments, *)
(* and the frame is sent.                                                  *)
Build(p, c, type, trans, gcgid, gosid, q) ==
    LET part == IF c = "APP" THEN IF trans = CG_OS_NOTI THEN "GCG" ELSE "GOS" ELSE c
        req == [type |-> type, trans |-> trans, gcgid |-> gcgid, gosid |-> gosid,
                msgseq |-> Header(seq[p][c]), rescode |-> "NONE", from |-> p, to |-> q,
                n |-> [p |-> p, c |-> c, init |-> IF c = "APP" THEN 1 ELSE init[p][c],
                       k |-> seq[p][c]],
                at |-> 0]
    IN /\ init[p][part] > 0
       /\ seq[p][c] < MaxReq
       /\ seq' = [seq EXCEPT ![p][c] = @ + 1]
       /\ net' = net \cup {req}
       /\ UNCHANGED tables

(* The four builders of the GCG. *)
GcgRequest(p, t, q) ==
    Build(p, "GCG", t, CG_OS_REQ, gcgdata[p].gcgid, gcgdata[p].gosid, q)

(* The builders of the GOS; the transport takes the frame to that GCG. *)
GosRequest(p, t, q) ==
    /\ init[q]["GCG"] > 0
    /\ Build(p, "GOS", t, OS_CG_REQ, gcgdata[q].gcgid, gosdata[p].gosid, q)

(* The types without a builder: an OS_CG_REQA opens a three-step exchange, *)
(* a CG_OS_NOTI waits for nothing.                                         *)
AppRequest(p, t, q) ==
    /\ init[q]["GCG"] > 0
    /\ Build(p, "APP", t, OS_CG_REQA, gcgdata[q].gcgid, gosdata[p].gosid, q)

AppNotify(p, t, q) ==
    Build(p, "APP", t, CG_OS_NOTI, gcgdata[p].gcgid, gcgdata[p].gosid, q)

(* A builder that fails after the header is set has used up the number. *)
BuildFail(p, c) ==
    /\ init[p][c] > 0 /\ seq[p][c] < MaxReq
    /\ seq' = [seq EXCEPT ![p][c] = @ + 1]
    /\ UNCHANGED <<tables, net>>

-----------------------------------------------------------------------------
(* Responses *)

NoHeader == [type |-> "KEEPALIVE", trans |-> CG_OS_REQ, gcgid |-> ZeroId,
             gosid |-> ZeroId, msgseq |-> 0, rescode |-> "NONE"]
Failed(stat) == [stat |-> stat, res |-> NoHeader]

(* The header tp3_setresponse copies, one step further, with the code. *)
Copied(req, rc) ==
    [stat |-> "NOERROR",
     res |-> [type |-> req.type, trans |-> req.trans + 1, gcgid |-> req.gcgid,
              gosid |-> req.gosid, msgseq |-> req.msgseq, rescode |-> rc]]

(* Mutant of SetResponse: every frame is answered. *)
SetResponseAny(req, rc) == Copied(req, rc)

(* Mutant of SetResponse: only two-step requests are answered. *)
SetResponseTwo(req, rc) ==
    IF req.trans \in {CG_OS_REQ, OS_CG_REQ} THEN Copied(req, rc) ELSE Failed("IS_NOT_REQUEST")

(* tp3_setresponse. *)
SetResponse(req, rc) ==
    IF req.trans + 1 > OS_CG_ACKA THEN Failed("MSGTYPE_ERR")
    ELSE IF req.trans \in {CG_OS_RES, OS_CG_RES, CG_OS_NOTI, OS_CG_ACKA}
      THEN Failed("IS_NOT_REQUEST")
    ELSE Copied(req, rc)

(* Mutant of IsOkGos: the identifier of the GOS alone is compared. *)
IsOkGosAny(p, req) == IF req.gosid # gosdata[p].gosid THEN "GOS_ERR" ELSE "NORMAL"

(* tp3_isok_gos: its status codes are the response codes of that name. *)
IsOkGos(p, req) == IF req.gosid # gosdata[p].gosid THEN "GOS_ERR"
                   ELSE IF req.gcgid \in gosdata[p].gcgids THEN "NORMAL"
                   ELSE "GCG_ERR"

(* tp3_default_rescb, and its like for a GCG (tp3_defaultresponse,         *)
(* tp3_stathistres).                                                       *)
DefaultRescb(req) == SetResponse(req, "NORMAL")

(* tp3_acceptmsg and tp3_defaultconfirm. *)
AcceptMsg(p, req) == SetResponse(req, IsOkGos(p, req))

(* What the callback registered for the type of a frame may do with it. *)
Outcomes(p, req) ==
    LET f == funcs[p][req.type] IN
    CASE f = "default" -> {DefaultRescb(req)}
      [] f \in {"acceptmsg", "defaultconfirm"} -> {AcceptMsg(p, req)}
      [] f = "answer" -> {SetResponse(req, rc) : rc \in {"NORMAL", "INTERNAL_ERR"}}
      [] f = "fail" -> {Failed("INTERNAL_ERR")}
      [] f = "quiet" -> {[stat |-> "NOERROR", res |-> NoHeader]}

(* Which part the frame is addressed to. *)
PartOf(m) == IF m.trans \in ToGos THEN "GOS" ELSE "GCG"

(* tp3_generateframe puts the header on the wire, tp3_parseframe reads it. *)
Reply(m, res) ==
    [type |-> res.type, trans |-> res.trans, gcgid |-> res.gcgid, gosid |-> res.gosid,
     msgseq |-> res.msgseq, rescode |-> res.rescode, from |-> m.to, to |-> m.from,
     n |-> m.n, at |-> init[m.to][PartOf(m)]]

(* tp3_response on a frame received.  The application answers for a part   *)
(* once it has initialised it, and sends what tp3_response made of the     *)
(* frame; on an error there is nothing to send.                            *)
Response(p, m) ==
    /\ m.to = p /\ init[p][PartOf(m)] > 0
    /\ \E out \in Outcomes(p, m) :
         /\ out.stat = "NOERROR"
         /\ net' = net \cup {Reply(m, out.res)}
    /\ UNCHANGED <<tables, seq>>

Respond(p) == \E m \in net : Response(p, m)

Next ==
    \/ \E p \in GosProc, id \in GosId, ids \in SUBSET GcgId : InitGos(p, id, ids)
    \/ \E p \in GcgProc, id \in GcgId, gosid \in GosId : InitGcg(p, id, gosid)
    \/ \E p \in Proc, t \in UserType, f \in UserCb : RegistCb(p, t, f)
    \/ \E p \in GcgProc, t \in GcgType, q \in GosProc : GcgRequest(p, t, q)
    \/ \E p \in GosProc, t \in GosType, q \in GcgProc : GosRequest(p, t, q)
    \/ \E p \in GosProc, t \in AppType, q \in GcgProc : AppRequest(p, t, q)
    \/ \E p \in GcgProc, t \in AppType, q \in GosProc : AppNotify(p, t, q)
    \/ \E p \in GosProc : BuildFail(p, "GOS")
    \/ \E p \in GcgProc : BuildFail(p, "GCG")
    \/ \E p \in Proc : Respond(p)

Spec == Init /\ [][Next]_vars

(* Every process goes on receiving: a frame on the wire is sooner or later *)
(* handed to tp3_response.                                                 *)
FairSpec == Spec /\ \A p \in Proc : WF_vars(Respond(p))

-----------------------------------------------------------------------------
(* Properties *)

(* Every variable has its type: the counters of registedfuncs, gosdata,    *)
(* gcgdata and the frames built from them.                                 *)
TypeOK ==
    /\ funcs \in [Proc -> [MsgType -> Callback]]
    /\ gosdata \in [Proc -> [gosid : GosId \cup {ZeroId}, gcgids : SUBSET GcgId]]
    /\ gcgdata \in [Proc -> [gcgid : GcgId \cup {ZeroId}, gosid : GosId \cup {ZeroId}]]
    /\ seq \in [Proc -> [Counter -> 0..MaxReq]]
    /\ init \in [Proc -> [Part -> 0..MaxInit]]
    /\ net \subseteq Frame

(* What m answers: the frame of the other side it copies the header of. *)
Answers(m, r) ==
    /\ r.to = m.from /\ r.from = m.to /\ r.n = m.n
    /\ r.type = m.type /\ r.gcgid = m.gcgid /\ r.gosid = m.gosid /\ r.msgseq = m.msgseq
    /\ m.trans = r.trans + 1
    /\ r.trans \in {CG_OS_REQ, OS_CG_REQ, OS_CG_REQA, CG_OS_RESA}

(* tp3_response sends nothing but responses: each frame it made answers a  *)
(* frame that came from where it goes, which was a request or the response *)
(* of a three-step exchange, and no exchange goes on for ever              *)
(* (tp3_setresponse refuses what is not a request).                        *)
EchoesRequest == \A m \in net : m.at > 0 => \E r \in net : Answers(m, r)

(* A GOS whose callbacks are the ones tp3_initgos registered never answers *)
(* a connection approval, status or environment report with NORMAL unless  *)
(* the request names it and a GCG of the list in force when it answers.    *)
Guarded == {"CONNAPPROVAL", "STATINFO", "ENVINFO"}
Approved(m) == m.gosid = gosdata[m.from].gosid /\ m.gcgid \in gosdata[m.from].gcgids
ApprovalSound ==
    [][\A m \in net' \ net :
          m.trans = OS_CG_RES /\ m.type \in Guarded \ UserType /\ m.rescode = "NORMAL"
             => Approved(m)]_vars

(* The frame m, by its header, is the response its receiver waits for      *)
(* since it sent the request r.                                            *)
Fits(m, r) ==
    /\ r.trans \in {CG_OS_REQ, OS_CG_REQ, OS_CG_REQA}
    /\ m.to = r.from /\ m.trans = r.trans + 1 /\ m.type = r.type
    /\ m.gcgid = r.gcgid /\ m.gosid = r.gosid /\ m.msgseq = r.msgseq

(* A response that fits another request than its own is to a request of    *)
(* the same counter, made under another initialisation of it or at least   *)
(* SeqMax requests away: late, duplicated and reordered responses are      *)
(* otherwise told apart by the msgseq that the builders count and          *)
(* tp3_setresponse copies.                                                 *)
Apart(a, b) == a.k >= b.k + SeqMax \/ b.k >= a.k + SeqMax
AnswerMatches ==
    \A r, m \in net : Fits(m, r) =>
        /\ r.n.p = m.n.p /\ r.n.c = m.n.c
        /\ r.n.k = m.n.k \/ r.n.init # m.n.init \/ Apart(r.n, m.n)

(* A request that reaches an initialised process is answered, with an      *)
(* error code if need be; a three-step exchange reaches its third step.    *)
Asked(n, trans) == \E r \in net : r.n = n /\ r.at = 0 /\ r.trans = trans /\ init[r.to][PartOf(r)] > 0
Answered(n, trans) == \E m \in net : m.n = n /\ m.at > 0 /\ m.trans = trans
Bounded == [p : Proc, c : Counter, init : 1..MaxInit, k : 0..(MaxReq - 1)]
RequestAnswered ==
    \A n \in Bounded :
        /\ Asked(n, CG_OS_REQ) ~> Answered(n, OS_CG_RES)
        /\ Asked(n, OS_CG_REQ) ~> Answered(n, CG_OS_RES)
        /\ Asked(n, OS_CG_REQA) ~> Answered(n, OS_CG_ACKA)
=============================================================================
