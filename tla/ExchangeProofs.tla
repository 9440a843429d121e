--------------------------- MODULE ExchangeProofs ---------------------------
(***************************************************************************)
(* Proofs about Exchange: its type, that tp3_response sends nothing but    *)
(* responses, and that a response is paired with the request it answers.   *)
(*                                                                         *)
(* The last two are proved of applications whose callback functions answer *)
(* or fail; the run ExchangeConfirm shows what becomes of EchoesRequest    *)
(* with one that does neither.                                             *)
(***************************************************************************)
EXTENDS Exchange, TLAPS

(* The callback table of an initialised process holds no null pointer. *)
TableSet == \A p \in Proc : Initialised(p) => \A t \in MsgType : funcs[p][t] # "null"

(* No callback answers with a header that was never set. *)
NoneQuiet == \A p \in Proc : \A t \in MsgType : funcs[p][t] # "quiet"

(* What the header of a frame says of the exchange it belongs to: the      *)
(* number, the counter it comes from, and the end that opened it.          *)
Tells(m) ==
    /\ m.msgseq = Header(m.n.k)
    /\ m.trans \in {CG_OS_REQ, OS_CG_RES} => m.n.c = "GCG"
    /\ m.trans \in {OS_CG_REQ, CG_OS_RES} => m.n.c = "GOS"
    /\ m.trans \in {OS_CG_REQA, CG_OS_RESA} => m.n.c = "APP"
    /\ m.trans \in {CG_OS_REQ, OS_CG_REQ, OS_CG_REQA} => m.n.p = m.from
    /\ m.trans \in {OS_CG_RES, CG_OS_RES, CG_OS_RESA} => m.n.p = m.to
FramesTell == \A m \in net : Tells(m)

IInv == NoneQuiet /\ FramesTell /\ EchoesRequest

-----------------------------------------------------------------------------
(* Type correctness *)

LEMMA InitType == Init => TypeOK
<1> SUFFICES ASSUME Init PROVE TypeOK
    OBVIOUS
<1>1. 0 \in 0..MaxReq /\ 0 \in 0..MaxInit
    BY ConstantsOK
<1> QED BY <1>1 DEF Init, TypeOK, Callback

(* A step of a table of tables keeps its type. *)
LEMMA Except2Type ==
    ASSUME NEW A, NEW B, NEW C, NEW f \in [A -> [B -> C]], NEW a \in A, NEW b \in B, NEW c \in C
    PROVE  [f EXCEPT ![a][b] = c] \in [A -> [B -> C]]
OBVIOUS

(* What builds a request builds a frame. *)
LEMMA BuildType ==
    ASSUME TypeOK, NEW p \in Proc, NEW c \in Counter, NEW type \in MsgType,
           NEW trans \in TransType, NEW gcgid \in GcgId \cup {ZeroId},
           NEW gosid \in GosId \cup {ZeroId}, NEW q \in Proc,
           Build(p, c, type, trans, gcgid, gosid, q)
    PROVE  TypeOK'
<1> DEFINE n == [p |-> p, c |-> c, init |-> IF c = "APP" THEN 1 ELSE init[p][c],
                 k |-> seq[p][c]]
           req == [type |-> type, trans |-> trans, gcgid |-> gcgid, gosid |-> gosid,
                   msgseq |-> Header(seq[p][c]), rescode |-> "NONE", from |-> p, to |-> q,
                   n |-> n, at |-> 0]
<1>1. seq[p][c] \in 0..MaxReq /\ seq[p][c] < MaxReq /\ seq[p][c] \in Nat
    BY ConstantsOK DEF TypeOK, Build
<1>2. Header(seq[p][c]) \in Nat
    BY <1>1, ConstantsOK DEF Header
<1>3. (IF c = "APP" THEN 1 ELSE init[p][c]) \in Nat
    BY ConstantsOK DEF TypeOK, Counter, Part
<1>4. n \in Exchanges
    BY <1>1, <1>3 DEF Exchanges
<1>5. req \in Frame
    BY <1>2, <1>4 DEF Frame, ResCode
<1>6. net' = net \cup {req}
    BY DEF Build
<1>7. seq' \in [Proc -> [Counter -> 0..MaxReq]]
    <2>1. seq[p][c] + 1 \in 0..MaxReq
        BY <1>1, ConstantsOK
    <2> QED BY <2>1, Except2Type DEF Build, TypeOK
<1>8. UNCHANGED <<funcs, gosdata, gcgdata, init>>
    BY DEF Build, tables
<1> QED BY <1>5, <1>6, <1>7, <1>8 DEF TypeOK

(* A response has the header of what it answers, or one never set. *)
LEMMA OutcomeForm ==
    ASSUME TypeOK, TableSet, NEW m \in net, init[m.to][PartOf(m)] > 0,
           NEW out \in Outcomes(m.to, m), out.stat = "NOERROR"
    PROVE  \/ /\ \E rc \in ResCode : out = Copied(m, rc)
              /\ m.trans \in {CG_OS_REQ, OS_CG_REQ, OS_CG_REQA, CG_OS_RESA}
           \/ /\ out.res = NoHeader
              /\ funcs[m.to][m.type] = "quiet"
<1>1. m \in Frame /\ m.to \in Proc /\ m.type \in MsgType /\ m.trans \in TransType
    BY DEF TypeOK, Frame
<1> DEFINE f == funcs[m.to][m.type]
<1>2. f \in Callback /\ f # "null"
    BY <1>1 DEF TypeOK, TableSet, Initialised, PartOf, Part
<1>3. CASE f = "quiet"
    BY <1>3 DEF Outcomes
<1>4. CASE f # "quiet"
    <2>1. IsOkGos(m.to, m) \in ResCode
        BY DEF IsOkGos, ResCode
    <2>2. \E rc \in ResCode : out = SetResponse(m, rc)
        BY <1>2, <1>4, <2>1 DEF Outcomes, DefaultRescb, AcceptMsg, Callback, UserCbKind, Failed, ResCode
    <2> QED BY <1>1, <2>2 DEF SetResponse, Failed, TransType, CG_OS_REQ, OS_CG_RES,
               OS_CG_REQ, CG_OS_RES, CG_OS_NOTI, OS_CG_REQA, CG_OS_RESA, OS_CG_ACKA
<1> QED BY <1>3, <1>4

(* tp3_response makes a frame of a frame. *)
LEMMA ReplyType ==
    ASSUME TypeOK, TableSet, NEW m \in net, init[m.to][PartOf(m)] > 0,
           NEW out \in Outcomes(m.to, m), out.stat = "NOERROR"
    PROVE  Reply(m, out.res) \in Frame
<1>1. m \in Frame
    BY DEF TypeOK
<1>2. init[m.to][PartOf(m)] \in Nat
    BY <1>1, ConstantsOK DEF TypeOK, Frame, PartOf, Part
<1>3. CASE out.res = NoHeader
    BY <1>1, <1>2, <1>3 DEF Reply, NoHeader, Frame, MsgType, GcgStarted, TransType,
       CG_OS_REQ, OS_CG_ACKA, ResCode
<1>4. ASSUME NEW rc \in ResCode, out = Copied(m, rc),
             m.trans \in {CG_OS_REQ, OS_CG_REQ, OS_CG_REQA, CG_OS_RESA}
      PROVE  Reply(m, out.res) \in Frame
    <2>1. m.trans + 1 \in TransType
        BY <1>4 DEF TransType, CG_OS_REQ, OS_CG_REQ, OS_CG_REQA, CG_OS_RESA, OS_CG_ACKA
    <2>2. out.res = [type |-> m.type, trans |-> m.trans + 1, gcgid |-> m.gcgid,
                     gosid |-> m.gosid, msgseq |-> m.msgseq, rescode |-> rc]
        BY <1>4 DEF Copied
    <2> QED BY <1>1, <1>2, <2>1, <2>2 DEF Reply, Frame
<1> QED BY <1>3, <1>4, OutcomeForm

(* The four ways a request is built are calls of Build. *)
LEMMA RequestIsBuild ==
    ASSUME TypeOK, NEW p \in Proc, NEW t \in MsgType, NEW q \in Proc,
           \/ GcgRequest(p, t, q) \/ GosRequest(p, t, q)
           \/ AppRequest(p, t, q) \/ AppNotify(p, t, q)
    PROVE  \E c \in Counter, trans \in {CG_OS_REQ, OS_CG_REQ, OS_CG_REQA, CG_OS_NOTI},
              gcgid \in GcgId \cup {ZeroId}, gosid \in GosId \cup {ZeroId} :
              /\ trans = CG_OS_REQ => c = "GCG"
              /\ trans = OS_CG_REQ => c = "GOS"
              /\ trans \in {OS_CG_REQA, CG_OS_NOTI} => c = "APP"
              /\ Build(p, c, t, trans, gcgid, gosid, q)
<1>1. \A r \in Proc : /\ gcgdata[r].gcgid \in GcgId \cup {ZeroId}
                      /\ gcgdata[r].gosid \in GosId \cup {ZeroId}
                      /\ gosdata[r].gosid \in GosId \cup {ZeroId}
    BY DEF TypeOK
<1>2. CASE GcgRequest(p, t, q)
    BY <1>1, <1>2 DEF GcgRequest, Counter, CG_OS_REQ, OS_CG_REQ, OS_CG_REQA, CG_OS_NOTI
<1>3. CASE GosRequest(p, t, q)
    BY <1>1, <1>3 DEF GosRequest, Counter, CG_OS_REQ, OS_CG_REQ, OS_CG_REQA, CG_OS_NOTI
<1>4. CASE AppRequest(p, t, q)
    BY <1>1, <1>4 DEF AppRequest, Counter, CG_OS_REQ, OS_CG_REQ, OS_CG_REQA, CG_OS_NOTI
<1>5. CASE AppNotify(p, t, q)
    BY <1>1, <1>5 DEF AppNotify, Counter, CG_OS_REQ, OS_CG_REQ, OS_CG_REQA, CG_OS_NOTI
<1> QED BY <1>2, <1>3, <1>4, <1>5

(* A step is an initialisation, a registration, a request, a failed        *)
(* builder or a response.                                                  *)
LEMMA StepKinds ==
    ASSUME Next
    PROVE  \/ \E p \in GosProc, id \in GosId, ids \in SUBSET GcgId : InitGos(p, id, ids)
           \/ \E p \in GcgProc, id \in GcgId, gosid \in GosId : InitGcg(p, id, gosid)
           \/ \E p \in Proc, t \in UserType, f \in UserCb : RegistCb(p, t, f)
           \/ \E p \in Proc, t \in MsgType, q \in Proc :
                 \/ GcgRequest(p, t, q) \/ GosRequest(p, t, q)
                 \/ AppRequest(p, t, q) \/ AppNotify(p, t, q)
           \/ \E p \in Proc, c \in Counter : BuildFail(p, c)
           \/ \E p \in Proc, m \in net : Response(p, m)
BY ConstantsOK DEF Next, Proc, MsgType, Counter, Respond

LEMMA NextType ==
    ASSUME TypeOK, TableSet, Next
    PROVE  TypeOK'
<1>0. 0 \in 0..MaxReq
    BY ConstantsOK
<1>1. ASSUME NEW p \in GosProc, NEW id \in GosId, NEW ids \in SUBSET GcgId, InitGos(p, id, ids)
      PROVE  TypeOK'
    <2>1. init[p]["GOS"] + 1 \in 0..MaxInit
        BY <1>1, ConstantsOK DEF InitGos, TypeOK, Proc, Part
    <2>2. init' \in [Proc -> [Part -> 0..MaxInit]]
        BY <1>1, <2>1, Except2Type DEF InitGos, TypeOK, Proc, Part
    <2>3. seq' \in [Proc -> [Counter -> 0..MaxReq]]
        BY <1>0, <1>1, Except2Type DEF InitGos, TypeOK, Proc, Counter
    <2>4. GosCb \in [MsgType -> Callback]
        BY DEF GosCb, DefaultCb, Callback
    <2>5. funcs' \in [Proc -> [MsgType -> Callback]]
        BY <1>1, <2>4 DEF InitGos, TypeOK
    <2> QED BY <1>1, <2>2, <2>3, <2>5 DEF InitGos, TypeOK
<1>2. ASSUME NEW p \in GcgProc, NEW id \in GcgId, NEW gosid \in GosId, InitGcg(p, id, gosid)
      PROVE  TypeOK'
    <2>1. init[p]["GCG"] + 1 \in 0..MaxInit
        BY <1>2, ConstantsOK DEF InitGcg, TypeOK, Proc, Part
    <2>2. init' \in [Proc -> [Part -> 0..MaxInit]]
        BY <1>2, <2>1, Except2Type DEF InitGcg, TypeOK, Proc, Part
    <2>3. seq' \in [Proc -> [Counter -> 0..MaxReq]]
        BY <1>0, <1>2, Except2Type DEF InitGcg, TypeOK, Proc, Counter
    <2>4. DefaultCb \in [MsgType -> Callback]
        BY DEF DefaultCb, Callback
    <2>5. funcs' \in [Proc -> [MsgType -> Callback]]
        BY <1>2, <2>4 DEF InitGcg, TypeOK
    <2> QED BY <1>2, <2>2, <2>3, <2>5 DEF InitGcg, TypeOK
<1>3. ASSUME NEW p \in Proc, NEW t \in UserType, NEW f \in UserCb, RegistCb(p, t, f)
      PROVE  TypeOK'
    <2>1. funcs' \in [Proc -> [MsgType -> Callback]]
        BY <1>3, ConstantsOK, Except2Type DEF RegistCb, TypeOK, Callback
    <2> QED BY <1>3, <2>1 DEF RegistCb, TypeOK
<1>4. ASSUME NEW p \in Proc, NEW t \in MsgType, NEW q \in Proc,
             \/ GcgRequest(p, t, q) \/ GosRequest(p, t, q)
             \/ AppRequest(p, t, q) \/ AppNotify(p, t, q)
      PROVE  TypeOK'
    <2>1. PICK c \in Counter, trans \in {CG_OS_REQ, OS_CG_REQ, OS_CG_REQA, CG_OS_NOTI},
               gcgid \in GcgId \cup {ZeroId}, gosid \in GosId \cup {ZeroId} :
                  Build(p, c, t, trans, gcgid, gosid, q)
        BY <1>4, RequestIsBuild
    <2>2. trans \in TransType
        BY DEF TransType, CG_OS_REQ, OS_CG_REQ, OS_CG_REQA, CG_OS_NOTI, OS_CG_ACKA
    <2> QED BY <2>1, <2>2, BuildType
<1>5. ASSUME NEW p \in Proc, NEW c \in Counter, BuildFail(p, c)
      PROVE  TypeOK'
    <2>1. seq[p][c] + 1 \in 0..MaxReq
        BY <1>5, ConstantsOK DEF BuildFail, TypeOK
    <2>2. seq' \in [Proc -> [Counter -> 0..MaxReq]]
        BY <1>5, <2>1, Except2Type DEF BuildFail, TypeOK
    <2> QED BY <1>5, <2>2 DEF BuildFail, TypeOK, tables
<1>6. ASSUME NEW p \in Proc, NEW m \in net, Response(p, m)
      PROVE  TypeOK'
    <2>1. net' \subseteq Frame /\ net \subseteq net'
        BY <1>6, ReplyType DEF Response, TypeOK
    <2> QED BY <1>6, <2>1 DEF Response, TypeOK, tables
<1> QED BY <1>1, <1>2, <1>3, <1>4, <1>5, <1>6, StepKinds

(* tp3_initgos and tp3_initgcg fill the whole table, and an application    *)
(* registers functions, not null pointers.                                 *)
LEMMA NextTable ==
    ASSUME TypeOK, TableSet, Next
    PROVE  TableSet'
<1>1. ASSUME NEW p \in GosProc, NEW id \in GosId, NEW ids \in SUBSET GcgId, InitGos(p, id, ids)
      PROVE  TableSet'
    <2>1. \A t \in MsgType : GosCb[t] # "null"
        BY DEF GosCb, DefaultCb
    <2>2. \A q \in Proc : q # p => (Initialised(q)' <=> Initialised(q)) /\ funcs'[q] = funcs[q]
        BY <1>1 DEF InitGos, Initialised, TypeOK
    <2>3. p \in Proc => funcs'[p] = GosCb
        BY <1>1 DEF InitGos, TypeOK
    <2> QED BY <2>1, <2>2, <2>3 DEF TableSet
<1>2. ASSUME NEW p \in GcgProc, NEW id \in GcgId, NEW gosid \in GosId, InitGcg(p, id, gosid)
      PROVE  TableSet'
    <2>1. \A t \in MsgType : DefaultCb[t] # "null"
        BY DEF DefaultCb
    <2>2. \A q \in Proc : q # p => (Initialised(q)' <=> Initialised(q)) /\ funcs'[q] = funcs[q]
        BY <1>2 DEF InitGcg, Initialised, TypeOK
    <2>3. p \in Proc => funcs'[p] = DefaultCb
        BY <1>2 DEF InitGcg, TypeOK
    <2> QED BY <2>1, <2>2, <2>3 DEF TableSet
<1>3. ASSUME NEW p \in Proc, NEW t \in UserType, NEW f \in UserCb, RegistCb(p, t, f)
      PROVE  TableSet'
    <2>1. f # "null"
        BY ConstantsOK DEF UserCbKind
    <2>2. \A q \in Proc : Initialised(q)' <=> Initialised(q)
        BY <1>3 DEF RegistCb, Initialised
    <2>3. \A q \in Proc, u \in MsgType : funcs'[q][u] \in {f, funcs[q][u]}
        BY <1>3 DEF RegistCb, TypeOK
    <2> QED BY <2>1, <2>2, <2>3 DEF TableSet
<1>4. CASE UNCHANGED <<funcs, init>>
    BY <1>4 DEF TableSet, Initialised
<1> QED BY <1>1, <1>2, <1>3, <1>4, StepKinds DEF GcgRequest, GosRequest, AppRequest, AppNotify,
           Build, BuildFail, Response, tables

LEMMA InitTable == Init => TableSet
BY DEF Init, TableSet, Initialised

LEMMA TypeAndTable == Spec => [](TypeOK /\ TableSet)
<1>1. TypeOK /\ TableSet /\ [Next]_vars => (TypeOK /\ TableSet)'
    <2>1. CASE Next BY <2>1, NextType, NextTable
    <2>2. CASE UNCHANGED vars
        BY <2>2 DEF vars, TypeOK, TableSet, Initialised
    <2> QED BY <2>1, <2>2
<1> QED BY <1>1, InitType, InitTable, PTL DEF Spec

(* Whatever is sent, lost or repeated and whatever the application         *)
(* registers, the frames and the state of gosdata, gcgdata and             *)
(* registedfuncs keep their type.                                          *)
THEOREM TypeCorrect == Spec => []TypeOK
<1>1. TypeOK /\ TableSet => TypeOK
    OBVIOUS
<1> QED BY <1>1, TypeAndTable, PTL

-----------------------------------------------------------------------------
(* Responses echo requests, and are paired with them *)

(* Two numbers of one counter with the same msgseq are equal or SeqMax     *)
(* apart.                                                                  *)
LEMMA SameSeq ==
    ASSUME NEW a \in Nat, NEW b \in Nat, Header(a) = Header(b)
    PROVE  a = b \/ a >= b + SeqMax \/ b >= a + SeqMax
<1>1. SeqMax \in Nat /\ SeqMax > 0
    BY ConstantsOK
<1>2. \A x \in Nat : /\ x \div SeqMax \in Int /\ x % SeqMax \in Int
                     /\ x = SeqMax * (x \div SeqMax) + (x % SeqMax)
    BY <1>1
<1> DEFINE d == (a \div SeqMax) - (b \div SeqMax)
<1>3. a - b = SeqMax * d
    BY <1>1, <1>2 DEF Header
<1>4. d \in Int
    BY <1>2
<1>5. \A e \in Int : e >= 1 => SeqMax * e >= SeqMax
    BY <1>1
<1>6. \A e \in Int : e <= -1 => SeqMax * e <= -SeqMax
    BY <1>1
<1> HIDE DEF d
<1>7. d = 0 \/ d >= 1 \/ d <= -1
    BY <1>4
<1> QED BY <1>1, <1>3, <1>4, <1>5, <1>6, <1>7

(* Every frame a step adds is one a builder made or one tp3_response made  *)
(* of a frame already sent.                                                *)
LEMMA NewFrame ==
    ASSUME TypeOK, TableSet, NoneQuiet, Next, NEW m \in net', m \notin net
    PROVE  \/ m.at = 0 /\ Tells(m)
           \/ \E r \in net : Answers(m, r) /\ (Tells(r) => Tells(m))
<1>1. ASSUME NEW p \in Proc, NEW t \in MsgType, NEW q \in Proc,
             \/ GcgRequest(p, t, q) \/ GosRequest(p, t, q)
             \/ AppRequest(p, t, q) \/ AppNotify(p, t, q)
      PROVE  m.at = 0 /\ Tells(m)
    <2>1. PICK c \in Counter, trans \in {CG_OS_REQ, OS_CG_REQ, OS_CG_REQA, CG_OS_NOTI},
               gcgid \in GcgId \cup {ZeroId}, gosid \in GosId \cup {ZeroId} :
                  /\ trans = CG_OS_REQ => c = "GCG"
                  /\ trans = OS_CG_REQ => c = "GOS"
                  /\ trans \in {OS_CG_REQA, CG_OS_NOTI} => c = "APP"
                  /\ Build(p, c, t, trans, gcgid, gosid, q)
        BY <1>1, RequestIsBuild
    <2>2. m = [type |-> t, trans |-> trans, gcgid |-> gcgid, gosid |-> gosid,
               msgseq |-> Header(seq[p][c]), rescode |-> "NONE", from |-> p, to |-> q,
               n |-> [p |-> p, c |-> c, init |-> IF c = "APP" THEN 1 ELSE init[p][c],
                      k |-> seq[p][c]],
               at |-> 0]
        BY <2>1 DEF Build
    <2> QED BY <2>1, <2>2 DEF Tells, CG_OS_REQ, OS_CG_RES, OS_CG_REQ, CG_OS_RES,
               CG_OS_NOTI, OS_CG_REQA, CG_OS_RESA
<1>2. ASSUME NEW p \in Proc, NEW r \in net, Response(p, r)
      PROVE  Answers(m, r) /\ (Tells(r) => Tells(m))
    <2>1. PICK out \in Outcomes(r.to, r) : out.stat = "NOERROR" /\ m = Reply(r, out.res)
        BY <1>2 DEF Response
    <2>2. r \in Frame /\ r.to \in Proc /\ r.type \in MsgType
        BY DEF TypeOK, Frame
    <2>3. PICK rc \in ResCode :
             /\ out = Copied(r, rc)
             /\ r.trans \in {CG_OS_REQ, OS_CG_REQ, OS_CG_REQA, CG_OS_RESA}
        BY <1>2, <2>1, <2>2, OutcomeForm DEF NoneQuiet, Response
    <2>4. /\ m.type = r.type /\ m.trans = r.trans + 1 /\ m.gcgid = r.gcgid
          /\ m.gosid = r.gosid /\ m.msgseq = r.msgseq /\ m.n = r.n
          /\ m.from = r.to /\ m.to = r.from
        BY <2>1, <2>3 DEF Reply, Copied
    <2> QED BY <2>3, <2>4 DEF Answers, Tells, CG_OS_REQ, OS_CG_RES, OS_CG_REQ, CG_OS_RES,
               OS_CG_REQA, CG_OS_RESA
<1>3. CASE UNCHANGED net
    BY <1>3
<1> QED BY <1>1, <1>2, <1>3, StepKinds DEF InitGos, InitGcg, RegistCb, BuildFail

LEMMA NetGrows == TypeOK /\ Next => net \subseteq net'
<1> SUFFICES ASSUME TypeOK, Next PROVE net \subseteq net'
    OBVIOUS
<1> QED BY StepKinds DEF InitGos, InitGcg, RegistCb, BuildFail, Response,
           Build, GcgRequest, GosRequest, AppRequest, AppNotify

LEMMA NextQuiet ==
    ASSUME TypeOK, NoneQuiet, Next, "quiet" \notin UserCb
    PROVE  NoneQuiet'
<1>1. ASSUME NEW p \in GosProc, NEW id \in GosId, NEW ids \in SUBSET GcgId, InitGos(p, id, ids)
      PROVE  NoneQuiet'
    <2>1. \A q \in Proc : funcs'[q] \in {funcs[q], GosCb}
        BY <1>1 DEF InitGos, TypeOK
    <2> QED BY <2>1 DEF NoneQuiet, GosCb, DefaultCb
<1>2. ASSUME NEW p \in GcgProc, NEW id \in GcgId, NEW gosid \in GosId, InitGcg(p, id, gosid)
      PROVE  NoneQuiet'
    <2>1. \A q \in Proc : funcs'[q] \in {funcs[q], DefaultCb}
        BY <1>2 DEF InitGcg, TypeOK
    <2> QED BY <2>1 DEF NoneQuiet, DefaultCb
<1>3. ASSUME NEW p \in Proc, NEW t \in UserType, NEW f \in UserCb, RegistCb(p, t, f)
      PROVE  NoneQuiet'
    <2>1. \A q \in Proc, u \in MsgType : funcs'[q][u] \in {f, funcs[q][u]}
        BY <1>3 DEF RegistCb, TypeOK
    <2> QED BY <2>1 DEF NoneQuiet
<1>4. CASE UNCHANGED funcs
    BY <1>4 DEF NoneQuiet
<1> QED BY <1>1, <1>2, <1>3, <1>4, StepKinds DEF GcgRequest, GosRequest, AppRequest, AppNotify,
           Build, BuildFail, Response, tables

LEMMA NextFrames ==
    ASSUME TypeOK, TableSet, NoneQuiet, FramesTell, Next
    PROVE  FramesTell'
BY NewFrame DEF FramesTell

LEMMA NextEchoes ==
    ASSUME TypeOK, TableSet, NoneQuiet, EchoesRequest, Next
    PROVE  EchoesRequest'
<1> SUFFICES ASSUME NEW m \in net', m.at > 0
             PROVE  \E r \in net' : Answers(m, r)
    BY DEF EchoesRequest
<1>1. CASE m \in net
    BY <1>1, NetGrows DEF EchoesRequest
<1>2. CASE m \notin net
    BY <1>2, NewFrame, NetGrows
<1> QED BY <1>1, <1>2

(* What a frame tells of its exchange is what a response is taken by.      *)
LEMMA TellingMatches == TypeOK /\ FramesTell => AnswerMatches
<1> SUFFICES ASSUME TypeOK, FramesTell, NEW r \in net, NEW m \in net, Fits(m, r)
             PROVE  /\ r.n.p = m.n.p /\ r.n.c = m.n.c
                    /\ r.n.k = m.n.k \/ Apart(r.n, m.n)
    BY DEF AnswerMatches
<1>1. Tells(r) /\ Tells(m)
    BY DEF FramesTell
<1>2. r.n.p = m.n.p /\ r.n.c = m.n.c
    BY <1>1 DEF Fits, Tells, CG_OS_REQ, OS_CG_RES, OS_CG_REQ, CG_OS_RES,
       OS_CG_REQA, CG_OS_RESA
<1>3. Header(r.n.k) = Header(m.n.k)
    BY <1>1 DEF Fits, Tells
<1>4. r.n.k \in Nat /\ m.n.k \in Nat
    BY DEF TypeOK, Frame, Exchanges
<1>5. r.n.k = m.n.k \/ Apart(r.n, m.n)
    BY <1>3, <1>4, SameSeq DEF Apart
<1> QED BY <1>2, <1>5

LEMMA InitInv == Init => IInv
BY DEF Init, IInv, NoneQuiet, FramesTell, EchoesRequest

LEMMA Invariant ==
    ASSUME "quiet" \notin UserCb
    PROVE  Spec => []IInv
<1>1. TypeOK /\ TableSet /\ IInv /\ [Next]_vars => IInv'
    <2> SUFFICES ASSUME TypeOK, TableSet, IInv, [Next]_vars PROVE IInv'
        OBVIOUS
    <2>1. CASE Next
        BY <2>1, NextQuiet, NextFrames, NextEchoes DEF IInv
    <2>2. CASE UNCHANGED vars
        BY <2>2 DEF vars, IInv, NoneQuiet, FramesTell, EchoesRequest
    <2> QED BY <2>1, <2>2
<1> QED BY <1>1, InitInv, TypeAndTable, PTL DEF Spec

(* tp3_response makes nothing but responses, as long as no callback        *)
(* returns success without setting one: every frame it makes echoes the    *)
(* header of a request, or of the response of a three-step exchange, that  *)
(* was sent to the process making it.                                      *)
THEOREM ResponsesEcho ==
    ASSUME "quiet" \notin UserCb
    PROVE  Spec => []EchoesRequest
<1>1. IInv => EchoesRequest
    BY DEF IInv
<1> QED BY <1>1, Invariant, PTL

(* However frames are delayed, repeated or reordered and however often a   *)
(* process is initialised again, a response is taken for that of another   *)
(* request only across an initialisation, or SeqMax requests.              *)
THEOREM ResponsesMatch ==
    ASSUME "quiet" \notin UserCb
    PROVE  Spec => []AnswerMatches
<1>1. TypeOK /\ IInv => AnswerMatches
    BY TellingMatches DEF IInv
<1> QED BY <1>1, Invariant, TypeAndTable, PTL

-----------------------------------------------------------------------------
(* Approval *)

(* A process that is a GOS, and not a GCG as well, keeps the functions     *)
(* tp3_initgos registered where the application registers none.            *)
GosTable ==
    \A p \in Proc : init[p]["GOS"] > 0 =>
        \A t \in Guarded \ UserType : funcs[p][t] \in {"acceptmsg", "defaultconfirm"}
GosInit == \A p \in Proc : init[p]["GOS"] > 0 => p \in GosProc

LEMMA NextGosTable ==
    ASSUME GosProc \cap GcgProc = {}, TypeOK, GosTable, GosInit, Next
    PROVE  GosTable' /\ GosInit'
<1>1. ASSUME NEW p \in GosProc, NEW id \in GosId, NEW ids \in SUBSET GcgId, InitGos(p, id, ids)
      PROVE  GosTable' /\ GosInit'
    <2>1. \A t \in Guarded : GosCb[t] \in {"acceptmsg", "defaultconfirm"}
        BY DEF GosCb, DefaultCb, Guarded, MsgType, GcgStarted
    <2>2. \A q \in Proc : q # p => init'[q] = init[q] /\ funcs'[q] = funcs[q]
        BY <1>1 DEF InitGos, TypeOK
    <2>3. p \in Proc => funcs'[p] = GosCb
        BY <1>1 DEF InitGos, TypeOK
    <2> QED BY <2>1, <2>2, <2>3 DEF GosTable, GosInit
<1>2. ASSUME NEW p \in GcgProc, NEW id \in GcgId, NEW gosid \in GosId, InitGcg(p, id, gosid)
      PROVE  GosTable' /\ GosInit'
    <2>1. \A q \in Proc : q # p => init'[q] = init[q] /\ funcs'[q] = funcs[q]
        BY <1>2 DEF InitGcg, TypeOK
    <2>2. init'[p]["GOS"] = init[p]["GOS"]
        BY <1>2 DEF InitGcg, TypeOK, Part, Proc
    <2>3. ~(init[p]["GOS"] > 0)
        BY DEF GosInit, Proc
    <2> QED BY <2>1, <2>2, <2>3 DEF GosTable, GosInit
<1>3. ASSUME NEW p \in Proc, NEW t \in UserType, NEW f \in UserCb, RegistCb(p, t, f)
      PROVE  GosTable' /\ GosInit'
    <2>1. \A q \in Proc : \A u \in Guarded \ UserType : funcs'[q][u] = funcs[q][u]
        BY <1>3 DEF RegistCb, TypeOK
    <2>2. UNCHANGED init
        BY <1>3 DEF RegistCb
    <2> QED BY <2>1, <2>2 DEF GosTable, GosInit
<1>4. CASE UNCHANGED <<funcs, init>>
    BY <1>4 DEF GosTable, GosInit
<1> QED BY <1>1, <1>2, <1>3, <1>4, StepKinds DEF GcgRequest, GosRequest, AppRequest, AppNotify,
           Build, BuildFail, Response, tables

(* What a step may answer NORMAL to a request of a GCG. *)
Approves ==
    \A m \in net' \ net :
        m.trans = OS_CG_RES /\ m.type \in Guarded \ UserType /\ m.rescode = "NORMAL"
           => Approved(m)

LEMMA StepApproves ==
    ASSUME TypeOK, TableSet, GosTable, Next
    PROVE  Approves
<1> SUFFICES ASSUME NEW m \in net', m \notin net, m.trans = OS_CG_RES,
                    m.type \in Guarded \ UserType, m.rescode = "NORMAL"
             PROVE  Approved(m)
    BY DEF Approves
<1>1. ASSUME NEW p \in Proc, NEW t \in MsgType, NEW q \in Proc,
             \/ GcgRequest(p, t, q) \/ GosRequest(p, t, q)
             \/ AppRequest(p, t, q) \/ AppNotify(p, t, q)
      PROVE  FALSE
    <2>1. m.rescode = "NONE"
        BY <1>1 DEF GcgRequest, GosRequest, AppRequest, AppNotify, Build
    <2> QED BY <2>1
<1>2. ASSUME NEW p \in Proc, NEW r \in net, Response(p, r)
      PROVE  Approved(m)
    <2>1. PICK out \in Outcomes(r.to, r) : out.stat = "NOERROR" /\ m = Reply(r, out.res)
        BY <1>2 DEF Response
    <2>2. r \in Frame /\ r.to \in Proc /\ r.type \in MsgType
        BY DEF TypeOK, Frame
    <2>3. out.res # NoHeader
        BY <2>1 DEF Reply, NoHeader, OS_CG_RES, CG_OS_REQ
    <2>4. PICK rc \in ResCode : out = Copied(r, rc)
        BY <1>2, <2>1, <2>2, <2>3, OutcomeForm DEF Response
    <2>5. /\ m.type = r.type /\ m.trans = r.trans + 1 /\ m.gcgid = r.gcgid
          /\ m.gosid = r.gosid /\ m.from = r.to /\ rc = "NORMAL"
        BY <2>1, <2>4 DEF Reply, Copied
    <2>6. r.trans = CG_OS_REQ
        BY <2>2, <2>5 DEF Frame, TransType, CG_OS_REQ, OS_CG_RES, OS_CG_ACKA
    <2>7. init[r.to]["GOS"] > 0
        BY <1>2, <2>6 DEF Response, PartOf, ToGos
    <2>8. funcs[r.to][r.type] \in {"acceptmsg", "defaultconfirm"}
        BY <2>2, <2>5, <2>7 DEF GosTable
    <2>9. out = SetResponse(r, IsOkGos(r.to, r))
        BY <2>1, <2>8 DEF Outcomes, AcceptMsg
    <2>10. IsOkGos(r.to, r) = "NORMAL"
        BY <2>4, <2>5, <2>6, <2>9 DEF SetResponse, Copied, Failed, CG_OS_REQ, OS_CG_RES,
           CG_OS_RES, CG_OS_NOTI, OS_CG_ACKA
    <2> QED BY <2>5, <2>10 DEF IsOkGos, Approved
<1>3. CASE UNCHANGED net
    BY <1>3
<1> QED BY <1>1, <1>2, <1>3, StepKinds DEF InitGos, InitGcg, RegistCb, BuildFail

(* Where no process is a GOS and a GCG at once, a NORMAL answer to a       *)
(* connection approval, a status or an environment report names the GOS    *)
(* and a GCG of its list, whatever tp3_initgos and tp3_registcbfunc were   *)
(* called with before.                                                     *)
THEOREM ApprovedOnly ==
    ASSUME GosProc \cap GcgProc = {}
    PROVE  Spec => ApprovalSound
<1>1. Init => GosTable /\ GosInit
    BY DEF Init, GosTable, GosInit, Part
<1>2. TypeOK /\ GosTable /\ GosInit /\ [Next]_vars => (GosTable /\ GosInit)'
    <2>1. CASE Next BY <2>1, NextGosTable
    <2>2. CASE UNCHANGED vars BY <2>2 DEF vars, GosTable, GosInit
    <2> QED BY <2>1, <2>2
<1>3. TypeOK /\ TableSet /\ GosTable /\ [Next]_vars => [Approves]_vars
    BY StepApproves
<1>4. ApprovalSound <=> [][Approves]_vars
    BY DEF ApprovalSound, Approves
<1> QED BY <1>1, <1>2, <1>3, <1>4, TypeAndTable, PTL DEF Spec
=============================================================================
