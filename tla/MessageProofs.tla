--------------------------- MODULE MessageProofs ---------------------------
(* Theorems about the memory of messages and frames, and their proofs.     *)
EXTENDS Message, TLAPS

MsgRec == [live : BOOLEAN, fields : Block \cup {Null}, size : Nat, num : Nat,
           datas : SUBSET Block]

(* What Ownership says of one message. *)
Own(x, al) == /\ Blocks(x) \subseteq al /\ x.fields \notin x.datas
              /\ x.fields = Null => x.size = 0

Good(x) == x \in MsgRec /\ x.num <= x.size

(* A message that a call may have written behind the array of.             *)
Sound(x, bad) == x \in MsgRec /\ (bad \/ x.num <= x.size)

(* An outcome of adding to x a field while al is allocated: x is sound     *)
(* still, and what belongs to others is theirs.                            *)
Kept(x, al, o) ==
    /\ Sound(o.x, o.bad) /\ o.al \subseteq Block /\ Own(o.x, o.al)
    /\ al \ Blocks(x) \subseteq o.al
    /\ Blocks(o.x) \cap (al \ Blocks(x)) = {}
    /\ o.stat \in Status /\ o.bad \in BOOLEAN
    /\ "fields" \notin AllocFails => ~o.bad

(* ... and nothing is lost. *)
LosesNothing(x, al, o) == o.al \ Blocks(o.x) \subseteq al \ Blocks(x)

-----------------------------------------------------------------------------
(* Adding a field *)

LEMMA ExtendedKept ==
    ASSUME NEW x, NEW al, NEW o \in Extended(x, al),
           Good(x), al \subseteq Block, Own(x, al)
    PROVE  Kept(x, al, o) /\ LosesNothing(x, al, o) /\ (o.bad \/ o.x.num < o.x.size)
<1>1. CASE x.num < x.size
    <2>1. o = Outcome(x, al, "NOERROR", FALSE)
        BY <1>1 DEF Extended, Own
    <2> QED BY <1>1, <2>1 DEF Kept, LosesNothing, Outcome, Good, Sound, Own, MsgRec, Status
<1>2. ASSUME NEW b \in Block \ al, ~(x.num < x.size),
             o = Outcome(Moved(x, b), (al \ {x.fields}) \cup {b}, "NOERROR", Blocks(x) \notin SUBSET al)
      PROVE  Kept(x, al, o) /\ LosesNothing(x, al, o) /\ (o.bad \/ o.x.num < o.x.size)
    <2>1. /\ o.x = [x EXCEPT !.size = @ + FieldStep, !.fields = b]
          /\ o.al = (al \ {x.fields}) \cup {b} /\ o.stat = "NOERROR" /\ o.bad = FALSE
        BY <1>2 DEF Outcome, Moved, Own
    <2>2. /\ o.x.fields = b /\ o.x.datas = x.datas /\ o.x.num = x.num
          /\ o.x.size = x.size + FieldStep /\ o.x \in MsgRec
        <3>1. /\ x \in MsgRec /\ b \in Block /\ FieldStep \in Nat /\ x.size \in Nat
              /\ x.size + FieldStep \in Nat
            BY <1>2, MessageOK DEF Good, MsgRec
        <3> QED BY <2>1, <3>1 DEF MsgRec
    <2>3. Good(o.x) /\ o.x.num < o.x.size
        <3>1. x.num <= x.size /\ x.num \in Nat /\ x.size \in Nat /\ FieldStep \in Nat /\ FieldStep > 0
            BY MessageOK DEF Good, MsgRec
        <3> QED BY <2>2, <3>1 DEF Good
    <2>4. Own(o.x, o.al)
        BY <2>1, <2>2, MessageOK DEF Own, Blocks, Good, MsgRec
    <2>5. al \ Blocks(x) \subseteq o.al /\ Blocks(o.x) \cap (al \ Blocks(x)) = {}
        BY <2>1, <2>2, MessageOK DEF Own, Blocks, Good, MsgRec
    <2>6. o.al \ Blocks(o.x) \subseteq al \ Blocks(x)
        BY <2>1, <2>2, MessageOK DEF Own, Blocks, Good, MsgRec
    <2> QED BY <2>1, <2>3, <2>4, <2>5, <2>6 DEF Kept, LosesNothing, Good, Sound, Status
<1>3. ASSUME o = Outcome(x, al, "NOERROR", TRUE), "fields" \in AllocFails
      PROVE  Kept(x, al, o) /\ LosesNothing(x, al, o) /\ (o.bad \/ o.x.num < o.x.size)
    BY <1>3 DEF Kept, LosesNothing, Outcome, Good, Sound, Own, MsgRec, Status
<1> QED BY <1>1, <1>2, <1>3 DEF Extended

LEMMA FieldKept ==
    ASSUME NEW x, NEW al, NEW e, NEW o \in Short(e) \cup Long(e),
           Good(x), al \subseteq Block, Own(x, al),
           Kept(x, al, e), LosesNothing(x, al, e), e.bad \/ e.x.num < e.x.size,
           e = Outcome(e.x, e.al, e.stat, e.bad)
    PROVE  Kept(x, al, o) /\ LosesNothing(x, al, o)
<1>0. e.x \in MsgRec /\ e.x.num \in Nat /\ e.x.size \in Nat /\ e.x.num + 1 \in Nat
    BY DEF Kept, Sound, MsgRec
<1>1. CASE o = [e EXCEPT !.x.num = @ + 1]
    <2>1. /\ o.x = [e.x EXCEPT !.num = @ + 1]
          /\ o.al = e.al /\ o.stat = e.stat /\ o.bad = e.bad
        BY <1>1 DEF Outcome
    <2>2. Sound(o.x, o.bad) /\ Blocks(o.x) = Blocks(e.x) /\ Own(o.x, o.al)
        BY <2>1, <1>0 DEF Kept, Sound, MsgRec, Blocks, Own
    <2> QED BY <2>1, <2>2 DEF Kept, LosesNothing
<1>2. ASSUME NEW d \in Block \ e.al,
             o = [e EXCEPT !.x.num = @ + 1, !.x.datas = @ \cup {d}, !.al = @ \cup {d}]
      PROVE  Kept(x, al, o) /\ LosesNothing(x, al, o)
    <2>1. /\ o.x = [e.x EXCEPT !.num = @ + 1, !.datas = @ \cup {d}]
          /\ o.al = e.al \cup {d} /\ o.stat = e.stat /\ o.bad = e.bad
        BY <1>2 DEF Outcome
    <2>2. /\ o.x \in MsgRec /\ o.x.num = e.x.num + 1 /\ o.x.size = e.x.size
          /\ o.x.fields = e.x.fields /\ o.x.datas = e.x.datas \cup {d}
        <3>1. e.x.datas \cup {d} \in SUBSET Block
            BY <1>0 DEF MsgRec
        <3> QED BY <1>0, <2>1, <3>1 DEF MsgRec
    <2>3. Sound(o.x, o.bad)
        BY <1>0, <2>1, <2>2 DEF Sound
    <2>4. Blocks(o.x) = Blocks(e.x) \cup {d}
        BY <2>2, MessageOK DEF Blocks
    <2>5. Own(o.x, o.al)
        <3>1. e.x.fields # d
            BY <1>0, <1>2, MessageOK DEF Kept, Own, Blocks, MsgRec
        <3> QED BY <2>1, <2>2, <2>4, <3>1 DEF Own, Kept
    <2>6. d \notin al \ Blocks(x)
        BY <1>2 DEF Kept
    <2> QED BY <2>1, <2>3, <2>4, <2>5, <2>6, <1>2 DEF Kept, LosesNothing
<1>3. CASE o = [e EXCEPT !.stat = "MEMORY_ALLOCATION_FAIL"]
    <2>1. o.x = e.x /\ o.al = e.al /\ o.bad = e.bad /\ o.stat = "MEMORY_ALLOCATION_FAIL"
        BY <1>3 DEF Outcome
    <2> QED BY <2>1 DEF Kept, LosesNothing, Status
<1> QED BY <1>1, <1>2, <1>3 DEF Short, Long

LEMMA ExtendedIsOutcome ==
    ASSUME NEW x, NEW al, NEW e \in Extended(x, al)
    PROVE  e = Outcome(e.x, e.al, e.stat, e.bad)
BY DEF Extended, Outcome

LEMMA AddedKept ==
    ASSUME NEW x, NEW al, NEW o \in Added(x, al),
           Good(x), al \subseteq Block, Own(x, al)
    PROVE  Kept(x, al, o) /\ LosesNothing(x, al, o)
<1>1. PICK e \in Extended(x, al) : o \in Short(e) \cup Long(e)
    BY DEF Added
<1>2. e = Outcome(e.x, e.al, e.stat, e.bad) BY ExtendedIsOutcome
<1> QED BY <1>1, <1>2, ExtendedKept, FieldKept

LEMMA AddedCopyKept ==
    ASSUME NEW x, NEW al, NEW kind, NEW o \in AddedCopy(x, al, kind),
           Good(x), al \subseteq Block, Own(x, al)
    PROVE  Kept(x, al, o) /\ (kind = "nset" /\ o.stat = "NOERROR" => LosesNothing(x, al, o))
<1>1. CASE o = Outcome(x, al, "MEMORY_ALLOCATION_FAIL", FALSE)
    BY <1>1 DEF Kept, LosesNothing, Outcome, Good, Sound, Own, MsgRec, Status
<1>2. ASSUME NEW t \in Block \ al, NEW p \in Added(x, al \cup {t}),
             o = IF kind = "nset" /\ p.stat = "NOERROR" THEN [p EXCEPT !.al = @ \ {t}] ELSE p
      PROVE  Kept(x, al, o) /\ (kind = "nset" /\ o.stat = "NOERROR" => LosesNothing(x, al, o))
    <2>1. Kept(x, al \cup {t}, p) /\ LosesNothing(x, al \cup {t}, p)
        <3>1. Own(x, al \cup {t}) /\ al \cup {t} \subseteq Block BY DEF Own
        <3> QED BY <3>1, AddedKept
    <2>2. t \notin Blocks(x) /\ t \notin Blocks(p.x)
        <3>1. t \notin Blocks(x) BY DEF Own
        <3> QED BY <3>1, <2>1 DEF Kept
    <2>3. CASE o = p /\ ~(kind = "nset" /\ p.stat = "NOERROR")
        BY <2>1, <2>2, <2>3 DEF Kept
    <2>4. CASE kind = "nset" /\ p.stat = "NOERROR"
        <3>1. o = [p EXCEPT !.al = @ \ {t}] BY <1>2, <2>4
        <3>2. \A e : p = Outcome(e.x, e.al, e.stat, e.bad) =>
                 o.x = p.x /\ o.al = p.al \ {t} /\ o.stat = p.stat /\ o.bad = p.bad
            BY <3>1 DEF Outcome
        <3>3. p = Outcome(p.x, p.al, p.stat, p.bad)
            <4>1. PICK e \in Extended(x, al \cup {t}) : p \in Short(e) \cup Long(e)
                BY DEF Added
            <4>2. e = Outcome(e.x, e.al, e.stat, e.bad) BY ExtendedIsOutcome
            <4> QED BY <4>1, <4>2 DEF Short, Long, Outcome
        <3>4. o.x = p.x /\ o.al = p.al \ {t} /\ o.stat = p.stat /\ o.bad = p.bad
            BY <3>2, <3>3
        <3>5. Own(o.x, o.al)
            BY <3>4, <2>1, <2>2 DEF Kept, Own
        <3> QED BY <3>4, <3>5, <2>1, <2>2 DEF Kept, LosesNothing
    <2> QED BY <1>2, <2>3, <2>4
<1> QED BY <1>1, <1>2 DEF AddedCopy

-----------------------------------------------------------------------------
(* The invariant.  Ownership is inductive with the types: a step takes new *)
(* blocks from those that are free, and frees what one message or frame    *)
(* owns.                                                                   *)

IInv == TypeOK /\ Ownership

LEMMA EmptyGood ==
    /\ Good(EmptyMsg) /\ Good(NoMsg)
    /\ Blocks(EmptyMsg) = {} /\ Blocks(NoMsg) = {}
    /\ \A al : Own(EmptyMsg, al) /\ Own(NoMsg, al)
<1>1. ASSUME NEW l \in BOOLEAN
      PROVE  Good(Blank(l)) /\ Blocks(Blank(l)) = {} /\ \A al : Own(Blank(l), al)
    <2>1. Blank(l) \in MsgRec BY DEF MsgRec, Blank
    <2>2. /\ Blank(l).fields = Null /\ Blank(l).size = 0 /\ Blank(l).num = 0
          /\ Blank(l).datas = {}
        BY DEF Blank
    <2>3. Blocks(Blank(l)) = {} BY <2>2 DEF Blocks
    <2> QED BY <2>1, <2>2, <2>3 DEF Good, Own
<1> QED BY <1>1 DEF NoMsg, EmptyMsg

LEMMA InitInv == Init => IInv
<1> SUFFICES ASSUME Init PROVE IInv OBVIOUS
<1>1. \A m \in Msg : msg[m] = NoMsg BY DEF Init
<1>2. msg \in [Msg -> MsgRec] /\ \A m \in Msg : msg[m].num <= msg[m].size
    BY EmptyGood, <1>1 DEF Init, Good
<1>3. TypeOK
    BY <1>2 DEF Init, TypeOK, MsgRec, NoTodo, Msg, Status
<1>4. \A m \in Msg : Blocks(msg[m]) = {} /\ Own(msg[m], alive)
    BY <1>1, EmptyGood
<1>5. \A f \in Frame : frame[f] = Null BY DEF Init
<1> QED BY <1>3, <1>4, <1>5 DEF IInv, Ownership, Own, Frame

LEMMA EachMessage ==
    ASSUME IInv, Running, NEW m \in Msg
    PROVE  Good(msg[m]) /\ Own(msg[m], alive) /\ alive \subseteq Block
BY DEF IInv, Running, TypeOK, Ownership, Good, Own, MsgRec

(* A step that makes y of the message m.                                   *)
LEMMA OneMessage ==
    ASSUME IInv, Running, NEW m \in Msg, NEW y, NEW al,
           msg' = [msg EXCEPT ![m] = y], alive' = al, UNCHANGED frame,
           Sound(y, fault'), al \subseteq Block, Own(y, al),
           alive \ Blocks(msg[m]) \subseteq al,
           Blocks(y) \cap (alive \ Blocks(msg[m])) = {}
    PROVE  /\ alive' \subseteq Block /\ msg' \in [Msg -> MsgRec]
           /\ fault' \/ \A n \in Msg : msg'[n].num <= msg'[n].size
           /\ Ownership'
<1>1. msg \in [Msg -> MsgRec] BY DEF IInv, TypeOK, MsgRec
<1>2. msg'[m] = y /\ \A n \in Msg : n # m => msg'[n] = msg[n]
    BY <1>1
<1>3. \A n \in Msg : n # m => /\ Blocks(msg[n]) \subseteq alive \ Blocks(msg[m])
                            /\ Blocks(msg[n]) \subseteq al
    BY DEF IInv, Ownership
<1>4. \A n \in Msg : n # m => Blocks(msg'[n]) = Blocks(msg[n])
    BY <1>2
<1>5. Blocks(msg'[m]) = Blocks(y) BY <1>2
<1>6. /\ msg' \in [Msg -> MsgRec]
      /\ fault' \/ \A n \in Msg : msg'[n].num <= msg'[n].size
    <2>1. y \in MsgRec /\ (fault' \/ y.num <= y.size) BY DEF Sound
    <2>2. \A n \in Msg : msg[n].num <= msg[n].size BY DEF IInv, TypeOK, Running
    <2> QED BY <1>1, <1>2, <2>1, <2>2
<1>7. ASSUME NEW n \in Msg
      PROVE  /\ Blocks(msg'[n]) \subseteq al
             /\ msg'[n].fields \notin msg'[n].datas
             /\ msg'[n].fields = Null => msg'[n].size = 0
    <2>1. CASE n = m BY <2>1, <1>2, <1>5 DEF Own
    <2>2. CASE n # m BY <2>2, <1>2, <1>3, <1>4 DEF IInv, Ownership
    <2> QED BY <2>1, <2>2
<1>8. ASSUME NEW n \in Msg, NEW k \in Msg, n # k
      PROVE  Blocks(msg'[n]) \cap Blocks(msg'[k]) = {}
    <2>1. CASE n = m BY <2>1, <1>3, <1>4, <1>5, <1>8
    <2>2. CASE k = m BY <2>2, <1>3, <1>4, <1>5, <1>8
    <2>3. CASE n # m /\ k # m BY <2>3, <1>4, <1>8 DEF IInv, Ownership
    <2> QED BY <2>1, <2>2, <2>3
<1>9. ASSUME NEW f \in Frame, frame[f] # Null
      PROVE  frame[f] \in al /\ \A n \in Msg : frame[f] \notin Blocks(msg'[n])
    <2>1. frame[f] \in alive \ Blocks(msg[m])
        BY <1>9 DEF IInv, Ownership
    <2>2. ASSUME NEW n \in Msg PROVE frame[f] \notin Blocks(msg'[n])
        <3>1. CASE n = m BY <3>1, <2>1, <1>5
        <3>2. CASE n # m BY <3>2, <1>4, <1>9 DEF IInv, Ownership
        <3> QED BY <3>1, <3>2
    <2> QED BY <2>1, <2>2
<1>10. Ownership'
    BY <1>7, <1>8, <1>9 DEF Ownership, IInv
<1> QED BY <1>6, <1>10

(* A step that fills a message. *)
LEMMA FillKeeps ==
    ASSUME IInv, Running, NEW m \in Msg, NEW o, Kept(msg[m], alive, o),
           msg' = [msg EXCEPT ![m] = o.x], alive' = o.al, fault' = o.bad, UNCHANGED frame
    PROVE  /\ alive' \subseteq Block /\ msg' \in [Msg -> MsgRec]
           /\ fault' \/ \A n \in Msg : msg'[n].num <= msg'[n].size
           /\ Ownership'
<1>1. /\ Sound(o.x, fault') /\ o.al \subseteq Block /\ Own(o.x, o.al)
      /\ alive \ Blocks(msg[m]) \subseteq o.al
      /\ Blocks(o.x) \cap (alive \ Blocks(msg[m])) = {}
    BY DEF Kept
<1> QED BY <1>1, OneMessage

(* A step that fills or empties a frame and leaves the messages alone. *)
LEMMA OneFrame ==
    ASSUME IInv, NEW f \in Frame, NEW c \in Block \cup {Null}, NEW al,
           frame' = [frame EXCEPT ![f] = c], alive' = al, UNCHANGED msg,
           c # Null => c \in al /\ c \notin alive,
           al \subseteq Block, alive \ {frame[f]} \subseteq al
    PROVE  frame' \in [Frame -> Block \cup {Null}] /\ Ownership'
<1>1. frame \in [Frame -> Block \cup {Null}] BY DEF IInv, TypeOK
<1>2. frame'[f] = c /\ \A g \in Frame : g # f => frame'[g] = frame[g]
    BY <1>1
<1>3. \A m \in Msg : Blocks(msg'[m]) = Blocks(msg[m]) BY Zenon
<1>4. \A m \in Msg : frame[f] \notin Blocks(msg[m])
    BY DEF IInv, Ownership, Blocks
<1>5. \A m \in Msg : Blocks(msg[m]) \subseteq al
    BY <1>4 DEF IInv, Ownership
<1>6. ASSUME NEW g \in Frame, frame'[g] # Null
      PROVE  frame'[g] \in al /\ \A m \in Msg : frame'[g] \notin Blocks(msg[m])
    <2>1. CASE g = f
        <3>1. c # Null /\ frame'[g] = c BY <2>1, <1>2, <1>6
        <3> QED BY <3>1 DEF IInv, Ownership
    <2>2. CASE g # f
        <3>1. frame'[g] = frame[g] /\ frame[g] # Null BY <2>2, <1>2, <1>6
        <3>2. frame[g] # frame[f]
            <4>1. frame["in"] = frame["out"] => frame["in"] = Null BY DEF IInv, Ownership
            <4> QED BY <4>1, <3>1, <2>2 DEF Frame
        <3> QED BY <3>1, <3>2 DEF IInv, Ownership
    <2> QED BY <2>1, <2>2
<1>7. frame'["in"] = frame'["out"] => frame'["in"] = Null
    <2>1. CASE c = Null BY <2>1, <1>2 DEF Frame
    <2>2. CASE c # Null
        <3>1. \A g \in Frame : frame[g] # c
            BY <2>2 DEF IInv, Ownership
        <3> QED BY <3>1, <1>2 DEF Frame
    <2> QED BY <2>1, <2>2
<1>8. /\ \A m \in Msg : msg[m].fields \notin msg[m].datas
      /\ \A m \in Msg : msg[m].fields = Null => msg[m].size = 0
      /\ \A m, n \in Msg : m # n => Blocks(msg[m]) \cap Blocks(msg[n]) = {}
    BY DEF IInv, Ownership
<1> QED BY <1>1, <1>3, <1>5, <1>6, <1>7, <1>8 DEF Ownership

(* A step that makes tp3_response's two messages, or is done with them. *)
LEMMA TwoMessages ==
    ASSUME IInv, Running, NEW y \in {EmptyMsg, NoMsg}, NEW al,
           msg' = [msg EXCEPT !["req"] = y, !["res"] = y], alive' = al,
           al \subseteq Block, Blocks(msg["app"]) \subseteq al,
           \A f \in Frame : frame'[f] # Null =>
               frame'[f] \in al /\ frame'[f] \notin Blocks(msg["app"]),
           frame'["in"] = frame'["out"] => frame'["in"] = Null
    PROVE  /\ alive' \subseteq Block /\ msg' \in [Msg -> MsgRec]
           /\ fault' \/ \A n \in Msg : msg'[n].num <= msg'[n].size
           /\ Ownership'
<1>1. Good(y) /\ Blocks(y) = {} /\ Own(y, al) BY EmptyGood
<1>2. msg \in [Msg -> MsgRec] BY DEF IInv, TypeOK, MsgRec
<1>3. msg'["app"] = msg["app"] /\ msg'["req"] = y /\ msg'["res"] = y
    BY <1>2 DEF Msg
<1>4. \A n \in Msg : n = "app" \/ msg'[n] = y BY <1>3 DEF Msg
<1>5. Good(msg["app"]) /\ Own(msg["app"], al)
    BY EachMessage DEF Own, Msg
<1>6. \A n \in Msg : Good(msg'[n]) /\ Own(msg'[n], al)
    BY <1>1, <1>3, <1>4, <1>5
<1>7. msg' \in [Msg -> MsgRec] /\ \A n \in Msg : msg'[n].num <= msg'[n].size
    BY <1>2, <1>6 DEF Good
<1>8. \A n \in Msg : n # "app" => Blocks(msg'[n]) = {} BY <1>1, <1>4
<1>9. Blocks(msg'["app"]) = Blocks(msg["app"]) BY <1>3
<1>10. \A m, n \in Msg : m # n => Blocks(msg'[m]) \cap Blocks(msg'[n]) = {}
    BY <1>8
<1>11. \A f \in Frame : frame'[f] # Null => \A m \in Msg : frame'[f] \notin Blocks(msg'[m])
    BY <1>8, <1>9
<1> QED BY <1>6, <1>7, <1>10, <1>11 DEF Ownership, Own

LEMMA NextRuns == Next => Running
BY DEF Next, InitMsg, ReleaseMsg, ReadFrame, GenerateFrame, ReleaseFrame, AddField, AddCopy,
       Filling, StartParse, Response, ParseField, AbortParse, EndParse, SetResponse,
       CallbackFails, CallbackReturns

LEMMA StepInv == IInv /\ [Next]_vars => IInv'
<1> SUFFICES ASSUME IInv, [Next]_vars PROVE IInv'
    OBVIOUS
<1> USE DEF Msg
<1>0. /\ alive \subseteq Block /\ msg \in [Msg -> MsgRec]
      /\ frame \in [Frame -> Block \cup {Null}]
      /\ todo \in [left : Nat, into : Msg] /\ call \in {"app", "parse", "callback"}
      /\ ret \in Status /\ fault \in BOOLEAN
    BY DEF IInv, TypeOK, MsgRec
<1>1. CASE UNCHANGED vars
    BY <1>1 DEF vars, IInv, TypeOK, Ownership, Blocks
<1>a. SUFFICES ASSUME Next PROVE IInv'
    BY <1>1
<1>b. Running /\ \A n \in Msg : msg[n].num <= msg[n].size
    BY <1>a, NextRuns DEF Running, IInv, TypeOK
(* A step that fills, makes or releases one message needs only this. *)
<1>2. ASSUME alive' \subseteq Block, msg' \in [Msg -> MsgRec],
             fault' \/ \A n \in Msg : msg'[n].num <= msg'[n].size, Ownership',
             frame' = frame, todo' \in [left : Nat, into : Msg],
             call' \in {"app", "parse", "callback"}, ret' \in Status, fault' \in BOOLEAN
      PROVE  IInv'
    BY <1>0, <1>2 DEF IInv, TypeOK, MsgRec
<1>3. ASSUME NEW m \in {"app", "res"}, AddField(m) PROVE IInv'
    <2>1. PICK o \in Added(msg[m], alive) : Takes(m, o)
        BY <1>3 DEF AddField
    <2>2. Kept(msg[m], alive, o) BY <1>b, EachMessage, AddedKept
    <2>3. UNCHANGED <<frame, todo, call>> BY <1>3 DEF AddField
    <2> QED BY <1>0, <1>2, <2>1, <2>2, <2>3, <1>b, FillKeeps DEF Takes, Kept
<1>4. ASSUME NEW m \in {"app", "res"}, NEW kind \in {"nset", "block"}, AddCopy(m, kind)
      PROVE  IInv'
    <2>1. PICK o \in AddedCopy(msg[m], alive, kind) : Takes(m, o)
        BY <1>4 DEF AddCopy
    <2>2. Kept(msg[m], alive, o) BY <1>b, EachMessage, AddedCopyKept
    <2>3. UNCHANGED <<frame, todo, call>> BY <1>4 DEF AddCopy
    <2> QED BY <1>0, <1>2, <2>1, <2>2, <2>3, <1>b, FillKeeps DEF Takes, Kept
<1>5. CASE InitMsg
    <2>1. Blocks(EmptyMsg) = {} /\ Good(EmptyMsg) /\ Own(EmptyMsg, alive) BY EmptyGood
    <2>2. /\ msg' = [msg EXCEPT !["app"] = EmptyMsg] /\ ret' = "NOERROR"
          /\ UNCHANGED <<alive, frame, todo, call, fault>>
        BY <1>5 DEF InitMsg
    <2> QED BY <1>0, <1>2, <2>1, <2>2, <1>b, OneMessage DEF Status, Sound, Good
<1>6. CASE ReleaseMsg
    <2>1. Blocks(NoMsg) = {} /\ Good(NoMsg) /\ \A al : Own(NoMsg, al) BY EmptyGood
    <2>2. /\ msg' = [msg EXCEPT !["app"] = NoMsg]
          /\ alive' = alive \ Blocks(msg["app"]) /\ fault' \in BOOLEAN
          /\ UNCHANGED <<frame, todo, call, ret>>
        BY <1>6 DEF ReleaseMsg
    <2>3. alive \ Blocks(msg["app"]) \subseteq Block BY <1>0
    <2>4. /\ alive' \subseteq Block /\ msg' \in [Msg -> MsgRec]
          /\ fault' \/ \A n \in Msg : msg'[n].num <= msg'[n].size
          /\ Ownership'
        <3> DEFINE al == alive \ Blocks(msg["app"])
        <3>1. Own(NoMsg, al) /\ Blocks(NoMsg) \cap al = {} BY <2>1
        <3>2. alive' = al /\ al \subseteq Block BY <2>2, <2>3
        <3> HIDE DEF al
        <3>3. alive \ Blocks(msg["app"]) \subseteq al BY DEF al
        <3>4. Blocks(NoMsg) \cap (alive \ Blocks(msg["app"])) = {} BY <2>1
        <3> QED BY <2>1, <2>2, <3>1, <3>2, <3>3, <3>4, <1>b, OneMessage DEF Sound, Good
    <2> QED BY <1>0, <1>2, <2>2, <2>4
<1>7. CASE ParseField
    <2>1. PICK o \in Added(msg[todo.into], alive) :
              /\ msg' = [msg EXCEPT ![todo.into] = o.x] /\ alive' = o.al /\ fault' = o.bad
        BY <1>7 DEF ParseField
    <2>2. todo.into \in Msg /\ Kept(msg[todo.into], alive, o)
        BY <1>0, <1>b, EachMessage, AddedKept
    <2>3. UNCHANGED <<frame, call, ret>> /\ todo' = [todo EXCEPT !.left = @ - 1] /\ todo.left > 0
        BY <1>7 DEF ParseField
    <2>4. todo' \in [left : Nat, into : Msg] BY <1>0, <2>3
    <2> QED BY <1>0, <1>2, <2>1, <2>2, <2>3, <2>4, <1>b, FillKeeps DEF Kept
<1>8. CASE EndParse
    BY <1>0, <1>b, <1>2, <1>8 DEF EndParse, NoTodo, IInv, TypeOK, Ownership, Blocks
<1>9. ASSUME NEW n \in 0..MaxFields, StartParse(n) PROVE IInv'
    BY <1>0, <1>b, <1>2, <1>9, MessageOK DEF StartParse, Status, IInv, TypeOK, Ownership, Blocks
<1>10. ASSUME NEW n \in 0..MaxFields, Response(n) PROVE IInv'
    <2>1. CASE UNCHANGED <<msg, call, todo>> /\ ret' = "ERROR"
        BY <1>0, <1>b, <1>2, <1>10, <2>1 DEF Response, Status, IInv, TypeOK, Ownership, Blocks
    <2>2. CASE /\ msg' = [msg EXCEPT !["req"] = EmptyMsg, !["res"] = EmptyMsg]
               /\ call' = "parse" /\ todo' = [left |-> n, into |-> "req"] /\ ret' = "NOERROR"
        <3>1. UNCHANGED <<alive, frame>> /\ fault' \in BOOLEAN BY <1>10 DEF Response
        <3>2. /\ Blocks(msg["app"]) \subseteq alive
              /\ \A f \in Frame : frame'[f] # Null =>
                    frame'[f] \in alive /\ frame'[f] \notin Blocks(msg["app"])
              /\ frame'["in"] = frame'["out"] => frame'["in"] = Null
            BY <3>1 DEF IInv, Ownership
        <3>3. todo' \in [left : Nat, into : Msg] BY <2>2, MessageOK
        <3> QED BY <1>0, <1>2, <2>2, <3>1, <3>2, <3>3, <1>b, TwoMessages DEF Status
    <2> QED BY <1>10, <2>1, <2>2 DEF Response
(* A step that fills or empties a frame needs only this. *)
<1>11. ASSUME NEW f \in Frame, NEW c \in Block \cup {Null},
              frame' = [frame EXCEPT ![f] = c], alive' \subseteq Block,
              c # Null => c \in alive' /\ c \notin alive, alive \ {frame[f]} \subseteq alive',
              UNCHANGED <<msg, todo, call>>, ret' \in Status, fault' \in BOOLEAN
       PROVE  IInv'
    <2>1. frame' \in [Frame -> Block \cup {Null}] /\ Ownership'
        BY <1>11, OneFrame
    <2> QED BY <1>b, <2>1, <1>11 DEF IInv, TypeOK
<1>12. CASE ReadFrame
    <2>1. /\ frame["in"] = Null /\ "in" \in Frame /\ fault' \in BOOLEAN
          /\ UNCHANGED <<msg, todo, call>>
        BY <1>0, <1>12 DEF ReadFrame, Frame
    <2>2. ASSUME NEW b \in Block \ alive, alive' = alive \cup {b},
                 frame' = [frame EXCEPT !["in"] = b], ret' = "NOERROR"
          PROVE  IInv'
        BY <1>0, <1>11, <2>1, <2>2 DEF Status
    <2>3. CASE UNCHANGED <<alive, frame>> /\ ret' = "MEMORY_ALLOCATION_FAIL"
        BY <1>0, <1>b, <1>2, <2>1, <2>3 DEF Status, IInv, TypeOK, Ownership, Blocks
    <2> QED BY <1>12, <2>2, <2>3 DEF ReadFrame
<1>13. ASSUME NEW f \in Frame, ReleaseFrame(f) PROVE IInv'
    <2>1. /\ alive' = alive \ {frame[f]} /\ frame' = [frame EXCEPT ![f] = Null]
          /\ fault' \in BOOLEAN /\ UNCHANGED <<msg, todo, call, ret>>
        BY <1>13 DEF ReleaseFrame
    <2> QED BY <1>0, <1>11, <2>1
<1>14. ASSUME NEW f \in Frame, GenerateFrame(f) PROVE IInv'
    <2>1. PICK g \in Generated(alive) :
            /\ frame' = [frame EXCEPT ![f] = g[1]] /\ alive' = g[2]
            /\ ret' = IF g[1] = Null THEN "MEMORY_ALLOCATION_FAIL" ELSE "NOERROR"
        BY <1>14 DEF GenerateFrame
    <2>2. fault' \in BOOLEAN /\ UNCHANGED <<msg, todo, call>> BY <1>14 DEF GenerateFrame
    <2>3. /\ g[1] \in Block \cup {Null} /\ g[2] \subseteq Block /\ alive \subseteq g[2]
          /\ g[1] # Null => g[1] \in g[2] /\ g[1] \notin alive
        BY <1>0 DEF Generated
    <2> QED BY <1>0, <1>11, <2>1, <2>2, <2>3 DEF Status
<1>15. CASE SetResponse
    <2>1. CASE UNCHANGED <<alive, msg, fault>> /\ ret' = "ERROR"
        BY <1>0, <1>b, <1>2, <1>15, <2>1 DEF SetResponse, Status, IInv, TypeOK, Ownership, Blocks
    <2>2. ASSUME NEW e \in Extended(EmptyMsg, alive),
                 NEW o \in Short(e), Takes("res", o)
          PROVE  IInv'
        <3>1. Good(EmptyMsg) /\ Own(EmptyMsg, alive) /\ Blocks(EmptyMsg) = {} BY EmptyGood
        <3>2. o \in Short(e) \cup Long(e) OBVIOUS
        <3>3. Kept(EmptyMsg, alive, o)
            BY <1>0, <3>1, <3>2, ExtendedKept, ExtendedIsOutcome, FieldKept
        <3>4. /\ Sound(o.x, o.bad) /\ o.al \subseteq Block /\ Own(o.x, o.al) /\ alive \subseteq o.al
              /\ Blocks(o.x) \cap alive = {} /\ o.stat \in Status /\ o.bad \in BOOLEAN
            BY <3>1, <3>3 DEF Kept
        <3>5. UNCHANGED <<frame, todo, call>> BY <1>15 DEF SetResponse
        <3>6. /\ msg' = [msg EXCEPT !["res"] = o.x] /\ alive' = o.al
              /\ ret' = o.stat /\ fault' = o.bad
            BY <2>2 DEF Takes
        <3>7. /\ alive' \subseteq Block /\ msg' \in [Msg -> MsgRec]
              /\ fault' \/ \A n \in Msg : msg'[n].num <= msg'[n].size
              /\ Ownership'
            BY <1>b, <3>4, <3>5, <3>6, OneMessage
        <3> QED BY <1>0, <1>2, <3>4, <3>5, <3>6, <3>7
    <2> QED BY <1>15, <2>1, <2>2 DEF SetResponse
<1>16. CASE CallbackFails
    <2>1. /\ alive' = alive \ Blocks(msg["req"]) /\ fault' \in BOOLEAN
          /\ msg' = [msg EXCEPT !["req"] = NoMsg, !["res"] = NoMsg]
          /\ call' = "app" /\ ret' = "ERROR" /\ UNCHANGED <<frame, todo>>
        BY <1>16 DEF CallbackFails, OnFailure, Released, Forgotten, BadRelease
    <2>2. Blocks(msg["app"]) \subseteq alive'
        BY <2>1 DEF IInv, Ownership
    <2>3. /\ \A f \in Frame : frame'[f] # Null =>
                frame'[f] \in alive' /\ frame'[f] \notin Blocks(msg["app"])
          /\ frame'["in"] = frame'["out"] => frame'["in"] = Null
        BY <2>1 DEF IInv, Ownership
    <2> QED BY <1>0, <1>2, <2>1, <2>2, <2>3, <1>b, TwoMessages DEF Status
<1>17. CASE CallbackReturns
    <2>1. PICK g \in Generated(alive) :
            /\ frame' = [frame EXCEPT !["out"] = g[1]]
            /\ alive' = g[2] \ Released({"req", "res"})
            /\ ret' = IF g[1] = Null THEN "MEMORY_ALLOCATION_FAIL" ELSE "NOERROR"
        BY <1>17 DEF CallbackReturns
    <2>2. /\ fault' \in BOOLEAN /\ call' = "app" /\ UNCHANGED todo
          /\ msg' = [msg EXCEPT !["req"] = NoMsg, !["res"] = NoMsg]
        BY <1>17 DEF CallbackReturns, Forgotten, BadRelease
    <2>3. /\ g[1] \in Block \cup {Null} /\ g[2] \subseteq Block /\ alive \subseteq g[2]
          /\ g[1] # Null => g[1] \in g[2] /\ g[1] \notin alive
        BY <1>0 DEF Generated
    <2>4. Released({"req", "res"}) = Blocks(msg["req"]) \cup Blocks(msg["res"])
        BY DEF Released
    <2>5. Blocks(msg["app"]) \subseteq alive' /\ alive' \subseteq Block
        BY <2>1, <2>3, <2>4 DEF IInv, Ownership
    <2>6. frame'["out"] = g[1] /\ frame'["in"] = frame["in"]
        BY <1>0, <2>1 DEF Frame
    <2>7. \A m \in Msg : g[1] \notin Blocks(msg[m]) \/ g[1] = Null
        BY <2>3 DEF IInv, Ownership
    <2>8. frame["in"] # Null => /\ frame["in"] \in alive
                               /\ \A m \in Msg : frame["in"] \notin Blocks(msg[m])
        BY DEF IInv, Ownership, Frame
    <2>9. /\ \A f \in Frame : frame'[f] # Null =>
                frame'[f] \in alive' /\ frame'[f] \notin Blocks(msg["app"])
          /\ frame'["in"] = frame'["out"] => frame'["in"] = Null
        BY <2>1, <2>3, <2>4, <2>6, <2>7, <2>8 DEF Frame
    <2>10. frame' \in [Frame -> Block \cup {Null}] BY <1>0, <2>1, <2>3
    <2>11. /\ msg' \in [Msg -> MsgRec] /\ Ownership'
           /\ fault' \/ \A n \in Msg : msg'[n].num <= msg'[n].size
        BY <1>b, <2>2, <2>5, <2>9, TwoMessages
    <2> QED BY <1>0, <2>1, <2>2, <2>5, <2>10, <2>11 DEF Status, IInv, TypeOK, MsgRec
<1>18. CASE AbortParse
    <2>1. /\ todo' = NoTodo /\ call' = "app" /\ ret' = "ERROR" /\ UNCHANGED <<alive, frame, fault>>
          /\ msg' = IF todo.into = "req" THEN Forgotten ELSE msg
        BY <1>18 DEF AbortParse
    <2>2. CASE UNCHANGED msg
        BY <1>0, <1>b, <1>2, <2>1, <2>2 DEF NoTodo, Status, IInv, TypeOK, Ownership, Blocks
    <2>3. CASE msg' = [msg EXCEPT !["req"] = NoMsg, !["res"] = NoMsg]
        <3>1. /\ Blocks(msg["app"]) \subseteq alive
              /\ \A f \in Frame : frame'[f] # Null =>
                    frame'[f] \in alive /\ frame'[f] \notin Blocks(msg["app"])
              /\ frame'["in"] = frame'["out"] => frame'["in"] = Null
            BY <2>1 DEF IInv, Ownership
        <3> QED BY <1>0, <1>b, <1>2, <2>1, <2>3, <3>1, TwoMessages DEF NoTodo, Status
    <2> QED BY <2>1, <2>2, <2>3 DEF Forgotten
<1> QED BY <1>a, <1>3, <1>4, <1>5, <1>6, <1>7, <1>8, <1>9, <1>10, <1>12, <1>13, <1>14,
           <1>15, <1>16, <1>17, <1>18 DEF Next

(* Every variable of the model keeps its type, and no message counts more  *)
(* fields than its array holds unless that array could not grow.           *)
THEOREM TypeCorrect == Spec => []TypeOK
<1>1. IInv => TypeOK BY DEF IInv
<1> QED BY <1>1, InitInv, StepInv, PTL DEF Spec

(* Whatever the application and its callbacks do within the protocol, and  *)
(* whatever allocation fails, a block has one owner.                       *)
THEOREM OneOwner == Spec => []Ownership
<1>1. IInv => Ownership BY DEF IInv
<1> QED BY <1>1, InitInv, StepInv, PTL DEF Spec

-----------------------------------------------------------------------------
(* No fault, if the array of fields can always be had *)

LEMMA StepNoFault ==
    ASSUME "fields" \notin AllocFails, IInv, NoFault, [Next]_vars
    PROVE  NoFault'
<1>1. \A m \in Msg : Blocks(msg[m]) \subseteq alive /\ Good(msg[m]) /\ Own(msg[m], alive)
    BY EachMessage DEF IInv, Ownership, NoFault, Running
<1>2. \A f \in Frame : frame[f] # Null => frame[f] \in alive
    BY DEF IInv, Ownership
<1>3. alive \subseteq Block /\ todo.into \in Msg BY DEF IInv, TypeOK
<1>4. CASE UNCHANGED vars BY <1>4 DEF vars, NoFault
<1>5. ASSUME NEW m \in {"app", "res"}, AddField(m) PROVE NoFault'
    <2>1. PICK o \in Added(msg[m], alive) : fault' = o.bad
        BY <1>5 DEF AddField, Takes
    <2>2. m \in Msg BY DEF Msg
    <2> QED BY <1>1, <1>3, <2>1, <2>2, AddedKept DEF Kept, NoFault
<1>6. ASSUME NEW m \in {"app", "res"}, NEW kind \in {"nset", "block"}, AddCopy(m, kind)
      PROVE  NoFault'
    <2>1. PICK o \in AddedCopy(msg[m], alive, kind) : fault' = o.bad
        BY <1>6 DEF AddCopy, Takes
    <2>2. m \in Msg BY DEF Msg
    <2> QED BY <1>1, <1>3, <2>1, <2>2, AddedCopyKept DEF Kept, NoFault
<1>7. CASE ParseField
    <2>1. PICK o \in Added(msg[todo.into], alive) : fault' = o.bad
        BY <1>7 DEF ParseField
    <2> QED BY <1>1, <1>3, <2>1, AddedKept DEF Kept, NoFault
<1>8. CASE SetResponse
    <2>1. CASE UNCHANGED <<alive, msg, fault>> BY <2>1 DEF NoFault
    <2>2. ASSUME NEW e \in Extended(EmptyMsg, alive),
                 NEW o \in Short(e), Takes("res", o)
          PROVE  NoFault'
        <3>1. Good(EmptyMsg) /\ Own(EmptyMsg, alive) BY EmptyGood
        <3>2. o \in Short(e) \cup Long(e) OBVIOUS
        <3>3. Kept(EmptyMsg, alive, o)
            BY <1>3, <3>1, <3>2, ExtendedKept, ExtendedIsOutcome, FieldKept
        <3> QED BY <2>2, <3>3 DEF Kept, Takes, NoFault
    <2> QED BY <1>8, <2>1, <2>2 DEF SetResponse
<1>9. CASE InitMsg \/ ReleaseMsg \/ ReadFrame \/ AbortParse \/ EndParse
    <2>1. "app" \in Msg BY DEF Msg
    <2> QED BY <1>1, <1>9, <2>1 DEF InitMsg, ReleaseMsg, ReadFrame, AbortParse, EndParse, NoFault
<1>10. ASSUME NEW f \in Frame, GenerateFrame(f) \/ ReleaseFrame(f) PROVE NoFault'
    <2>1. "app" \in Msg BY DEF Msg
    <2> QED BY <1>1, <1>2, <1>10, <2>1 DEF GenerateFrame, ReleaseFrame, NoFault
<1>11. ASSUME NEW n \in 0..MaxFields, StartParse(n) \/ Response(n) PROVE NoFault'
    <2>1. "in" \in Frame BY DEF Frame
    <2> QED BY <1>2, <1>11, <2>1 DEF StartParse, Response, NoFault
<1>12. CASE CallbackFails \/ CallbackReturns
    <2>1. \A m, n \in Msg : m # n => Blocks(msg[m]) \cap Blocks(msg[n]) = {}
        BY DEF IInv, Ownership
    <2>2. ~BadRelease({"req"}) /\ ~BadRelease({"req", "res"})
        BY <1>1, <2>1 DEF BadRelease, Released, Msg
    <2> QED BY <1>12, <2>2 DEF CallbackFails, CallbackReturns, OnFailure, NoFault
<1> QED BY <1>4, <1>5, <1>6, <1>7, <1>8, <1>9, <1>10, <1>11, <1>12 DEF Next

(* If the array of fields can always be had, no step uses or frees memory  *)
(* that is free, or writes past the array.                                 *)
THEOREM Safe ==
    ASSUME "fields" \notin AllocFails
    PROVE  Spec => []NoFault
<1>1. Init => NoFault BY DEF Init, NoFault
<1>2. IInv /\ NoFault /\ [Next]_vars => NoFault' BY StepNoFault
<1> QED BY <1>1, <1>2, InitInv, StepInv, PTL DEF Spec

-----------------------------------------------------------------------------
(* Where memory is lost *)

(* Only tp3_response has messages of its own, and only while it runs; what *)
(* is not live owns nothing, so that tp3_initmsg has nothing to forget.    *)
Idle ==
    /\ todo.into \in {"app", "req"}
    /\ ~msg["app"].live => Blocks(msg["app"]) = {}
    /\ call = "parse" /\ todo.into = "app" => msg["app"].live
    /\ call = "app" \/ (call = "parse" /\ todo.into = "app") => Blocks(msg["req"]) = {}
    /\ call # "callback" => Blocks(msg["res"]) = {}

LEMMA ExtendedLive ==
    ASSUME NEW x, NEW al, NEW e \in Extended(x, al), x \in MsgRec
    PROVE  e.x \in MsgRec /\ e.x.live = x.live
<1>2. CASE e.x = x BY <1>2
<1>3. ASSUME NEW b \in Block, e.x = Moved(x, b)
      PROVE  e.x \in MsgRec /\ e.x.live = x.live
    <2>1. FieldStep \in Nat /\ x.size \in Nat BY MessageOK DEF MsgRec
    <2>2. x.size + FieldStep \in Nat BY <2>1
    <2> QED BY <1>3, <2>2 DEF Moved, MsgRec
<1> QED BY <1>2, <1>3 DEF Extended, Outcome

LEMMA AddedLive ==
    ASSUME NEW x, NEW al, NEW o \in Added(x, al), x \in MsgRec
    PROVE  o.x.live = x.live
<1>1. PICK e \in Extended(x, al) : o \in Short(e) \cup Long(e)
    BY DEF Added
<1>2. e.x \in MsgRec /\ e.x.live = x.live
    BY ExtendedLive
<1>3. e = Outcome(e.x, e.al, e.stat, e.bad) BY ExtendedIsOutcome
<1>4. o.x = e.x \/ o.x = [e.x EXCEPT !.num = @ + 1]
      \/ \E d \in Block : o.x = [e.x EXCEPT !.num = @ + 1, !.datas = @ \cup {d}]
    BY <1>1, <1>3 DEF Short, Long, Outcome
<1> QED BY <1>2, <1>4 DEF MsgRec

LEMMA AddedCopyLive ==
    ASSUME NEW x, NEW al, NEW kind, NEW o \in AddedCopy(x, al, kind), x \in MsgRec
    PROVE  o.x.live = x.live
<1>1. CASE o = Outcome(x, al, "MEMORY_ALLOCATION_FAIL", FALSE)
    BY <1>1 DEF Outcome
<1>2. ASSUME NEW t \in Block \ al, NEW p \in Added(x, al \cup {t}),
             o = IF kind = "nset" /\ p.stat = "NOERROR" THEN [p EXCEPT !.al = @ \ {t}] ELSE p
      PROVE  o.x.live = x.live
    <2>1. p.x.live = x.live BY AddedLive
    <2>2. p = Outcome(p.x, p.al, p.stat, p.bad)
        <3>1. PICK e \in Extended(x, al \cup {t}) : p \in Short(e) \cup Long(e)
            BY DEF Added
        <3>2. e = Outcome(e.x, e.al, e.stat, e.bad) BY ExtendedIsOutcome
        <3> QED BY <3>1, <3>2 DEF Short, Long, Outcome
    <2>3. o.x = p.x BY <1>2, <2>2 DEF Outcome
    <2> QED BY <2>1, <2>3
<1> QED BY <1>1, <1>2 DEF AddedCopy

LEMMA InitIdle == Init => Idle
BY EmptyGood DEF Init, Idle, NoTodo, Msg

LEMMA StepIdle ==
    ASSUME IInv, Idle, [Next]_vars
    PROVE  Idle'
<1> USE DEF Msg
<1>0. msg \in [Msg -> MsgRec] /\ todo \in [left : Nat, into : Msg]
    BY DEF IInv, TypeOK, MsgRec
(* Most steps leave the messages, the call and the parser alone. *)
<1>1. ASSUME UNCHANGED <<msg, call, todo>> PROVE Idle'
    BY <1>1 DEF Idle, Blocks
<1>2. CASE UNCHANGED vars BY <1>1, <1>2 DEF vars
(* A step that fills the message m. *)
<1>3. ASSUME NEW m \in {"app", "res"}, NEW y, Filling(m), msg' = [msg EXCEPT ![m] = y],
             y.live = msg[m].live, UNCHANGED <<call, todo>>
      PROVE  Idle'
    <2>1. CASE m = "app"
        <3>1. msg'["app"] = y /\ msg'["req"] = msg["req"] /\ msg'["res"] = msg["res"]
            BY <1>0, <1>3, <2>1
        <3>2. y.live BY <1>3, <2>1 DEF Filling
        <3> QED BY <3>1, <3>2, <1>3 DEF Idle, Blocks
    <2>2. CASE m = "res"
        <3>1. msg'["app"] = msg["app"] BY <1>0, <1>3, <2>2
        <3>2. call = "callback" BY <1>3, <2>2 DEF Filling, Mine
        <3> QED BY <3>1, <3>2, <1>3 DEF Idle, Blocks
    <2> QED BY <2>1, <2>2
<1>4. ASSUME NEW m \in {"app", "res"}, AddField(m) PROVE Idle'
    <2>1. PICK o \in Added(msg[m], alive) : msg' = [msg EXCEPT ![m] = o.x]
        BY <1>4 DEF AddField, Takes
    <2>2. o.x.live = msg[m].live BY <1>0, AddedLive
    <2> QED BY <1>3, <1>4, <2>1, <2>2 DEF AddField
<1>5. ASSUME NEW m \in {"app", "res"}, NEW kind \in {"nset", "block"}, AddCopy(m, kind)
      PROVE  Idle'
    <2>1. PICK o \in AddedCopy(msg[m], alive, kind) : msg' = [msg EXCEPT ![m] = o.x]
        BY <1>5 DEF AddCopy, Takes
    <2>2. o.x.live = msg[m].live BY <1>0, AddedCopyLive
    <2> QED BY <1>3, <1>5, <2>1, <2>2 DEF AddCopy
<1>6. CASE InitMsg \/ ReleaseMsg
    <2>1. PICK y \in {EmptyMsg, NoMsg} : msg' = [msg EXCEPT !["app"] = y]
        BY <1>6 DEF InitMsg, ReleaseMsg
    <2>2. Blocks(y) = {} /\ msg'["app"] = y /\ msg'["req"] = msg["req"] /\ msg'["res"] = msg["res"]
        BY <1>0, <2>1, EmptyGood
    <2>3. call = "app" /\ UNCHANGED <<call, todo>>
        BY <1>6 DEF InitMsg, ReleaseMsg
    <2>4. Blocks(msg'["app"]) = {} /\ Blocks(msg'["req"]) = {} /\ Blocks(msg'["res"]) = {}
        BY <2>2, <2>3 DEF Idle
    <2> QED BY <2>3, <2>4 DEF Idle
<1>7. CASE ParseField
    <2>1. PICK o \in Added(msg[todo.into], alive) : msg' = [msg EXCEPT ![todo.into] = o.x]
        BY <1>7 DEF ParseField
    <2>2. o.x.live = msg[todo.into].live
        BY <1>0, AddedLive
    <2>3. call = "parse" /\ UNCHANGED call /\ todo' = [todo EXCEPT !.left = @ - 1]
        BY <1>7 DEF ParseField
    <2>4. todo'.into = todo.into BY <1>0, <2>3
    <2>5. CASE todo.into = "app"
        <3>1. msg'["app"] = o.x /\ msg'["req"] = msg["req"] /\ msg'["res"] = msg["res"]
            BY <1>0, <2>1, <2>5
        <3>2. o.x.live BY <2>2, <2>3, <2>5 DEF Idle
        <3>3. Blocks(msg'["req"]) = {} /\ Blocks(msg'["res"]) = {}
            BY <3>1, <2>3, <2>5 DEF Idle
        <3> QED BY <3>1, <3>2, <3>3, <2>4, <2>5 DEF Idle
    <2>6. CASE todo.into = "req"
        <3>1. msg'["app"] = msg["app"] /\ msg'["res"] = msg["res"] BY <1>0, <2>1, <2>6
        <3> QED BY <3>1, <2>3, <2>4, <2>6 DEF Idle, Blocks
    <2> QED BY <2>5, <2>6 DEF Idle
<1>8. CASE EndParse
    <2>1. UNCHANGED msg /\ todo'.into = "app" /\ call = "parse"
          /\ call' = IF todo.into = "app" THEN "app" ELSE "callback"
        BY <1>8 DEF EndParse, NoTodo
    <2> QED BY <2>1 DEF Idle, Blocks
<1>9. ASSUME NEW n \in 0..MaxFields, StartParse(n) PROVE Idle'
    <2>1. CASE UNCHANGED <<call, todo>> BY <1>1, <1>9, <2>1 DEF StartParse
    <2>2. CASE call' = "parse" /\ todo' = [left |-> n, into |-> "app"]
        <3>1. UNCHANGED msg /\ msg["app"].live /\ call = "app" BY <1>9 DEF StartParse
        <3>2. todo'.into = "app" BY <2>2
        <3> QED BY <3>1, <3>2, <2>2 DEF Idle, Blocks
    <2> QED BY <1>9, <2>1, <2>2 DEF StartParse
<1>10. ASSUME NEW n \in 0..MaxFields, Response(n) PROVE Idle'
    <2>1. CASE UNCHANGED <<msg, call, todo>> BY <1>1, <2>1
    <2>2. CASE /\ msg' = [msg EXCEPT !["req"] = EmptyMsg, !["res"] = EmptyMsg]
               /\ call' = "parse" /\ todo' = [left |-> n, into |-> "req"]
        <3>1. msg'["app"] = msg["app"] /\ msg'["res"] = EmptyMsg /\ todo'.into = "req"
            BY <1>0, <2>2
        <3>2. Blocks(msg'["res"]) = {} BY <3>1, EmptyGood
        <3> QED BY <3>1, <3>2, <2>2 DEF Idle, Blocks
    <2> QED BY <1>10, <2>1, <2>2 DEF Response
<1>11. CASE SetResponse
    <2>1. CASE UNCHANGED <<alive, msg, fault>> BY <1>1, <1>11, <2>1 DEF SetResponse
    <2>2. ASSUME NEW o, Takes("res", o) PROVE Idle'
        <3>1. msg'["app"] = msg["app"] BY <1>0, <2>2 DEF Takes
        <3>2. call = "callback" /\ UNCHANGED <<call, todo>> BY <1>11 DEF SetResponse
        <3> QED BY <3>1, <3>2 DEF Idle, Blocks
    <2> QED BY <1>11, <2>1, <2>2 DEF SetResponse
<1>12. CASE CallbackFails \/ CallbackReturns
    <2>1. UNCHANGED todo /\ msg' = [msg EXCEPT !["req"] = NoMsg, !["res"] = NoMsg] /\ call' = "app"
        BY <1>12 DEF CallbackFails, CallbackReturns, Forgotten
    <2>2. msg'["app"] = msg["app"] /\ msg'["req"] = NoMsg /\ msg'["res"] = NoMsg
        BY <1>0, <2>1
    <2>3. Blocks(msg'["req"]) = {} /\ Blocks(msg'["res"]) = {}
        BY <2>2, EmptyGood
    <2> QED BY <2>1, <2>2, <2>3 DEF Idle, Blocks
<1>13. CASE ReadFrame BY <1>1, <1>13 DEF ReadFrame
<1>14. ASSUME NEW f \in Frame, GenerateFrame(f) \/ ReleaseFrame(f) PROVE Idle'
    BY <1>1, <1>14 DEF GenerateFrame, ReleaseFrame
<1>15. CASE AbortParse
    <2>1. /\ todo' = NoTodo /\ call' = "app" /\ call = "parse"
          /\ msg' = IF todo.into = "req" THEN [msg EXCEPT !["req"] = NoMsg, !["res"] = NoMsg] ELSE msg
        BY <1>15 DEF AbortParse, Forgotten
    <2>2. CASE todo.into = "req"
        <3>1. msg'["app"] = msg["app"] /\ msg'["req"] = NoMsg /\ msg'["res"] = NoMsg
            BY <1>0, <2>1, <2>2
        <3>2. Blocks(msg'["req"]) = {} /\ Blocks(msg'["res"]) = {}
            BY <3>1, EmptyGood
        <3> QED BY <2>1, <3>1, <3>2 DEF Idle, Blocks, NoTodo
    <2>3. CASE todo.into = "app"
        BY <2>1, <2>3 DEF Idle, Blocks, NoTodo
    <2> QED BY <2>2, <2>3 DEF Idle
<1> QED BY <1>2, <1>4, <1>5, <1>6, <1>7, <1>8, <1>9, <1>10, <1>11, <1>12, <1>13, <1>14, <1>15 DEF Next

(* While tp3_response runs, the frame it is to fill is empty. *)
OutFree == call = "callback" \/ (call = "parse" /\ todo.into = "req") => frame["out"] = Null

LEMMA StepOutFree ==
    ASSUME IInv, Idle, OutFree, [Next]_vars
    PROVE  OutFree'
<1>0. todo \in [left : Nat, into : Msg] /\ frame \in [Frame -> Block \cup {Null}]
    BY DEF IInv, TypeOK
<1>1. ASSUME UNCHANGED <<frame, call, todo>> PROVE OutFree'
    BY <1>1 DEF OutFree
<1>2. CASE UNCHANGED vars BY <1>1, <1>2 DEF vars
<1>3. ASSUME NEW m, AddField(m) \/ \E kind \in {"nset", "block"} : AddCopy(m, kind) PROVE OutFree'
    BY <1>1, <1>3 DEF AddField, AddCopy
<1>4. CASE InitMsg \/ ReleaseMsg \/ SetResponse
    BY <1>1, <1>4 DEF InitMsg, ReleaseMsg, SetResponse
<1>5. CASE ReadFrame BY <1>5 DEF ReadFrame, OutFree
<1>6. ASSUME NEW f, GenerateFrame(f) \/ ReleaseFrame(f) PROVE OutFree'
    BY <1>6 DEF GenerateFrame, ReleaseFrame, OutFree
<1>7. CASE ParseField
    <2>1. UNCHANGED <<frame, call>> /\ todo' = [todo EXCEPT !.left = @ - 1]
        BY <1>7 DEF ParseField
    <2>2. todo'.into = todo.into BY <1>0, <2>1
    <2> QED BY <2>1, <2>2 DEF OutFree
<1>8. CASE EndParse
    <2>1. UNCHANGED frame /\ call = "parse"
          /\ call' = IF todo.into = "app" THEN "app" ELSE "callback"
        BY <1>8 DEF EndParse
    <2> QED BY <2>1 DEF OutFree, Idle
<1>9. ASSUME NEW n \in 0..MaxFields, StartParse(n) PROVE OutFree'
    <2>1. CASE UNCHANGED <<call, todo>> BY <1>1, <1>9, <2>1 DEF StartParse
    <2>2. CASE call' = "parse" /\ todo' = [left |-> n, into |-> "app"]
        <3>1. todo'.into = "app" BY <2>2
        <3> QED BY <2>2, <3>1 DEF OutFree
    <2> QED BY <1>9, <2>1, <2>2 DEF StartParse
<1>10. ASSUME NEW n \in 0..MaxFields, Response(n) PROVE OutFree'
    BY <1>10 DEF Response, OutFree
<1>11. CASE CallbackFails \/ CallbackReturns
    BY <1>11 DEF CallbackFails, CallbackReturns, OutFree
<1>12. CASE AbortParse BY <1>12 DEF AbortParse, OutFree
<1> QED BY <1>2, <1>3, <1>4, <1>5, <1>6, <1>7, <1>8, <1>9, <1>10, <1>11, <1>12 DEF Next

(* Nothing is lost by a step that makes y of the message m ... *)
LEMMA LossOne ==
    ASSUME IInv, NEW m \in Msg, NEW y, NEW al,
           msg' = [msg EXCEPT ![m] = y], alive' = al, UNCHANGED frame,
           al \ Blocks(y) \subseteq alive \ Blocks(msg[m])
    PROVE  Lost' \subseteq Lost
<1>1. msg'[m] = y /\ \A n \in Msg : n # m => msg'[n] = msg[n]
    BY DEF IInv, TypeOK
<1>2. ASSUME NEW b \in Lost' PROVE b \in Lost
    <2>1. b \in al /\ (\A n \in Msg : b \notin Blocks(msg'[n])) /\ \A f \in Frame : b # frame[f]
        BY <1>2 DEF Lost, Blocks
    <2>2. b \in alive /\ b \notin Blocks(msg[m])
        <3>1. b \notin Blocks(y) BY <2>1, <1>1
        <3> QED BY <2>1, <3>1
    <2>3. \A n \in Msg : b \notin Blocks(msg[n])
        <3>1. ASSUME NEW n \in Msg, n # m PROVE b \notin Blocks(msg[n])
            <4>1. msg'[n] = msg[n] BY <1>1, <3>1
            <4> QED BY <2>1, <4>1
        <3> QED BY <3>1, <2>2
    <2> QED BY <2>1, <2>2, <2>3 DEF Lost
<1> QED BY <1>2

(* ... or c of the frame f. *)
LEMMA LossFrame ==
    ASSUME IInv, NEW f \in Frame, NEW c, NEW al,
           frame' = [frame EXCEPT ![f] = c], alive' = al, UNCHANGED msg,
           al \ {c} \subseteq alive \ {frame[f]}
    PROVE  Lost' \subseteq Lost
<1>1. frame'[f] = c /\ \A g \in Frame : g # f => frame'[g] = frame[g]
    BY DEF IInv, TypeOK
<1>2. ASSUME NEW b \in Lost' PROVE b \in Lost
    <2>1. b \in al /\ (\A n \in Msg : b \notin Blocks(msg[n])) /\ \A g \in Frame : b # frame'[g]
        BY <1>2 DEF Lost, Blocks
    <2>2. b \in alive /\ b # frame[f] BY <2>1, <1>1
    <2>3. \A g \in Frame : b # frame[g] BY <1>1, <2>1, <2>2
    <2> QED BY <2>1, <2>2, <2>3 DEF Lost
<1> QED BY <1>2

LEMMA StepLoss ==
    ASSUME IInv, Idle, OutFree, [Next]_vars
    PROVE  [Lost' \subseteq Lost \/ LossyCall]_vars
<1> SUFFICES ASSUME Next PROVE Lost' \subseteq Lost \/ LossyCall
    OBVIOUS
<1> USE DEF Msg
<1>1. \A m \in Msg : Good(msg[m]) /\ Own(msg[m], alive) /\ alive \subseteq Block
    BY NextRuns, EachMessage
<1>2. todo.into \in Msg /\ alive \subseteq Block /\ Null \notin Block
    BY MessageOK DEF IInv, TypeOK
<1>3. ASSUME UNCHANGED <<alive, msg, frame>> PROVE Lost' \subseteq Lost
    BY <1>3 DEF Lost, Blocks
<1>4. ASSUME NEW m \in {"app", "res"}, AddField(m) PROVE Lost' \subseteq Lost
    <2>1. PICK o \in Added(msg[m], alive) :
            msg' = [msg EXCEPT ![m] = o.x] /\ alive' = o.al /\ UNCHANGED frame
        BY <1>4 DEF AddField, Takes
    <2>2. LosesNothing(msg[m], alive, o) BY <1>1, AddedKept
    <2> QED BY <2>1, <2>2, LossOne DEF LosesNothing
<1>5. ASSUME NEW m \in {"app", "res"}, AddCopy(m, "nset"), ret' = "NOERROR"
      PROVE  Lost' \subseteq Lost
    <2>1. PICK o \in AddedCopy(msg[m], alive, "nset") :
            /\ msg' = [msg EXCEPT ![m] = o.x] /\ alive' = o.al /\ UNCHANGED frame
            /\ o.stat = "NOERROR"
        BY <1>5 DEF AddCopy, Takes
    <2>2. LosesNothing(msg[m], alive, o) BY <1>1, <2>1, AddedCopyKept
    <2> QED BY <2>1, <2>2, LossOne DEF LosesNothing
<1>6. CASE InitMsg
    <2>1. /\ msg' = [msg EXCEPT !["app"] = EmptyMsg] /\ UNCHANGED <<alive, frame>>
          /\ Blocks(msg["app"]) = {}
        BY <1>6 DEF InitMsg, Idle
    <2> QED BY <2>1, EmptyGood, LossOne
<1>7. CASE ReleaseMsg
    <2>1. /\ msg' = [msg EXCEPT !["app"] = NoMsg] /\ UNCHANGED frame
          /\ alive' = alive \ Blocks(msg["app"])
        BY <1>7 DEF ReleaseMsg
    <2> QED BY <2>1, LossOne
<1>8. CASE ParseField
    <2>1. PICK o \in Added(msg[todo.into], alive) :
            msg' = [msg EXCEPT ![todo.into] = o.x] /\ alive' = o.al /\ UNCHANGED frame
        BY <1>8 DEF ParseField
    <2>2. LosesNothing(msg[todo.into], alive, o) BY <1>1, <1>2, AddedKept
    <2> QED BY <1>2, <2>1, <2>2, LossOne DEF LosesNothing
<1>9. CASE SetResponse /\ Blocks(msg["res"]) = {}
    <2>1. CASE UNCHANGED <<alive, msg, fault>> BY <1>3, <1>9, <2>1 DEF SetResponse
    <2>2. ASSUME NEW e \in Extended(EmptyMsg, alive),
                 NEW o \in Short(e), Takes("res", o)
          PROVE  Lost' \subseteq Lost
        <3>1. Good(EmptyMsg) /\ Own(EmptyMsg, alive) /\ Blocks(EmptyMsg) = {} BY EmptyGood
        <3>2. o \in Short(e) \cup Long(e) OBVIOUS
        <3>3. LosesNothing(EmptyMsg, alive, o)
            BY <1>2, <3>1, <3>2, ExtendedKept, ExtendedIsOutcome, FieldKept
        <3>4. msg' = [msg EXCEPT !["res"] = o.x] /\ alive' = o.al /\ UNCHANGED frame
            BY <1>9, <2>2 DEF SetResponse, Takes
        <3>5. o.al \ Blocks(o.x) \subseteq alive \ Blocks(msg["res"])
            BY <1>9, <3>1, <3>3 DEF LosesNothing
        <3> QED BY <3>4, <3>5, LossOne
    <2> QED BY <1>9, <2>1, <2>2 DEF SetResponse
<1>10. CASE ReadFrame
    <2>1. CASE UNCHANGED <<alive, frame>> BY <1>3, <1>10, <2>1 DEF ReadFrame
    <2>2. ASSUME NEW b \in Block \ alive, alive' = alive \cup {b},
                 frame' = [frame EXCEPT !["in"] = b]
          PROVE  Lost' \subseteq Lost
        <3>1. frame["in"] = Null /\ UNCHANGED msg /\ "in" \in Frame BY <1>10 DEF ReadFrame, Frame
        <3>2. alive' \ {b} \subseteq alive \ {frame["in"]} BY <1>2, <2>2, <3>1
        <3> QED BY <2>2, <3>1, <3>2, LossFrame
    <2> QED BY <1>10, <2>1, <2>2 DEF ReadFrame
<1>11. ASSUME NEW f \in Frame, ReleaseFrame(f) PROVE Lost' \subseteq Lost
    <2>1. /\ alive' = alive \ {frame[f]} /\ frame' = [frame EXCEPT ![f] = Null]
          /\ UNCHANGED msg
        BY <1>11 DEF ReleaseFrame
    <2> QED BY <2>1, LossFrame
<1>12. ASSUME NEW f \in Frame, GenerateFrame(f), frame[f] = Null PROVE Lost' \subseteq Lost
    <2>1. PICK g \in Generated(alive) :
            frame' = [frame EXCEPT ![f] = g[1]] /\ alive' = g[2] /\ UNCHANGED msg
        BY <1>12 DEF GenerateFrame
    <2>2. g[2] \ {g[1]} \subseteq alive \ {frame[f]}
        BY <1>2, <1>12 DEF Generated
    <2> QED BY <2>1, <2>2, LossFrame
<1>13. ASSUME NEW n \in 0..MaxFields, Response(n) PROVE Lost' \subseteq Lost
    <2>1. CASE UNCHANGED <<msg, call, todo>> BY <1>3, <1>13, <2>1 DEF Response
    <2>2. CASE msg' = [msg EXCEPT !["req"] = EmptyMsg, !["res"] = EmptyMsg]
        <3>1. UNCHANGED <<alive, frame>> /\ Blocks(msg["req"]) = {} /\ Blocks(msg["res"]) = {}
            BY <1>13 DEF Response, Idle
        <3>2. msg \in [Msg -> MsgRec] BY DEF IInv, TypeOK, MsgRec
        <3>3. /\ msg'["app"] = msg["app"] /\ Blocks(msg'["req"]) = {} /\ Blocks(msg'["res"]) = {}
            BY <2>2, <3>2, EmptyGood
        <3>4. \A m \in Msg : Blocks(msg'[m]) = Blocks(msg[m]) BY <3>1, <3>3
        <3> QED BY <3>1, <3>4 DEF Lost
    <2> QED BY <1>13, <2>1, <2>2 DEF Response
<1>14. ASSUME NEW n \in 0..MaxFields, StartParse(n) PROVE Lost' \subseteq Lost
    BY <1>3, <1>14 DEF StartParse
<1>15. CASE EndParse BY <1>3, <1>15 DEF EndParse
(* What the callback's return releases is what the two messages owned. *)
<1>16. ASSUME msg' = Forgotten, NEW M \in SUBSET {"req", "res"}, NEW c, NEW al,
              alive' = al \ Released(M), al \ {c} \subseteq alive,
              frame' = [frame EXCEPT !["out"] = c], frame["out"] \in {Null, c},
              \A m \in {"req", "res"} \ M : Blocks(msg[m]) = {}
       PROVE  Lost' \subseteq Lost
    <2>1. msg \in [Msg -> MsgRec] /\ frame \in [Frame -> Block \cup {Null}]
        BY DEF IInv, TypeOK, MsgRec
    <2>2. msg'["app"] = msg["app"] /\ frame'["in"] = frame["in"] /\ frame'["out"] = c
        BY <1>16, <2>1 DEF Forgotten, Frame
    <2>3. ASSUME NEW b \in Lost' PROVE b \in Lost
        <3>1. /\ b \in al /\ b \notin Released(M) /\ b \notin Blocks(msg["app"])
              /\ b # frame["in"] /\ b # c
            <4>1. b \in alive' /\ b \notin Blocks(msg'["app"]) /\ b # frame'["in"] /\ b # frame'["out"]
                BY <2>3 DEF Lost, Blocks, Frame
            <4> QED BY <4>1, <2>2, <1>16
        <3>2. b \in alive /\ b # frame["out"] BY <1>2, <1>16, <3>1
        <3>3. \A m \in Msg : b \notin Blocks(msg[m]) BY <1>16, <3>1 DEF Released
        <3> QED BY <3>1, <3>2, <3>3 DEF Lost, Frame
    <2> QED BY <2>3
<1>22. CASE AbortParse /\ Blocks(msg["req"]) = {}
    <2>1. CASE UNCHANGED msg BY <1>3, <1>22, <2>1 DEF AbortParse
    <2>2. CASE todo.into = "req"
        <3>0. Blocks(msg["res"]) = {} BY <1>22 DEF AbortParse, Idle
        <3>1. msg' = Forgotten /\ UNCHANGED <<alive, frame>> BY <1>22, <2>2 DEF AbortParse
        <3>2. frame' = [frame EXCEPT !["out"] = frame["out"]] /\ Released({}) = {}
            BY <3>1 DEF IInv, TypeOK, Released
        <3> QED BY <1>16, <1>22, <3>0, <3>1, <3>2
    <2> QED BY <1>22, <2>1, <2>2 DEF AbortParse
<1>17. CASE CallbackFails /\ Blocks(msg["res"]) = {}
    <2>1. /\ msg' = Forgotten /\ alive' = alive \ Released({"req"}) /\ UNCHANGED frame
        BY <1>17 DEF CallbackFails, OnFailure
    <2>2. frame' = [frame EXCEPT !["out"] = frame["out"]]
        BY <2>1 DEF IInv, TypeOK
    <2> QED BY <1>16, <1>17, <2>1, <2>2
<1>18. CASE CallbackReturns
    <2>1. PICK g \in Generated(alive) :
            /\ frame' = [frame EXCEPT !["out"] = g[1]]
            /\ alive' = g[2] \ Released({"req", "res"})
        BY <1>18 DEF CallbackReturns
    <2>2. g[2] \ {g[1]} \subseteq alive BY DEF Generated
    <2>3. msg' = Forgotten /\ frame["out"] = Null
        BY <1>18 DEF CallbackReturns, OutFree
    <2> QED BY <1>16, <2>1, <2>2, <2>3
<1>19. ASSUME NEW m \in {"app", "res"}, NEW kind \in {"nset", "block"}, AddCopy(m, kind)
       PROVE  Lost' \subseteq Lost \/ LossyCall
    BY <1>5, <1>19 DEF LossyCall
<1>20. ASSUME NEW f \in Frame, GenerateFrame(f)
       PROVE  Lost' \subseteq Lost \/ LossyCall
    <2>1. f = "out" => frame[f] = Null BY <1>20 DEF GenerateFrame
    <2> QED BY <1>12, <1>20, <2>1 DEF LossyCall, Frame
<1>21. CASE SetResponse \/ CallbackFails
    BY <1>9, <1>17, <1>21 DEF LossyCall
<1>23. CASE AbortParse
    BY <1>22, <1>23 DEF LossyCall
<1> QED BY <1>4, <1>6, <1>7, <1>8, <1>10, <1>11, <1>13, <1>14, <1>15, <1>18, <1>19,
           <1>20, <1>21, <1>23 DEF Next

(* Memory is lost in the six ways LossyCall names and in no other,        *)
(* whatever callbacks do and whichever allocation fails.                   *)
THEOREM LossKnown == Spec => LossOnlyAt
<1> DEFINE Inv == IInv /\ Idle /\ OutFree
<1>1. Init => Inv BY InitInv, InitIdle DEF Init, OutFree, NoTodo
<1>2. Inv /\ [Next]_vars => Inv' BY StepInv, StepIdle, StepOutFree
<1>3. Inv /\ [Next]_vars => [Lost' \subseteq Lost \/ LossyCall]_vars BY StepLoss
<1> HIDE DEF Inv
<1> QED BY <1>1, <1>2, <1>3, PTL DEF Spec, LossOnlyAt
=============================================================================
