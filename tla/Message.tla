------------------------------ MODULE Message ------------------------------
(***************************************************************************)
(* The memory of messages and frames: tp3_msg_t and its fields of          *)
(* ttap3_base.c, and tp3_response of ttap3_process.c, which makes, fills   *)
(* and releases two messages around a callback of the application.         *)
(*                                                                         *)
(* A message owns the array of its fields and one block for each field of  *)
(* more than _TP3_FDATA_LIMIT bytes ("long"); a frame owns its data.       *)
(* Which field a block belongs to and what is in it does not matter here.  *)
(*                                                                         *)
(* "app" is a message the application builds or parses into itself; "req"  *)
(* and "res" are tp3_response's.  "in" is a frame received, "out" one that *)
(* is made from a message.                                                 *)
(*                                                                         *)
(* The application initialises a message before it fills it, releases it   *)
(* once, and releases a frame once after a call that filled it.  It may    *)
(* make a frame in the structure it received one in, as doc.src/main.md    *)
(* does (line 77).  Its callbacks do what they like with the response.     *)
(***************************************************************************)
EXTENDS Integers, FiniteSets

CONSTANTS
    Block,      \* addresses malloc can return
    Null,       \* the null pointer
    FieldStep,  \* _TP3_FIELD_STEP
    AllocFails, \* which allocations may fail
    MaxFields   \* bound: fields of a message

(* "fields": the array of fields.  "data": a field's bytes, or the copy    *)
(* they are taken from.  "frame": a frame's data.                          *)
AllocKind == {"fields", "data", "frame"}

ASSUME MessageOK ==
    /\ Null \notin Block /\ FieldStep \in Nat \ {0} /\ MaxFields \in Nat
    /\ AllocFails \subseteq AllocKind

Msg == {"app", "req", "res"}
Frame == {"in", "out"}
Status == {"NOERROR", "MEMORY_ALLOCATION_FAIL", "ERROR"}

VARIABLES
    alive,  \* blocks allocated and not freed
    msg,    \* the messages; one that nobody will look at again is not live
    frame,  \* the data of the frames, Null if there is none
    todo,   \* fields tp3_parseframe still has to add, and the message
    call,   \* where the program is: "app", "parse" or "callback"
    ret,    \* status of the last call
    fault   \* freed memory was used or freed, or an array was overrun

vars == <<alive, msg, frame, todo, call, ret, fault>>

Blank(live) == [live |-> live, fields |-> Null, size |-> 0, num |-> 0, datas |-> {}]
NoMsg == Blank(FALSE)

(* tp3_initmsg: whatever the message held is forgotten, not freed. *)
EmptyMsg == Blank(TRUE)

NoTodo == [left |-> 0, into |-> "app"]

Init ==
    /\ alive = {} /\ msg = [m \in Msg |-> NoMsg]
    /\ frame = [f \in Frame |-> Null]
    /\ todo = NoTodo /\ call = "app"
    /\ ret = "NOERROR" /\ fault = FALSE

Blocks(x) == (x.datas \cup {x.fields}) \ {Null}

-----------------------------------------------------------------------------
(* Adding a field to the message x while al is allocated: the outcomes.    *)

Outcome(x, al, stat, bad) == [x |-> x, al |-> al, stat |-> stat, bad |-> bad]

(* Mutant of Extended: the array is one field too short. *)
ExtendedLate(x, al) ==
    IF x.num <= x.size /\ x.size > 0 THEN {Outcome(x, al, "NOERROR", FALSE)}
    ELSE {Outcome([x EXCEPT !.size = @ + FieldStep, !.fields = b], (al \ {x.fields}) \cup {b},
                  "NOERROR", FALSE) : b \in Block \ al}

(* Mutant of Moved: the old array is freed, the pointer is not moved. *)
MovedNot(x, b) ==
    [x EXCEPT !.size = @ + FieldStep, !.fields = IF @ = Null THEN b ELSE @]
Moved(x, b) == [x EXCEPT !.size = @ + FieldStep, !.fields = b]

(* tp3_extendfields.  tp3_addfield does not look at what it returns: when  *)
(* the array could not grow, it writes the field behind the array (or      *)
(* through Null), counts it, and reports no error.                         *)
Extended(x, al) ==
    IF x.num < x.size THEN {Outcome(x, al, "NOERROR", Blocks(x) \notin SUBSET al)}
    ELSE {Outcome(Moved(x, b), (al \ {x.fields}) \cup {b}, "NOERROR", Blocks(x) \notin SUBSET al) :
             b \in Block \ al}
         \cup {Outcome(x, al, "NOERROR", TRUE) : k \in AllocFails \cap {"fields"}}

(* A short field, a long one, and a long one whose malloc fails: it is not *)
(* counted.                                                                *)
Short(o) == {[o EXCEPT !.x.num = @ + 1]}
Long(o) == {[o EXCEPT !.x.num = @ + 1, !.x.datas = @ \cup {d}, !.al = @ \cup {d}] :
               d \in Block \ o.al}
           \cup {[o EXCEPT !.stat = "MEMORY_ALLOCATION_FAIL"] : k \in AllocFails \cap {"data"}}

(* tp3_addfield, tp3_addfield_num, tp3_addfield_bytes, tp3_addfield_nbytes *)
Added(x, al) == UNION {Short(o) \cup Long(o) : o \in Extended(x, al)}

(* A long field from a block that is made for it and only then added: an   *)
(* array of a node set (tp3_addfield_nsetdata), freed if that succeeded,   *)
(* or a history block (tp3_addfield_statblock, _envblock), never freed.    *)
AddedCopy(x, al, kind) ==
    {Outcome(x, al, "MEMORY_ALLOCATION_FAIL", FALSE) : k \in AllocFails \cap {"data"}}
    \cup UNION {{IF kind = "nset" /\ o.stat = "NOERROR" THEN [o EXCEPT !.al = @ \ {t}] ELSE o :
                    o \in Added(x, al \cup {t})} : t \in Block \ al}

Running == ~fault

(* The application fills its own message; a callback fills the response. *)
Mine(m) == \/ m = "app" /\ call = "app"
           \/ m = "res" /\ call = "callback"
Filling(m) == Running /\ Mine(m) /\ msg[m].live /\ msg[m].num < MaxFields

Takes(m, o) ==
    /\ msg' = [msg EXCEPT ![m] = o.x]
    /\ alive' = o.al /\ ret' = o.stat /\ fault' = o.bad

AddField(m) ==
    /\ Filling(m)
    /\ \E o \in Added(msg[m], alive) : Takes(m, o)
    /\ UNCHANGED <<frame, todo, call>>

AddCopy(m, kind) ==
    /\ Filling(m)
    /\ \E o \in AddedCopy(msg[m], alive, kind) : Takes(m, o)
    /\ UNCHANGED <<frame, todo, call>>

-----------------------------------------------------------------------------
(* The application's own messages and frames *)

(* tp3_initmsg, alone or at the start of a request builder. *)
InitMsg ==
    /\ Running /\ call = "app" /\ ~msg["app"].live
    /\ msg' = [msg EXCEPT !["app"] = EmptyMsg]
    /\ ret' = "NOERROR"
    /\ UNCHANGED <<alive, frame, todo, call, fault>>

ReleaseMsg ==
    /\ Running /\ call = "app" /\ msg["app"].live
    /\ alive' = alive \ Blocks(msg["app"])
    /\ msg' = [msg EXCEPT !["app"] = NoMsg]
    /\ fault' = (Blocks(msg["app"]) \notin SUBSET alive)
    /\ UNCHANGED <<frame, todo, call, ret>>

(* tp3_readframe into "in". *)
ReadFrame ==
    /\ Running /\ call = "app" /\ frame["in"] = Null
    /\ \/ \E b \in Block \ alive :
            /\ alive' = alive \cup {b} /\ frame' = [frame EXCEPT !["in"] = b]
            /\ ret' = "NOERROR"
       \/ /\ "frame" \in AllocFails
          /\ ret' = "MEMORY_ALLOCATION_FAIL"
          /\ UNCHANGED <<alive, frame>>
    /\ UNCHANGED <<msg, todo, call, fault>>

ReleaseFrame(f) ==
    /\ Running /\ call = "app" /\ frame[f] # Null
    /\ alive' = alive \ {frame[f]}
    /\ frame' = [frame EXCEPT ![f] = Null]
    /\ fault' = (frame[f] \notin alive)
    /\ UNCHANGED <<msg, todo, call, ret>>

(* tp3_generateframe into f while al is allocated, as <<data, al>>. *)
Generated(al) == {<<b, al \cup {b}>> : b \in Block \ al}
                 \cup {<<Null, al>> : k \in AllocFails \cap {"frame"}}

(* What was built is made a frame.  Data f has is forgotten, not freed. *)
GenerateFrame(f) ==
    /\ Running /\ call = "app" /\ msg["app"].live /\ (f = "out" => frame[f] = Null)
    /\ \E g \in Generated(alive) :
         /\ frame' = [frame EXCEPT ![f] = g[1]]
         /\ alive' = g[2]
         /\ ret' = IF g[1] = Null THEN "MEMORY_ALLOCATION_FAIL" ELSE "NOERROR"
    /\ fault' = (Blocks(msg["app"]) \notin SUBSET alive)
    /\ UNCHANGED <<msg, todo, call>>

(* tp3_parseframe of "in", of n fields beside those of the header or       *)
(* refused for its checksum, into the application's own message.           *)
StartParse(n) ==
    /\ Running /\ call = "app" /\ frame["in"] # Null
    /\ msg["app"].live /\ msg["app"].num + n <= MaxFields
    /\ \/ call' = "parse" /\ todo' = [left |-> n, into |-> "app"] /\ ret' = "NOERROR"
       \/ ret' = "ERROR" /\ UNCHANGED <<call, todo>>
    /\ fault' = (frame["in"] \notin alive)
    /\ UNCHANGED <<alive, msg, frame>>

-----------------------------------------------------------------------------
(* tp3_response *)

(* Two empty messages, then tp3_parseframe, which may refuse the checksum; *)
(* the response goes to "out".                                             *)
Response(n) ==
    /\ Running /\ call = "app" /\ frame["in"] # Null /\ frame["out"] = Null
    /\ \/ /\ msg' = [msg EXCEPT !["req"] = EmptyMsg, !["res"] = EmptyMsg]
          /\ call' = "parse"
          /\ todo' = [left |-> n, into |-> "req"]
          /\ ret' = "NOERROR"
       \/ ret' = "ERROR" /\ UNCHANGED <<msg, call, todo>>
    /\ fault' = (frame["in"] \notin alive)
    /\ UNCHANGED <<alive, frame>>

(* tp3_parseframe adds a field and does not look at the result. *)
ParseField ==
    /\ Running /\ call = "parse" /\ todo.left > 0
    /\ \E o \in Added(msg[todo.into], alive) :
         /\ msg' = [msg EXCEPT ![todo.into] = o.x]
         /\ alive' = o.al /\ fault' = o.bad
    /\ todo' = [todo EXCEPT !.left = @ - 1]
    /\ UNCHANGED <<frame, call, ret>>

(* The two messages of tp3_response are gone when it returns. *)
Forgotten == [msg EXCEPT !["req"] = NoMsg, !["res"] = NoMsg]

(* A field of the frame is an interface string that is not ours, wherever  *)
(* it stands (it is of the header: tp3_parseframe would add none for it).  *)
(* tp3_response returns what tp3_parseframe does, and does not release the *)
(* request.                                                                *)
AbortParse ==
    /\ Running /\ call = "parse"
    /\ todo' = NoTodo /\ call' = "app" /\ ret' = "ERROR"
    /\ msg' = IF todo.into = "req" THEN Forgotten ELSE msg
    /\ UNCHANGED <<alive, frame, fault>>

EndParse ==
    /\ Running /\ call = "parse" /\ todo.left = 0
    /\ todo' = NoTodo
    /\ call' = IF todo.into = "app" THEN "app" ELSE "callback"
    /\ UNCHANGED <<alive, msg, frame, ret, fault>>

(* tp3_setresponse in the callback: the response is initialised, and gets  *)
(* the field of its result code; or the request is none, and nothing       *)
(* happens.                                                                *)
SetResponse ==
    /\ Running /\ call = "callback"
    /\ \/ \E e \in Extended(EmptyMsg, alive) : \E o \in Short(e) : Takes("res", o)
       \/ ret' = "ERROR" /\ UNCHANGED <<alive, msg, fault>>
    /\ UNCHANGED <<frame, todo, call>>

(* What tp3_releasemsg frees of the messages M; freeing a block twice is a   *)
(* fault, as is freeing what is free.                                      *)
Released(M) == UNION {Blocks(msg[m]) : m \in M}
BadRelease(M) ==
    \/ Released(M) \notin SUBSET alive
    \/ \E m, n \in M : m # n /\ Blocks(msg[m]) \cap Blocks(msg[n]) # {}

(* Mutant of OnFailure: nothing is released. *)
OnFailureNone == {}
(* The messages released when the callback failed. *)
OnFailure == {"req"}

(* The callback fails, whatever it did to the response before. *)
CallbackFails ==
    /\ Running /\ call = "callback"
    /\ alive' = alive \ Released(OnFailure)
    /\ fault' = BadRelease(OnFailure)
    /\ msg' = Forgotten /\ call' = "app" /\ ret' = "ERROR"
    /\ UNCHANGED <<frame, todo>>

(* The callback succeeds: tp3_generateframe, then both are released. *)
CallbackReturns ==
    /\ Running /\ call = "callback"
    /\ \E g \in Generated(alive) :
         /\ frame' = [frame EXCEPT !["out"] = g[1]]
         /\ alive' = g[2] \ Released({"req", "res"})
         /\ ret' = IF g[1] = Null THEN "MEMORY_ALLOCATION_FAIL" ELSE "NOERROR"
    /\ fault' = BadRelease({"req", "res"})
    /\ msg' = Forgotten /\ call' = "app"
    /\ UNCHANGED todo

Next ==
    \/ InitMsg \/ ReleaseMsg \/ ReadFrame
    \/ \E f \in Frame : GenerateFrame(f) \/ ReleaseFrame(f)
    \/ \E m \in {"app", "res"} : AddField(m)
    \/ \E m \in {"app", "res"}, kind \in {"nset", "block"} : AddCopy(m, kind)
    \/ \E n \in 0..MaxFields : StartParse(n) \/ Response(n)
    \/ ParseField \/ AbortParse \/ EndParse
    \/ SetResponse \/ CallbackFails \/ CallbackReturns

Spec == Init /\ [][Next]_vars

-----------------------------------------------------------------------------
(* Properties *)

TypeOK ==
    /\ alive \subseteq Block
    /\ msg \in [Msg -> [live : BOOLEAN, fields : Block \cup {Null}, size : Nat, num : Nat,
                        datas : SUBSET Block]]
    /\ fault \/ \A m \in Msg : msg[m].num <= msg[m].size
    /\ frame \in [Frame -> Block \cup {Null}]
    /\ todo \in [left : Nat, into : Msg] /\ call \in {"app", "parse", "callback"}
    /\ ret \in Status /\ fault \in BOOLEAN

(* No freed memory is used or freed again, and no field is written past    *)
(* the array of fields, whatever the callbacks do and whichever allocation *)
(* but that of the array fails (tp3_addfield, tp3_releasemsg,              *)
(* tp3_response).                                                          *)
NoFault == ~fault

(* Every block of a message or a frame is allocated and is nobody else's,  *)
(* so that each can be released without a look at the others               *)
(* (ttap3_base.h:229-245).                                                 *)
Ownership ==
    /\ \A m \in Msg : /\ Blocks(msg[m]) \subseteq alive
                      /\ msg[m].fields \notin msg[m].datas
                      /\ msg[m].fields = Null => msg[m].size = 0
    /\ \A m, n \in Msg : m # n => Blocks(msg[m]) \cap Blocks(msg[n]) = {}
    /\ \A f \in Frame : frame[f] # Null =>
          frame[f] \in alive /\ \A m \in Msg : frame[f] \notin Blocks(msg[m])
    /\ frame["in"] = frame["out"] => frame["in"] = Null

(* Allocated blocks that nobody can release any more. *)
Lost == alive \ ((UNION {Blocks(msg[m]) : m \in Msg}) \cup {frame[f] : f \in Frame})

(* The calls that lose memory: a request is refused after fields of it     *)
(* were added, a callback fails after it began the response, a response    *)
(* that has memory is set again, a frame is made over one that was         *)
(* received, and the copy a field was made from stays behind: that of a    *)
(* node set when adding it fails, that of a history block always.          *)
LossyCall ==
    \/ AbortParse /\ Blocks(msg["req"]) # {}
    \/ CallbackFails /\ Blocks(msg["res"]) # {}
    \/ SetResponse /\ Blocks(msg["res"]) # {}
    \/ GenerateFrame("in") /\ frame["in"] # Null
    \/ \E m \in Msg : AddCopy(m, "nset") /\ ret' # "NOERROR"
    \/ \E m \in Msg : AddCopy(m, "block")

(* Memory is lost in these ways (process.c:48 and 60, base.c:737 and 263,  *)
(* util.c:618 and 785) and in no other.                                    *)
LossOnlyAt == [][Lost' \subseteq Lost \/ LossyCall]_vars
=============================================================================
