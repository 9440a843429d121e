------------------------------ MODULE Transfer ------------------------------
(* A message on its way: an application puts a content into it, it becomes  *)
(* a frame, the frame is carried over and becomes a message again, which    *)
(* another application reads.  On the way one byte may change.  A history   *)
(* block is filled, and the nodes of a GCG change, between the messages;    *)
(* block and report are sent at any time.                                   *)
EXTENDS History, Gcg

CONSTANTS Headers,   \* the headers of messages
          Loads,     \* what is put into them: [kind, about, entries]
          Connecting,\* the profile of the GCG
          Now,       \* the time of a report
          Noise      \* what a damaged byte differs by

(* Identifiers are of 24 bits; what applications put into a message is what *)
(* the codes allow, if it can be told of it how long it is.                 *)
ASSUME TransferAssumption ==
    /\ Headers # {}
    /\ \A h \in Headers :
         /\ h.msgtype \in Int /\ h.transtype \in Int /\ h.msgseq \in Nat
         /\ h.gcgid \in Nat /\ h.gcgid < 16777216 /\ h.gosid \in Nat /\ h.gosid < 16777216
    /\ \A c \in Loads : c.entries \in Seq(Entries)
    /\ \A c \in Loads : c.kind \in {"request", "profile", "sensor", "actuator"}
    /\ Connecting.serial \in Seq(Byte) /\ Fitting(Connecting.serial, FC.SERIALNUM)
    /\ Connecting.model \in Seq(Byte) /\ Fitting(Connecting.model, FC.MODELNUM)
    /\ Connecting.swver \in Int
    /\ Now \in Times
    /\ Noise \subseteq 1..255

(* A value fits the bytes its code has in a frame - tp3_addfield_num and    *)
(* tp3_addfield_array cut off what does not - and bytes are not put under a *)
(* number's code, where they would come back as the int they were kept as.  *)
InWidth(n, w) == IF w = 4 THEN IsInt(n) ELSE n \in 0..(Place[w + 1] - 1)

Fits(e) ==
    /\ e.how = "num" => InWidth(e.val[1], FieldLen(e.code))
    /\ e.how = "array" => \A i \in DOMAIN e.val : InWidth(e.val[i], 0 - FieldLen(e.code))
    /\ e.how = "bytes" => FieldLen(e.code) \notin 1..3
    /\ e.how = "rescode" => e.val[1] \in Byte

(* No two entries share a code: tp3_readfield finds the first.              *)
Readable(entries) ==
    /\ \A i \in DOMAIN entries : Fits(entries[i])
    /\ \A i, j \in DOMAIN entries : entries[i].code = entries[j].code => i = j

OfWidth(w) == {n \in Int : InWidth(n, w)}
NodeDevice == [gid : OfWidth(4), stat : OfWidth(1), env : OfWidth(2)]

(* The number of nodes is one byte of a report, a node's id three, its      *)
(* status one; a sensor's value and an actuator's fit the narrower of both. *)
(* One byte of a block holds the number of rows, or of devices of a kind.   *)
ASSUME WidthsAssumption ==
    /\ \A h \in Headers : h.msgtype \in Byte /\ h.transtype \in Byte
    /\ \A c \in Loads : Readable(c.entries)
    /\ InWidth(Connecting.swver, 2)
    /\ \A id \in NodeId : InWidth(id, 3)
    /\ Cardinality(NodeId) <= 255 /\ NodeStats \subseteq Byte
    /\ \A devs \in NodeDevs : devs \in Seq(NodeDevice)
    /\ \A s \in Shapes : s.rows <= 255
    /\ MaxDevices <= 255

(* What is sent as a profile or as attributes is what the function made for *)
(* it puts into a message.                                                  *)
Describes(kind, about, entries) ==
    /\ kind = "profile" => about \in Profiles /\ entries = Profile(about)
    /\ kind = "sensor" => about \in SensorAttrs /\ entries = SensorAttr(about)
    /\ kind = "actuator" => about \in ActuatorAttrs /\ entries = ActuatorAttr(about)

ASSUME AttributesAssumption == \A c \in Loads : Describes(c.kind, c.about, c.entries)

VARIABLES stage,     \* "idle", "composed", "framed", "damaged", "parsed",
                     \* "refused", "misparsed", or "crashed" for good
          sent,      \* the header and the content the message was composed of
          msg, frame, got

vars == <<block, gcg, stage, sent, msg, frame, got>>
pipe == <<stage, sent, msg, frame, got>>

NoFrame == [chunks |-> <<>>, check |-> <<0, 0>>, room |-> 0]
Nothing == [header |-> InitMsg.header, kind |-> "request", about |-> NoBlock, entries |-> <<>>]

Init ==
    /\ BlockInit /\ GcgInit
    /\ stage = "idle" /\ sent = Nothing /\ msg = InitMsg /\ frame = NoFrame /\ got = InitMsg

Composed(h, entries) ==
    FoldLeft(Put, SetHeader(InitMsg, h.msgtype, h.transtype, h.gcgid, h.gosid, h.msgseq), entries)

Send(h, content) ==
    /\ stage = "idle"
    /\ stage' = "composed"
    /\ sent' = [header |-> h, kind |-> content.kind, about |-> content.about, entries |-> content.entries]
    /\ msg' = Composed(h, content.entries)
    /\ UNCHANGED <<frame, got, block, gcg>>

(* Bound: a block is filled while the GCG is off, and other contents are    *)
(* sent when there is neither; they have nothing in common.                 *)
SendContent == block = NoBlock /\ gcg.state = "off" /\ \E h \in Headers, c \in Loads : Send(h, c)

(* The answer to a history query: the response code, the number of rows and *)
(* the block, of one kind or the other.                                     *)
HistoryResponse(code, bytes) ==
    Response(0) \o Number(FC.NUMOFBLK, block.rows) \o Entry("bytes", code, bytes)

SendStatBlock(h) ==
    Send(h, [kind |-> "stat", about |-> block,
             entries |-> HistoryResponse(FC.BLKOFSTAT, StatBlock(block))])
SendEnvBlock(h) ==
    Send(h, [kind |-> "env", about |-> block,
             entries |-> HistoryResponse(FC.BLKOFENV, EnvBlock(block))])

SendHistory ==
    /\ block # NoBlock
    /\ LET h == CHOOSE header \in Headers : TRUE IN SendStatBlock(h) \/ SendEnvBlock(h)

(* The reports of a GCG, and its request to be connected.  `about` is what  *)
(* the application had put into the sets when the report was made.          *)
SendReport ==
    /\ gcg.state = "on"
    /\ LET h == CHOOSE header \in Headers : TRUE
           lost == \E type \in NodeType : ReadsNull(gcg[type])
       IN  \/ /\ lost /\ stage = "idle" /\ stage' = "crashed"
              /\ UNCHANGED <<sent, msg, frame, got, block, gcg>>
           \/ ~lost /\ Send(h, [kind |-> "statreport", entries |-> NotifyStat(Now),
                   about |-> [lists |-> <<Nodes("SNODE"), Nodes("ANODE"),
                                          Held("SNODE", "stat"), Held("ANODE", "stat")>>]])
           \/ ~lost /\ Send(h, [kind |-> "envreport", entries |-> NotifyEnv(Now),
                   about |-> [lists |-> <<Held("SNODE", "env"), Held("ANODE", "env")>>]])
           \/ Send(h, [kind |-> "connect", entries |-> ConnectRequest(Connecting), about |-> NoBlock])

(* The writer follows an int it takes for an address wherever it leads, and *)
(* the parser writes behind the end of its array: neither asks first, and   *)
(* what the program does then nobody can say.                               *)
Generate ==
    /\ stage = "composed"
    /\ IF \E i \in DOMAIN msg.fields : ReadAsAddress(msg.fields[i])
       THEN stage' = "crashed" /\ UNCHANGED frame
       ELSE stage' = "framed" /\ frame' = GenerateFrame(msg)
    /\ UNCHANGED <<sent, msg, got, block, gcg>>

(* One byte of the frame changes: of a field's data, of its length, or one  *)
(* of the two digits; or the code of a field becomes another one.           *)
Altered(byte, d) == (byte + d) % 256
DamagedData(c, d) ==
    {[c EXCEPT !.bytes[k] = Altered(@, d)] : k \in DOMAIN c.bytes}
DamagedLength(c, d) ==
    {[c EXCEPT !.length = @ - (@ % 256) + Altered(@ % 256, d)]}
DamagedCode(c) ==
    {[c EXCEPT !.code = code] :
        code \in {x \in Range(FC) \ {c.code} : c.code > FC.RESCODE /\ x \div 256 = c.code \div 256}}

Damage ==
    /\ stage = "framed" /\ sent.kind \in {"request", "profile", "sensor", "actuator"}
    /\ stage' = "damaged"
    /\ \E d \in Noise :
       \/ \E i \in DOMAIN frame.chunks :
          \E c \in DamagedData(frame.chunks[i], d) \cup DamagedLength(frame.chunks[i], d)
                   \cup DamagedCode(frame.chunks[i]) :
             frame' = [frame EXCEPT !.chunks[i] = c]
       \/ \E i \in 1..2 : frame' = [frame EXCEPT !.check[i] = (@ + d) % 256]
    /\ UNCHANGED <<sent, msg, got, block, gcg>>

Parse ==
    /\ stage \in {"framed", "damaged"}
    /\ LET p == ParseFrame(frame)
           overflow == p.stat = "NOERROR" /\ \E i \in DOMAIN frame.chunks : Overflows(frame.chunks[i])
       IN  /\ got' = IF overflow THEN got ELSE p.msg
           /\ stage' = CASE overflow -> "crashed"
                         [] p.stat # "NOERROR" -> "refused"
                         [] p.stat = "NOERROR" /\ ~overflow /\ stage = "framed" -> "parsed"
                         [] p.stat = "NOERROR" /\ ~overflow /\ stage = "damaged" -> "misparsed"
    /\ UNCHANGED <<sent, msg, frame, block, gcg>>

(* Both applications release what they have. *)
Release ==
    /\ stage \in {"parsed", "refused", "misparsed"}
    /\ stage' = "idle" /\ sent' = Nothing /\ msg' = InitMsg /\ frame' = NoFrame /\ got' = InitMsg
    /\ UNCHANGED <<block, gcg>>

FillBlock ==
    /\ stage = "idle" /\ gcg.state = "off" /\ UNCHANGED <<pipe, gcg>>
    /\ InitBlock \/ NextEmptyBlockItem \/ SetBlockItem \/ ReleaseBlock

ChangeNodes == stage = "idle" /\ block = NoBlock /\ GcgNext /\ UNCHANGED <<pipe, block>>

Next == SendContent \/ SendHistory \/ SendReport \/ Generate \/ Damage \/ Parse \/ Release \/ FillBlock \/ ChangeNodes

Spec == Init /\ [][Next]_vars

-----------------------------------------------------------------------------
(* The parts of the state have the form the functions give them: a field    *)
(* holds an int's four bytes or exactly the bytes of its length, and the    *)
(* header the numbers of its fields' widths.                                *)
FieldOK(f) ==
    /\ f.code \in Range(FC) /\ Range(f.data) \subseteq Byte
    /\ Len(f.data) = IF f.length > FDATA_LIMIT THEN f.length ELSE 4

TypeOK ==
    /\ stage \in {"idle", "composed", "framed", "damaged", "parsed", "refused", "misparsed", "crashed"}
    /\ \A m \in {msg, got} :
         /\ m.header.msgseq \in Nat /\ m.header.msgseq < 999999
         /\ m.header.gcgid \in Nat /\ m.header.gcgid < 16777216
         /\ m.header.gosid \in Nat /\ m.header.gosid < 16777216
         /\ \A i \in DOMAIN m.fields : FieldOK(m.fields[i])
    /\ frame.check[1] \in Byte /\ frame.check[2] \in Byte
    /\ \A i \in DOMAIN frame.chunks :
         frame.chunks[i].code \in Range(FC) /\ Range(frame.chunks[i].bytes) \subseteq Byte

(* tp3_generateframe allocates by an estimate made before anything is       *)
(* written, and the comment there (base.c:256) says the frame is no longer  *)
(* than that: whatever the content, nothing is written behind the buffer.   *)
FitsBuffer == stage = "framed" => Written(frame.chunks) <= frame.room

(* The length a field of a frame gives is that of its bytes, whatever width *)
(* its values have there: the parser, which goes from each field to the     *)
(* next by the lengths (base.c:365), finds the fields that were written.    *)
LengthsTold ==
    stage = "framed" => \A i \in DOMAIN frame.chunks : frame.chunks[i].length = Len(frame.chunks[i].bytes)

(* Four places decide for themselves whether a field's union is an int or   *)
(* an address: adding, writing, parsing and reading.  They disagree on the  *)
(* short texts of a content and on no other field of any message: a message *)
(* is mistaken when one was put into it, a frame is made of a message       *)
(* without, what arrives is mistaken nowhere and held no list too long for  *)
(* the parser, and the program is lost to a short text, a long list or a    *)
(* node without devices only.                                               *)
AnyShort(entries) == \E i \in DOMAIN entries : ShortText(entries[i])
AnyLong(entries) == \E i \in DOMAIN entries : LongList(entries[i])
AnyMistaken(m) == \E i \in DOMAIN m.fields : Mistaken(m.fields[i])

FaultsKnown ==
    /\ stage # "idle" => (AnyMistaken(msg) <=> AnyShort(sent.entries))
    /\ stage \in {"framed", "damaged", "parsed", "refused", "misparsed"} => ~AnyShort(sent.entries)
    /\ stage \in {"parsed", "refused", "misparsed"} => ~AnyMistaken(got)
    /\ stage = "parsed" => ~AnyLong(sent.entries)
    /\ stage = "crashed" =>
         AnyShort(sent.entries) \/ AnyLong(sent.entries) \/ \E type \in NodeType : Gaps(gcg[type]) # {}

(* test/test_base.c:103-109 adds a text of three bytes under MODELNUM and   *)
(* asserts that it is kept by value, as ttap3_base.h:97-103 says of every   *)
(* field of up to four bytes: a message with one can be sent.               *)
TextsSent == stage = "crashed" => ~AnyShort(sent.entries)

(* What one application put into a message the other reads out of it: the   *)
(* header, each number, list, text, interval and time.  Left out are fields *)
(* of four bytes, which come back in the other byte order, and a threshold  *)
(* type, which keeps one digit of its interval (AttributesRead).            *)
SameHeader ==
    /\ \A k \in {"msgtype", "transtype", "gcgid", "gosid"} : got.header[k] = sent.header[k]
    /\ got.header.msgseq = sent.header.msgseq % 999999
    /\ got.header.tdate \o got.header.ttime = Today

Whole(e) == FieldLen(e.code) # 4 /\ (e.how = "interval" => FieldLen(e.code) = 6)

ReadBack ==
    stage = "parsed" =>
        /\ SameHeader
        /\ \A i \in DOMAIN sent.entries :
             LET e == sent.entries[i] IN Whole(e) => Taken(got, e) = e.val
        /\ \A i \in DOMAIN sent.entries :
             sent.entries[i].how = "rescode" => got.header.rescode = sent.entries[i].val[1]

(* A frame with one changed byte is refused, and nothing of it is left in   *)
(* the message: tp3_parseframe checks before it adds the first field.       *)
DamageRefused == stage # "misparsed" /\ (stage = "refused" => got = InitMsg)

(* Two applications that use the functions made for it, tp3_addfields_* and *)
(* tp3_readfields_*, agree on a profile or on the attributes of a device    *)
(* that its way of gathering uses, whatever the reader's structure held.    *)
Other(a) == [k \in DOMAIN a |-> 77]
Unused(kind, a) ==
    CASE kind = "profile" -> {}
      [] kind = "sensor" ->
            (IF a.gathertype = SensorPeriod THEN {} ELSE {"gatherinterval"})
            \cup (IF a.gathertype = SensorEvent THEN {} ELSE {"threshold", "thresholdtype"})
      [] kind = "actuator" -> IF a.gathertype = ActuatorPeriod THEN {} ELSE {"gatherinterval"}

Read(kind, a) ==
    CASE kind = "profile" -> ReadProfile(got)
      [] kind = "sensor" -> ReadSensorAttr(got, Other(a))
      [] kind = "actuator" -> ReadActuatorAttr(got, Other(a))

Agree(kind, a, except) ==
    \A k \in DOMAIN a \ (except \cup Unused(kind, a)) :
        k \in DOMAIN Read(kind, a) /\ Read(kind, a)[k] = a[k]

Described == stage = "parsed" /\ sent.kind \in {"profile", "sensor", "actuator"}

AttributesRead == Described => Agree(sent.kind, sent.about, {})

(* The same for what AttributesRead's counterexamples leave: not the        *)
(* values of four bytes, not a sensor's threshold, not an actuator's        *)
(* interval.                                                                *)
FourBytes == {"ipv4", "maxval", "minval", "precision", "errrange", "threshold", "thresholdtype"}
SmallAttributesRead ==
    Described /\ ~(sent.kind = "actuator" /\ sent.about.gathertype = ActuatorPeriod)
        => Agree(sent.kind, sent.about, FourBytes)

(* The block that is sent has a row, and what is in it fits the bytes that  *)
(* tp3_addfield_statblock and tp3_addfield_envblock write it as.            *)
DevicesFit(b, d, idbytes, valbytes) ==
    \A i \in 1..b.rows, k \in 1..b.numofdev[d] :
        InWidth(b.items[i].ids[d][k], idbytes) /\ InWidth(b.items[i].vals[d][k], valbytes)

BlockFits ==
    /\ sent.kind \in {"stat", "env"} => sent.about.rows > 0
    /\ sent.kind = "stat" =>
         /\ \A i \in 1..sent.about.rows : sent.about.items[i].gcgstat \in Byte
         /\ \A d \in Dev : DevicesFit(sent.about, d, IdBytes(d), 1)
    /\ sent.kind = "env" =>
         \A d \in {"SENSOR", "ACTUATOR"} : DevicesFit(sent.about, d, 4, EnvBytes(d))

(* A block that arrives has the rows, the devices, the values and the times *)
(* of the block that was filled, rows not begun yet included: the writer's  *)
(* and the parser's offsets, step and numbers of devices are the same.      *)
HistoryRead ==
    stage = "parsed" /\ sent.kind \in {"stat", "env"} =>
        LET b == sent.about
            stat == sent.kind = "stat"
            field == ReadField(got, IF stat THEN FC.BLKOFSTAT ELSE FC.BLKOFENV).data
            rows == Num(got, FC.NUMOFBLK)
            r == IF stat THEN ParseStatBlock(rows, field) ELSE ParseEnvBlock(rows, field)
            kinds == IF stat THEN Dev ELSE {"SENSOR", "ACTUATOR"}
        IN  /\ r.rows = b.rows
            /\ \A d \in kinds : r.numofdev[d] = b.numofdev[d]
            /\ \A i \in 1..b.rows :
                 /\ r.items[i].timestamp = b.items[i].timestamp
                 /\ stat => r.items[i].gcgstat = b.items[i].gcgstat
                 /\ \A d \in kinds : r.items[i].ids[d] = b.items[i].ids[d]
                                   /\ r.items[i].vals[d] = b.items[i].vals[d]

(* What a GOS reads from a report with tp3_parse_statmsg, tp3_parse_envmsg  *)
(* is what the GCG's application had put into the sets when the report was  *)
(* made: every node, every device, each with its own status or value, after *)
(* any sequence of updates that change the number of devices or the type of *)
(* a node - as long as no node without devices is in front of one with.     *)
ReportArrives ==
    stage = "parsed" /\ (\A type \in NodeType : Gaps(gcg[type]) = {}) =>
        /\ sent.kind = "statreport" => ParseStatMsg(got) = sent.about.lists
        /\ sent.kind = "envreport" => ParseEnvMsg(got) = sent.about.lists

(* What is in a block stays until it is released: a new row leaves the rows *)
(* before it alone, and a new device the devices before it, whichever       *)
(* kinds of device are written in between.                                  *)
Entered(b, i, d) == {k \in 1..MaxDevices : b.items[i].ids[d][k] # 0}

RowsKept ==
    [][block # NoBlock /\ block' # NoBlock =>
         \A i \in 1..block.rows :
           /\ block.items[i].timestamp # Epoch =>
                /\ block'.items[i].timestamp = block.items[i].timestamp
                /\ block'.items[i].gcgstat = block.items[i].gcgstat
           /\ \A d \in Dev : \A k \in Entered(block, i, d) :
                /\ block'.items[i].ids[d][k] = block.items[i].ids[d][k]
                /\ block'.items[i].vals[d][k] = block.items[i].vals[d][k]]_block
=============================================================================
