------------------------------ MODULE Contents ------------------------------
(* What applications put into messages and read out of them: the requests  *)
(* of a GOS (ttap3_gos.c), and the profile, the attributes, the intervals   *)
(* and the timestamps of ttap3_util.c.                                      *)
(* A content is a sequence of entries, one for each call of a tp3_addfield  *)
(* function; a time is its local year, month, day, hour, minute, second,    *)
(* which localtime and mktime turn into each other.                         *)
EXTENDS Codec

Entry(how, code, val) == <<[how |-> how, code |-> code, val |-> val]>>
Number(code, n) == Entry("num", code, <<n>>)
Interval(code, n) == Entry("interval", code, <<n>>)

-----------------------------------------------------------------------------
(* tp3_settimestamp and tp3_getepoch: seven bytes of two decimal digits. *)
Bcd(n) == 16 * (n \div 10) + (n % 10)
Decimal(byte) == 10 * (byte \div 16) + (byte % 16)

SetTimestamp(t) ==
    << Bcd(t[1] \div 100), Bcd(t[1] % 100) >> \o [k \in 1..5 |-> Bcd(t[k + 1])]

GetEpoch(bytes) ==
    << 100 * Decimal(bytes[1]) + Decimal(bytes[2]) >> \o [k \in 1..5 |-> Decimal(bytes[k + 2])]

(* Mutant of IntervalDigits: the minutes are those of the whole interval. *)
IntervalDigitsWhole(n) ==
    LET hours == n \div 3600
        minutes == n \div 60
    IN  << 48 + (hours \div 10), 48 + (hours % 10), (48 + (minutes \div 10)) % 256,
           48 + (minutes % 10), 48 + ((n % 60) \div 10), 48 + (n % 10) >>

(* tp3_addfield_interval and tp3_getinterval: six digits, HHMMSS. *)
IntervalDigits(n) ==
    LET hours == n \div 3600
        minutes == (n - hours * 3600) \div 60
    IN  << 48 + (hours \div 10), 48 + (hours % 10), 48 + (minutes \div 10), 48 + (minutes % 10),
           48 + ((n % 60) \div 10), 48 + (n % 10) >>

GetInterval(ptr) ==
    (ptr[1] - 48) * 36000 + (ptr[2] - 48) * 3600 + (ptr[3] - 48) * 600 + (ptr[4] - 48) * 60
        + (ptr[5] - 48) * 10 + (ptr[6] - 48)

GetGid(nid, devid) == nid * 256 + devid
GetDevId(gid) == gid % 256
GetNid(gid) == gid \div 256

-----------------------------------------------------------------------------
(* The entries applications make.  A code of a fixed length gets a value of  *)
(* that length, but for the threshold's, which get an interval's bytes; a   *)
(* text, a block or a list is of any length that a field can tell: longer   *)
(* ones would be cut off.                                                   *)
Times == {t \in [1..6 -> Nat] : t[1] <= 9999 /\ \A k \in 2..6 : t[k] <= 99}
Intervals == {n \in Nat : n <= 359999}   \* up to 99:59:59

FieldCodes == {code \in Range(FC) : code > FC.RESCODE}
CodesOfLength(lengths) == {code \in FieldCodes : FieldLen(code) \in lengths}
Fitting(bytes, code) ==
    \/ Len(bytes) = FieldLen(code)
    \/ FieldLen(code) = 0 /\ Len(bytes) <= MaxLength

Entries ==
    [how : {"num"}, code : CodesOfLength(1..4), val : [1..1 -> Int]]
    \cup {e \in [how : {"bytes"}, code : FieldCodes, val : Seq(Byte)] : Fitting(e.val, e.code)}
    \cup {e \in [how : {"array"}, code : CodesOfLength(-4..-1), val : Seq(Int)] : Len(e.val) <= MaxInts}
    \cup [how : {"time"}, code : CodesOfLength({7}), val : Times]
    \cup [how : {"interval"}, code : CodesOfLength(1..6), val : [1..1 -> Intervals]]
    \cup [how : {"rescode"}, code : {FC.RESCODE}, val : [1..1 -> Int]]

(* Entries that no function refuses and that do not get through: a text or  *)
(* a block so short that its field keeps it by value, under a code whose    *)
(* bytes are sought at an address (util.c:73-78, gcg.c:92), and a list      *)
(* longer than the array the parser unpacks it into (base.c:295).  If there *)
(* is a 0 behind the table header[], a response code is one of the first.   *)
ShortText(e) == FieldLen(e.code) = 0 /\ Len(e.val) \in 1..FDATA_LIMIT
LongList(e) == e.how = "array" /\ Len(e.val) > MaxItem

(* One entry into a message, and back out of the message it arrived in. *)
Put(m, e) ==
    CASE e.how = "num" -> AddNum(m, e.code, e.val[1])
      [] e.how = "bytes" -> AddNBytes(m, e.code, e.val)
      [] e.how = "array" -> AddArray(m, e.code, e.val)
      [] e.how = "time" -> AddBytes(m, e.code, SetTimestamp(e.val))
      [] e.how = "interval" -> AddBytes(m, e.code, IntervalDigits(e.val[1]))
      [] e.how = "rescode" -> SetResCode(m, e.val[1])

Taken(m, e) ==
    LET f == ReadField(m, e.code)
    IN  CASE e.how \in {"num", "rescode"} -> << IntOf(f.data) >>
          [] e.how = "bytes" -> SubSeq(f.data, 1, f.length)
          [] e.how = "array" -> ReadArray(m, e.code)
          [] e.how = "time" -> GetEpoch(f.data)
          [] e.how = "interval" -> << GetInterval(f.data) >>

-----------------------------------------------------------------------------
(* The profile of a GCG.  The reader looks at no result of tp3_readfield,   *)
(* so it is modelled for messages that carry all the fields.                *)
Profiles == [serial : Seq(Byte), model : Seq(Byte), ipv4 : Seq(Byte), ipv6 : Seq(Byte),
             installsite : Int, mcutype : Int, ostype : Int, osver : Int, ramsize : Int,
             powertype : Int, swver : Int]

Profile(p) ==
    Entry("bytes", FC.SERIALNUM, p.serial) \o Entry("bytes", FC.MODELNUM, p.model)
    \o Entry("bytes", FC.IPV4ADDR, p.ipv4) \o Entry("bytes", FC.IPV6ADDR, p.ipv6)
    \o Number(FC.INSTSITE, p.installsite) \o Number(FC.MCUTYPE, p.mcutype)
    \o Number(FC.OSTYPE, p.ostype) \o Number(FC.OSVER, p.osver)
    \o Number(FC.RAMSIZE, p.ramsize) \o Number(FC.POWTYPE, p.powertype)
    \o Number(FC.SWVER, p.swver)

ReadProfile(m) ==
    LET text(code) == SubSeq(ReadField(m, code).data, 1, ReadField(m, code).length)
    IN  [serial |-> text(FC.SERIALNUM), model |-> text(FC.MODELNUM),
         ipv4 |-> SubSeq(ReadField(m, FC.IPV4ADDR).data, 1, 4),
         ipv6 |-> SubSeq(ReadField(m, FC.IPV6ADDR).data, 1, 6),
         installsite |-> Num(m, FC.INSTSITE), mcutype |-> Num(m, FC.MCUTYPE),
         ostype |-> Num(m, FC.OSTYPE), osver |-> Num(m, FC.OSVER),
         ramsize |-> Num(m, FC.RAMSIZE), powertype |-> Num(m, FC.POWTYPE),
         swver |-> Num(m, FC.SWVER)]

(* The attributes of a sensor.  Threshold and its type are written by       *)
(* tp3_addfield_interval, the reader takes them for numbers.                *)
SensorPeriod == 2
SensorEvent == 3
If(condition, entries) == IF condition THEN entries ELSE <<>>

SensorAttrs == [gsid : Int, sentype : Int, datatype : Int, gathertype : Int, gatherinterval : Int,
                maxval : Int, minval : Int, precision : Int, errrange : Int,
                thresholdtype : Int, threshold : Int]

SensorAttr(a) ==
    Number(FC.SNID, GetNid(a.gsid)) \o Number(FC.SID, GetDevId(a.gsid))
    \o Number(FC.SENTYPE, a.sentype) \o Number(FC.SENDATATYPE, a.datatype)
    \o Number(FC.SENGETTYPE, a.gathertype)
    \o If(a.gathertype = SensorPeriod, Interval(FC.SENGETINTV, a.gatherinterval))
    \o Number(FC.MAXVALUE, a.maxval) \o Number(FC.MINVALUE, a.minval)
    \o Number(FC.PRECISION, a.precision) \o Number(FC.ERRRANGE, a.errrange)
    \o If(a.gathertype = SensorEvent,
          Interval(FC.THRESHOLDTYPE, a.thresholdtype)
          \o Interval(FC.THRESHOLD, a.threshold))

(* What a reader reports, and what it leaves in the structure of its caller,*)
(* which held the attributes `old`.                                         *)
NoReqField == [stat |-> "NOREQFIELD_ERR"]

ReadSensorAttr(m, old) ==
    LET required == {FC.SNID, FC.SID, FC.SENTYPE, FC.SENDATATYPE, FC.SENGETTYPE}
        gather == Num(m, FC.SENGETTYPE)
        or(code, kept) == IF ReadField(m, code).length > 0 THEN Num(m, code) ELSE kept
        period == gather = SensorPeriod
        event == gather = SensorEvent
    IN  IF \/ \E code \in required : ~Has(m, code)
           \/ period /\ ~Has(m, FC.SENGETINTV)
           \/ event /\ ~(Has(m, FC.THRESHOLDTYPE) /\ Has(m, FC.THRESHOLD))
        THEN NoReqField
        ELSE [stat |-> "NOERROR",
              gsid |-> GetGid(Num(m, FC.SNID), Num(m, FC.SID)),
              sentype |-> Num(m, FC.SENTYPE), datatype |-> Num(m, FC.SENDATATYPE),
              gathertype |-> gather,
              gatherinterval |-> IF period THEN GetInterval(ReadField(m, FC.SENGETINTV).data)
                                 ELSE old.gatherinterval,
              maxval |-> or(FC.MAXVALUE, old.maxval), minval |-> or(FC.MINVALUE, old.minval),
              precision |-> or(FC.PRECISION, old.precision),
              errrange |-> or(FC.ERRRANGE, old.errrange),
              thresholdtype |-> IF event THEN Num(m, FC.THRESHOLDTYPE) ELSE old.thresholdtype,
              threshold |-> IF event THEN Num(m, FC.THRESHOLD) ELSE old.threshold]

(* The attributes of an actuator: the interval goes under the sensor's code,*)
(* and the reader looks for the actuator's.                                 *)
ActuatorPeriod == 0
ActuatorAttrs == [gaid : Int, acttype : Int, datatype : Int, gathertype : Int, gatherinterval : Int]

ActuatorAttr(a) ==
    Number(FC.ANID, GetNid(a.gaid)) \o Number(FC.AID, GetDevId(a.gaid))
    \o Number(FC.ACTTYPE, a.acttype) \o Number(FC.ACTDATATYPE, a.datatype)
    \o Number(FC.ACTGETTYPE, a.gathertype)
    \o If(a.gathertype = ActuatorPeriod, Interval(FC.SENGETINTV, a.gatherinterval))

ReadActuatorAttr(m, old) ==
    LET required == {FC.ANID, FC.AID, FC.ACTTYPE, FC.ACTDATATYPE, FC.ACTGETTYPE}
        period == Num(m, FC.ACTGETTYPE) = ActuatorPeriod
    IN  IF \/ \E code \in required : ~Has(m, code)
           \/ period /\ ~Has(m, FC.ACTGETINTV)
        THEN NoReqField
        ELSE [stat |-> "NOERROR",
              gaid |-> GetGid(Num(m, FC.ANID), Num(m, FC.AID)),
              acttype |-> Num(m, FC.ACTTYPE), datatype |-> Num(m, FC.ACTDATATYPE),
              gathertype |-> Num(m, FC.ACTGETTYPE),
              gatherinterval |-> IF period THEN GetInterval(ReadField(m, FC.ACTGETINTV).data)
                                 ELSE old.gatherinterval]

-----------------------------------------------------------------------------
(* The requests of a GOS, behind the header its tp3_setheader gives them:   *)
(* a history, what a GCG is (no field), what a node or a device is, how a   *)
(* device gathers, faults, control and queries.                             *)
HistoryRequest(reqtype, stime, etime) ==
    Number(FC.HISTREQTYPE, reqtype) \o Entry("time", FC.SDATETIME, stime)
    \o Entry("time", FC.EDATETIME, etime)

GcgRequest == <<>>
NodeRequest(code, nid) == Number(code, nid)
SensorRequest(snid, sid) == Number(FC.SNID, snid) \o Number(FC.SID, sid)
ActuatorRequest(anid, aid) == Number(FC.ANID, anid) \o Number(FC.AID, aid)

SensorUpdate(snid, sid, gathertype, interval, thrsdtype, value) ==
    SensorRequest(snid, sid) \o Number(FC.SENGETTYPE, gathertype)
    \o If(gathertype = SensorPeriod, Interval(FC.SENGETINTV, interval))
    \o If(gathertype = SensorEvent, Number(FC.THRESHOLDTYPE, thrsdtype)
                                    \o Number(FC.THRESHOLD, value))

ActuatorUpdate(anid, aid, gathertype, interval) ==
    ActuatorRequest(anid, aid) \o Number(FC.ACTGETTYPE, gathertype)
    \o If(gathertype = ActuatorPeriod, Interval(FC.ACTGETINTV, interval))

FaultRequest(faultmng) == Number(FC.FALUTMETHOD, faultmng)

Counted(number, ids, list) == Number(number, Len(list)) \o Entry("array", ids, list)

ActuatorControl(gaids, values) ==
    Counted(FC.NUMOFACTS, FC.ARROFGAID, gaids) \o Entry("array", FC.ARROFACTSVAL, values)

EnvQuery(gsids, gaids) ==
    Counted(FC.NUMOFSENS, FC.ARROFGSID, gsids) \o Counted(FC.NUMOFACTS, FC.ARROFGAID, gaids)

StatQuery(snids, gsids, anids, gaids) ==
    Counted(FC.NUMOFSN, FC.ARROFSNID, snids) \o Counted(FC.NUMOFSENS, FC.ARROFGSID, gsids)
    \o Counted(FC.NUMOFAN, FC.ARROFANID, anids) \o Counted(FC.NUMOFACTS, FC.ARROFGAID, gaids)

(* What a GCG sends beside its reports. *)
KeepAlive(p) == Entry("bytes", FC.IPV4ADDR, p.ipv4)

Response(rescode) == Entry("rescode", FC.RESCODE, <<rescode>>)
=============================================================================
