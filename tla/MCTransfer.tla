----------------------------- MODULE MCTransfer -----------------------------
(* Contents of every kind for the runs of Transfer. *)
EXTENDS Transfer

MCToday == <<50, 48, 49, 54, 48, 51, 48, 57, 49, 50, 51, 52, 53, 57>>
MCEpoch == <<1970, 1, 1, 0, 0, 0>>
MCHeaders ==
    { [msgtype |-> 1, transtype |-> 0, gcgid |-> 1, gosid |-> 5, msgseq |-> 100],
      [msgtype |-> 11, transtype |-> 2, gcgid |-> 16777215, gosid |-> 65536, msgseq |-> 1999997] }

Text(n) == [k \in 1..n |-> 64 + k]
MCProfile == [serial |-> Text(6), model |-> Text(5), ipv4 |-> <<192, 168, 0, 7>>,
        ipv6 |-> <<1, 2, 3, 4, 5, 255>>, installsite |-> 65535, mcutype |-> 2, ostype |-> 255,
        osver |-> 258, ramsize |-> 5, powertype |-> 6, swver |-> 7]

MCShortProfile == [MCProfile EXCEPT !.model = Text(3)]

Sensor(gather, interval, type, threshold) ==
    [gsid |-> 65539 * 256 + 255, sentype |-> 12, datatype |-> 1, gathertype |-> gather,
     gatherinterval |-> interval, maxval |-> 1024, minval |-> -40, precision |-> 1, errrange |-> 5,
     thresholdtype |-> type, threshold |-> threshold]
Sensors == {Sensor(2, i, 0, 0) : i \in {1, 10, 3599, 13405, 86400}} \cup {Sensor(3, 0, 1, 10), Sensor(1, 0, 0, 0)}

Actuator(gather, interval) ==
    [gaid |-> 257, acttype |-> 3, datatype |-> 0, gathertype |-> gather, gatherinterval |-> interval]
Actuators == {Actuator(0, 600), Actuator(1, 0), Actuator(2, 0)}

MCNow == <<2100, 2, 28, 0, 10, 9>>
At(y, d) == <<y, 12, d, 23, 59, 58>>
Lists == <<<<257, 66051>>, <<1, 0>>>>
One == <<<<258>>, <<521>>>>

Requests ==
    { GcgRequest, NodeRequest(FC.SNID, 65539), NodeRequest(FC.ANID, 2),
      HistoryRequest(2, At(2016, 9), At(1999, 31)), SensorRequest(7, 255), ActuatorRequest(65537, 1),
      SensorUpdate(7, 1, 2, 60, 0, 0), SensorUpdate(7, 1, 3, 0, 1, 100), ActuatorUpdate(9, 2, 0, 359999),
      ActuatorUpdate(9, 2, 1, 0), FaultRequest(2), ActuatorControl(Lists[1], <<65535, 0>>),
      ActuatorControl(One[1], One[2]), EnvQuery(Lists[1], <<>>), StatQuery(<<1, 2, 3>>, Lists[1], <<5>>, One[1]),
      EnvQuery(<<1, 2, 3, 4, 5>>, One[1]), KeepAlive(MCProfile), Response(16), Response(255) }

About(kind, about, entries) == [kind |-> kind, about |-> about, entries |-> entries]
Attributes ==
    {About("profile", MCProfile, Profile(MCProfile))} \cup {About("sensor", a, SensorAttr(a)) : a \in Sensors}
    \cup {About("actuator", a, ActuatorAttr(a)) : a \in Actuators}
MCTexts == {About("profile", MCShortProfile, Profile(MCShortProfile))}
MCLoads == Attributes \cup MCTexts \cup {About("request", NoBlock, r) : r \in Requests}

Device(gid, stat, env) == [gid |-> gid, stat |-> stat, env |-> env]
MCNodeDevs == { <<>>, <<Device(257, 0, 65535)>>, <<Device(513, 1, 2), Device(66051, 0, 0)>> }

Devices4(sn, an, sens, acts) == [SNODE |-> sn, ANODE |-> an, SENSOR |-> sens, ACTUATOR |-> acts]
MCShapes == { [rows |-> 2, numofdev |-> Devices4(1, 1, 2, 1)], [rows |-> 3, numofdev |-> Devices4(0, 0, 1, 1)] }
MCSamples == << [timestamp |-> At(2016, 9), gcgstat |-> 0], [timestamp |-> At(2016, 10), gcgstat |-> 2],
                [timestamp |-> <<1970, 1, 1, 0, 0, 1>>, gcgstat |-> 1] >>
MCDeviceIds == [SNODE |-> {[id |-> 101, val |-> 2]}, ANODE |-> {[id |-> 65794, val |-> 1]},
                SENSOR |-> {[id |-> 5, val |-> 1], [id |-> 25857, val |-> 255]},
                ACTUATOR |-> {[id |-> 16909060, val |-> 99]}]
=============================================================================
