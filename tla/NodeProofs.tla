----------------------------- MODULE NodeProofs -----------------------------
(***************************************************************************)
(* Proofs about the sessions of a node, for every set of attribute tables  *)
(* and every number of sessions.                                           *)
(*                                                                         *)
(* First, what each operator that starts a transfer does to a record, as a *)
(* relation between two records (UplinkBegins and the like): the proofs    *)
(* that follow use the relations only.  Then the invariant, Good, and that *)
(* a transfer which begins Between two leaves a Good record behind.  Then  *)
(* one lemma per action, and the theorems.  Last, why a session ends: what *)
(* each action leads to, that a callback is always due, and that no stage  *)
(* is entered twice.                                                       *)
(***************************************************************************)
EXTENDS Node, DiscoveryProofs

AttrSet == {"info", "downlink", "uplink", "server_cert", "device_cert"}

LEMMA AttrsAre == Attrs = AttrSet
<1> DOMAIN AttrOrder = 1 .. 5
  BY DEF AttrOrder
<1> QED
  BY DEF Attrs, AttrOrder, AttrSet

(* The connection is the same, or it was up and the session is finished.   *)
LinkStays(m, n) == m.link = n.link \/ (n.link = "up" /\ m.link = "closing")

(* What discovery and the info left behind; what synchronising did.        *)
Front(m, n) ==
  /\ m.disc = n.disc /\ m.value = n.value /\ m.ccc = n.ccc
  /\ m.info = n.info /\ m.sprov = n.sprov /\ m.dprov = n.dprov

Back(m, n) ==
  /\ m.uplink = n.uplink /\ m.receiver = n.receiver
  /\ m.downlink = n.downlink /\ m.sender = n.sender

(* pouch_gateway_bt_finished *)
Finished(m, n) ==
  /\ m \in Record /\ LinkStays(m, n) /\ m.link # "up"
  /\ Front(m, n) /\ Back(m, n) /\ m.sub = n.sub
  /\ m.server = n.server /\ m.device = n.device /\ m.next = n.next
  /\ m.packetizer = n.packetizer

LEMMA Finishing ==
  ASSUME NEW n \in Record
  PROVE  Finished(Finish(n), n)
BY DEF Finish, Finished, Record, LinkStays, Front, Back

LEMMA Subscribing ==
  ASSUME NEW n \in Record, NEW a \in Attrs, NEW m \in Subscribed(n, a)
  PROVE  /\ m \in Record /\ n.link = "up" /\ m.link = "up" /\ n.ccc[a] # 0
         /\ Front(m, n) /\ Back(m, n)
         /\ m.server = n.server /\ m.device = n.device /\ m.next = n.next
         /\ m.packetizer = n.packetizer
         /\ m.sub = [n.sub EXCEPT ![a] = "live"]
BY DEF Subscribed, Record, Front, Back

(* pouch_gateway_uplink_start                                              *)
UplinkBegins(m, n) ==
  /\ m \in Record /\ LinkStays(m, n) /\ Front(m, n)
  /\ m.server = n.server /\ m.device = n.device /\ m.next = n.next
  /\ \A a \in {"info", "server_cert", "device_cert"} : m.sub[a] = n.sub[a]
  /\ m.sub["uplink"] = n.sub["uplink"] \/ (n.link = "up" /\ m.sub["uplink"] = "live")
  /\ m.uplink \in {n.uplink, session}
  /\ \/ /\ m.downlink = n.downlink /\ m.sender = n.sender
        /\ m.packetizer = n.packetizer /\ m.sub["downlink"] = n.sub["downlink"]
     \/ /\ m.downlink = 0 /\ ~m.sender /\ m.packetizer = "none"
        /\ m.sub["downlink"] = n.sub["downlink"]
     \/ /\ m.downlink = session /\ m.packetizer = "downlink"
        /\ m.sub["downlink"] = "none"

LEMMA CleaningDownlink ==
  ASSUME NEW n \in Record
  PROVE  LET m == CleanDownlink(n)
         IN /\ m \in Record /\ m.link = n.link /\ Front(m, n)
            /\ m.server = n.server /\ m.device = n.device /\ m.next = n.next
            /\ m.sub = n.sub /\ m.uplink = n.uplink /\ m.receiver = n.receiver
            /\ m.downlink = 0 /\ ~m.sender /\ m.packetizer = "none"
BY DEF Record, CleanDownlink, Front

LEMMA OpeningDownlink ==
  ASSUME session \in Nat, NEW n \in Record
  PROVE  LET m == [n EXCEPT !.downlink = session, !.sender = TRUE,
                     !.packetizer = "downlink", !.sub["downlink"] = "none"]
         IN /\ m \in Record /\ m.link = n.link /\ Front(m, n)
            /\ m.server = n.server /\ m.device = n.device /\ m.next = n.next
            /\ m.sub = [n.sub EXCEPT !["downlink"] = "none"]
            /\ m.uplink = n.uplink /\ m.receiver = n.receiver
            /\ m.downlink = session /\ m.packetizer = "downlink"
BY DEF Record, Front

LEMMA OpeningUplink ==
  ASSUME session \in Nat, NEW d \in Record
  PROVE  LET u == [d EXCEPT !.uplink = session]
             r == [u EXCEPT !.receiver = TRUE]
         IN /\ u \in Record /\ u.link = d.link /\ Front(u, d)
            /\ u.server = d.server /\ u.device = d.device /\ u.next = d.next
            /\ u.sub = d.sub /\ u.uplink = session
            /\ u.downlink = d.downlink /\ u.packetizer = d.packetizer
            /\ r \in Record /\ r.link = d.link /\ Front(r, d)
            /\ r.server = d.server /\ r.device = d.device /\ r.next = d.next
            /\ r.sub = d.sub /\ r.uplink = session
            /\ r.downlink = d.downlink /\ r.packetizer = d.packetizer
BY DEF Record, Front

LEMMA UplinkStarting ==
  ASSUME session \in Nat, NEW n \in Record, NEW m \in UplinkStart(n)
  PROVE  UplinkBegins(m, n)
<1> DEFINE d == [n EXCEPT !.downlink = session, !.sender = TRUE,
                          !.packetizer = "downlink", !.sub["downlink"] = "none"]
           u == [d EXCEPT !.uplink = session]
           r == [u EXCEPT !.receiver = TRUE]
           c == CleanDownlink(n)
<1>1. c \in Record /\ UplinkBegins(c, n)
  BY CleaningDownlink DEF UplinkBegins, LinkStays
<1>2. /\ d \in Record /\ d.link = n.link /\ Front(d, n)
      /\ d.server = n.server /\ d.device = n.device /\ d.next = n.next
      /\ d.sub = [n.sub EXCEPT !["downlink"] = "none"]
      /\ d.uplink = n.uplink /\ d.receiver = n.receiver
      /\ d.downlink = session /\ d.packetizer = "downlink"
  BY OpeningDownlink
<1> HIDE DEF d
<1>3. /\ u \in Record /\ u.link = d.link /\ Front(u, d)
      /\ u.server = d.server /\ u.device = d.device /\ u.next = d.next
      /\ u.sub = d.sub /\ u.uplink = session
      /\ u.downlink = d.downlink /\ u.packetizer = d.packetizer
      /\ r \in Record /\ r.link = d.link /\ Front(r, d)
      /\ r.server = d.server /\ r.device = d.device /\ r.next = d.next
      /\ r.sub = d.sub /\ r.uplink = session
      /\ r.downlink = d.downlink /\ r.packetizer = d.packetizer
  BY <1>2, OpeningUplink
<1>4. \/ \E x \in {n, c, d, u, r} : m = Finish(x)
      \/ m = Finish(n)
      \/ m \in Subscribed(r, "uplink")
  BY DEF UplinkStart, d
<1> HIDE DEF u, r, c
<1>5. n.sub \in [Attrs -> {"none", "live", "stopping", "refused"}]
  BY DEF Record
<1>6. /\ UplinkBegins(n, n) /\ UplinkBegins(d, n)
      /\ UplinkBegins(u, n) /\ UplinkBegins(r, n)
  BY <1>2, <1>3, <1>5, AttrsAre DEF UplinkBegins, LinkStays, Front, AttrSet
<1>7. ASSUME NEW x \in Record, UplinkBegins(x, n), m = Finish(x)
      PROVE  UplinkBegins(m, n)
  BY <1>7, Finishing DEF UplinkBegins, Finished, LinkStays, Front, Back
<1>8. CASE m \in Subscribed(r, "uplink")
  <2>1. "uplink" \in Attrs
    BY AttrsAre DEF AttrSet
  <2>2. /\ m \in Record /\ r.link = "up" /\ m.link = "up"
        /\ Front(m, r) /\ Back(m, r)
        /\ m.server = r.server /\ m.device = r.device /\ m.next = r.next
        /\ m.packetizer = r.packetizer
        /\ m.sub = [r.sub EXCEPT !["uplink"] = "live"]
    BY <1>3, <1>8, <2>1, Subscribing
  <2>3. r.sub \in [Attrs -> {"none", "live", "stopping", "refused"}]
    BY <1>3 DEF Record
  <2> QED
    BY <1>2, <1>3, <1>5, <2>2, <2>3, AttrsAre
    DEF UplinkBegins, LinkStays, Front, Back, AttrSet
<1> QED
  BY <1>1, <1>2, <1>3, <1>4, <1>6, <1>7, <1>8

(* pouch_gateway_device_cert_read                                          *)
DeviceBegins(m, n) ==
  /\ m \in Record /\ LinkStays(m, n) /\ Front(m, n)
  /\ m.server = n.server /\ m.next = n.next
  /\ \A a \in {"info", "server_cert"} : m.sub[a] = n.sub[a]
  /\ \/ n.dprov /\ UplinkBegins(m, n)
     \/ /\ Back(m, n) /\ m.packetizer = n.packetizer /\ ~m.device
        /\ m.sub = n.sub
     \/ /\ Back(m, n) /\ m.packetizer = n.packetizer
        /\ n.link = "up" /\ m.sub = [n.sub EXCEPT !["device_cert"] = "live"]

LEMMA DeviceStarting ==
  ASSUME session \in Nat, NEW n \in Record, NEW m \in DeviceCertRead(n)
  PROVE  DeviceBegins(m, n)
<1>1. CASE n.dprov
  BY <1>1, UplinkStarting DEF DeviceCertRead, DeviceBegins, UplinkBegins
<1>2. CASE ~n.dprov
  <2> DEFINE c == CleanDevice(n)
             d == [n EXCEPT !.device = TRUE]
  <2>1. /\ c \in Record /\ c.link = n.link /\ Front(c, n) /\ Back(c, n)
        /\ c.server = n.server /\ ~c.device /\ c.next = n.next
        /\ c.packetizer = n.packetizer /\ c.sub = n.sub
    BY DEF CleanDevice, Record, Front, Back
  <2>2. /\ d \in Record /\ d.link = n.link /\ Front(d, n) /\ Back(d, n)
        /\ d.server = n.server /\ d.next = n.next
        /\ d.packetizer = n.packetizer /\ d.sub = n.sub
    BY DEF Record, Front, Back
  <2>3. m = Finish(c) \/ m \in Subscribed(d, "device_cert")
    BY <1>2 DEF DeviceCertRead
  <2> HIDE DEF c, d
  <2>4. CASE m = Finish(c)
    BY <2>1, <2>4, Finishing DEF DeviceBegins, Finished, LinkStays, Front, Back
  <2>5. CASE m \in Subscribed(d, "device_cert")
    <3>1. "device_cert" \in Attrs
      BY AttrsAre DEF AttrSet
    <3>2. /\ m \in Record /\ d.link = "up" /\ m.link = "up"
          /\ Front(m, d) /\ Back(m, d)
          /\ m.server = d.server /\ m.next = d.next
          /\ m.packetizer = d.packetizer
          /\ m.sub = [d.sub EXCEPT !["device_cert"] = "live"]
      BY <2>2, <2>5, <3>1, Subscribing
    <3>3. n.sub \in [Attrs -> {"none", "live", "stopping", "refused"}]
      BY DEF Record
    <3> QED
      BY <2>2, <3>2, <3>3, AttrsAre
      DEF DeviceBegins, LinkStays, Front, Back, AttrSet
  <2> QED
    BY <2>3, <2>4, <2>5
<1> QED
  BY <1>1, <1>2

(* pouch_gateway_server_cert_write                                         *)
ServerBegins(m, n) ==
  /\ m \in Record /\ LinkStays(m, n) /\ Front(m, n)
  /\ m.sub["info"] = n.sub["info"]
  /\ \/ n.sprov /\ DeviceBegins(m, n)
     \/ /\ Back(m, n) /\ m.device = n.device /\ m.next = n.next
        /\ ~m.server /\ m.packetizer = "none" /\ m.sub = n.sub
     \/ /\ Back(m, n) /\ m.device = n.device /\ m.next = "end"
        /\ m.packetizer = "server" /\ ~n.sprov
        /\ n.link = "up" /\ m.sub = [n.sub EXCEPT !["server_cert"] = "live"]

LEMMA ServerStarting ==
  ASSUME session \in Nat, NEW n \in Record, NEW m \in ServerCertWrite(n)
  PROVE  ServerBegins(m, n)
<1>1. CASE n.sprov
  BY <1>1, DeviceStarting DEF ServerCertWrite, ServerBegins, DeviceBegins
<1>2. CASE ~n.sprov
  <2> DEFINE c == CleanServer(n)
             d == [n EXCEPT !.server = TRUE, !.packetizer = "server",
                            !.next = "end"]
  <2>1. /\ c \in Record /\ c.link = n.link /\ Front(c, n) /\ Back(c, n)
        /\ ~c.server /\ c.device = n.device /\ c.next = n.next
        /\ c.packetizer = "none" /\ c.sub = n.sub
    BY DEF CleanServer, Record, Front, Back
  <2>2. /\ d \in Record /\ d.link = n.link /\ Front(d, n) /\ Back(d, n)
        /\ d.device = n.device /\ d.next = "end"
        /\ d.packetizer = "server" /\ d.sub = n.sub
    BY DEF Record, Front, Back
  <2>3. m = Finish(c) \/ m \in Subscribed(d, "server_cert")
    BY <1>2 DEF ServerCertWrite
  <2> HIDE DEF c, d
  <2>4. CASE m = Finish(c)
    BY <2>1, <2>4, Finishing DEF ServerBegins, Finished, LinkStays, Front, Back
  <2>5. CASE m \in Subscribed(d, "server_cert")
    <3>1. "server_cert" \in Attrs
      BY AttrsAre DEF AttrSet
    <3>2. /\ m \in Record /\ d.link = "up" /\ m.link = "up"
          /\ Front(m, d) /\ Back(m, d)
          /\ m.device = d.device /\ m.next = d.next
          /\ m.packetizer = d.packetizer
          /\ m.sub = [d.sub EXCEPT !["server_cert"] = "live"]
      BY <2>2, <2>5, <3>1, Subscribing
    <3>3. n.sub \in [Attrs -> {"none", "live", "stopping", "refused"}]
      BY DEF Record
    <3> QED
      BY <1>2, <2>2, <3>2, <3>3, AttrsAre
      DEF ServerBegins, LinkStays, Front, Back, AttrSet
  <2> QED
    BY <2>3, <2>4, <2>5
<1> QED
  BY <1>1, <1>2

(* gateway_info_read_start                                                 *)
InfoBegins(m, n) ==
  /\ m \in Record /\ LinkStays(m, n) /\ Back(m, n)
  /\ m.disc = n.disc /\ m.value = n.value /\ m.ccc = n.ccc
  /\ ~m.sprov /\ ~m.dprov
  /\ m.server = n.server /\ m.device = n.device /\ m.next = n.next
  /\ m.packetizer = n.packetizer
  /\ \/ m.info = n.info /\ m.sub = n.sub
     \/ n.link = "up" /\ m.sub = [n.sub EXCEPT !["info"] = "live"]

LEMMA InfoStarting ==
  ASSUME NEW n \in Record, NEW m \in InfoReadStart(n)
  PROVE  InfoBegins(m, n)
<1> DEFINE c == [n EXCEPT !.sprov = FALSE, !.dprov = FALSE]
           d == [c EXCEPT !.info = TRUE]
<1>1. /\ c \in Record /\ c.link = n.link /\ Back(c, n)
      /\ c.disc = n.disc /\ c.value = n.value /\ c.ccc = n.ccc
      /\ ~c.sprov /\ ~c.dprov
      /\ c.server = n.server /\ c.device = n.device /\ c.next = n.next
      /\ c.packetizer = n.packetizer /\ c.info = n.info /\ c.sub = n.sub
  BY DEF Record, Back
<1>2. /\ d \in Record /\ d.link = n.link /\ Back(d, n)
      /\ d.disc = n.disc /\ d.value = n.value /\ d.ccc = n.ccc
      /\ ~d.sprov /\ ~d.dprov
      /\ d.server = n.server /\ d.device = n.device /\ d.next = n.next
      /\ d.packetizer = n.packetizer /\ d.sub = n.sub
  BY DEF Record, Back
<1>3. m = Finish(c) \/ m \in Subscribed(d, "info")
  BY DEF InfoReadStart
<1> HIDE DEF c, d
<1>4. CASE m = Finish(c)
  BY <1>1, <1>4, Finishing DEF InfoBegins, Finished, LinkStays, Front, Back
<1>5. CASE m \in Subscribed(d, "info")
  <2>1. "info" \in Attrs
    BY AttrsAre DEF AttrSet
  <2>2. /\ m \in Record /\ d.link = "up" /\ m.link = "up"
        /\ Front(m, d) /\ Back(m, d)
        /\ m.server = d.server /\ m.device = d.device /\ m.next = d.next
        /\ m.packetizer = d.packetizer
        /\ m.sub = [d.sub EXCEPT !["info"] = "live"]
    BY <1>2, <1>5, <2>1, Subscribing
  <2> QED
    BY <1>2, <2>2 DEF InfoBegins, LinkStays, Front, Back
<1> QED
  BY <1>3, <1>4, <1>5

-----------------------------------------------------------------------------
(* The stages of a session that come before the uplink.                    *)
Reading(n) == n.sub["info"] = "live"
Sending(n) == Ends(n, "server_cert")
Taking(n)  == n.sub["device_cert"] = "live"
Early(n)   == n.disc # "none" \/ Reading(n) \/ Sending(n) \/ Taking(n)

(* There is one of them at a time, and no uplink yet, neither open nor     *)
(* closed.                                                                 *)
OneStage(n) ==
  /\ n.disc # "none" => n.ccc = Zeroes /\ \A a \in Attrs : ~Ends(n, a)
  /\ Reading(n) => ~Sending(n) /\ ~Taking(n)
  /\ Sending(n) => ~Taking(n)
  /\ Early(n) => /\ session \notin closed
                 /\ n.uplink = 0 /\ ~n.receiver /\ ~Ends(n, "uplink")

(* Only a stage that goes on has its context and sender or receiver.       *)
Holds(n) ==
  /\ n.info => Reading(n)
  /\ n.server => Sending(n)
  /\ n.device => Taking(n)

(* Neither the record nor the stage takes for settled what is not in h.    *)
Certified(n, h) ==
  /\ n.sprov => "server" \in h
  /\ n.dprov => "device" \in h
  /\ n.sub["server_cert"] = "live" => n.next = "end" /\ ~n.sprov
  /\ Sending(n) /\ n.next = "device_cert" => "server" \in h
  /\ Taking(n) => "server" \in h
  /\ n.sub["uplink"] = "live" /\ HasCertChars(n) =>
       "server" \in h /\ "device" \in h

(* The handles are those of the whole table of the node.                   *)
Located(n) ==
  /\ n.value = Values(table, Len(table.handles))
  /\ n.ccc = Cccs(table, n.value, Len(table.handles))

Found(n) ==
  /\ n.disc = "descr" /\ n.link = "up" =>
       n.value = Values(table, Len(table.handles))
  /\ n.disc = "none" /\ n.link = "up" => Located(n)
  /\ (\E a \in Attrs : n.sub[a] = "live") => Located(n)

(* The record points to the contexts of its own session; a downlink that   *)
(* was kicked has a subscription as long as it is there.                   *)
Current(n) ==
  /\ n.uplink \in {0, session} /\ n.downlink \in {0, session}
  /\ n.downlink \in kicked => Ends(n, "downlink")

(* Without late callbacks there is no downlink beside the earlier stages.  *)
Alone(n) ==
  /\ Early(n) => n.downlink = 0 /\ ~n.sender /\ ~Ends(n, "downlink")
  /\ n.server => n.packetizer = "server"
  /\ n.sender => n.packetizer = "downlink"

(* What holds of the record, h being settled.                              *)
Good(n, h) ==
  /\ n \in Record /\ OneStage(n) /\ Holds(n) /\ Certified(n, h) /\ Found(n)
  /\ Current(n) /\ (~Late => Alone(n))

(* A record whose connection is gone.                                      *)
Down(n) ==
  /\ n.disc = "none" /\ \A a \in Attrs : ~Ends(n, a)
  /\ n.uplink = 0 /\ ~n.receiver

(* A record in which one transfer has ended and the next has not begun.    *)
Between(n, h) ==
  /\ n \in Record /\ n.disc = "none"
  /\ ~n.info /\ ~n.server /\ ~n.device /\ n.uplink = 0 /\ ~n.receiver
  /\ ~Reading(n) /\ ~Sending(n) /\ ~Taking(n) /\ ~Ends(n, "uplink")
  /\ session \notin closed
  /\ n.sprov => "server" \in h
  /\ n.dprov => "device" \in h
  /\ Found(n) /\ n.downlink \in {0, session}
  /\ ~Late => n.downlink = 0 /\ ~n.sender /\ ~Ends(n, "downlink")

(* A downlink is kicked only when its uplink is closed.                    *)
States ==
  /\ session \in Nat /\ kicked \subseteq closed /\ closed \subseteq 1 .. session

LEMMA BetweenIsGood ==
  ASSUME States, NEW h, NEW n, Between(n, h)
  PROVE  Good(n, h)
<1>1. n.downlink \notin kicked
  BY DEF States, Between
<1> QED
  BY <1>1, AttrsAre
  DEF Between, Good, OneStage, Holds, Certified, Current, Alone, Early,
     Ends, AttrSet, Reading, Sending, Taking
LEMMA UplinkGood ==
  ASSUME States, NEW h, NEW n, Between(n, h), NEW m, UplinkBegins(m, n),
         HasCertChars(n) => "server" \in h /\ "device" \in h
  PROVE  Good(m, h)
<1> m \in Record
  BY DEF UplinkBegins
<1>1. m.downlink \notin kicked
  BY DEF States, Between, UplinkBegins
<1>2. OneStage(m) /\ Holds(m) /\ Current(m)
  BY <1>1, AttrsAre DEF UplinkBegins, Between, OneStage, Holds, Current, Early,
     Front, Ends, AttrSet, Reading, Sending, Taking
<1>3. Certified(m, h)
  BY
  DEF UplinkBegins, Between, Certified, Front, Ends, Reading, Sending, Taking,
     HasCertChars
<1>4. Found(m)
  <2>1. Located(m) <=> Located(n)
    BY DEF Located, UplinkBegins, Front
  <2> QED
    BY <2>1, AttrsAre
    DEF UplinkBegins, Between, Found, Front, LinkStays, AttrSet
<1>5. ~Late => Alone(m)
  BY DEF UplinkBegins, Between, Alone, Early, Front, Ends, Reading, Sending,
     Taking
<1> QED
  BY <1>2, <1>3, <1>4, <1>5 DEF Good

LEMMA DeviceGood ==
  ASSUME States, NEW h, NEW n, Between(n, h), NEW m, DeviceBegins(m, n), "server" \in h
  PROVE  Good(m, h)
<1>1. CASE n.dprov /\ UplinkBegins(m, n)
  BY <1>1, UplinkGood DEF Between
<1>2. CASE ~(n.dprov /\ UplinkBegins(m, n))
  <2> n.sub \in [Attrs -> {"none", "live", "stopping", "refused"}]
    BY DEF Between, Record
  <2>1. /\ m \in Record /\ LinkStays(m, n) /\ Front(m, n) /\ Back(m, n)
        /\ m.server = n.server /\ m.next = n.next
        /\ m.packetizer = n.packetizer
        /\ \/ ~m.device /\ m.sub = n.sub
           \/ n.link = "up" /\ m.sub = [n.sub EXCEPT !["device_cert"] = "live"]
    BY <1>2 DEF DeviceBegins
  <2>2. m.downlink \notin kicked
    BY <2>1 DEF States, Between, Back
  <2>3. OneStage(m) /\ Holds(m) /\ Current(m)
    BY <2>1, <2>2, AttrsAre DEF Between, OneStage, Holds, Current, Early,
       Front, Back, Ends, AttrSet, Reading, Sending, Taking
  <2>4. Certified(m, h)
    BY <2>1, AttrsAre DEF Between, Certified, Front, Ends, Reading, Sending,
       Taking, HasCertChars, AttrSet
  <2>5. Found(m)
    <3>1. Located(m) <=> Located(n)
      BY <2>1 DEF Located, Front
    <3> QED
      BY <2>1, <3>1, AttrsAre DEF Between, Found, Front, LinkStays, AttrSet
  <2>6. ~Late => Alone(m)
    BY <2>1, AttrsAre DEF Between, Alone, Early, Front, Back, Ends, AttrSet,
       Reading, Sending, Taking
  <2> QED
    BY <2>1, <2>3, <2>4, <2>5, <2>6 DEF Good
<1> QED
  BY <1>1, <1>2

LEMMA ServerGood ==
  ASSUME States, NEW h, NEW n, Between(n, h), NEW m, ServerBegins(m, n)
  PROVE  Good(m, h)
<1>1. CASE n.sprov /\ DeviceBegins(m, n)
  BY <1>1, DeviceGood DEF Between
<1>2. CASE ~(n.sprov /\ DeviceBegins(m, n))
  <2> n.sub \in [Attrs -> {"none", "live", "stopping", "refused"}]
    BY DEF Between, Record
  <2>1. /\ m \in Record /\ LinkStays(m, n) /\ Front(m, n) /\ Back(m, n)
        /\ m.device = n.device
        /\ \/ ~m.server /\ m.sub = n.sub /\ m.packetizer = "none"
           \/ /\ m.next = "end" /\ m.packetizer = "server" /\ ~n.sprov
              /\ n.link = "up" /\ m.sub = [n.sub EXCEPT !["server_cert"] = "live"]
    BY <1>2 DEF ServerBegins
  <2>2. m.downlink \notin kicked
    BY <2>1 DEF States, Between, Back
  <2>3. OneStage(m) /\ Holds(m) /\ Current(m)
    BY <2>1, <2>2, AttrsAre DEF Between, OneStage, Holds, Current, Early,
       Front, Back, Ends, AttrSet, Reading, Sending, Taking
  <2>4. Certified(m, h)
    BY <2>1, AttrsAre DEF Between, Certified, Front, Ends, Reading, Sending,
       Taking, HasCertChars, AttrSet
  <2>5. Found(m)
    <3>1. Located(m) <=> Located(n)
      BY <2>1 DEF Located, Front
    <3> QED
      BY <2>1, <3>1, AttrsAre DEF Between, Found, Front, LinkStays, AttrSet
  <2>6. ~Late => Alone(m)
    BY <2>1, AttrsAre DEF Between, Alone, Early, Front, Back, Ends, AttrSet,
       Reading, Sending, Taking
  <2> QED
    BY <2>1, <2>3, <2>4, <2>5, <2>6 DEF Good
<1> QED
  BY <1>1, <1>2

LEMMA InfoGood ==
  ASSUME States, NEW h, NEW n, Between(n, h), NEW m, InfoBegins(m, n)
  PROVE  Good(m, h)
<1> n.sub \in [Attrs -> {"none", "live", "stopping", "refused"}]
  BY DEF Between, Record
<1>1. m.downlink \notin kicked
  BY DEF States, Between, Back, InfoBegins
<1>2. OneStage(m) /\ Holds(m) /\ Current(m)
  BY <1>1, AttrsAre DEF InfoBegins, Between, OneStage, Holds, Current, Early,
     Back, Ends, AttrSet, Reading, Sending, Taking
<1>3. Certified(m, h)
  BY AttrsAre DEF InfoBegins, Between, Certified, Ends, Reading, Sending,
     Taking, HasCertChars, AttrSet
<1>4. Found(m)
  <2>1. Located(m) <=> Located(n)
    BY DEF Located, InfoBegins
  <2> QED
    BY <2>1, AttrsAre DEF InfoBegins, Between, Found, LinkStays, AttrSet
<1>5. ~Late => Alone(m)
  BY AttrsAre DEF InfoBegins, Between, Alone, Early, Back, Ends, AttrSet,
     Reading, Sending, Taking
<1> QED
  BY <1>2, <1>3, <1>4, <1>5 DEF Good, InfoBegins

-----------------------------------------------------------------------------
(* A transfer that begins before the subscription of the last one stops.   *)
Except(m, n) ==
  /\ m \in Record /\ m.link = n.link /\ Front(m, n) /\ Back(m, n)
  /\ m.server = n.server /\ m.device = n.device /\ m.next = n.next
  /\ m.packetizer = n.packetizer

LEMMA Stopping ==
  ASSUME NEW n \in Record, NEW a \in Attrs
  PROVE  /\ Except(Stop(n, a), n)
         /\ Stop(n, a).sub = [n.sub EXCEPT ![a] = "stopping"]
BY DEF Stop, Except, Record, Front, Back

LEMMA UplinkStops ==
  ASSUME NEW n \in Record, NEW m, UplinkBegins(m, n),
         NEW a \in {"info", "server_cert", "device_cert"}
  PROVE  UplinkBegins(Stop(m, a), Stop(n, a))
<1> DEFINE p == Stop(m, a)
           q == Stop(n, a)
<1>1. a \in Attrs /\ m \in Record
  BY AttrsAre DEF AttrSet, UplinkBegins
<1>2. /\ Except(p, m) /\ p.sub = [m.sub EXCEPT ![a] = "stopping"]
      /\ Except(q, n) /\ q.sub = [n.sub EXCEPT ![a] = "stopping"]
  BY <1>1, Stopping
<1>3. /\ m.sub \in [Attrs -> {"none", "live", "stopping", "refused"}]
      /\ n.sub \in [Attrs -> {"none", "live", "stopping", "refused"}]
  BY <1>1 DEF Record
<1> HIDE DEF p, q
<1>4. UplinkBegins(p, q)
  BY <1>2, <1>3, AttrsAre
  DEF UplinkBegins, Except, Front, Back, LinkStays, AttrSet
<1> QED
  BY <1>4 DEF p, q

LEMMA DeviceStops ==
  ASSUME NEW n \in Record, NEW m, DeviceBegins(m, n)
  PROVE  DeviceBegins(Stop(m, "info"), Stop(n, "info"))
<1> DEFINE p == Stop(m, "info")
           q == Stop(n, "info")
<1>1. "info" \in Attrs /\ m \in Record
  BY AttrsAre DEF AttrSet, DeviceBegins
<1>2. /\ Except(p, m) /\ p.sub = [m.sub EXCEPT !["info"] = "stopping"]
      /\ Except(q, n) /\ q.sub = [n.sub EXCEPT !["info"] = "stopping"]
  BY <1>1, Stopping
<1>3. /\ m.sub \in [Attrs -> {"none", "live", "stopping", "refused"}]
      /\ n.sub \in [Attrs -> {"none", "live", "stopping", "refused"}]
  BY <1>1 DEF Record
<1>4. UplinkBegins(m, n) => UplinkBegins(p, q)
  BY UplinkStops
<1> HIDE DEF p, q
<1>5. DeviceBegins(p, q)
  BY <1>2, <1>3, <1>4, AttrsAre
  DEF DeviceBegins, Except, Front, Back, LinkStays, AttrSet
<1> QED
  BY <1>5 DEF p, q

LEMMA ServerStops ==
  ASSUME NEW n \in Record, NEW m, ServerBegins(m, n)
  PROVE  ServerBegins(Stop(m, "info"), Stop(n, "info"))
<1> DEFINE p == Stop(m, "info")
           q == Stop(n, "info")
<1>1. "info" \in Attrs /\ m \in Record
  BY AttrsAre DEF AttrSet, ServerBegins
<1>2. /\ Except(p, m) /\ p.sub = [m.sub EXCEPT !["info"] = "stopping"]
      /\ Except(q, n) /\ q.sub = [n.sub EXCEPT !["info"] = "stopping"]
  BY <1>1, Stopping
<1>3. /\ m.sub \in [Attrs -> {"none", "live", "stopping", "refused"}]
      /\ n.sub \in [Attrs -> {"none", "live", "stopping", "refused"}]
  BY <1>1 DEF Record
<1>4. DeviceBegins(m, n) => DeviceBegins(p, q)
  BY DeviceStops
<1> HIDE DEF p, q
<1>5. ServerBegins(p, q)
  BY <1>2, <1>3, <1>4, AttrsAre
  DEF ServerBegins, Except, Front, Back, LinkStays, AttrSet
<1> QED
  BY <1>5 DEF p, q

-----------------------------------------------------------------------------
(* Nothing is subscribed to on a connection that is not up.                *)
Mute(m, n) == n.link # "up" => \A a \in Attrs : Ends(m, a) => Ends(n, a)

LEMMA UplinkMute ==
  ASSUME NEW n, NEW m, UplinkBegins(m, n)
  PROVE  Mute(m, n)
BY AttrsAre DEF UplinkBegins, Mute, Ends, AttrSet

LEMMA DeviceMute ==
  ASSUME NEW n, NEW m, DeviceBegins(m, n)
  PROVE  Mute(m, n)
BY UplinkMute DEF DeviceBegins, Mute, Ends

LEMMA ServerMute ==
  ASSUME NEW n, NEW m, ServerBegins(m, n)
  PROVE  Mute(m, n)
BY DeviceMute DEF ServerBegins, Mute, Ends

LEMMA InfoMute ==
  ASSUME NEW n, NEW m, InfoBegins(m, n)
  PROVE  Mute(m, n)
BY DEF InfoBegins, Mute, Ends

(***************************************************************************)
(* The end of the server certificate's subscription.                       *)
(***************************************************************************)
LEMMA ServerEnds ==
  ASSUME States, NEW h, NEW n, Good(n, h), Sending(n),
         NEW m \in SubEnds(n, "server_cert")
  PROVE  /\ Good(m, h) /\ LinkStays(m, n) /\ Mute(m, n)
         /\ m.disc = "none" /\ (n.link # "up" => ~Sending(m))
<1> DEFINE c == CleanServer([n EXCEPT !.sub["server_cert"] = "none"])
<1>1. /\ c \in Record /\ c.link = n.link /\ Front(c, n) /\ Back(c, n)
      /\ ~c.server /\ c.device = n.device /\ c.next = n.next
      /\ c.packetizer = "none"
      /\ c.sub = [n.sub EXCEPT !["server_cert"] = "none"]
  BY DEF CleanServer, Record, Front, Back, Good
<1>2. PICK e \in CASE n.next = "device_cert" -> DeviceCertRead(c)
                    [] n.next = "server_cert" -> ServerCertWrite(c)
                    [] n.next = "end"         -> {Finish(c)} :
        m = [e EXCEPT !.next = "end"]
  <2>1. [n EXCEPT !.sub["server_cert"] = "none"].next = n.next
    BY DEF Good, Record
  <2> QED
    BY <2>1 DEF SubEnds, ServerCertEnds
<1> HIDE DEF c
<1>3. n.sub \in [Attrs -> {"none", "live", "stopping", "refused"}]
      /\ n.next \in {"device_cert", "server_cert", "end"}
  BY DEF Good, Record
<1>4. Between(c, h)
  <2>1. Found(c)
    BY <1>1, <1>3, AttrsAre DEF Good, Found, Front, Located, AttrSet
  <2> QED
    BY <1>1, <1>3, <2>1, AttrsAre
    DEF Good, Between, OneStage, Holds, Certified,
       Current, Alone, Front, Back, Ends, Reading, Sending, Taking, Early, AttrSet
<1>5. Mute(c, n) /\ ~Sending(c) /\ c.disc = "none"
  BY <1>1, <1>3, <1>4, AttrsAre DEF Mute, Ends, Sending, AttrSet, Between
<1>6. Good(e, h) /\ LinkStays(e, c) /\ Mute(e, c) /\ e.disc = "none"
  <2>1. CASE n.next = "device_cert"
    <3>1. DeviceBegins(e, c)
      BY <1>1, <1>2, <2>1, DeviceStarting DEF States
    <3>2. "server" \in h
      BY <2>1 DEF Good, Certified
    <3> QED
      BY <1>4, <1>5, <3>1, <3>2, DeviceGood, DeviceMute DEF DeviceBegins, Front
  <2>2. CASE n.next = "server_cert"
    <3>1. ServerBegins(e, c)
      BY <1>1, <1>2, <2>2, ServerStarting DEF States
    <3> QED
      BY <1>4, <1>5, <3>1, ServerGood, ServerMute DEF ServerBegins, Front
  <2>3. CASE n.next = "end"
    <3>1. Finished(e, c)
      BY <1>1, <1>2, <2>3, Finishing
    <3>2. Between(e, h)
      BY <1>4, <3>1 DEF Between, Finished, LinkStays, Front, Back, Reading,
         Sending, Taking, Ends, Found, Located
    <3> QED
      BY <1>5, <3>1, <3>2, BetweenIsGood
      DEF Finished, LinkStays, Front, Mute, Ends
  <2> QED
    BY <1>3, <2>1, <2>2, <2>3
<1>7. /\ m \in Record /\ m.link = e.link /\ Front(m, e) /\ Back(m, e)
      /\ m.server = e.server /\ m.device = e.device /\ m.next = "end"
      /\ m.packetizer = e.packetizer /\ m.sub = e.sub
  BY <1>2, <1>6 DEF Good, Record, Front, Back
<1>8. Good(m, h)
  BY <1>6, <1>7 DEF Good, OneStage, Holds, Certified, Found, Located, Current,
     Alone, Front, Back, Ends, Reading, Sending, Taking, Early, HasCertChars
<1>9. /\ LinkStays(m, n) /\ m.disc = "none" /\ Mute(m, n)
      /\ (n.link # "up" => ~Sending(m))
  BY <1>1, <1>5, <1>6, <1>7, AttrsAre
  DEF LinkStays, Front, Mute, Ends, Sending, AttrSet
<1> QED
  BY <1>8, <1>9

-----------------------------------------------------------------------------
(* The inductive invariant.                                                *)
IInv ==
  /\ TypeOK /\ Good(node, Settled) /\ kicked \subseteq closed
  /\ node.link = "down" => Down(node)
  /\ node.link # "down" => session >= 1

(* The types of what is known of the certificates.                         *)
Kinds ==
  /\ issued \in BOOLEAN /\ has \subseteq {"server", "another", "device"}
  /\ bare \in BOOLEAN

LEMMA InvKinds == IInv => Kinds
BY DEF IInv, TypeOK, Kinds

LEMMA KindsStay ==
  ASSUME Kinds, UNCHANGED <<issued, has, bare>>
  PROVE  Kinds' /\ Settled' = Settled
BY DEF Kinds, Settled

LEMMA InvStates == IInv => States /\ table \in Table /\ node \in Record
BY NodeAssumption DEF IInv, TypeOK, States

(* What is left to show of a step that Track follows.                      *)
LEMMA TrackTyped ==
  ASSUME IInv, session >= 1, UNCHANGED <<session, table>>, Track,
         kicked' \subseteq closed', refused' \in BOOLEAN,
         Kinds', node' \in Record,
         node'.uplink \in {0, session}, node'.downlink \in {0, session}
  PROVE  TypeOK' /\ closed' \subseteq 1 .. session /\ session \in Nat
<1>1. session' = session /\ table' = table /\ session \in Nat /\ session >= 1
  BY DEF IInv, TypeOK
<1> DEFINE u == node'.uplink
           d == node'.downlink
           w == node.uplink
           S == 1 .. session
<1>2. (u = 0 \/ u \in S) /\ (d = 0 \/ d \in S) /\ (w = 0 \/ w \in S)
  <2>1. session \in S
    BY <1>1
  <2>2. w \in uplinks \cup {0} /\ uplinks \subseteq S
    BY Zenon DEF IInv, TypeOK
  <2> HIDE DEF S
  <2> QED
    BY <2>1, <2>2
<1>3. /\ uplinks' = (uplinks \cup {u}) \ {0}
      /\ downlinks' = (IF d = 0 THEN downlinks \ {node.downlink}
                       ELSE downlinks \cup {d})
      /\ closed' = closed \cup (IF u = 0 THEN {w} \ {0} ELSE {})
  BY DEF Track
<1>4. uplinks \subseteq S /\ downlinks \subseteq S /\ closed \subseteq S
  BY DEF IInv, TypeOK
<1>5. /\ uplinks' \subseteq S /\ downlinks' \subseteq S /\ closed' \subseteq S
      /\ u \in uplinks' \cup {0} /\ d \in downlinks' \cup {0}
  <2> HIDE DEF u, d, w, S
  <2> QED
    BY <1>2, <1>3, <1>4
<1>6. kicked' \subseteq S
  BY <1>5
<1>7. session' \in 0 .. MaxSessions /\ table' \in Tables
  BY <1>1 DEF IInv, TypeOK
<1>8. S' = S
  BY <1>1, Zenon
<1>9. TypeOK'
  <2> HIDE DEF u, d, w, S
  <2>1. /\ uplinks' \subseteq S' /\ downlinks' \subseteq S' /\ closed' \subseteq S'
        /\ kicked' \subseteq S'
    BY <1>5, <1>6, <1>8, Zenon
  <2> QED
    BY <1>5, <1>7, <2>1, Zenon DEF TypeOK, Kinds, u, d, S
<1> QED
  BY <1>1, <1>5, <1>9

(* ... when no uplink is closed early and none is kicked.                  *)
LEMMA Tracked ==
  ASSUME IInv, node.link # "down", UNCHANGED <<session, table>>, Track,
         kicked' = kicked, refused' \in BOOLEAN,
         Kinds',
         node.uplink = 0 \/ node'.uplink # 0 \/ ~Early(node'),
         Good(node', Settled'), node'.link = "down" => Down(node')
  PROVE  IInv'
<1>1. /\ session' = session /\ table' = table /\ session \in Nat /\ session >= 1
  BY DEF IInv, TypeOK
<1>2. kicked \subseteq closed /\ closed \subseteq closed'
  BY DEF Track, IInv
<1>3. Early(node') => closed' = closed
  BY DEF Track
<1>4. TypeOK'
  <2> node' \in Record /\ node'.uplink \in {0, session}
      /\ node'.downlink \in {0, session}
    BY DEF Good, Current
  <2> QED
    BY <1>1, <1>2, TrackTyped
<1>5. OneStage(node)'
  <2> OneStage(node')
    BY DEF Good
  <2> QED
    BY <1>1, <1>3 DEF OneStage, Early, Reading, Sending, Taking, Ends
<1>6. Good(node, Settled)'
  BY <1>1, <1>5 DEF Good, Holds, Certified, Found, Located, Current,
     Alone, Early, Reading, Sending, Taking, Ends, HasCertChars
<1>7. /\ (kicked \subseteq closed)'
      /\ (node.link = "down" => Down(node))' /\ (node.link # "down" => session >= 1)'
  BY <1>1, <1>2 DEF Down, Ends
<1> QED
  BY <1>4, <1>6, <1>7 DEF IInv

LEMMA InitInv == Init => IInv
<1> SUFFICES ASSUME Init PROVE IInv
  OBVIOUS
<1> USE DEF Init
<1>1. node \in Record
  BY AttrsAre DEF Cleared, Record, Zeroes
<1>2. /\ node.link = "down" /\ node.disc = "none"
      /\ ~node.info /\ ~node.server /\ ~node.device
      /\ node.uplink = 0 /\ ~node.receiver /\ ~node.sprov /\ ~node.dprov
      /\ node.downlink = 0 /\ ~node.sender
      /\ node.sub = [a \in Attrs |-> "none"]
  BY DEF Cleared
<1>3. TypeOK
  <2>1. 0 \in 0 .. MaxSessions
    BY NodeAssumption
  <2>2. {} \subseteq 1 .. session
    OBVIOUS
  <2> QED
    BY <1>1, <1>2, <2>1, <2>2, Zenon DEF TypeOK
<1>4. Good(node, Settled)
  BY <1>1, <1>2, AttrsAre DEF Good, OneStage, Holds, Certified, Found,
     Current, Alone, Early, Reading, Sending, Taking, Ends, AttrSet
<1>5. Down(node)
  BY <1>2 DEF Down, Ends
<1> QED
  BY <1>2, <1>3, <1>4, <1>5 DEF IInv

-----------------------------------------------------------------------------
(* Discovery.                                                              *)
Looks(m, n) ==
  /\ m \in Record /\ LinkStays(m, n) /\ Back(m, n)
  /\ m.value = n.value /\ m.ccc = n.ccc /\ m.sub = n.sub
  /\ m.info = n.info /\ m.sprov = n.sprov /\ m.dprov = n.dprov
  /\ m.server = n.server /\ m.device = n.device /\ m.next = n.next
  /\ m.packetizer = n.packetizer

LEMMA Discovering ==
  ASSUME NEW n \in Record, NEW phase \in {"svc16", "svc128", "chars", "descr"},
         NEW m \in Discover(n, phase)
  PROVE  /\ Looks(m, n)
         /\ \/ m.disc = "none" /\ m.link # "up"
            \/ m.disc = phase /\ n.link = "up" /\ m.link = "up"
<1> DEFINE c == [n EXCEPT !.disc = "none"]
<1>1. c \in Record /\ Looks(c, n) /\ c.disc = "none" /\ c.link = n.link
  BY DEF Record, Looks, LinkStays, Back
<1>2. m = Finish(c) \/ (n.link = "up" /\ m = [n EXCEPT !.disc = phase])
  BY DEF Discover
<1> HIDE DEF c
<1>3. CASE m = Finish(c)
  BY <1>1, <1>3, Finishing DEF Finished, Looks, LinkStays, Front, Back
<1>4. CASE n.link = "up" /\ m = [n EXCEPT !.disc = phase]
  BY <1>4 DEF Record, Looks, LinkStays, Back
<1> QED
  BY <1>2, <1>3, <1>4

LEMMA NoServices ==
  ASSUME NEW n \in Record, NEW m \in NoService(n)
  PROVE  /\ Looks(m, n)
         /\ \/ m.disc = "none" /\ m.link # "up"
            \/ m.disc = "svc128" /\ n.link = "up" /\ m.link = "up"
<1>1. m \in Discover(n, "svc128") \/ m = Finish([n EXCEPT !.disc = "none"])
  BY DEF NoService
<1>2. Finish([n EXCEPT !.disc = "none"]) \in Discover(n, "svc128")
  BY DEF Discover
<1> QED
  BY <1>1, <1>2, Discovering

(* While a discovery goes on, there is nothing else in the record.         *)
LEMMA LookGood ==
  ASSUME NEW h, NEW n, Good(n, h), n.disc # "none", NEW m, Looks(m, n),
         \/ m.disc = "none" /\ m.link # "up"
         \/ m.disc \in {"svc16", "svc128", "chars"}
  PROVE  Good(m, h)
<1>1. \A a \in Attrs : m.sub[a] # "live"
  BY DEF Good, OneStage, Ends, Looks
<1> QED
  BY <1>1, AttrsAre
  DEF Good, OneStage, Holds, Certified, Found, Current, Alone,
     Early, Reading, Sending, Taking, Ends, Looks, Back, AttrSet

(* Also when the values are there.                                         *)
LEMMA CharsGood ==
  ASSUME States, table \in Table, NEW h, NEW n, Good(n, h), n.disc # "none",
         NEW k \in 0 .. Len(table.handles), NEW m \in CharsDone(n, k),
         k = Len(table.handles) \/ n.link # "up"
  PROVE  /\ Good(m, h) /\ LinkStays(m, n) /\ Mute(m, n)
         /\ m.disc \in {"none", "descr"} /\ (n.link # "up" => m.disc = "none")
<1> DEFINE v == [n EXCEPT !.value = Values(table, k)]
<1>1. n \in Record /\ Values(table, k) \in [Attrs -> Nat]
  BY ValuesTyped DEF Good
<1>2. /\ v \in Record /\ v.link = n.link /\ Back(v, n) /\ v.disc = n.disc
      /\ v.value = Values(table, k) /\ v.ccc = n.ccc /\ v.sub = n.sub
      /\ v.info = n.info /\ v.sprov = n.sprov /\ v.dprov = n.dprov
      /\ v.server = n.server /\ v.device = n.device /\ v.next = n.next
      /\ v.packetizer = n.packetizer
  BY <1>1 DEF Record, Back
<1>3. m \in Discover(v, "descr")
  BY DEF CharsDone, Discover
<1> HIDE DEF v
<1>4. /\ Looks(m, v)
      /\ \/ m.disc = "none" /\ m.link # "up"
         \/ m.disc = "descr" /\ v.link = "up" /\ m.link = "up"
  BY <1>2, <1>3, Discovering
<1>5. \A a \in Attrs : m.sub[a] # "live" /\ ~Ends(m, a)
  BY <1>2, <1>4 DEF Good, OneStage, Ends, Looks
<1>6. Found(m)
  BY <1>2, <1>4, <1>5 DEF Found, Looks
<1>7. Good(m, h)
  BY <1>2, <1>4, <1>5, <1>6, AttrsAre DEF Good, OneStage, Holds, Certified,
     Current, Alone, Early, Reading, Sending, Taking, Ends, Looks, Back, AttrSet
<1> QED
  BY <1>2, <1>4, <1>5, <1>7 DEF Looks, LinkStays, Mute

(* And when the first transfer begins.                                     *)
LEMMA DescrGood ==
  ASSUME States, table \in Table, NEW h, NEW n, Good(n, h), n.disc = "descr",
         NEW k \in 0 .. Len(table.handles), NEW m \in DescrDone(n, k),
         k = Len(table.handles) \/ n.link # "up"
  PROVE  /\ Good(m, h) /\ LinkStays(m, n) /\ Mute(m, n) /\ m.disc = "none"
<1> DEFINE v == [n EXCEPT !.ccc = Cccs(table, n.value, k), !.disc = "none"]
<1>1. n \in Record /\ Cccs(table, n.value, k) \in [Attrs -> Nat]
  <2> n \in Record /\ n.value \in [Attrs -> Nat]
    BY DEF Good, Record
  <2> QED
    BY CccsTyped
<1>2. /\ v \in Record /\ v.link = n.link /\ Back(v, n) /\ v.disc = "none"
      /\ v.value = n.value /\ v.ccc = Cccs(table, n.value, k) /\ v.sub = n.sub
      /\ v.info = n.info /\ v.sprov = n.sprov /\ v.dprov = n.dprov
      /\ v.server = n.server /\ v.device = n.device /\ v.next = n.next
      /\ v.packetizer = n.packetizer
  BY <1>1 DEF Record, Back
<1>3. m \in IF HasCertChars(v) THEN InfoReadStart(v) ELSE UplinkStart(v)
  BY DEF DescrDone
<1> HIDE DEF v
<1>4. \A a \in Attrs : v.sub[a] # "live" /\ ~Ends(v, a)
  BY <1>2 DEF Good, OneStage, Ends
<1>5. Found(v)
  BY <1>2, <1>4 DEF Good, Found, Located
<1>6. Between(v, h)
  BY <1>2, <1>4, <1>5, AttrsAre DEF Good, Between, OneStage, Holds, Certified,
     Current, Alone, Early, Reading, Sending, Taking, Ends, Back, AttrSet
<1>7. /\ Good(m, h) /\ LinkStays(m, v) /\ Mute(m, v) /\ m.disc = "none"
  <2>1. CASE HasCertChars(v)
    <3> InfoBegins(m, v)
      BY <1>2, <1>3, <2>1, InfoStarting
    <3> QED
      BY <1>2, <1>6, InfoGood, InfoMute DEF InfoBegins
  <2>2. CASE ~HasCertChars(v)
    <3> UplinkBegins(m, v)
      BY <1>2, <1>3, <2>2, UplinkStarting DEF States
    <3> QED
      BY <1>2, <1>6, <2>2, UplinkGood, UplinkMute DEF UplinkBegins, Front
  <2> QED
    BY <2>1, <2>2
<1> QED
  BY <1>2, <1>7 DEF LinkStays, Mute, Ends

-----------------------------------------------------------------------------
(* The actions.                                                            *)

LEMMA StartInv == IInv /\ Start => IInv'
<1> SUFFICES ASSUME IInv, Start PROVE IInv'
  OBVIOUS
<1>1. /\ session \in Nat /\ session' = session + 1 /\ session < MaxSessions
      /\ table' \in Tables
      /\ refused' = FALSE /\ kicked' = kicked /\ closed' = closed
      /\ uplinks' = uplinks /\ downlinks' = downlinks
  BY DEF Start, contexts, IInv, TypeOK
<1>0. Kinds'
  <2>1. has' \subseteq {"server", "another", "device"} /\ bare' = FALSE
        /\ issued' = issued
    BY DEF Start, Having
  <2> QED
    BY <2>1, InvKinds DEF Kinds
<1> DEFINE c == Cleared("up")
<1>2. /\ c \in Record /\ c.link = "up" /\ c.ccc = Zeroes
      /\ ~c.info /\ ~c.server /\ ~c.device
      /\ c.uplink = 0 /\ ~c.receiver /\ ~c.sprov /\ ~c.dprov
      /\ c.downlink = 0 /\ ~c.sender
      /\ c.sub = [a \in Attrs |-> "none"]
  BY DEF Cleared, Record, Zeroes
<1>3. node' \in Discover(c, "svc16")
  BY DEF Start
<1> HIDE DEF c
<1>4. /\ Looks(node', c)
      /\ \/ node'.disc = "none" /\ node'.link # "up"
         \/ node'.disc = "svc16" /\ node'.link = "up"
  BY <1>2, <1>3, Discovering
<1>5. \A a \in Attrs : node'.sub[a] # "live" /\ ~Ends(node', a)
  BY <1>2, <1>4 DEF Looks, Ends
<1>6. /\ closed \subseteq 1 .. session /\ kicked \subseteq closed
      /\ uplinks \subseteq 1 .. session /\ downlinks \subseteq 1 .. session
  BY DEF IInv, TypeOK
<1>7. session + 1 \notin closed /\ 0 \notin kicked /\ 1 .. session \subseteq 1 .. session + 1
  BY <1>1, <1>6
<1>8. TypeOK'
  <2> session + 1 \in 0 .. MaxSessions
    BY <1>1, NodeAssumption
  <2> closed \subseteq 1 .. session + 1 /\ kicked \subseteq 1 .. session + 1
      /\ uplinks \subseteq 1 .. session + 1 /\ downlinks \subseteq 1 .. session + 1
    BY <1>6, <1>7
  <2> node' \in Record /\ node'.uplink = 0 /\ node'.downlink = 0
    BY <1>2, <1>4 DEF Looks, Back
  <2> QED
    BY <1>0, <1>1 DEF TypeOK, Kinds
<1>9. (OneStage(node) /\ Holds(node) /\ Current(node) /\ Alone(node))'
  BY <1>1, <1>2, <1>4, <1>5, <1>7, AttrsAre
  DEF OneStage, Holds, Current, Alone,
     Early, Reading, Sending, Taking, Ends, Looks, Back, AttrSet
<1>10. (Certified(node, Settled) /\ Found(node))'
  BY <1>2, <1>4, <1>5, AttrsAre
  DEF Certified, Found, Sending, Taking, Looks, AttrSet
<1> QED
  BY <1>1, <1>2, <1>4, <1>6, <1>8, <1>9, <1>10 DEF IInv, Good, Looks, LinkStays

LEMMA DiscoverInv == IInv /\ DiscoverStep => IInv'
<1> SUFFICES ASSUME IInv, DiscoverStep PROVE IInv'
  OBVIOUS
<1>1. /\ Callback /\ Track /\ node.disc # "none" /\ kicked' = kicked
      /\ refused' \in BOOLEAN /\ UNCHANGED <<issued, has, bare>>
  BY DEF DiscoverStep, Callback, history, IInv, TypeOK
<1>0. Settled' = Settled /\ Kinds'
  BY <1>1, InvKinds, KindsStay
<1>2. node.uplink = 0 /\ node.link # "down"
  BY <1>1 DEF IInv, Good, OneStage, Early, Callback
<1>3. States /\ table \in Table /\ node \in Record /\ Good(node, Settled)
  BY InvStates DEF IInv
<1>4. Len(table.handles) \in 0 .. Len(table.handles)
  BY <1>3 DEF Table
<1>5. Good(node', Settled) /\ node'.link # "down"
  <2>1. CASE node.disc = "chars"
    <3> node' \in CharsDone(node, Len(table.handles))
      BY <2>1 DEF DiscoverStep
    <3> QED
      BY <1>1, <1>2, <1>3, <1>4, CharsGood DEF LinkStays
  <2>2. CASE node.disc = "descr"
    <3> node' \in DescrDone(node, Len(table.handles))
      BY <2>2 DEF DiscoverStep
    <3> QED
      BY <1>2, <1>3, <1>4, <2>2, DescrGood DEF LinkStays
  <2>3. CASE node.disc \notin {"chars", "descr"}
    <3>1. node' \in Discover(node, "chars") \/ node' \in NoService(node)
      BY <2>3 DEF DiscoverStep
    <3>2. /\ Looks(node', node)
          /\ \/ node'.disc = "none" /\ node'.link # "up"
             \/ node'.disc \in {"svc128", "chars"}
      BY <1>3, <3>1, Discovering, NoServices
    <3>3. Good(node', Settled)
      BY <1>1, <1>3, <3>2, LookGood
    <3> QED
      BY <1>2, <3>2, <3>3 DEF Looks, LinkStays
  <2> QED
    BY <2>1, <2>2, <2>3
<1> QED
  BY <1>0, <1>1, <1>2, <1>5, Tracked DEF Callback

-----------------------------------------------------------------------------
(* A record in which less goes on.                                         *)
Less(m, n) ==
  /\ m \in Record /\ (m.link = n.link \/ m.link # "up")
  /\ m.disc = n.disc /\ m.value = n.value /\ m.ccc = n.ccc
  /\ m.sprov = n.sprov /\ m.dprov = n.dprov /\ m.next = n.next
  /\ \A a \in Attrs : /\ m.sub[a] = "live" => n.sub[a] = "live"
                      /\ Ends(m, a) => Ends(n, a)
  /\ Holds(m) /\ (m.server => n.server)
  /\ m.uplink \in {n.uplink, 0} /\ (m.receiver => n.receiver)
  /\ (m.sender => n.sender)
  /\ \/ m.downlink = 0
     \/ m.downlink = n.downlink /\ (Ends(n, "downlink") => Ends(m, "downlink"))
  /\ \/ m.packetizer = n.packetizer
     \/ ~m.sender /\ Ends(n, "downlink")

LEMMA LessGood ==
  ASSUME States, NEW h, NEW n, Good(n, h), NEW m, Less(m, n)
  PROVE  Good(m, h) /\ (Early(m) => Early(n))
<1>1. \A a \in AttrSet : (m.sub[a] = "live" => n.sub[a] = "live")
                           /\ (Ends(m, a) => Ends(n, a))
  BY AttrsAre DEF Less
<1>2. Early(m) => Early(n)
  <2>1. /\ Reading(m) => Reading(n)
        /\ Sending(m) => Sending(n)
        /\ Taking(m) => Taking(n)
    BY <1>1 DEF Reading, Sending, Taking, AttrSet
  <2> QED
    BY <2>1 DEF Early, Less
<1>3. OneStage(m)
  BY <1>1, <1>2, AttrsAre
  DEF Less, Good, OneStage, Reading, Sending, Taking, AttrSet
<1>4. Certified(m, h)
  <2>1. /\ m.sub["server_cert"] = "live" => n.sub["server_cert"] = "live"
        /\ m.sub["uplink"] = "live" => n.sub["uplink"] = "live"
        /\ Sending(m) => Sending(n)
        /\ Taking(m) => Taking(n)
    BY <1>1 DEF Sending, Taking, AttrSet
  <2>2. HasCertChars(m) <=> HasCertChars(n)
    BY DEF Less, HasCertChars
  <2> QED
    BY <2>1, <2>2 DEF Less, Good, Certified
<1>5. Found(m)
  BY <1>1, AttrsAre DEF Less, Good, Found, Located, AttrSet
<1>6. Current(m)
  BY DEF States, Less, Good, Current
<1>7. ~Late => Alone(m)
  <2>1. Ends(m, "downlink") => Ends(n, "downlink")
    BY <1>1 DEF AttrSet
  <2>2. n.server => Early(n)
    BY DEF Good, Holds, Early
  <2> QED
    BY <1>2, <2>1, <2>2 DEF Less, Good, Alone
<1> QED
  BY <1>2, <1>3, <1>4, <1>5, <1>6, <1>7 DEF Good, Less

(* The ends of the subscriptions after which nothing begins.               *)
LEMMA SubEndsLess ==
  ASSUME NEW n \in Record, Holds(n), NEW a \in Attrs \ {"server_cert"},
         Ends(n, a), NEW m \in SubEnds(n, a)
  PROVE  Less(m, n) /\ LinkStays(m, n)
<1> DEFINE c == [n EXCEPT !.sub[a] = "none"]
<1>1. /\ Except(c, n) /\ c.sub = [n.sub EXCEPT ![a] = "none"]
  BY DEF Except, Record, Front, Back
<1>2. n.sub \in [Attrs -> {"none", "live", "stopping", "refused"}]
  BY DEF Record
<1>3. m \in CASE a = "info"        -> {CleanInfo(c)}
             [] a = "server_cert" -> ServerCertEnds(c)
             [] a = "device_cert" -> {CleanDevice(c)}
             [] a = "uplink"      -> {[c EXCEPT !.receiver = FALSE]}
             [] a = "downlink"    -> {DownlinkEnds(c)}
  BY DEF SubEnds
<1> HIDE DEF c
<1>4. CASE a = "info"
  <2>1. m = CleanInfo(c)
    BY <1>3, <1>4
  <2>2. /\ m \in Record /\ m.link = c.link /\ Back(m, c) /\ m.sub = c.sub
        /\ m.disc = c.disc /\ m.value = c.value /\ m.ccc = c.ccc /\ ~m.info
        /\ m.sprov = c.sprov /\ m.dprov = c.dprov
        /\ m.server = c.server /\ m.device = c.device /\ m.next = c.next
        /\ m.packetizer = c.packetizer
    BY <1>1, <2>1 DEF CleanInfo, Record, Back, Except
  <2> QED
    BY <1>1, <1>2, <1>4, <2>2, AttrsAre
    DEF Less, LinkStays, Except, Front, Back,
       Holds, Reading, Sending, Taking, Ends, AttrSet
<1>5. CASE a = "device_cert"
  <2>1. m = CleanDevice(c)
    BY <1>3, <1>5
  <2>2. /\ m \in Record /\ m.link = c.link /\ Front(m, c) /\ Back(m, c)
        /\ m.sub = c.sub /\ m.server = c.server /\ ~m.device
        /\ m.next = c.next /\ m.packetizer = c.packetizer
    BY <1>1, <2>1 DEF CleanDevice, Record, Front, Back, Except
  <2> QED
    BY <1>1, <1>2, <1>5, <2>2, AttrsAre
    DEF Less, LinkStays, Except, Front, Back,
       Holds, Reading, Sending, Taking, Ends, AttrSet
<1>6. CASE a = "uplink"
  <2>1. m = [c EXCEPT !.receiver = FALSE]
    BY <1>3, <1>6
  <2>2. /\ m \in Record /\ m.link = c.link /\ Front(m, c)
        /\ m.uplink = c.uplink /\ ~m.receiver
        /\ m.downlink = c.downlink /\ m.sender = c.sender
        /\ m.sub = c.sub /\ m.server = c.server /\ m.device = c.device
        /\ m.next = c.next /\ m.packetizer = c.packetizer
    BY <1>1, <2>1 DEF Record, Front, Except
  <2> QED
    BY <1>1, <1>2, <1>6, <2>2, AttrsAre
    DEF Less, LinkStays, Except, Front, Back,
       Holds, Reading, Sending, Taking, Ends, AttrSet
<1>7. CASE a = "downlink"
  <2> DEFINE d == CleanDownlink(c)
  <2>1. m = Finish(d)
    BY <1>3, <1>7 DEF DownlinkEnds
  <2>2. /\ d \in Record /\ d.link = c.link /\ Front(d, c)
        /\ d.server = c.server /\ d.device = c.device /\ d.next = c.next
        /\ d.sub = c.sub /\ d.uplink = c.uplink /\ d.receiver = c.receiver
        /\ d.downlink = 0 /\ ~d.sender /\ d.packetizer = "none"
    BY <1>1, CleaningDownlink DEF Except
  <2> HIDE DEF d
  <2>3. Finished(m, d)
    BY <2>1, <2>2, Finishing
  <2> QED
    BY <1>1, <1>2, <1>7, <2>2, <2>3, AttrsAre
    DEF Less, LinkStays, Finished, Except,
       Front, Back, Holds, Reading, Sending, Taking, Ends, AttrSet
<1> QED
  BY <1>4, <1>5, <1>6, <1>7, AttrsAre DEF AttrSet

LEMMA SubEndsInv ==
  ASSUME IInv, NEW a \in Attrs, Callback, Ends(node, a),
         node' \in SubEnds(node, a), Track, UNCHANGED <<has, bare, kicked>>,
         refused' \in BOOLEAN
  PROVE  IInv'
<1>1. States /\ node \in Record /\ Good(node, Settled) /\ Holds(node)
  BY InvStates DEF IInv, Good
<1>2. node.link # "down" /\ Settled' = Settled /\ Kinds'
  BY InvKinds, KindsStay DEF Callback
<1>3. CASE a = "server_cert"
  <2>1. Sending(node) /\ node' \in SubEnds(node, "server_cert")
    BY <1>3 DEF Sending
  <2>2. Good(node', Settled) /\ LinkStays(node', node)
    BY <1>1, <2>1, ServerEnds
  <2>3. node.uplink = 0
    BY <1>1, <2>1 DEF Good, OneStage, Early
  <2> QED
    BY <1>2, <2>2, <2>3, Tracked DEF Callback, LinkStays
<1>4. CASE a # "server_cert"
  <2>1. Less(node', node) /\ LinkStays(node', node)
    BY <1>1, <1>4, SubEndsLess
  <2>2. Good(node', Settled) /\ (Early(node') => Early(node))
    BY <1>1, <2>1, LessGood
  <2>3. node.uplink = 0 \/ ~Early(node')
    BY <1>1, <2>2 DEF Good, OneStage
  <2> QED
    BY <1>2, <2>1, <2>2, <2>3, Tracked DEF Callback, LinkStays
<1> QED
  BY <1>3, <1>4

LEMMA UnsubscribedInv == ASSUME NEW a \in Attrs PROVE IInv /\ Unsubscribed(a) => IInv'
<1> SUFFICES ASSUME IInv, Unsubscribed(a) PROVE IInv'
  OBVIOUS
<1>1. refused' \in BOOLEAN
  BY DEF Unsubscribed, history, IInv, TypeOK
<1> QED
  BY <1>1, SubEndsInv DEF Unsubscribed, history, Ends

LEMMA RefuseInv == ASSUME NEW a \in Attrs PROVE IInv /\ Refuse(a) => IInv'
BY SubEndsInv DEF Refuse, Ends

(* The steps that have been through the last data of a transfer.           *)
LEMMA InfoDoneInv == IInv /\ InfoDone => IInv'
<1> SUFFICES ASSUME IInv, InfoDone PROVE IInv'
  OBVIOUS
<1>1. /\ States /\ node \in Record /\ Good(node, Settled) /\ "info" \in Attrs
      /\ refused' \in BOOLEAN
      /\ Reading(node) /\ node.link # "down"
  BY InvStates, AttrsAre
  DEF IInv, InfoDone, history, TypeOK, Reading, Callback, AttrSet
<1>0. Kinds'
  <2>1. issued' = issued /\ has' = has /\ (bare' = bare \/ bare' = ~issued)
    BY DEF InfoDone, Callback
  <2> QED
    BY <2>1, InvKinds, Zenon DEF Kinds
<1>2. node.uplink = 0
  BY <1>1 DEF Good, OneStage, Early
<1> DEFINE c == CleanInfo(node)
<1>3. /\ c \in Record /\ c.link = node.link /\ Back(c, node) /\ ~c.info
      /\ c.disc = node.disc /\ c.value = node.value /\ c.ccc = node.ccc
      /\ c.sprov = node.sprov /\ c.dprov = node.dprov
      /\ c.server = node.server /\ c.device = node.device /\ c.next = node.next
      /\ c.packetizer = node.packetizer /\ c.sub = node.sub
  BY <1>1 DEF CleanInfo, Record, Back
<1>4. ASSUME NEW h, NEW n \in Record, n.link = node.link \/ LinkStays(n, node),
             Back(n, node), ~n.info,
             n.disc = node.disc, n.value = node.value, n.ccc = node.ccc,
             n.sprov => "server" \in h, n.dprov => "device" \in h,
             n.server = node.server, n.device = node.device,
             n.packetizer = node.packetizer, n.sub = node.sub
      PROVE  Between(Stop(n, "info"), h)
  <2> DEFINE q == Stop(n, "info")
  <2>1. Except(q, n) /\ q.sub = [n.sub EXCEPT !["info"] = "stopping"]
    BY <1>1, Stopping
  <2>2. n.sub \in [Attrs -> {"none", "live", "stopping", "refused"}]
    BY DEF Record
  <2> HIDE DEF q
  <2>3. Found(q)
    BY <1>1, <1>4, <2>1, <2>2, AttrsAre
    DEF Good, Found, Located, Except, Front,
       LinkStays, AttrSet
  <2>4. Between(q, h)
    BY <1>1, <1>4, <2>1, <2>2, <2>3, AttrsAre
    DEF Good, Between, OneStage, Holds,
       Current, Alone, Except, Front, Back, Ends, Reading, Sending, Taking,
       Early, AttrSet
  <2> QED
    BY <2>4 DEF q
<1> HIDE DEF c
<1>5. \/ /\ \E parsed \in BOOLEAN :
              node' \in Stopped(ServerCertWrite([c EXCEPT
                                  !.sprov = parsed /\ SerialsMatch,
                                  !.dprov = parsed /\ "device" \in has]), "info")
         /\ bare' = ~issued /\ has' = has
      \/ node' = Stop(Finish(c), "info") /\ UNCHANGED <<has, bare>>
  BY DEF InfoDone, c
<1>6. Good(node', Settled') /\ node'.link # "down"
  <2>1. ASSUME NEW parsed \in BOOLEAN,
               node' \in Stopped(ServerCertWrite([c EXCEPT
                               !.sprov = parsed /\ SerialsMatch,
                               !.dprov = parsed /\ "device" \in has]), "info"),
               bare' = ~issued, has' = has
        PROVE  Good(node', Settled') /\ node'.link # "down"
    <3> DEFINE n == [c EXCEPT !.sprov = parsed /\ SerialsMatch,
                              !.dprov = parsed /\ "device" \in has]
    <3>0. /\ SerialsMatch => "server" \in Settled'
          /\ "device" \in has => "device" \in Settled'
      <4>1. CASE issued
        BY <2>1, <4>1 DEF SerialsMatch, Settled
      <4>2. CASE ~issued
        <5>1. bare'
          BY <2>1, <4>2, Zenon
        <5> QED
          BY <2>1, <4>2, <5>1 DEF SerialsMatch, Settled
      <4> QED
        BY <4>1, <4>2
    <3>1. /\ n \in Record /\ n.link = c.link /\ Back(n, c) /\ ~n.info
          /\ n.disc = c.disc /\ n.value = c.value /\ n.ccc = c.ccc
          /\ (n.sprov => "server" \in Settled') /\ (n.dprov => "device" \in Settled')
          /\ n.server = c.server /\ n.device = c.device
          /\ n.packetizer = c.packetizer /\ n.sub = c.sub
      BY <1>3, <3>0 DEF Record, Back
    <3>2. PICK m \in ServerCertWrite(n) : node' = Stop(m, "info")
      BY <2>1 DEF Stopped
    <3> HIDE DEF n
    <3>3. Between(Stop(n, "info"), Settled')
      BY <1>3, <1>4, <3>1 DEF Back
    <3>4. ServerBegins(node', Stop(n, "info"))
      BY <1>1, <3>1, <3>2, ServerStarting, ServerStops DEF States
    <3>5. Good(node', Settled')
      BY <1>1, <3>3, <3>4, ServerGood
    <3>6. Stop(n, "info").link = n.link
      BY <1>1, <3>1, Stopping DEF Except
    <3> QED
      BY <1>1, <1>3, <3>1, <3>4, <3>5, <3>6 DEF ServerBegins, LinkStays
  <2>2. CASE node' = Stop(Finish(c), "info") /\ UNCHANGED <<has, bare>>
    <3> DEFINE n == Finish(c)
    <3>1. Finished(n, c)
      BY <1>3, Finishing
    <3>2. n \in Record /\ node' = Stop(n, "info")
      BY <2>2, <3>1 DEF Finished
    <3> HIDE DEF n
    <3>3. Between(node', Settled)
      BY <1>1, <1>3, <1>4, <3>1, <3>2
      DEF Finished, Front, Back, LinkStays, Good, Certified
    <3>4. node'.link = n.link
      BY <1>1, <3>2, Stopping DEF Except
    <3>5. Settled' = Settled
      BY <2>2 DEF Settled
    <3> QED
      BY <1>1, <1>3, <3>1, <3>3, <3>4, <3>5, BetweenIsGood DEF Finished, LinkStays
  <2> QED
    BY <1>5, <2>1, <2>2
<1> QED
  BY <1>0, <1>1, <1>2, <1>6, Tracked DEF InfoDone, Callback, history

LEMMA ServerCertInv ==
  ASSUME IInv, Callback, node.sub["server_cert"] = "live", Track,
         UNCHANGED <<refused, kicked>>, Kinds',
         "device" \in Settled => "device" \in Settled',
         NEW next \in {"device_cert", "server_cert", "end"},
         next = "device_cert" => "server" \in Settled',
         node' = Stop([node EXCEPT !.next = next], "server_cert")
  PROVE  IInv'
<1>1. /\ node \in Record /\ Good(node, Settled) /\ "server_cert" \in Attrs
      /\ refused' \in BOOLEAN /\ kicked' = kicked /\ node.link # "down"
  BY AttrsAre DEF IInv, TypeOK, Callback, AttrSet
<1>2. Sending(node) /\ node.uplink = 0
  BY <1>1 DEF Good, OneStage, Early, Sending, Ends
<1> DEFINE c == [node EXCEPT !.next = next]
<1>3. /\ c \in Record /\ c.link = node.link /\ Front(c, node) /\ Back(c, node)
      /\ c.server = node.server /\ c.device = node.device /\ c.next = next
      /\ c.packetizer = node.packetizer /\ c.sub = node.sub
  BY <1>1 DEF Record, Front, Back
<1> HIDE DEF c
<1>4. /\ Except(node', c)
      /\ node'.sub = [node.sub EXCEPT !["server_cert"] = "stopping"]
  <2> node' = Stop(c, "server_cert")
    BY DEF c
  <2> QED
    BY <1>1, <1>3, Stopping
<1>5. node.sub \in [Attrs -> {"none", "live", "stopping", "refused"}]
  BY <1>1 DEF Record
<1>6. OneStage(node') /\ Holds(node') /\ Current(node') /\ (~Late => Alone(node'))
  BY <1>1, <1>2, <1>3, <1>4, <1>5, AttrsAre
  DEF Good, OneStage, Holds, Current, Alone,
     Except, Front, Back, Ends, Reading, Sending, Taking, Early, AttrSet
<1>7. Certified(node', Settled')
  BY <1>1, <1>2, <1>3, <1>4, <1>5, AttrsAre
  DEF Good, OneStage, Certified, HasCertChars,
     Except, Front, Back, Ends, Reading, Sending, Taking, Early, AttrSet
<1>8. Found(node')
  BY <1>1, <1>3, <1>4, <1>5, AttrsAre
  DEF Good, Found, Located, Except, Front, AttrSet
<1>9. Good(node', Settled') /\ node'.link # "down"
  BY <1>1, <1>3, <1>4, <1>6, <1>7, <1>8 DEF Good, Except
<1> QED
  BY <1>1, <1>2, <1>9, Tracked DEF Callback

LEMMA ServerCertDoneInv ==
  ASSUME NEW newest \in BOOLEAN PROVE IInv /\ ServerCertDone(newest) => IInv'
<1> SUFFICES ASSUME IInv, ServerCertDone(newest) PROVE IInv'
  OBVIOUS
<1> DEFINE next == IF newest THEN "device_cert" ELSE "server_cert"
<1>1. Kinds
  BY InvKinds
<1>2. /\ has' = IF newest THEN (has \ {"another"}) \cup {"server"}
                          ELSE (has \ {"server"}) \cup {"another"}
      /\ bare' = bare /\ issued' = issued
  BY DEF ServerCertDone, Callback
<1>3. /\ Kinds' /\ ("device" \in Settled => "device" \in Settled')
      /\ next \in {"device_cert", "server_cert", "end"}
      /\ (next = "device_cert" => "server" \in Settled')
  BY <1>1, <1>2 DEF Kinds, Settled
<1>4. node' = Stop([node EXCEPT !.next = next], "server_cert")
  BY DEF ServerCertDone
<1> HIDE DEF next
<1> QED
  BY <1>3, <1>4, ServerCertInv DEF ServerCertDone

LEMMA ServerCertFailsInv == IInv /\ ServerCertFails => IInv'
<1> SUFFICES ASSUME IInv, ServerCertFails PROVE IInv'
  OBVIOUS
<1>1. Settled' = Settled /\ Kinds'
  BY InvKinds, KindsStay DEF ServerCertFails, Callback, history
<1> QED
  BY <1>1, ServerCertInv DEF ServerCertFails, history

LEMMA DeviceCertDoneInv == IInv /\ DeviceCertDone => IInv'
<1> SUFFICES ASSUME IInv, DeviceCertDone PROVE IInv'
  OBVIOUS
<1> DEFINE h == Settled \cup {"device"}
           c == CleanDevice(node)
<1>1. /\ States /\ node \in Record /\ Good(node, Settled) /\ "device_cert" \in Attrs
      /\ refused' \in BOOLEAN /\ kicked' = kicked
      /\ Taking(node) /\ node.link # "down"
  BY InvStates, AttrsAre
  DEF IInv, DeviceCertDone, TypeOK, Taking, Callback, AttrSet
<1>2. node.uplink = 0 /\ "server" \in Settled
  BY <1>1 DEF Good, OneStage, Early, Certified
<1>3. /\ c \in Record /\ c.link = node.link /\ Front(c, node) /\ Back(c, node)
      /\ c.server = node.server /\ ~c.device /\ c.next = node.next
      /\ c.packetizer = node.packetizer /\ c.sub = node.sub
  BY <1>1 DEF CleanDevice, Record, Front, Back
<1>4. ASSUME NEW n \in Record, n.link = node.link \/ LinkStays(n, node),
             Front(n, node), Back(n, node), n.server = node.server, ~n.device,
             n.packetizer = node.packetizer, n.sub = node.sub,
             NEW g, Settled \subseteq g
      PROVE  Between(Stop(n, "device_cert"), g)
  <2> DEFINE q == Stop(n, "device_cert")
  <2>1. Except(q, n) /\ q.sub = [n.sub EXCEPT !["device_cert"] = "stopping"]
    BY <1>1, Stopping
  <2>2. n.sub \in [Attrs -> {"none", "live", "stopping", "refused"}]
    BY DEF Record
  <2> HIDE DEF q
  <2>3. Found(q)
    BY <1>1, <1>4, <2>1, <2>2, AttrsAre
    DEF Good, Found, Located, Except, Front,
       LinkStays, AttrSet
  <2>4. /\ q.sprov => "server" \in g
        /\ q.dprov => "device" \in g
    BY <1>1, <1>4, <2>1 DEF Good, Certified, Except, Front
  <2>5. Between(q, g)
    BY <1>1, <1>4, <2>1, <2>2, <2>3, <2>4, AttrsAre
    DEF Good, Between, OneStage,
       Holds, Current, Alone, Except, Front, Back, Ends, Reading, Sending,
       Taking, Early, AttrSet
  <2> QED
    BY <2>5 DEF q
<1> HIDE DEF c
<1>5. \/ Settled' = h /\ node' \in Stopped(UplinkStart(c), "device_cert")
      \/ Settled' = Settled /\ node' = Stop(Finish(c), "device_cert")
  <2>1. \/ /\ has' = has \cup {"device"}
           /\ node' \in Stopped(UplinkStart(c), "device_cert")
        \/ has' = has /\ node' = Stop(Finish(c), "device_cert")
    BY DEF DeviceCertDone, c
  <2>2. bare' = bare
    BY DEF DeviceCertDone
  <2>3. has' = has \cup {"device"} => Settled' = h
    BY <2>2 DEF Settled
  <2>4. has' = has => Settled' = Settled
    BY <2>2 DEF Settled
  <2> QED
    BY <2>1, <2>3, <2>4
<1>6. Good(node', Settled') /\ node'.link # "down"
  <2>1. CASE Settled' = h /\ node' \in Stopped(UplinkStart(c), "device_cert")
    <3>1. PICK m \in UplinkStart(c) : node' = Stop(m, "device_cert")
      BY <2>1 DEF Stopped
    <3>2. Between(Stop(c, "device_cert"), h)
      BY <1>3, <1>4
    <3>3. UplinkBegins(node', Stop(c, "device_cert"))
      BY <1>1, <1>3, <3>1, UplinkStarting, UplinkStops DEF States
    <3>4. Good(node', h)
      BY <1>1, <1>2, <3>2, <3>3, UplinkGood
    <3>5. Stop(c, "device_cert").link = c.link
      BY <1>1, <1>3, Stopping DEF Except
    <3> QED
      BY <1>1, <1>3, <2>1, <3>3, <3>4, <3>5 DEF UplinkBegins, LinkStays
  <2>2. CASE Settled' = Settled /\ node' = Stop(Finish(c), "device_cert")
    <3> DEFINE n == Finish(c)
    <3>1. Finished(n, c)
      BY <1>3, Finishing
    <3>2. n \in Record /\ node' = Stop(n, "device_cert")
      BY <2>2, <3>1 DEF Finished
    <3> HIDE DEF n
    <3>3. Between(node', Settled)
      BY <1>3, <1>4, <3>1, <3>2 DEF Finished, Front, Back, LinkStays
    <3>4. node'.link = n.link
      BY <1>1, <3>2, Stopping DEF Except
    <3> QED
      BY <1>1, <1>3, <2>2, <3>1, <3>3, <3>4, BetweenIsGood
      DEF Finished, LinkStays
  <2> QED
    BY <1>5, <2>1, <2>2
<1>7. Kinds'
  BY InvKinds DEF DeviceCertDone, Callback, Kinds
<1> QED
  BY <1>1, <1>2, <1>6, <1>7, Tracked DEF DeviceCertDone, Callback

(* What the notifications of the uplink, of the downlink and the client do. *)
LEMMA Dropping ==
  ASSUME NEW n \in Record, Holds(n), NEW m \in Record,
         LinkStays(m, n), Front(m, n), m.sub = n.sub,
         m.server = n.server, m.device = n.device, m.next = n.next,
         m.packetizer = n.packetizer, m.uplink \in {n.uplink, 0},
         m.receiver = n.receiver, m.downlink \in {n.downlink, 0}, m.sender = n.sender
  PROVE  /\ Less(m, n)
         /\ \A a \in {"uplink", "downlink"} :
              Ends(n, a) => Less(Stop(m, a), n) /\ LinkStays(Stop(m, a), n)
<1>1. Less(m, n)
  BY DEF Less, LinkStays, Front, Ends, Holds, Reading, Sending, Taking
<1>2. ASSUME NEW a \in {"uplink", "downlink"}, Ends(n, a)
      PROVE  Less(Stop(m, a), n) /\ LinkStays(Stop(m, a), n)
  <2> DEFINE q == Stop(m, a)
  <2>1. Except(q, m) /\ q.sub = [n.sub EXCEPT ![a] = "stopping"]
    BY Stopping, AttrsAre DEF AttrSet
  <2>2. n.sub \in [Attrs -> {"none", "live", "stopping", "refused"}]
    BY DEF Record
  <2> HIDE DEF q
  <2>3. /\ \A b \in Attrs : (q.sub[b] = "live" => n.sub[b] = "live")
                          /\ (Ends(q, b) => Ends(n, b))
        /\ Ends(n, "downlink") => Ends(q, "downlink")
    BY <1>2, <2>1, <2>2, AttrsAre DEF Ends, AttrSet
  <2>4. Holds(q)
    BY <1>2, <2>1, <2>2, AttrsAre
    DEF Holds, Reading, Sending, Taking, Ends, Except,
       Front, AttrSet
  <2>5. Less(q, n) /\ LinkStays(q, n)
    BY <1>1, <2>1, <2>3, <2>4 DEF Less, Except, LinkStays, Front, Back
  <2> QED
    BY <2>5 DEF q
<1> QED
  BY <1>1, <1>2

LEMMA UplinkDoneInv == IInv /\ UplinkDone => IInv'
<1> SUFFICES ASSUME IInv, UplinkDone PROVE IInv'
  OBVIOUS
<1>1. /\ States /\ node \in Record /\ Good(node, Settled) /\ Holds(node)
      /\ refused' \in BOOLEAN /\ kicked' = kicked
      /\ Ends(node, "uplink") /\ node.link # "down"
  BY InvStates DEF IInv, Good, UplinkDone, TypeOK, Callback, Ends, history
<1>0. Settled' = Settled /\ Kinds'
  BY InvKinds, KindsStay DEF UplinkDone, Callback, history
<1>2. ~Early(node)
  BY <1>1 DEF Good, OneStage
<1>3. ASSUME NEW left \in {0, node.uplink}
      PROVE  LET c == [node EXCEPT !.uplink = left]
             IN /\ c \in Record /\ c.link = node.link /\ Front(c, node)
                /\ c.uplink = left /\ c.receiver = node.receiver
                /\ c.downlink = node.downlink /\ c.sender = node.sender
                /\ c.server = node.server /\ c.device = node.device
                /\ c.next = node.next
                /\ c.packetizer = node.packetizer /\ c.sub = node.sub
  BY <1>1 DEF Record, Front
<1>4. PICK left \in {0, node.uplink} :
        \/ node' = Stop([node EXCEPT !.uplink = left], "uplink")
        \/ node' = Stop(Finish([node EXCEPT !.uplink = left]), "uplink")
  BY DEF UplinkDone
<1> DEFINE c == [node EXCEPT !.uplink = left]
<1>5. /\ c \in Record /\ c.link = node.link /\ Front(c, node)
      /\ c.uplink = left /\ c.receiver = node.receiver
      /\ c.downlink = node.downlink /\ c.sender = node.sender
      /\ c.server = node.server /\ c.device = node.device /\ c.next = node.next
      /\ c.packetizer = node.packetizer /\ c.sub = node.sub
  BY <1>3
<1>6. node' = Stop(c, "uplink") \/ node' = Stop(Finish(c), "uplink")
  BY <1>4
<1> HIDE DEF c
<1>7. Less(node', node) /\ LinkStays(node', node)
  <2>1. CASE node' = Stop(c, "uplink")
    BY <1>1, <1>5, <2>1, Dropping DEF LinkStays
  <2>2. CASE node' = Stop(Finish(c), "uplink")
    <3> DEFINE f == Finish(c)
    <3>1. Finished(f, c)
      BY <1>5, Finishing
    <3>2. node' = Stop(f, "uplink")
      BY <2>2
    <3> HIDE DEF f
    <3>3. /\ f \in Record /\ LinkStays(f, node) /\ Front(f, node) /\ f.sub = node.sub
          /\ f.server = node.server /\ f.device = node.device /\ f.next = node.next
          /\ f.packetizer = node.packetizer /\ f.uplink \in {node.uplink, 0}
          /\ f.receiver = node.receiver /\ f.downlink \in {node.downlink, 0}
          /\ f.sender = node.sender
      BY <1>5, <3>1 DEF Finished, Front, Back, LinkStays
    <3> QED
      BY <1>1, <3>2, <3>3, Dropping
  <2> QED
    BY <1>6, <2>1, <2>2
<1>8. Good(node', Settled) /\ ~Early(node')
  BY <1>1, <1>2, <1>7, LessGood
<1> QED
  BY <1>1, <1>7, <1>8, <1>0, Tracked DEF UplinkDone, Callback, LinkStays

LEMMA DownlinkDoneInv == IInv /\ DownlinkDone => IInv'
<1> SUFFICES ASSUME IInv, DownlinkDone PROVE IInv'
  OBVIOUS
<1>1. /\ States /\ node \in Record /\ Good(node, Settled) /\ Holds(node)
      /\ refused' \in BOOLEAN /\ kicked' = kicked
      /\ Ends(node, "downlink") /\ node.link # "down"
  BY InvStates DEF IInv, Good, DownlinkDone, TypeOK, Callback, Ends, history
<1>0. Settled' = Settled /\ Kinds'
  BY InvKinds, KindsStay DEF DownlinkDone, Callback, history
<1>2. PICK left \in {0, node.downlink} :
        node' = Stop([node EXCEPT !.downlink = left], "downlink")
  BY DEF DownlinkDone
<1> DEFINE c == [node EXCEPT !.downlink = left]
<1>3. /\ c \in Record /\ c.link = node.link /\ Front(c, node)
      /\ c.uplink = node.uplink /\ c.receiver = node.receiver
      /\ c.downlink = left /\ c.sender = node.sender
      /\ c.server = node.server /\ c.device = node.device /\ c.next = node.next
      /\ c.packetizer = node.packetizer /\ c.sub = node.sub
  BY <1>1 DEF Record, Front
<1>4. node' = Stop(c, "downlink")
  BY <1>2
<1> HIDE DEF c
<1>5. Less(node', node) /\ LinkStays(node', node)
  BY <1>1, <1>3, <1>4, Dropping DEF LinkStays
<1>6. Good(node', Settled) /\ (Early(node') => Early(node))
  BY <1>1, <1>5, LessGood
<1>7. node.uplink = 0 \/ ~Early(node')
  BY <1>1, <1>6 DEF Good, OneStage
<1> QED
  BY <1>1, <1>5, <1>6, <1>7, <1>0, Tracked DEF DownlinkDone, Callback, LinkStays

LEMMA UplinkEndInv ==
  ASSUME NEW s, NEW res PROVE IInv /\ UplinkEnd(s, res) => IInv'
<1> SUFFICES ASSUME IInv, UplinkEnd(s, res) PROVE IInv'
  OBVIOUS
<1>1. /\ States /\ node \in Record /\ Good(node, Settled) /\ Holds(node)
  BY InvStates DEF IInv, Good
<1>2. /\ session' = session /\ table' = table /\ refused' = refused
      /\ kicked' = kicked /\ closed' = closed /\ downlinks' = downlinks
      /\ uplinks' \subseteq uplinks
  BY DEF UplinkEnd, history
<1>0. Settled' = Settled /\ Kinds'
  BY InvKinds, KindsStay DEF UplinkEnd, history
<1> DEFINE c == [node EXCEPT !.uplink = 0]
<1>3. /\ c \in Record /\ c.link = node.link /\ Front(c, node)
      /\ c.uplink = 0 /\ c.receiver = node.receiver
      /\ c.downlink = node.downlink /\ c.sender = node.sender
      /\ c.server = node.server /\ c.device = node.device /\ c.next = node.next
      /\ c.packetizer = node.packetizer /\ c.sub = node.sub
  BY <1>1 DEF Record, Front
<1>4. node' = c \/ node' = Finish(c)
  BY DEF UplinkEnd, UplinkEndCb
<1> HIDE DEF c
<1>5. /\ node' \in Record /\ LinkStays(node', node) /\ Front(node', node)
      /\ node'.uplink = 0 /\ node'.receiver = node.receiver
      /\ node'.downlink = node.downlink /\ node'.sender = node.sender
      /\ node'.server = node.server /\ node'.device = node.device
      /\ node'.next = node.next /\ node'.packetizer = node.packetizer
      /\ node'.sub = node.sub
  <2>1. CASE node' = c
    BY <1>3, <2>1 DEF LinkStays
  <2>2. CASE node' = Finish(c)
    <3> Finished(node', c)
      BY <1>3, <2>2, Finishing
    <3> QED
      BY <1>3 DEF Finished, Front, Back, LinkStays
  <2> QED
    BY <1>4, <2>1, <2>2
<1>6. Less(node', node)
  BY <1>1, <1>5, Dropping
<1>7. Good(node', Settled)
  BY <1>1, <1>6, LessGood
<1>8. Good(node, Settled)'
  BY <1>0, <1>2, <1>7 DEF Good, OneStage, Holds, Certified, Found, Located, Current,
     Alone, Early, Reading, Sending, Taking, Ends, HasCertChars
<1>9. TypeOK'
  <2>1. TypeOK
    BY DEF IInv
  <2>2. uplinks' \subseteq 1 .. session
    BY <1>2, <2>1 DEF TypeOK
  <2> QED
    BY <1>0, <1>2, <1>5, <2>1, <2>2, Zenon DEF TypeOK, Kinds
<1>10. /\ (node.link = "down" => Down(node))' /\ (node.link # "down" => session >= 1)'
  BY <1>2, <1>5 DEF IInv, Down, Front, LinkStays, Ends
<1> QED
  BY <1>2, <1>8, <1>9, <1>10 DEF IInv

LEMMA KickInv == ASSUME NEW s PROVE IInv /\ Kick(s) => IInv'
<1> SUFFICES ASSUME IInv, Kick(s) PROVE IInv'
  OBVIOUS
<1>1. /\ States /\ node \in Record /\ Good(node, Settled) /\ Holds(node)
      /\ "downlink" \in Attrs
  BY InvStates, AttrsAre DEF IInv, Good, AttrSet
<1>2. /\ session' = session /\ table' = table /\ refused' = refused
      /\ kicked' = kicked \cup {s} /\ s \in closed /\ Track
      /\ (~Late => s = session)
      /\ refused \in BOOLEAN
  <2>1. /\ session' = session /\ table' = table /\ refused' = refused
        /\ kicked' = kicked \cup {s} /\ s \in closed /\ Track
        /\ (~Late => s = session)
    BY Zenon DEF Kick
  <2>2. refused \in BOOLEAN
    BY DEF IInv, TypeOK
  <2> QED
    BY <2>1, <2>2
<1>0. Settled' = Settled /\ Kinds'
  BY InvKinds, KindsStay DEF Kick
<1>3. session >= 1 /\ 0 \notin closed /\ session \in Nat
  BY <1>1, <1>2 DEF States
<1>4. ~Late => ~Early(node)
  BY <1>1, <1>2 DEF Good, OneStage
<1>5. \/ node' \in Subscribed(node, "downlink")
      \/ node' = [Finish(CleanDownlink(node)) EXCEPT !.sub["downlink"] = "refused"]
  BY DEF Kick
<1>6. /\ node' \in Record /\ LinkStays(node', node) /\ Front(node', node)
      /\ node'.uplink = node.uplink /\ node'.receiver = node.receiver
      /\ node'.server = node.server /\ node'.device = node.device
      /\ node'.next = node.next
      /\ \/ /\ node'.sub = [node.sub EXCEPT !["downlink"] = "live"]
            /\ node.link = "up" /\ node.ccc["downlink"] # 0
            /\ node'.downlink = node.downlink /\ node'.sender = node.sender
            /\ node'.packetizer = node.packetizer
         \/ /\ node'.sub = [node.sub EXCEPT !["downlink"] = "refused"]
            /\ node'.downlink = 0 /\ ~node'.sender
  <2>1. CASE node' \in Subscribed(node, "downlink")
    BY <1>1, <2>1, Subscribing DEF LinkStays, Back
  <2>2. CASE node' = [Finish(CleanDownlink(node)) EXCEPT !.sub["downlink"] = "refused"]
    <3> DEFINE d == CleanDownlink(node)
               f == Finish(d)
    <3>1. /\ d \in Record /\ d.link = node.link /\ Front(d, node)
          /\ d.server = node.server /\ d.device = node.device /\ d.next = node.next
          /\ d.sub = node.sub /\ d.uplink = node.uplink /\ d.receiver = node.receiver
          /\ d.downlink = 0 /\ ~d.sender /\ d.packetizer = "none"
      BY <1>1, CleaningDownlink
    <3> HIDE DEF d
    <3>2. Finished(f, d)
      BY <3>1, Finishing
    <3>3. node' = [f EXCEPT !.sub["downlink"] = "refused"]
      BY <2>2 DEF d
    <3> HIDE DEF f
    <3>4. /\ node' \in Record /\ node'.link = f.link /\ Front(node', f)
          /\ Back(node', f) /\ node'.server = f.server /\ node'.device = f.device
          /\ node'.next = f.next
          /\ node'.sub = [f.sub EXCEPT !["downlink"] = "refused"]
      BY <3>2, <3>3 DEF Finished, Record, Front, Back
    <3> QED
      BY <3>1, <3>2, <3>4 DEF Finished, LinkStays, Front, Back
  <2> QED
    BY <1>5, <2>1, <2>2
<1>7. node.sub \in [Attrs -> {"none", "live", "stopping", "refused"}]
  BY <1>1 DEF Record
<1>8. /\ \A a \in Attrs \ {"downlink"} : node'.sub[a] = node.sub[a]
      /\ \/ /\ node'.sub["downlink"] = "live"
            /\ node.link = "up" /\ node.ccc["downlink"] # 0
         \/ ~Ends(node', "downlink") /\ node'.downlink = 0 /\ ~node'.sender
  BY <1>1, <1>6, <1>7 DEF Ends
<1>9. closed' = closed
  BY <1>6, <1>2 DEF Track
<1>10. OneStage(node')
  <2>1. node.disc # "none" => node'.sub["downlink"] # "live"
    <3> node.disc # "none" => node.ccc["downlink"] = 0
      BY <1>1 DEF Good, OneStage, Zeroes
    <3> QED
      BY <1>1, <1>6, <1>7
  <2> QED
    BY <1>1, <1>6, <1>8, <2>1, AttrsAre DEF Good, OneStage, Early, Front, Ends,
       Reading, Sending, Taking, AttrSet
<1>11. Holds(node') /\ Certified(node', Settled)
  BY <1>1, <1>6, <1>8, AttrsAre
  DEF Good, Holds, Certified, Front, Ends, HasCertChars,
     Reading, Sending, Taking, AttrSet
<1>12. Found(node')
  <2>1. Located(node') <=> Located(node)
    BY <1>6 DEF Located, Front
  <2>2. node.link = "up" /\ node.ccc["downlink"] # 0 => Located(node)
    BY <1>1 DEF Good, OneStage, Found, Zeroes
  <2>3. Found(node) /\ node'.disc = node.disc /\ node'.value = node.value
        /\ (node'.link = "up" => node.link = "up")
    BY <1>1, <1>6 DEF Good, Front, LinkStays
  <2>4. (\E a \in Attrs : node'.sub[a] = "live") => Located(node')
    <3> SUFFICES ASSUME NEW a \in Attrs, node'.sub[a] = "live" PROVE Located(node')
      OBVIOUS
    <3>1. CASE a = "downlink" /\ ~(node.link = "up" /\ node.ccc["downlink"] # 0)
      BY <1>8, <3>1 DEF Ends
    <3>2. CASE a # "downlink"
      BY <1>8, <2>1, <2>3, <3>2 DEF Found
    <3> QED
      BY <2>1, <2>2, <3>1, <3>2
  <2> QED
    BY <2>1, <2>3, <2>4 DEF Found
<1>13. /\ node'.uplink \in {0, session} /\ node'.downlink \in {0, session}
       /\ (node'.downlink \in kicked' => Ends(node', "downlink"))
  <2>1. 0 \notin kicked'
    BY <1>1, <1>2, <1>3 DEF States
  <2> QED
    BY <1>1, <1>6, <1>8, <2>1 DEF Good, Current, Ends
<1>14. ~Late => Alone(node')
  <2> SUFFICES ASSUME ~Late PROVE Alone(node')
    OBVIOUS
  <2>1. ~Early(node) /\ ~node.server
    BY <1>1, <1>4 DEF Holds, Early
  <2>2. ~Early(node')
    BY <1>6, <1>8, <2>1, AttrsAre
    DEF Early, Front, Ends, Reading, Sending, Taking, AttrSet
  <2> QED
    BY <1>1, <1>6, <2>1, <2>2 DEF Good, Alone
<1>15. TypeOK' /\ kicked' \subseteq closed'
  <2> kicked' \subseteq closed'
    BY <1>1, <1>2, <1>9 DEF States
  <2> QED
    BY <1>0, <1>2, <1>3, <1>6, <1>13, TrackTyped
<1>16. Good(node, Settled)'
  BY <1>0, <1>2, <1>6, <1>9, <1>10, <1>11, <1>12, <1>13, <1>14
  DEF Good, OneStage, Holds,
     Certified, Found, Located, Current, Alone, Early, Reading, Sending, Taking,
     Ends, HasCertChars
<1>17. (node.link = "down" => Down(node))'
  <2> SUFFICES ASSUME node'.link = "down" PROVE Down(node')
    BY DEF Down, Ends
  <2> node.link = "down" /\ Down(node)
    BY <1>6 DEF LinkStays, IInv
  <2>1. \A a \in Attrs : ~Ends(node', a)
    BY <1>6, <1>8 DEF Down, Ends
  <2> QED
    BY <1>6, <2>1 DEF Down, Front
<1> QED
  BY <1>2, <1>3, <1>15, <1>16, <1>17 DEF IInv

(***************************************************************************)
(* The node disconnects: what the host ends, and what it makes begin, goes *)
(* nowhere on a connection that is down.                                   *)
(***************************************************************************)
LEMMA QuietlyLess ==
  ASSUME NEW n \in Record, Holds(n)
  PROVE  LET m == EndQuietly(n)
         IN /\ Less(m, n) /\ m.link = "down"
            /\ \A a \in Attrs \ {"server_cert"} : ~Ends(m, a)
<1> DEFINE sub == [a \in Attrs |-> IF Ends(n, a) /\ a # "server_cert"
                                    THEN "none" ELSE n.sub[a]]
           i == n.info /\ ~Ends(n, "info")
           d == n.device /\ ~Ends(n, "device_cert")
           r == n.receiver /\ ~Ends(n, "uplink")
           c == [n EXCEPT !.link = "down", !.sub = sub, !.info = i,
                          !.device = d, !.receiver = r]
           m == EndQuietly(n)
<1>1. n.sub \in [Attrs -> {"none", "live", "stopping", "refused"}]
  BY DEF Record
<1>2. /\ sub \in [Attrs -> {"none", "live", "stopping", "refused"}]
      /\ \A a \in Attrs : (sub[a] = "live" => n.sub[a] = "live")
                        /\ (sub[a] \in {"live", "stopping"} =>
                               Ends(n, a) /\ a = "server_cert")
      /\ sub["server_cert"] = n.sub["server_cert"]
  BY <1>1, AttrsAre DEF Ends, AttrSet
<1>3. m = IF Ends(n, "downlink") THEN DownlinkEnds(c) ELSE c
  BY DEF EndQuietly
<1> i \in BOOLEAN /\ d \in BOOLEAN /\ r \in BOOLEAN
  BY Zenon DEF Record
<1> HIDE DEF sub, i, d, r
<1>4. /\ c \in Record /\ c.link = "down" /\ c.sub = sub
      /\ c.disc = n.disc /\ c.value = n.value /\ c.ccc = n.ccc
      /\ c.sprov = n.sprov /\ c.dprov = n.dprov /\ c.next = n.next
      /\ c.info = i /\ c.server = n.server /\ c.device = d /\ c.receiver = r
      /\ c.uplink = n.uplink /\ c.downlink = n.downlink /\ c.sender = n.sender
      /\ c.packetizer = n.packetizer
  <2>1. DOMAIN n = {"link", "disc", "value", "ccc", "sub", "info", "server",
                    "device", "packetizer", "next", "sprov", "dprov", "uplink",
                    "receiver", "downlink", "sender"}
    BY DEF Record
  <2>2. /\ c.link = "down" /\ c.sub = sub
        /\ c.disc = n.disc /\ c.value = n.value /\ c.ccc = n.ccc
        /\ c.sprov = n.sprov /\ c.dprov = n.dprov /\ c.next = n.next
        /\ c.info = i /\ c.server = n.server /\ c.device = d /\ c.receiver = r
        /\ c.uplink = n.uplink /\ c.downlink = n.downlink /\ c.sender = n.sender
        /\ c.packetizer = n.packetizer
    BY <2>1
  <2>3. c \in Record
    BY <1>2 DEF Record
  <2> QED
    BY <2>2, <2>3
<1> HIDE DEF c, m
<1>5. /\ m \in Record /\ m.link = "down" /\ m.sub = sub
      /\ Front(m, c) /\ m.next = c.next /\ m.server = c.server
      /\ m.device = c.device /\ m.receiver = c.receiver /\ m.uplink = c.uplink
      /\ \/ /\ m.downlink = n.downlink /\ m.sender = n.sender
            /\ m.packetizer = n.packetizer /\ ~Ends(n, "downlink")
         \/ m.downlink = 0 /\ ~m.sender /\ Ends(n, "downlink")
  <2>1. CASE ~Ends(n, "downlink")
    BY <1>3, <1>4, <2>1 DEF Front
  <2>2. CASE Ends(n, "downlink")
    <3> DEFINE e == CleanDownlink(c)
    <3>1. /\ e \in Record /\ e.link = c.link /\ Front(e, c)
          /\ e.server = c.server /\ e.device = c.device /\ e.next = c.next
          /\ e.sub = c.sub /\ e.uplink = c.uplink /\ e.receiver = c.receiver
          /\ e.downlink = 0 /\ ~e.sender /\ e.packetizer = "none"
      BY <1>4, CleaningDownlink
    <3>2. m = Finish(e)
      BY <1>3, <2>2 DEF DownlinkEnds
    <3> HIDE DEF e
    <3>3. Finished(m, e)
      BY <3>1, <3>2, Finishing
    <3> QED
      BY <1>4, <2>2, <3>1, <3>3 DEF Finished, Front, Back, LinkStays
  <2> QED
    BY <2>1, <2>2
<1>6. /\ \A a \in Attrs :
           /\ m.sub[a] = "live" => n.sub[a] = "live"
           /\ Ends(m, a) => Ends(n, a) /\ a = "server_cert"
      /\ Sending(n) => Sending(m)
  BY <1>2, <1>5 DEF Ends, Sending
<1>7. Holds(m)
  <2>1. ~m.info
    BY <1>4, <1>5 DEF Holds, Reading, Ends, Front, i
  <2>2. ~m.device
    BY <1>4, <1>5 DEF Holds, Taking, Ends, d
  <2>3. m.server => Sending(m)
    BY <1>4, <1>5, <1>6 DEF Holds
  <2> QED
    BY <2>1, <2>2, <2>3 DEF Holds
<1>8. Less(m, n)
  <2>1. m.receiver => n.receiver
    BY <1>4, <1>5 DEF r
  <2> QED
    BY <1>4, <1>5, <1>6, <1>7, <2>1 DEF Less, Front
<1> QED
  BY <1>5, <1>6, <1>8 DEF m

LEMMA DisconnectInv == IInv /\ Disconnect => IInv' /\ node'.link = "down"
<1> SUFFICES ASSUME IInv, Disconnect PROVE IInv' /\ node'.link = "down"
  OBVIOUS
<1>1. /\ States /\ table \in Table /\ node \in Record /\ Good(node, Settled)
      /\ Holds(node)
  BY InvStates DEF IInv, Good
<1>2. /\ node.link # "down" /\ Track /\ session' = session /\ table' = table
      /\ kicked' = kicked /\ refused' \in BOOLEAN
  BY DEF Disconnect, history, IInv, TypeOK
<1>0. Settled' = Settled /\ Kinds'
  BY InvKinds, KindsStay DEF Disconnect, history
<1> DEFINE q == EndQuietly(node)
<1>3. Less(q, node) /\ q.link = "down" /\ \A a \in Attrs \ {"server_cert"} : ~Ends(q, a)
  BY <1>1, QuietlyLess
<1>4. Good(q, Settled) /\ q \in Record
  BY <1>1, <1>3, LessGood DEF Good
<1>5. PICK n \in DiscoveryEnds(q) :
        \E m \in IF Ends(n, "server_cert") THEN SubEnds(n, "server_cert") ELSE {n} :
           node' = UplinkCleanup(m)
  BY DEF Disconnect
<1> HIDE DEF q
<1>6. Good(n, Settled) /\ n.link = "down" /\ n.disc = "none" /\ Mute(n, q)
  <2>1. CASE q.disc = "none"
    BY <1>3, <1>4, <1>5, <2>1 DEF DiscoveryEnds, Mute
  <2>2. CASE q.disc = "chars"
    <3>1. PICK k \in 0 .. Len(table.handles) : n \in CharsDone(q, k)
      BY <1>5, <2>2 DEF DiscoveryEnds
    <3>2. /\ Good(n, Settled) /\ LinkStays(n, q) /\ Mute(n, q)
          /\ (q.link # "up" => n.disc = "none")
      BY <1>1, <1>3, <1>4, <2>2, <3>1, CharsGood
    <3> QED
      BY <1>3, <3>2 DEF LinkStays
  <2>3. CASE q.disc = "descr"
    <3>1. PICK k \in 0 .. Len(table.handles) : n \in DescrDone(q, k)
      BY <1>5, <2>3 DEF DiscoveryEnds
    <3>2. /\ Good(n, Settled) /\ LinkStays(n, q) /\ Mute(n, q) /\ n.disc = "none"
      BY <1>1, <1>3, <1>4, <2>3, <3>1, DescrGood
    <3> QED
      BY <1>3, <3>2 DEF LinkStays
  <2>4. CASE q.disc \notin {"none", "chars", "descr"}
    <3>1. n \in NoService(q)
      BY <1>5, <2>4 DEF DiscoveryEnds
    <3>2. Looks(n, q) /\ n.disc = "none" /\ n.link # "up"
      BY <1>3, <1>4, <3>1, NoServices
    <3>3. Good(n, Settled)
      BY <1>1, <1>4, <2>4, <3>2, LookGood
    <3> QED
      BY <1>3, <3>2, <3>3 DEF Looks, LinkStays, Mute, Ends
  <2> QED
    BY <2>1, <2>2, <2>3, <2>4
<1>7. PICK m \in IF Ends(n, "server_cert") THEN SubEnds(n, "server_cert") ELSE {n} :
        node' = UplinkCleanup(m)
  BY <1>5
<1>8. /\ Good(m, Settled) /\ m.link = "down" /\ m.disc = "none"
      /\ \A a \in Attrs : ~Ends(m, a)
  <2>1. CASE Ends(n, "server_cert")
    <3>1. m \in SubEnds(n, "server_cert") /\ Sending(n)
      BY <1>7, <2>1 DEF Sending
    <3>2. /\ Good(m, Settled) /\ LinkStays(m, n) /\ Mute(m, n) /\ m.disc = "none"
          /\ (n.link # "up" => ~Sending(m))
      BY <1>1, <1>6, <3>1, ServerEnds
    <3> QED
      BY <1>3, <1>6, <3>2 DEF LinkStays, Mute, Sending
  <2>2. CASE ~Ends(n, "server_cert")
    <3>1. m = n
      BY <1>7, <2>2
    <3> QED
      BY <1>3, <1>6, <2>2, <3>1 DEF Mute
  <2> QED
    BY <2>1, <2>2
<1>9. /\ node' \in Record /\ node'.link = m.link /\ Front(node', m)
      /\ node'.uplink = 0 /\ ~node'.receiver
      /\ node'.downlink = m.downlink /\ node'.sender = m.sender
      /\ node'.server = m.server /\ node'.device = m.device
      /\ node'.next = m.next /\ node'.packetizer = m.packetizer
      /\ node'.sub = m.sub
  BY <1>7, <1>8 DEF UplinkCleanup, Good, Record, Front
<1>10. Less(node', m)
  BY <1>8, <1>9 DEF Less, Front, Ends, Good, Holds, Reading, Sending, Taking
<1>11. Good(node', Settled)
  BY <1>1, <1>8, <1>10, LessGood
<1>12. Down(node')
  BY <1>8, <1>9 DEF Down, Front, Ends
<1>13. ~Early(node')
  BY <1>12, AttrsAre DEF Down, Early, Reading, Sending, Taking, Ends, AttrSet
<1> QED
  BY <1>0, <1>2, <1>8, <1>9, <1>11, <1>12, <1>13, Tracked

-----------------------------------------------------------------------------
(* The gateway's first certificate settles no less.                        *)
LEMMA CertifiedMore ==
  ASSUME NEW g, NEW h, g \subseteq h, NEW n, Certified(n, g)
  PROVE  Certified(n, h)
BY DEF Certified

LEMMA IssueInv == IInv /\ Issue => IInv'
<1> SUFFICES ASSUME IInv, Issue PROVE IInv'
  OBVIOUS
<1>1. /\ session' = session /\ table' = table /\ node' = node /\ bare' = bare
      /\ refused' = refused /\ kicked' = kicked /\ uplinks' = uplinks
      /\ closed' = closed /\ downlinks' = downlinks /\ issued' = TRUE
  BY DEF Issue, contexts
<1>2. has' = has \/ ("another" \in has /\ has' = (has \ {"another"}) \cup {"server"})
  BY DEF Issue
<1>3. Settled \subseteq Settled'
  BY <1>1, <1>2 DEF Settled
<1>4. Kinds'
  BY <1>1, <1>2, InvKinds DEF Kinds
<1>5. TypeOK' /\ (kicked \subseteq closed)' /\ (node.link # "down" => session >= 1)'
  BY <1>1, <1>4 DEF IInv, TypeOK, Kinds
<1>6. Certified(node, Settled')
  BY <1>3, CertifiedMore DEF IInv, Good
<1>7. Good(node, Settled)' /\ (node.link = "down" => Down(node))'
  BY <1>1, <1>6 DEF IInv, Down, Good, OneStage, Holds, Certified, Found, Located,
     Current, Alone, Early, Reading, Sending, Taking, Ends, HasCertChars
<1> QED
  BY <1>5, <1>7 DEF IInv

LEMMA StutterInv == IInv /\ UNCHANGED vars => IInv'
<1> SUFFICES ASSUME IInv, UNCHANGED vars PROVE IInv'
  OBVIOUS
<1>1. /\ session' = session /\ table' = table /\ node' = node
      /\ issued' = issued /\ has' = has /\ bare' = bare
      /\ refused' = refused /\ kicked' = kicked /\ uplinks' = uplinks
      /\ closed' = closed /\ downlinks' = downlinks
  BY DEF vars, history, contexts
<1>0. Settled' = Settled
  BY <1>1 DEF Settled
<1>2. TypeOK' /\ (kicked \subseteq closed)' /\ (node.link # "down" => session >= 1)'
  BY <1>1 DEF IInv, TypeOK
<1>3. Good(node, Settled)' /\ (node.link = "down" => Down(node))'
  BY <1>0, <1>1 DEF IInv, Down, Good, OneStage, Holds, Certified, Found, Located,
     Current, Alone, Early, Reading, Sending, Taking, Ends, HasCertChars
<1> QED
  BY <1>2, <1>3 DEF IInv

(* Every step keeps the inductive invariant.                               *)
THEOREM Inductive == Spec => []IInv
<1>1. IInv /\ Next => IInv'
  BY StartInv, IssueInv, DiscoverInv, InfoDoneInv, ServerCertDoneInv, ServerCertFailsInv,
     DeviceCertDoneInv, UplinkDoneInv, DownlinkDoneInv, UnsubscribedInv, RefuseInv,
     KickInv, UplinkEndInv, DisconnectInv DEF Next, ClientCalls
<1> QED
  BY <1>1, InitInv, StutterInv, PTL DEF Spec

(* The variables keep their types, and the record points to no context     *)
(* that is gone.                                                           *)
THEOREM TypeCorrect == Spec => []TypeOK
<1>1. IInv => TypeOK
  BY DEF IInv
<1> QED
  BY <1>1, Inductive, PTL

(***************************************************************************)
(* lib/bt/info.c:53, lib/bt/server_cert.c:100, lib/bt/device_cert.c:60: a  *)
(* node that has the characteristics of the certificates is synchronised   *)
(* only when both are settled, whatever the cloud calls back and when; the *)
(* server's also when neither side had one as their serials were compared, *)
(* in which case it goes on without (lib/info.c:91).                       *)
(***************************************************************************)
THEOREM CertsBeforeSync == Spec => []CertsFirst
<1>1. IInv => CertsFirst
  <2> SUFFICES ASSUME IInv, node.sub["uplink"] = "live", HasCertChars(node)
               PROVE  Settled = {"server", "device"}
    BY DEF CertsFirst
  <2>1. "server" \in Settled /\ "device" \in Settled
    BY DEF IInv, Good, Certified
  <2> QED
    BY <2>1 DEF Settled
<1> QED
  BY <1>1, Inductive, PTL

(***************************************************************************)
(* The server certificate's sender and the downlink's find their own       *)
(* packetizer in the record, unless the client calls back about an earlier *)
(* session.                                                                *)
(***************************************************************************)
THEOREM PacketizerOwn == ASSUME ~Late PROVE Spec => []PacketizerIsOwn
<1>1. IInv => PacketizerIsOwn
  BY DEF IInv, Good, Alone, PacketizerIsOwn
<1> QED
  BY <1>1, Inductive, PTL

(***************************************************************************)
(* When pouch_gateway_bt_start clears the record, nothing in it is lost    *)
(* but a downlink of which the node was never told.                        *)
(***************************************************************************)
THEOREM Lossless == Spec => NothingLost
<1>1. IInv /\ [Next]_vars =>
        [session' # session =>
           /\ ~node.info /\ ~node.server /\ ~node.device
           /\ node.uplink = 0 /\ ~node.receiver /\ node.downlink \notin kicked
           /\ \A a \in Attrs : ~Ends(node, a)]_vars
  <2> SUFFICES ASSUME IInv, [Next]_vars, session' # session
               PROVE  /\ ~node.info /\ ~node.server /\ ~node.device
                      /\ node.uplink = 0 /\ ~node.receiver
                      /\ node.downlink \notin kicked
                      /\ \A a \in Attrs : ~Ends(node, a)
    OBVIOUS
  <2>1. Start
    BY DEF Next, Issue, DiscoverStep, InfoDone, ServerCertDone, ServerCertFails,
       DeviceCertDone, UplinkDone, DownlinkDone, Unsubscribed, Refuse, Callback,
       ClientCalls, Kick, UplinkEnd, Disconnect, vars
  <2>2. Down(node) /\ Holds(node) /\ Current(node)
    BY <2>1 DEF Start, IInv, Good
  <2> QED
    BY <2>2, AttrsAre
    DEF Down, Holds, Current, Reading, Sending, Taking, Ends, AttrSet
<1> QED
  BY <1>1, Inductive, PTL DEF Spec, NothingLost

(***************************************************************************)
(* lib/bt/connect.c:53: on nodes with Plain tables, a characteristic is    *)
(* subscribed to by its own CCC descriptor.                                *)
(***************************************************************************)
THEOREM SubscribesOwn ==
  ASSUME \A t \in Tables : Plain(t)
  PROVE  Spec => []SubscribesToOwn
<1>1. IInv => SubscribesToOwn
  <2> SUFFICES ASSUME IInv, NEW a \in Attrs,
                      node.sub[a] = "live", node.value[a] # 0
               PROVE  node.ccc[a] = OwnCcc(table, a)
    BY DEF SubscribesToOwn
  <2>1. table \in Table /\ Plain(table)
    BY InvStates DEF IInv, TypeOK
  <2>2. Located(node)
    BY DEF IInv, Good, Found
  <2> QED
    BY <2>1, <2>2, OwnCccFound DEF Located
<1> QED
  BY <1>1, Inductive, PTL

-----------------------------------------------------------------------------
(* Why a session ends: the safety that SessionEnds rests on.               *)

Syncs(n) == n.sub["uplink"] = "live" /\ n.receiver

(* A callback that somebody owes the session: of a discovery, of a         *)
(* subscription that the node answers on or that stops, or of the client   *)
(* about the uplink that was closed or its downlink. These are the guards  *)
(* of the steps that FairSpec is fair to.                                  *)
Due ==
  \/ node.disc # "none"
  \/ Reading(node) /\ node.value["info"] # 0
  \/ Sending(node) \/ Taking(node) \/ Syncs(node) \/ Ends(node, "downlink")
  \/ session \in closed \cap downlinks /\ node.sub["downlink"] = "none"

(***************************************************************************)
(* A session is never stuck: between two handlers of lib/bt, whatever they *)
(* found, skipped or failed to do, another one is due, or the application  *)
(* was told to disconnect (pouch_gateway_bt_finished), as long as the node *)
(* plays along.                                                            *)
(***************************************************************************)
SessionIsDue == node.link = "up" /\ PlaysAlong => Due

(* The stages of a session, counted from its end. *)
Stage(n) ==
  CASE n.disc # "none" ->
         [svc16 |-> 13, svc128 |-> 12, chars |-> 11, descr |-> 10][n.disc]
    [] Reading(n) -> 9
    [] Sending(n) -> IF n.sub["server_cert"] = "live" THEN 7
                     ELSE IF n.next = "server_cert" THEN 8 ELSE 6
    [] Taking(n)  -> 5
    [] ~Early(n)  -> IF n.sub["uplink"] = "live" THEN 4
                     ELSE CASE n.sub["downlink"] = "live" -> 2
                            [] n.sub["downlink"] = "stopping" -> 1
                            [] OTHER -> 3

(* What of earlier stages is still to be told to the gateway: the end of a *)
(* subscription, and that of the uplink by the cloud.                      *)
Loose ==
  {a \in {"info", "device_cert", "uplink"} : node.sub[a] = "stopping"}
    \cup {"cloud" : s \in uplinks \cap {session}}

(* The certificate that was sent is not the newest any more. *)
Renewed ==
  /\ node.sub["server_cert"] = "live" /\ node'.next = "server_cert"
  /\ Stage(node') = Stage(node) + 1

(* A block arrives for a downlink whose subscription stops. *)
Rekicked ==
  /\ node.sub["downlink"] = "stopping" /\ node'.sub["downlink"] = "live"
  /\ Stage(node') = Stage(node) + 1

(***************************************************************************)
(* No stage of a session is entered twice: every callback brings it nearer *)
(* to its end, or ties a loose end, but for a certificate that is renewed  *)
(* and a downlink that is kicked once more (the two that FairSpec needs    *)
(* strong fairness for). The node refuses no subscription; main getting    *)
(* its first certificate is no callback.                                   *)
(***************************************************************************)
SessionComesNearer ==
  [][node.link = "up" /\ node'.link = "up" /\ ~refused' /\ issued' = issued =>
       \/ Stage(node') < Stage(node)
       \/ Stage(node') = Stage(node) /\ Loose' \subseteq Loose /\ Loose' # Loose
       \/ Renewed \/ Rekicked]_vars

-----------------------------------------------------------------------------
(* What the operators that start a transfer leave under way.               *)

(* An uplink, with a downlink of the session that is not kicked yet. *)
Uploads(n) ==
  Syncs(n) /\ n.downlink = session /\ n.sub["downlink"] = "none"

LEMMA FinishEnds == \A n \in Record : Finish(n).link # "up"
BY Finishing DEF Finished

LEMMA UplinkLeads ==
  ASSUME session \in Nat, NEW n \in Record, NEW m \in UplinkStart(n)
  PROVE  m.link # "up" \/ Uploads(m)
<1> DEFINE d == [n EXCEPT !.downlink = session, !.sender = TRUE,
                          !.packetizer = "downlink", !.sub["downlink"] = "none"]
           u == [d EXCEPT !.uplink = session]
           r == [u EXCEPT !.receiver = TRUE]
           c == CleanDownlink(n)
<1>1. c \in Record
  BY CleaningDownlink
<1>2. /\ d \in Record /\ d.downlink = session
      /\ d.sub = [n.sub EXCEPT !["downlink"] = "none"]
  BY OpeningDownlink
<1> HIDE DEF d
<1>3. u \in Record /\ r \in Record /\ r.downlink = d.downlink /\ r.sub = d.sub
  BY <1>2, OpeningUplink
<1>4. r.receiver
  BY <1>3 DEF Record
<1>5. \/ \E x \in {n, c, d, u, r} : m = Finish(x)
      \/ m = Finish(n)
      \/ m \in Subscribed(r, "uplink")
  BY DEF UplinkStart, d
<1> HIDE DEF u, r, c
<1>6. ASSUME m \in Subscribed(r, "uplink")
      PROVE  Uploads(m)
  <2>1. /\ "uplink" \in Attrs /\ "downlink" \in Attrs
        /\ r.sub \in [Attrs -> {"none", "live", "stopping", "refused"}]
        /\ n.sub \in [Attrs -> {"none", "live", "stopping", "refused"}]
    BY <1>3, AttrsAre DEF AttrSet, Record
  <2>2. Back(m, r) /\ m.sub = [r.sub EXCEPT !["uplink"] = "live"]
    BY <1>3, <1>6, <2>1, Subscribing
  <2> QED
    BY <1>2, <1>3, <1>4, <2>1, <2>2 DEF Uploads, Syncs, Back
<1> QED
  BY <1>1, <1>2, <1>3, <1>5, <1>6, FinishEnds

LEMMA DeviceLeads ==
  ASSUME session \in Nat, NEW n \in Record, NEW m \in DeviceCertRead(n)
  PROVE  m.link # "up" \/ Uploads(m) \/ Taking(m)
<1> DEFINE c == CleanDevice(n)
           d == [n EXCEPT !.device = TRUE]
<1>1. c \in Record /\ d \in Record
  BY DEF CleanDevice, Record
<1>2. m \in UplinkStart(n) \/ m = Finish(c) \/ m \in Subscribed(d, "device_cert")
  BY DEF DeviceCertRead
<1> HIDE DEF c, d
<1>3. ASSUME m \in Subscribed(d, "device_cert")
      PROVE  Taking(m)
  <2>1. /\ "device_cert" \in Attrs
        /\ d.sub \in [Attrs -> {"none", "live", "stopping", "refused"}]
    BY <1>1, AttrsAre DEF AttrSet, Record
  <2>2. m.sub = [d.sub EXCEPT !["device_cert"] = "live"]
    BY <1>1, <1>3, <2>1, Subscribing
  <2> QED
    BY <2>1, <2>2 DEF Taking
<1> QED
  BY <1>1, <1>2, <1>3, FinishEnds, UplinkLeads

LEMMA ServerLeads ==
  ASSUME session \in Nat, NEW n \in Record, NEW m \in ServerCertWrite(n)
  PROVE  m.link # "up" \/ Uploads(m) \/ Taking(m) \/ m.sub["server_cert"] = "live"
<1> DEFINE c == CleanServer(n)
           d == [n EXCEPT !.server = TRUE, !.packetizer = "server", !.next = "end"]
<1>1. c \in Record /\ d \in Record
  BY DEF CleanServer, Record
<1>2. m \in DeviceCertRead(n) \/ m = Finish(c) \/ m \in Subscribed(d, "server_cert")
  BY DEF ServerCertWrite
<1> HIDE DEF c, d
<1>3. ASSUME m \in Subscribed(d, "server_cert")
      PROVE  m.sub["server_cert"] = "live"
  <2>1. /\ "server_cert" \in Attrs
        /\ d.sub \in [Attrs -> {"none", "live", "stopping", "refused"}]
    BY <1>1, AttrsAre DEF AttrSet, Record
  <2>2. m.sub = [d.sub EXCEPT !["server_cert"] = "live"]
    BY <1>1, <1>3, <2>1, Subscribing
  <2> QED
    BY <2>1, <2>2
<1> QED
  BY <1>1, <1>2, <1>3, FinishEnds, DeviceLeads

LEMMA InfoLeads ==
  ASSUME NEW n \in Record, NEW m \in InfoReadStart(n)
  PROVE  m.link # "up" \/ Reading(m)
<1> DEFINE c == [n EXCEPT !.sprov = FALSE, !.dprov = FALSE]
           d == [c EXCEPT !.info = TRUE]
<1>1. c \in Record /\ d \in Record
  BY DEF Record
<1>2. m = Finish(c) \/ m \in Subscribed(d, "info")
  BY DEF InfoReadStart
<1> HIDE DEF c, d
<1>3. ASSUME m \in Subscribed(d, "info")
      PROVE  Reading(m)
  <2>1. /\ "info" \in Attrs
        /\ d.sub \in [Attrs -> {"none", "live", "stopping", "refused"}]
    BY <1>1, AttrsAre DEF AttrSet, Record
  <2>2. m.sub = [d.sub EXCEPT !["info"] = "live"]
    BY <1>1, <1>3, <2>1, Subscribing
  <2> QED
    BY <2>1, <2>2 DEF Reading
<1> QED
  BY <1>1, <1>2, <1>3, FinishEnds

-----------------------------------------------------------------------------
(* One stage at a time, as far as the record alone tells. *)
Sole(n) ==
  /\ n.disc # "none" => \A a \in Attrs : ~Ends(n, a)
  /\ Reading(n) => ~Sending(n) /\ ~Taking(n)
  /\ Sending(n) => ~Taking(n)
  /\ Early(n) => ~Ends(n, "uplink") /\ (~Late => ~Ends(n, "downlink"))

LEMMA InvSole == IInv => Sole(node) /\ node \in Record
BY DEF IInv, Good, OneStage, Alone, Sole

LEMMA NextSole == IInv' => Sole(node') /\ node' \in Record
BY DEF IInv, Good, OneStage, Alone, Sole, Early, Reading, Sending, Taking, Ends

LEMMA Stages ==
  ASSUME NEW n \in Record, Sole(n)
  PROVE  /\ n.disc = "svc16" => Stage(n) = 13
         /\ n.disc = "svc128" => Stage(n) = 12
         /\ n.disc = "chars" => Stage(n) = 11
         /\ n.disc = "descr" => Stage(n) = 10
         /\ Reading(n) => Stage(n) = 9
         /\ n.sub["server_cert"] = "live" => Stage(n) = 7
         /\ n.sub["server_cert"] = "stopping" =>
              Stage(n) = IF n.next = "server_cert" THEN 8 ELSE 6
         /\ Taking(n) => Stage(n) = 5
         /\ n.sub["uplink"] = "live" => Stage(n) = 4
         /\ ~Early(n) /\ n.sub["uplink"] # "live" =>
              Stage(n) = CASE n.sub["downlink"] = "live" -> 2
                           [] n.sub["downlink"] = "stopping" -> 1
                           [] OTHER -> 3
<1>1. n.disc \in {"none", "svc16", "svc128", "chars", "descr"}
  BY DEF Record
<1>2. /\ n.disc # "none" => ~Reading(n) /\ ~Sending(n) /\ ~Taking(n)
      /\ Early(n) => n.sub["uplink"] # "live"
  BY AttrsAre DEF Sole, Reading, Sending, Taking, Ends, AttrSet
<1>3. Early(n) <=> n.disc # "none" \/ Reading(n) \/ Sending(n) \/ Taking(n)
  BY DEF Early
<1>4. n.disc # "none" =>
        Stage(n) = [svc16 |-> 13, svc128 |-> 12, chars |-> 11, descr |-> 10][n.disc]
  BY <1>2, <1>3 DEF Stage
<1>5. Reading(n) => Stage(n) = 9
  BY <1>2, <1>3 DEF Stage, Sole
<1>6. Sending(n) => Stage(n) = IF n.sub["server_cert"] = "live" THEN 7
                               ELSE IF n.next = "server_cert" THEN 8 ELSE 6
  BY <1>2, <1>3 DEF Stage, Sole
<1>7. Taking(n) => Stage(n) = 5
  BY <1>2, <1>3 DEF Stage, Sole
<1>8. ~Early(n) => Stage(n) = IF n.sub["uplink"] = "live" THEN 4
                              ELSE CASE n.sub["downlink"] = "live" -> 2
                                     [] n.sub["downlink"] = "stopping" -> 1
                                     [] OTHER -> 3
  BY <1>3 DEF Stage
<1> HIDE DEF Stage
<1> QED
  BY <1>1, <1>2, <1>4, <1>5, <1>6, <1>7, <1>8 DEF Sending, Ends

(***************************************************************************)
(* What a session that is under way has: an early stage, a downlink that   *)
(* is subscribed to, or one that will be, the uplink of the session being  *)
(* subscribed to or closed.                                                *)
(***************************************************************************)
UnderWay(n) ==
  \/ Early(n) \/ Ends(n, "downlink")
  \/ n.downlink = session /\ (Syncs(n) \/ session \in closed)

Progresses ==
  node.link = "up" /\ ~refused =>
    /\ UnderWay(node)
    /\ Reading(node) => HasCertChars(node)
    /\ node.sub["uplink"] = "live" => session \notin closed
    /\ ~Late /\ Ends(node, "downlink") => session \in closed
    /\ ~Early(node) => node.sub["downlink"] # "refused"

(* A stage ends and another begins. *)
Enters(n) ==
  n.link # "up" \/ Uploads(n) \/ (Early(n) /\ (Reading(n) => HasCertChars(n)))

LEMMA EntersProgresses ==
  ASSUME IInv, IInv', Early(node), Track, session' = session, Enters(node')
  PROVE  Progresses'
<1> SUFFICES ASSUME node'.link = "up"
             PROVE  /\ UnderWay(node)' /\ (Reading(node') => HasCertChars(node'))
                    /\ node'.sub["uplink"] = "live" => session' \notin closed'
                    /\ ~Late => ~Ends(node', "downlink")
                    /\ ~Early(node') => node'.sub["downlink"] # "refused"
  BY DEF Progresses, Ends, Early, Reading, Sending, Taking
<1>1. session' \notin closed'
  <2> node.uplink = 0 /\ session \notin closed
    BY DEF IInv, Good, OneStage
  <2> QED
    BY DEF Track
<1>2. Sole(node')
  BY NextSole
<1>3. CASE Uploads(node')
  <2>1. Ends(node', "uplink") /\ ~Ends(node', "downlink")
    BY <1>3 DEF Uploads, Syncs, Ends
  <2>2. ~Early(node') /\ node'.sub["downlink"] # "refused"
    BY <1>2, <1>3, <2>1 DEF Sole, Uploads
  <2> QED
    BY <1>1, <1>3, <2>1, <2>2 DEF UnderWay, Uploads, Syncs, Early
<1>4. CASE Early(node') /\ (Reading(node') => HasCertChars(node'))
  BY <1>1, <1>2, <1>4 DEF UnderWay, Sole, Early, Reading, Sending, Taking, Ends
<1> QED
  BY <1>3, <1>4 DEF Enters

-----------------------------------------------------------------------------
(* What each action leads to. *)

LEMMA StartLeads == IInv /\ Start => node'.link # "up" \/ node'.disc = "svc16"
<1> SUFFICES ASSUME Start PROVE node'.link # "up" \/ node'.disc = "svc16"
  OBVIOUS
<1>1. Cleared("up") \in Record
  BY DEF Cleared, Record, Zeroes
<1> QED
  BY <1>1, Discovering DEF Start

LEMMA DiscoverLeads ==
  ASSUME IInv, DiscoverStep
  PROVE  \/ node'.link # "up"
         \/ node'.disc = "svc128" /\ node.disc = "svc16"
         \/ node'.disc = "chars" /\ node.disc \in {"svc16", "svc128"}
         \/ node'.disc = "descr" /\ node.disc = "chars"
         \/ node.disc = "descr" /\ Reading(node') /\ HasCertChars(node')
         \/ node.disc = "descr" /\ Uploads(node')
<1> DEFINE k == Len(table.handles)
<1>1. /\ node \in Record /\ table \in Table /\ session \in Nat
      /\ node.disc \in {"svc16", "svc128", "chars", "descr"}
  BY InvStates DEF DiscoverStep, States, Record
<1>2. k \in 0 .. k
  BY <1>1 DEF Table
<1>3. CASE node.disc = "chars"
  <2> DEFINE v == [node EXCEPT !.value = Values(table, k)]
  <2>1. v \in Record
    BY <1>1, <1>2, ValuesTyped DEF Record
  <2>2. node' \in Discover(v, "descr")
    BY <1>3 DEF DiscoverStep, CharsDone, Discover
  <2> HIDE DEF v
  <2> QED
    BY <1>3, <2>1, <2>2, Discovering
<1>4. CASE node.disc = "descr"
  <2> DEFINE v == [node EXCEPT !.ccc = Cccs(table, node.value, k), !.disc = "none"]
  <2>1. v \in Record
    <3> node.value \in [Attrs -> Nat]
      BY <1>1 DEF Record
    <3> Cccs(table, node.value, k) \in [Attrs -> Nat]
      BY <1>1, <1>2, CccsTyped
    <3> QED
      BY <1>1 DEF Record
  <2>2. node' \in IF HasCertChars(v) THEN InfoReadStart(v) ELSE UplinkStart(v)
    BY <1>4 DEF DiscoverStep, DescrDone
  <2> HIDE DEF v
  <2>3. CASE HasCertChars(v)
    <3>1. InfoBegins(node', v) /\ (node'.link # "up" \/ Reading(node'))
      BY <2>1, <2>2, <2>3, InfoStarting, InfoLeads
    <3> QED
      BY <1>4, <2>3, <3>1 DEF InfoBegins, HasCertChars
  <2>4. CASE ~HasCertChars(v)
    BY <1>1, <1>4, <2>1, <2>2, <2>4, UplinkLeads
  <2> QED
    BY <2>3, <2>4
<1>5. CASE node.disc \in {"svc16", "svc128"}
  <2>1. CASE node' \in Discover(node, "chars")
    BY <1>1, <1>5, <2>1, Discovering
  <2>2. CASE node' \in NoService(node)
    <3>1. CASE node.disc = "svc16"
      BY <1>1, <2>2, <3>1, Discovering DEF NoService
    <3>2. CASE node.disc # "svc16"
      <4>1. node' = Finish([node EXCEPT !.disc = "none"])
        BY <2>2, <3>2 DEF NoService
      <4>2. [node EXCEPT !.disc = "none"] \in Record
        BY <1>1 DEF Record
      <4> QED
        BY <4>1, <4>2, FinishEnds
    <3> QED
      BY <3>1, <3>2
  <2> QED
    BY <1>5, <2>1, <2>2 DEF DiscoverStep
<1> QED
  BY <1>1, <1>3, <1>4, <1>5

(* What begins before a subscription stops. *)
LEMMA StopLeads ==
  ASSUME NEW m \in Record, NEW a \in {"info", "device_cert"}
  PROVE  LET q == Stop(m, a)
         IN /\ q.link = m.link /\ (Uploads(m) => Uploads(q))
            /\ a = "info" /\ Taking(m) => Taking(q)
            /\ m.sub["server_cert"] = "live" => q.sub["server_cert"] = "live"
<1> DEFINE q == Stop(m, a)
<1>1. /\ a \in Attrs /\ Except(q, m) /\ q.sub = [m.sub EXCEPT ![a] = "stopping"]
  BY Stopping, AttrsAre DEF AttrSet
<1>2. m.sub \in [Attrs -> {"none", "live", "stopping", "refused"}]
  BY DEF Record
<1> HIDE DEF q
<1>3. \A b \in Attrs \ {a} : q.sub[b] = m.sub[b]
  BY <1>1, <1>2
<1>4. {"uplink", "downlink", "server_cert"} \subseteq Attrs \ {a}
  BY AttrsAre DEF AttrSet
<1>5. a = "info" => q.sub["device_cert"] = m.sub["device_cert"]
  BY <1>3, AttrsAre DEF AttrSet
<1>6. /\ q.link = m.link /\ (Uploads(m) => Uploads(q))
      /\ a = "info" /\ Taking(m) => Taking(q)
      /\ m.sub["server_cert"] = "live" => q.sub["server_cert"] = "live"
  BY <1>1, <1>3, <1>4, <1>5 DEF Except, Back, Uploads, Syncs, Taking
<1> QED
  BY <1>6 DEF q

LEMMA InfoDoneLeads ==
  ASSUME IInv, InfoDone
  PROVE  /\ Reading(node)
         /\ \/ node'.link # "up" \/ Uploads(node') \/ Taking(node')
            \/ node'.sub["server_cert"] = "live"
<1> DEFINE c == CleanInfo(node)
<1>1. /\ node \in Record /\ c \in Record /\ session \in Nat /\ Reading(node)
  BY InvStates DEF InfoDone, Reading, States, CleanInfo, Record
<1> HIDE DEF c
<1>2. ASSUME NEW parsed \in BOOLEAN,
             node' \in Stopped(ServerCertWrite([c EXCEPT
                               !.sprov = parsed /\ SerialsMatch,
                               !.dprov = parsed /\ "device" \in has]), "info")
      PROVE  \/ node'.link # "up" \/ Uploads(node') \/ Taking(node')
             \/ node'.sub["server_cert"] = "live"
  <2> DEFINE n == [c EXCEPT !.sprov = parsed /\ SerialsMatch,
                            !.dprov = parsed /\ "device" \in has]
  <2>1. n \in Record
    BY <1>1 DEF Record, SerialsMatch
  <2>2. PICK m \in ServerCertWrite(n) : node' = Stop(m, "info")
    BY <1>2 DEF Stopped
  <2> HIDE DEF n
  <2>3. m \in Record
    BY <1>1, <2>1, ServerStarting DEF ServerBegins
  <2> QED
    BY <1>1, <2>1, <2>2, <2>3, ServerLeads, StopLeads
<1>3. CASE node' = Stop(Finish(c), "info")
  <2> DEFINE f == Finish(c)
  <2>1. f \in Record /\ f.link # "up"
    BY <1>1, Finishing DEF Finished
  <2>2. node' = Stop(f, "info")
    BY <1>3
  <2> HIDE DEF f
  <2> QED
    BY <1>1, <2>1, <2>2, StopLeads
<1> QED
  BY <1>1, <1>2, <1>3 DEF InfoDone, c

LEMMA DeviceCertDoneLeads ==
  ASSUME IInv, DeviceCertDone
  PROVE  Taking(node) /\ (node'.link # "up" \/ Uploads(node'))
<1> DEFINE c == CleanDevice(node)
<1>1. /\ node \in Record /\ c \in Record /\ session \in Nat /\ Taking(node)
  BY InvStates DEF DeviceCertDone, Taking, States, CleanDevice, Record
<1> HIDE DEF c
<1>2. CASE node' \in Stopped(UplinkStart(c), "device_cert")
  <2>1. PICK m \in UplinkStart(c) : node' = Stop(m, "device_cert")
    BY <1>2 DEF Stopped
  <2>2. m \in Record
    BY <1>1, <2>1, UplinkStarting DEF UplinkBegins
  <2> QED
    BY <1>1, <2>1, <2>2, UplinkLeads, StopLeads
<1>3. CASE node' = Stop(Finish(c), "device_cert")
  <2> Finish(c) \in Record /\ Finish(c).link # "up"
    BY <1>1, Finishing DEF Finished
  <2> QED
    BY <1>1, <1>3, StopLeads
<1> QED
  BY <1>1, <1>2, <1>3 DEF DeviceCertDone, c

(* server_cert_notify_cb, with the last packet or an error.                *)
LEMMA ServerCertLeads ==
  ASSUME IInv,
         \/ \E newest \in BOOLEAN : ServerCertDone(newest)
         \/ ServerCertFails
  PROVE  /\ node.sub["server_cert"] = "live" /\ node'.sub["server_cert"] = "stopping"
         /\ ~Reading(node') /\ Sending(node')
<1>1. PICK next \in {"device_cert", "server_cert", "end"} :
        node' = Stop([node EXCEPT !.next = next], "server_cert")
  BY Zenon DEF ServerCertDone, ServerCertFails
<1> DEFINE c == [node EXCEPT !.next = next]
<1>n. node \in Record /\ "server_cert" \in Attrs
  BY InvStates, AttrsAre DEF AttrSet
<1>2. c \in Record /\ c.sub = node.sub
  BY <1>n DEF Record
<1>s. node.sub["server_cert"] = "live"
  BY Zenon DEF ServerCertDone, ServerCertFails
<1>c. node' = Stop(c, "server_cert")
  BY <1>1
<1> HIDE DEF c
<1>3. node'.sub = [node.sub EXCEPT !["server_cert"] = "stopping"]
  BY <1>n, <1>c, <1>2, Stopping
<1>4. node.sub \in [Attrs -> {"none", "live", "stopping", "refused"}]
  BY <1>n DEF Record
<1>5. ~Reading(node)
  BY <1>s, InvSole DEF Sole, Sending, Ends
<1> QED
  BY <1>s, <1>3, <1>4, <1>5, AttrsAre DEF Reading, Sending, Ends, AttrSet

(* server_cert_notify_cb, without data.                                    *)
LEMMA ServerCertEndLeads ==
  ASSUME IInv, Unsubscribed("server_cert")
  PROVE  /\ node.sub["server_cert"] = "stopping"
         /\ \/ node'.link # "up" \/ Uploads(node') \/ Taking(node')
            \/ node'.sub["server_cert"] = "live" /\ node.next = "server_cert"
<1> DEFINE d == [node EXCEPT !.sub["server_cert"] = "none"]
           c == CleanServer(d)
<1>1. /\ node \in Record /\ c \in Record /\ c.next = node.next /\ d.next = node.next
      /\ session \in Nat /\ node.sub["server_cert"] = "stopping"
      /\ node.next \in {"device_cert", "server_cert", "end"}
  BY InvStates DEF CleanServer, Record, States, Unsubscribed
<1>2. PICK e \in CASE node.next = "device_cert" -> DeviceCertRead(c)
                    [] node.next = "server_cert" -> ServerCertWrite(c)
                    [] node.next = "end"         -> {Finish(c)} :
        node' = [e EXCEPT !.next = "end"]
  BY <1>1 DEF Unsubscribed, SubEnds, ServerCertEnds
<1> HIDE DEF c
<1>3. /\ e \in Record
      /\ \/ e.link # "up" \/ Uploads(e) \/ Taking(e)
         \/ e.sub["server_cert"] = "live" /\ node.next = "server_cert"
  <2>1. CASE node.next = "device_cert"
    BY <1>1, <1>2, <2>1, DeviceStarting, DeviceLeads DEF DeviceBegins
  <2>2. CASE node.next = "server_cert"
    BY <1>1, <1>2, <2>2, ServerStarting, ServerLeads DEF ServerBegins
  <2>3. CASE node.next = "end"
    BY <1>1, <1>2, <2>3, Finishing DEF Finished
  <2> QED
    BY <1>1, <2>1, <2>2, <2>3
<1>4. /\ node'.link = e.link /\ node'.sub = e.sub /\ node'.receiver = e.receiver
      /\ node'.downlink = e.downlink
  BY <1>2, <1>3 DEF Record
<1> QED
  BY <1>1, <1>3, <1>4 DEF Uploads, Syncs, Taking

-----------------------------------------------------------------------------
(* The stages after the certificates: one subscription changes.            *)
Beside(m, n, a) ==
  /\ m.link = n.link /\ m.disc = n.disc /\ m.value = n.value /\ m.next = n.next
  /\ \A b \in Attrs \ {a} : m.sub[b] = n.sub[b]

LEMMA StopBeside ==
  ASSUME NEW n \in Record, NEW m \in Record, NEW a \in Attrs,
         Front(m, n), m.link = n.link, m.next = n.next, m.sub = n.sub
  PROVE  LET q == Stop(m, a)
         IN /\ Beside(q, n, a) /\ q.sub[a] = "stopping"
            /\ q.uplink = m.uplink /\ q.receiver = m.receiver
            /\ q.downlink = m.downlink
<1> DEFINE q == Stop(m, a)
<1>1. Except(q, m) /\ q.sub = [m.sub EXCEPT ![a] = "stopping"]
  BY Stopping
<1>2. m.sub \in [Attrs -> {"none", "live", "stopping", "refused"}]
  BY DEF Record
<1> HIDE DEF q
<1>3. /\ Beside(q, n, a) /\ q.sub[a] = "stopping"
      /\ q.uplink = m.uplink /\ q.receiver = m.receiver
      /\ q.downlink = m.downlink
  BY <1>1, <1>2 DEF Beside, Except, Front, Back
<1> QED
  BY <1>3 DEF q

LEMMA UplinkDoneLeads ==
  ASSUME IInv, UplinkDone, node'.link = "up"
  PROVE  /\ node.sub["uplink"] = "live" /\ node'.sub["uplink"] = "stopping"
         /\ Beside(node', node, "uplink")
         /\ node'.downlink = node.downlink /\ session \in closed'
<1>1. /\ node \in Record /\ "uplink" \in Attrs /\ session' = session
      /\ node.sub["uplink"] = "live"
  BY InvStates, AttrsAre DEF UplinkDone, Callback, AttrSet
<1>2. PICK left \in {0, node.uplink} :
        \/ node.uplink # 0 /\ node' = Stop([node EXCEPT !.uplink = 0], "uplink")
        \/ node' = Stop(Finish([node EXCEPT !.uplink = left]), "uplink")
  BY DEF UplinkDone
<1>3. CASE node' = Stop(Finish([node EXCEPT !.uplink = left]), "uplink")
  <2> DEFINE c == [node EXCEPT !.uplink = left]
             f == Finish(c)
  <2>1. c \in Record
    BY <1>1 DEF Record
  <2> HIDE DEF c
  <2>2. f \in Record /\ f.link # "up"
    BY <2>1, Finishing DEF Finished
  <2>3. node' = Stop(f, "uplink")
    BY <1>3 DEF c
  <2> HIDE DEF f
  <2> QED
    BY <1>1, <2>2, <2>3, Stopping DEF Except
<1>4. CASE node.uplink # 0 /\ node' = Stop([node EXCEPT !.uplink = 0], "uplink")
  <2> DEFINE c == [node EXCEPT !.uplink = 0]
  <2>1. /\ c \in Record /\ c.link = node.link /\ Front(c, node) /\ c.next = node.next
        /\ c.sub = node.sub /\ c.downlink = node.downlink /\ c.uplink = 0
    BY <1>1 DEF Record, Front
  <2>2. node' = Stop(c, "uplink")
    BY <1>4
  <2> HIDE DEF c
  <2>3. /\ Beside(node', node, "uplink") /\ node'.sub["uplink"] = "stopping"
        /\ node'.downlink = node.downlink /\ node'.uplink = 0
    BY <1>1, <2>1, <2>2, StopBeside
  <2>4. node.uplink = session
    BY <1>4 DEF IInv, Good, Current
  <2>5. session \in closed'
    BY <1>4, <2>3, <2>4 DEF UplinkDone, Track
  <2> QED
    BY <1>1, <2>3, <2>5
<1> QED
  BY <1>2, <1>3, <1>4

LEMMA DownlinkDoneLeads ==
  ASSUME IInv, DownlinkDone
  PROVE  /\ node.sub["downlink"] = "live" /\ node'.sub["downlink"] = "stopping"
         /\ Beside(node', node, "downlink") /\ closed' = closed
<1>1. node \in Record /\ "downlink" \in Attrs /\ node.sub["downlink"] = "live"
  BY InvStates, AttrsAre DEF DownlinkDone, AttrSet
<1>2. PICK left \in {0, node.downlink} :
        node' = Stop([node EXCEPT !.downlink = left], "downlink")
  BY DEF DownlinkDone
<1> DEFINE c == [node EXCEPT !.downlink = left]
<1>3. /\ c \in Record /\ c.link = node.link /\ Front(c, node) /\ c.next = node.next
      /\ c.sub = node.sub /\ c.uplink = node.uplink
  BY <1>1 DEF Record, Front
<1>4. node' = Stop(c, "downlink")
  BY <1>2
<1> HIDE DEF c
<1>5. /\ Beside(node', node, "downlink") /\ node'.sub["downlink"] = "stopping"
      /\ node'.uplink = node.uplink
  BY <1>1, <1>3, <1>4, StopBeside
<1>6. closed' = closed
  BY <1>5 DEF DownlinkDone, Track
<1> QED
  BY <1>1, <1>5, <1>6

LEMMA UnsubscribedLeads ==
  ASSUME IInv, NEW a \in Attrs \ {"server_cert"}, Unsubscribed(a), node'.link = "up"
  PROVE  /\ a # "downlink" /\ node.sub[a] = "stopping" /\ node'.sub[a] = "none"
         /\ Beside(node', node, a) /\ closed' = closed
         /\ node'.downlink = node.downlink
         /\ node'.uplink = node.uplink
         /\ a # "uplink" => node'.receiver = node.receiver
<1> DEFINE c == [node EXCEPT !.sub[a] = "none"]
<1>1. /\ node \in Record /\ node.sub[a] = "stopping" /\ Track
      /\ node' \in SubEnds(node, a) /\ a \in Attrs
  BY InvStates, AttrsAre DEF Unsubscribed
<1>2. /\ Except(c, node) /\ c.sub = [node.sub EXCEPT ![a] = "none"]
  BY <1>1 DEF Except, Record, Front, Back
<1>3. node.sub \in [Attrs -> {"none", "live", "stopping", "refused"}]
  BY <1>1 DEF Record
<1>4. node' \in CASE a = "info"        -> {CleanInfo(c)}
                  [] a = "server_cert" -> ServerCertEnds(c)
                  [] a = "device_cert" -> {CleanDevice(c)}
                  [] a = "uplink"      -> {[c EXCEPT !.receiver = FALSE]}
                  [] a = "downlink"    -> {DownlinkEnds(c)}
  BY <1>1 DEF SubEnds
<1> HIDE DEF c
<1>5. a # "downlink"
  <2> SUFFICES ASSUME a = "downlink" PROVE FALSE
    OBVIOUS
  <2>1. node' = Finish(CleanDownlink(c))
    BY <1>4 DEF DownlinkEnds
  <2>2. CleanDownlink(c) \in Record
    BY <1>2, CleaningDownlink DEF Except
  <2> QED
    BY <2>1, <2>2, FinishEnds
<1>6. /\ node'.link = c.link /\ node'.disc = c.disc /\ node'.value = c.value
      /\ node'.next = c.next /\ node'.sub = c.sub /\ node'.uplink = c.uplink
      /\ node'.downlink = c.downlink /\ (a # "uplink" => node'.receiver = c.receiver)
  <2>1. CASE a = "info"
    BY <1>2, <1>4, <2>1 DEF CleanInfo, Except, Record
  <2>2. CASE a = "device_cert"
    BY <1>2, <1>4, <2>2 DEF CleanDevice, Except, Record
  <2>3. CASE a = "uplink"
    BY <1>2, <1>4, <2>3 DEF Except, Record
  <2> QED
    BY <1>1, <1>5, <2>1, <2>2, <2>3, AttrsAre DEF AttrSet
<1>7. Beside(node', node, a) /\ node'.sub[a] = "none" /\ node'.uplink = node.uplink
  BY <1>1, <1>2, <1>3, <1>6 DEF Beside, Except, Front, Back
<1>8. closed' = closed
  BY <1>1, <1>7 DEF Track
<1> QED
  BY <1>1, <1>2, <1>5, <1>6, <1>7, <1>8 DEF Except, Back

LEMMA UplinkEndLeads ==
  ASSUME IInv, NEW s, NEW res, UplinkEnd(s, res), node'.link = "up"
  PROVE  /\ Beside(node', node, "none") /\ closed' = closed
         /\ node'.downlink = node.downlink /\ node'.receiver = node.receiver
         /\ s \in uplinks /\ uplinks' = uplinks \ {s}
<1> DEFINE c == [node EXCEPT !.uplink = 0]
<1>1. /\ node \in Record /\ closed' = closed /\ s \in uplinks
      /\ uplinks' = uplinks \ {s}
  BY InvStates DEF UplinkEnd
<1>2. /\ c \in Record /\ c.link = node.link /\ c.disc = node.disc
      /\ c.value = node.value /\ c.next = node.next /\ c.sub = node.sub
      /\ c.downlink = node.downlink /\ c.receiver = node.receiver
  BY <1>1 DEF Record
<1>3. node' = c \/ node' = Finish(c)
  BY DEF UplinkEnd, UplinkEndCb
<1> HIDE DEF c
<1>4. node' = c
  BY <1>2, <1>3, FinishEnds
<1> QED
  BY <1>1, <1>2, <1>4 DEF Beside

LEMMA KickLeads ==
  ASSUME IInv, NEW s, Kick(s), node'.link = "up"
  PROVE  /\ Beside(node', node, "downlink") /\ node'.sub["downlink"] = "live"
         /\ node.sub["downlink"] \in {"none", "stopping"} /\ closed' = closed
         /\ s \in closed /\ (~Late => s = session)
<1>1. /\ node \in Record /\ "downlink" \in Attrs /\ s \in closed /\ Track
      /\ (~Late => s = session) /\ node.sub["downlink"] \in {"none", "stopping"}
  BY InvStates, AttrsAre DEF Kick, AttrSet
<1>2. CASE node' \in Subscribed(node, "downlink")
  <2>1. /\ Front(node', node) /\ Back(node', node) /\ node'.next = node.next
        /\ node.link = "up" /\ node'.sub = [node.sub EXCEPT !["downlink"] = "live"]
    BY <1>1, <1>2, Subscribing
  <2>2. node.sub \in [Attrs -> {"none", "live", "stopping", "refused"}]
    BY <1>1 DEF Record
  <2>3. /\ Beside(node', node, "downlink") /\ node'.sub["downlink"] = "live"
        /\ node'.uplink = node.uplink
    BY <1>1, <2>1, <2>2 DEF Beside, Front, Back
  <2> QED
    BY <1>1, <2>3 DEF Track
<1>3. CASE node' = [Finish(CleanDownlink(node)) EXCEPT !.sub["downlink"] = "refused"]
  <2> DEFINE f == Finish(CleanDownlink(node))
  <2>1. f \in Record /\ f.link # "up"
    BY <1>1, CleaningDownlink, Finishing DEF Finished
  <2>2. node' = [f EXCEPT !.sub["downlink"] = "refused"]
    BY <1>3
  <2> HIDE DEF f
  <2> QED
    BY <2>1, <2>2 DEF Record
<1> QED
  BY <1>2, <1>3 DEF Kick

-----------------------------------------------------------------------------
(* Every step leaves a session under way. *)

LEMMA InitProgresses == Init => Progresses
BY DEF Init, Cleared, Progresses

(* A subscription other than the server certificate's changes. *)
LEMMA BesideProgresses ==
  ASSUME Progresses, node.link = "up", ~refused, session' = session,
         NEW a, Beside(node', node, a), UnderWay(node)',
         node'.sub["info"] = "live" => node.sub["info"] = "live",
         node'.sub["uplink"] = "live" => session \notin closed',
         ~Late /\ Ends(node', "downlink") => session \in closed',
         ~Early(node') => node'.sub["downlink"] # "refused"
  PROVE  Progresses'
BY DEF Progresses, Beside, Early, Reading, Sending, Taking, HasCertChars, Ends

LEMMA StepProgresses == IInv /\ IInv' /\ Progresses /\ [Next]_vars => Progresses'
<1> SUFFICES ASSUME IInv, IInv', Progresses, [Next]_vars PROVE Progresses'
  OBVIOUS
<1> SUFFICES ASSUME node'.link = "up", ~refused' PROVE Progresses'
  BY DEF Progresses
<1>s. Sole(node) /\ Sole(node') /\ node \in Record /\ node' \in Record
  BY InvSole, NextSole
<1>a. /\ Attrs = {"info", "downlink", "uplink", "server_cert", "device_cert"}
      /\ node.link = "up" /\ ~refused =>
           /\ UnderWay(node)
           /\ node.sub["uplink"] = "live" => session \notin closed
           /\ ~Late /\ Ends(node, "downlink") => session \in closed
           /\ ~Early(node) => node.sub["downlink"] # "refused"
  BY AttrsAre DEF AttrSet, Progresses
<1>1. CASE Start
  <2>1. node'.disc = "svc16"
    BY <1>1, StartLeads
  <2>2. \A a \in Attrs : ~Ends(node', a)
    BY <1>s, <2>1 DEF Sole
  <2> QED
    BY <1>a, <2>1, <2>2 DEF Progresses, UnderWay, Early, Ends, Reading
<1>2. CASE DiscoverStep
  <2>1. Early(node) /\ Track /\ session' = session
    BY <1>2 DEF DiscoverStep, Callback, Early
  <2>2. node'.disc # "none" => ~Reading(node')
    BY <1>s, <1>a DEF Sole, Reading, Ends
  <2>3. Enters(node')
    BY <1>2, <2>2, DiscoverLeads DEF Enters, Early
  <2> QED
    BY <2>1, <2>3, EntersProgresses
<1>3. CASE InfoDone
  <2>1. Early(node) /\ Track /\ session' = session
    BY <1>3, InfoDoneLeads DEF InfoDone, Callback, Early
  <2>2. Enters(node')
    BY <1>3, <1>s, InfoDoneLeads DEF Enters, Early, Sole, Sending, Ends
  <2> QED
    BY <2>1, <2>2, EntersProgresses
<1>4. CASE (\E newest \in BOOLEAN : ServerCertDone(newest)) \/ ServerCertFails
  <2>1. Track /\ session' = session
    BY <1>4, Zenon DEF ServerCertDone, ServerCertFails, Callback
  <2>2. Early(node) /\ Enters(node')
    BY <1>4, ServerCertLeads DEF Enters, Early, Sending, Ends
  <2> QED
    BY <2>1, <2>2, EntersProgresses
<1>5. CASE DeviceCertDone
  <2>1. Early(node) /\ Track /\ session' = session
    BY <1>5, DeviceCertDoneLeads DEF DeviceCertDone, Callback, Early
  <2>2. Enters(node')
    BY <1>5, DeviceCertDoneLeads DEF Enters
  <2> QED
    BY <2>1, <2>2, EntersProgresses
<1>6. CASE Unsubscribed("server_cert")
  <2>1. Track /\ session' = session
    BY <1>6 DEF Unsubscribed, Callback
  <2>2. Early(node)
    BY <1>6, ServerCertEndLeads DEF Early, Sending, Ends
  <2>3. Enters(node')
    BY <1>6, <1>s, ServerCertEndLeads DEF Enters, Early, Sole, Sending, Ends
  <2> QED
    BY <2>1, <2>2, <2>3, EntersProgresses
<1>7. CASE UplinkDone
  <2>1. session' = session /\ refused' = refused
    BY <1>7 DEF UplinkDone, Callback, history
  <2>2. /\ node.sub["uplink"] = "live" /\ node'.sub["uplink"] = "stopping"
        /\ Beside(node', node, "uplink")
        /\ node'.downlink = node.downlink /\ session \in closed'
    BY <1>7, UplinkDoneLeads
  <2>3. node.link = "up" /\ node'.sub["info"] = node.sub["info"]
        /\ node'.sub["downlink"] = node.sub["downlink"]
    BY <1>a, <2>2 DEF Beside
  <2>4. ~Early(node)
    BY <1>s, <2>2 DEF Sole, Ends
  <2>5. UnderWay(node)'
    BY <1>a, <2>1, <2>2, <2>3, <2>4 DEF UnderWay, Ends
  <2> QED
    BY <1>a, <2>1, <2>2, <2>3, <2>4, <2>5, BesideProgresses
<1>8. CASE DownlinkDone
  <2>1. session' = session /\ refused' = refused
    BY <1>8 DEF DownlinkDone, Callback, history
  <2>2. /\ node.sub["downlink"] = "live" /\ node'.sub["downlink"] = "stopping"
        /\ Beside(node', node, "downlink") /\ closed' = closed
    BY <1>8, DownlinkDoneLeads
  <2>3. node.link = "up" /\ node'.sub["info"] = node.sub["info"]
        /\ node'.sub["uplink"] = node.sub["uplink"]
    BY <1>a, <2>2 DEF Beside
  <2>4. UnderWay(node)' /\ Ends(node, "downlink")
    BY <2>2 DEF UnderWay, Ends
  <2> QED
    BY <1>a, <2>1, <2>2, <2>3, <2>4, BesideProgresses
<1>9. ASSUME NEW a \in Attrs \ {"server_cert"}, Unsubscribed(a)
      PROVE  Progresses'
  <2>1. session' = session /\ refused' = refused
    BY <1>9 DEF Unsubscribed, Callback, history
  <2>2. /\ a # "downlink" /\ node.sub[a] = "stopping" /\ node'.sub[a] = "none"
        /\ Beside(node', node, a) /\ closed' = closed
        /\ node'.downlink = node.downlink
        /\ a # "uplink" => node'.receiver = node.receiver
    BY <1>9, UnsubscribedLeads
  <2>3. /\ node.link = "up" /\ node'.disc = node.disc
        /\ node'.sub["downlink"] = node.sub["downlink"]
        /\ node'.sub["server_cert"] = node.sub["server_cert"]
        /\ node'.sub["info"] = "live" <=> node.sub["info"] = "live"
        /\ node'.sub["uplink"] = "live" <=> node.sub["uplink"] = "live"
        /\ node'.sub["device_cert"] = "live" <=> node.sub["device_cert"] = "live"
    BY <1>9, <1>a, <2>2 DEF Beside
  <2>4. UnderWay(node)'
    BY <1>a, <2>1, <2>2, <2>3
    DEF UnderWay, Early, Reading, Sending, Taking, Ends, Syncs
  <2>5. Early(node') <=> Early(node)
    BY <1>a, <2>3 DEF Early, Reading, Sending, Taking, Ends
  <2> QED
    BY <1>a, <2>1, <2>2, <2>3, <2>4, <2>5, BesideProgresses DEF Ends
<1>10. ASSUME NEW a \in Attrs, Refuse(a)
       PROVE  Progresses'
  BY <1>10 DEF Refuse
<1>11. ASSUME NEW s, NEW res, UplinkEnd(s, res)
       PROVE  Progresses'
  <2>1. session' = session /\ refused' = refused
    BY <1>11 DEF UplinkEnd, history
  <2>2. /\ Beside(node', node, "none") /\ closed' = closed
        /\ node'.downlink = node.downlink /\ node'.receiver = node.receiver
    BY <1>11, UplinkEndLeads
  <2>3. /\ node.link = "up" /\ node'.disc = node.disc
        /\ \A b \in Attrs : node'.sub[b] = node.sub[b]
    BY <1>a, <2>2 DEF Beside
  <2>4. UnderWay(node)'
    BY <1>a, <2>1, <2>2, <2>3
    DEF UnderWay, Early, Reading, Sending, Taking, Ends, Syncs
  <2>5. Early(node') <=> Early(node)
    BY <1>a, <2>3 DEF Early, Reading, Sending, Taking, Ends
  <2> QED
    BY <1>a, <2>1, <2>2, <2>3, <2>4, <2>5, BesideProgresses DEF Ends
<1>12. ASSUME NEW s, Kick(s)
       PROVE  Progresses'
  <2>1. session' = session /\ refused' = refused
    BY <1>12 DEF Kick
  <2>2. /\ Beside(node', node, "downlink") /\ node'.sub["downlink"] = "live"
        /\ closed' = closed /\ s \in closed /\ (~Late => s = session)
    BY <1>12, KickLeads
  <2>3. node.link = "up" /\ node'.sub["info"] = node.sub["info"]
        /\ node'.sub["uplink"] = node.sub["uplink"]
    BY <1>a, <2>2 DEF Beside
  <2>4. UnderWay(node)'
    BY <2>2 DEF UnderWay, Ends
  <2> QED
    BY <1>a, <2>1, <2>2, <2>3, <2>4, BesideProgresses
<1>13. CASE Disconnect
  BY <1>13, DisconnectInv
<1>14. ASSUME UNCHANGED <<session, node, refused, contexts>>
       PROVE  Progresses'
  BY <1>14 DEF contexts, Progresses, UnderWay, Early, Reading, Sending,
     Taking, Ends, Syncs, HasCertChars
<1>15. Issue => UNCHANGED <<session, node, refused, contexts>>
  BY DEF Issue
<1>16. UNCHANGED vars => UNCHANGED <<session, node, refused, contexts>>
  BY DEF vars, history
<1> QED
  BY <1>1, <1>2, <1>3, <1>4, <1>5, <1>6, <1>7, <1>8, <1>9, <1>10, <1>11, <1>12,
     <1>13, <1>14, <1>15, <1>16 DEF Next, ClientCalls

(***************************************************************************)
(* lib/bt/connect.c:163: a session whose connection is up is never stuck,  *)
(* whatever its handlers found, skipped or failed to do, late callbacks of *)
(* the client included.                                                    *)
(***************************************************************************)
THEOREM SessionHasStepDue == Spec => []SessionIsDue
<1>1. IInv /\ Progresses => SessionIsDue
  <2> SUFFICES ASSUME IInv, Progresses, node.link = "up", PlaysAlong
               PROVE  Due
    BY DEF SessionIsDue
  <2>1. UnderWay(node) /\ (Reading(node) => node.value["info"] # 0)
    BY DEF Progresses, PlaysAlong
  <2>2. CASE node.downlink = session /\ session \in closed /\ ~Early(node)
    <3>1. node.downlink \in downlinks \cup {0} /\ session >= 1 /\ session \in Nat
      BY DEF IInv, TypeOK
    <3>2. session \in closed \cap downlinks
      BY <2>2, <3>1
    <3>3. node.sub["downlink"] \in {"none", "live", "stopping"}
      <4> node.sub["downlink"] \in {"none", "live", "stopping", "refused"}
        BY InvStates, AttrsAre DEF Record, AttrSet
      <4> QED
        BY <2>2 DEF Progresses, PlaysAlong
    <3> QED
      BY <3>2, <3>3 DEF Due, Ends
  <2> QED
    BY <2>1, <2>2 DEF UnderWay, Early, Due
<1>2. IInv /\ IInv' /\ Progresses /\ [Next]_vars => Progresses'
  BY StepProgresses
<1> QED
  BY <1>1, <1>2, InitProgresses, Inductive, PTL DEF Spec

-----------------------------------------------------------------------------
(* Every step brings the end of the session nearer. *)

(* Stage looks at no more than this. *)
LEMMA SameStage ==
  ASSUME NEW n, NEW m, m.disc = n.disc, m.next = n.next,
         m.sub["server_cert"] = n.sub["server_cert"],
         m.sub["downlink"] = n.sub["downlink"],
         m.sub["info"] = "live" <=> n.sub["info"] = "live",
         m.sub["device_cert"] = "live" <=> n.sub["device_cert"] = "live",
         m.sub["uplink"] = "live" <=> n.sub["uplink"] = "live"
  PROVE  Stage(m) = Stage(n)
<1>1. /\ Reading(m) <=> Reading(n)
      /\ Sending(m) <=> Sending(n)
      /\ Taking(m) <=> Taking(n)
  BY DEF Reading, Sending, Taking, Ends
<1>2. Early(m) <=> Early(n)
  BY <1>1 DEF Early
<1> QED
  BY <1>1, <1>2 DEF Stage

(* The step of a session that plays along. *)
Nearer ==
  \/ Stage(node') < Stage(node)
  \/ Stage(node') = Stage(node) /\ Loose' \subseteq Loose /\ Loose' # Loose
  \/ Renewed \/ Rekicked

LEMMA UnsubscribedNearer ==
  ASSUME IInv, NEW a \in Attrs \ {"server_cert"}, Unsubscribed(a), node'.link = "up"
  PROVE  Nearer
<1>1. /\ a # "downlink" /\ node.sub[a] = "stopping" /\ node'.sub[a] = "none"
      /\ Beside(node', node, a) /\ node'.uplink = node.uplink
  BY UnsubscribedLeads
<1>2. a \in {"info", "device_cert", "uplink"}
  BY <1>1, AttrsAre DEF AttrSet
<1>3. Stage(node') = Stage(node)
  <2>1. /\ node'.disc = node.disc /\ node'.next = node.next
        /\ node'.sub["server_cert"] = node.sub["server_cert"]
        /\ node'.sub["downlink"] = node.sub["downlink"]
        /\ node'.sub["info"] = "live" <=> node.sub["info"] = "live"
        /\ node'.sub["device_cert"] = "live" <=> node.sub["device_cert"] = "live"
        /\ node'.sub["uplink"] = "live" <=> node.sub["uplink"] = "live"
    BY <1>1, <1>2, AttrsAre DEF Beside, AttrSet
  <2> QED
    BY <2>1, SameStage
<1>4. session' = session /\ uplinks' \cap {session} = uplinks \cap {session}
  <2>1. session' = session /\ session \in Nat /\ session >= 1
    BY DEF Unsubscribed, Callback, IInv, TypeOK
  <2>2. /\ uplinks' = (uplinks \cup {node.uplink}) \ {0}
        /\ node.uplink \in uplinks \cup {0}
    BY <1>1 DEF Unsubscribed, Track, IInv, TypeOK
  <2> QED
    BY <2>1, <2>2
<1>5. \A b \in {"info", "device_cert", "uplink"} \ {a} : node'.sub[b] = node.sub[b]
  BY <1>1, AttrsAre DEF Beside, AttrSet
<1>6. Loose' = Loose \ {a} /\ a \in Loose
  BY <1>1, <1>2, <1>4, <1>5 DEF Loose
<1> QED
  BY <1>3, <1>6 DEF Nearer

LEMMA UplinkEndNearer ==
  ASSUME ~Late, IInv, NEW s, NEW res, UplinkEnd(s, res), node'.link = "up"
  PROVE  Nearer
<1>1. /\ Beside(node', node, "none") /\ s \in uplinks /\ uplinks' = uplinks \ {s}
      /\ session' = session /\ s = session
  BY UplinkEndLeads DEF UplinkEnd
<1>2. \A b \in Attrs : node'.sub[b] = node.sub[b]
  BY <1>1, AttrsAre DEF Beside, AttrSet
<1>3. Stage(node') = Stage(node)
  BY <1>1, <1>2, SameStage, AttrsAre DEF Beside, AttrSet
<1>4. Loose' = Loose \ {"cloud"} /\ "cloud" \in Loose
  <2> \A b \in {"info", "device_cert", "uplink"} : node'.sub[b] = node.sub[b]
    BY <1>2, AttrsAre DEF AttrSet
  <2> QED
    BY <1>1 DEF Loose
<1> QED
  BY <1>3, <1>4 DEF Nearer

(* Of an uplink that is closed, only the downlink is left. *)
LEMMA ClosedStage ==
  ASSUME IInv, Progresses, node.link = "up", ~refused, session \in closed
  PROVE  ~Early(node) /\ node.sub["uplink"] # "live"
BY DEF IInv, Good, OneStage, Progresses

LEMMA BesideStage ==
  ASSUME NEW n \in Record, Sole(n), NEW m \in Record, Sole(m),
         ~Early(n), n.sub["uplink"] # "live", Beside(m, n, "downlink")
  PROVE  ~Early(m) /\ m.sub["uplink"] # "live"
BY AttrsAre DEF Early, Beside, Reading, Sending, Taking, Ends, AttrSet

LEMMA StepNearer ==
  ASSUME ~Late, IInv, IInv', Progresses, [Next]_vars,
         node.link = "up", node'.link = "up", ~refused', issued' = issued
  PROVE  Nearer \/ UNCHANGED vars
<1>s. Sole(node) /\ Sole(node') /\ node \in Record /\ node' \in Record
  BY InvSole, NextSole
<1>1. CASE DiscoverStep
  BY <1>1, <1>s, DiscoverLeads, Stages DEF Nearer, Uploads, Syncs
<1>2. CASE InfoDone
  BY <1>2, <1>s, InfoDoneLeads, Stages DEF Nearer, Uploads, Syncs
<1>3. CASE (\E newest \in BOOLEAN : ServerCertDone(newest)) \/ ServerCertFails
  <2>1. /\ node.sub["server_cert"] = "live" /\ node'.sub["server_cert"] = "stopping"
    BY <1>3, ServerCertLeads
  <2>2. Stage(node) = 7 /\ Stage(node') = IF node'.next = "server_cert" THEN 8 ELSE 6
    BY <1>s, <2>1, Stages
  <2> QED
    BY <2>1, <2>2 DEF Nearer, Renewed
<1>4. CASE DeviceCertDone
  BY <1>4, <1>s, DeviceCertDoneLeads, Stages DEF Nearer, Uploads, Syncs
<1>5. ASSUME Unsubscribed("server_cert")
      PROVE  Nearer
  <2>1. Stage(node) = IF node.next = "server_cert" THEN 8 ELSE 6
    BY <1>5, <1>s, ServerCertEndLeads, Stages
  <2>2. \/ Stage(node') \in {4, 5}
        \/ Stage(node') = 7 /\ node.next = "server_cert"
    BY <1>5, <1>s, ServerCertEndLeads, Stages DEF Uploads, Syncs
  <2> QED
    BY <2>1, <2>2 DEF Nearer
<1>6. CASE UplinkDone
  <2>1. /\ node.sub["uplink"] = "live" /\ node'.sub["uplink"] = "stopping"
        /\ Beside(node', node, "uplink")
    BY <1>6, UplinkDoneLeads
  <2>2. ~Early(node)
    BY <1>s, <2>1 DEF Sole, Ends
  <2>3. ~Early(node')
    BY <2>1, <2>2, AttrsAre DEF Early, Beside, Reading, Sending, Taking, Ends, AttrSet
  <2>4. Stage(node) = 4 /\ Stage(node') \in {1, 2, 3}
    BY <1>s, <2>1, <2>3, Stages
  <2> QED
    BY <2>4 DEF Nearer
<1>7. CASE DownlinkDone
  <2>1. /\ node.sub["downlink"] = "live" /\ node'.sub["downlink"] = "stopping"
        /\ Beside(node', node, "downlink") /\ refused' = refused
    BY <1>7, DownlinkDoneLeads DEF DownlinkDone, history
  <2>2. session \in closed
    BY <2>1 DEF Progresses, Ends
  <2>3. ~Early(node) /\ node.sub["uplink"] # "live"
    BY <2>1, <2>2, ClosedStage
  <2>4. ~Early(node') /\ node'.sub["uplink"] # "live"
    BY <1>s, <2>1, <2>3, BesideStage
  <2>5. Stage(node) = 2 /\ Stage(node') = 1
    BY <1>s, <2>1, <2>3, <2>4, Stages
  <2> QED
    BY <2>5 DEF Nearer
<1>8. ASSUME NEW a \in Attrs, Unsubscribed(a)
      PROVE  Nearer
  BY <1>5, <1>8, UnsubscribedNearer
<1>9. ASSUME NEW a \in Attrs, Refuse(a)
      PROVE  FALSE
  BY <1>9 DEF Refuse
<1>10. ASSUME NEW s, NEW res, UplinkEnd(s, res)
       PROVE  Nearer
  BY <1>10, UplinkEndNearer
<1>11. ASSUME NEW s, Kick(s)
       PROVE  Nearer
  <2>1. /\ Beside(node', node, "downlink") /\ node'.sub["downlink"] = "live"
        /\ node.sub["downlink"] \in {"none", "stopping"}
        /\ session \in closed /\ refused' = refused
    BY <1>11, KickLeads DEF Kick
  <2>2. ~Early(node) /\ node.sub["uplink"] # "live"
    BY <2>1, ClosedStage
  <2>3. ~Early(node') /\ node'.sub["uplink"] # "live"
    BY <1>s, <2>1, <2>2, BesideStage
  <2>4. /\ Stage(node) = IF node.sub["downlink"] = "stopping" THEN 1 ELSE 3
        /\ Stage(node') = 2
    BY <1>s, <2>1, <2>2, <2>3, Stages
  <2> QED
    BY <2>1, <2>4 DEF Nearer, Rekicked
<1>12. CASE Disconnect
  BY <1>12, DisconnectInv
<1>13. ~Start /\ ~Issue
  BY DEF Start, Issue
<1> QED
  BY <1>1, <1>2, <1>3, <1>4, <1>6, <1>7, <1>8, <1>9, <1>10, <1>11, <1>12, <1>13
  DEF Next, ClientCalls

(***************************************************************************)
(* Every step of a session whose node refuses nothing is one stage nearer  *)
(* to its end, or ties a loose end, but for a certificate that is renewed  *)
(* and a downlink that is kicked again. Not so when the client calls back  *)
(* about an earlier session, hence ~Late.                                  *)
(***************************************************************************)
THEOREM SessionComesToEnd == ASSUME ~Late PROVE Spec => SessionComesNearer
<1>1. IInv /\ IInv' /\ Progresses /\ [Next]_vars =>
        [node.link = "up" /\ node'.link = "up" /\ ~refused' /\ issued' = issued =>
           \/ Stage(node') < Stage(node)
           \/ Stage(node') = Stage(node) /\ Loose' \subseteq Loose /\ Loose' # Loose
           \/ Renewed \/ Rekicked]_vars
  BY StepNearer DEF Nearer
<1>2. IInv /\ IInv' /\ Progresses /\ [Next]_vars => Progresses'
  BY StepProgresses
<1> QED
  BY <1>1, <1>2, InitProgresses, Inductive, PTL DEF Spec, SessionComesNearer
=============================================================================
