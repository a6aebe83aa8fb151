-------------------------------- MODULE Node --------------------------------
(***************************************************************************)
(* The sessions of one connection index (lib/bt/connect.c): discovery, the *)
(* node's info, the server's certificate, the device's, then uplink and    *)
(* downlink, each started by the handler that ends the one before it.  All *)
(* share one record, struct pouch_gateway_node_info, that the next session *)
(* clears.  Handlers run one at a time; those of the cloud client, about   *)
(* the uplink or the downlink of a session, may come when it is over.      *)
(*                                                                         *)
(* A handler that calls the next is an operator from a record to the set   *)
(* of records it can leave behind.  What goes on inside the uplink, the    *)
(* downlink and the server certificate's transfer is in modules of their   *)
(* own.                                                                    *)
(***************************************************************************)
EXTENDS Discovery

CONSTANTS
  Tables,      \* attribute tables of the nodes that connect
  MaxSessions, \* bound: sessions
  Late         \* the client may call back about a session that is not the last

ASSUME NodeAssumption ==
  /\ Tables \subseteq Table
  /\ MaxSessions \in Nat /\ Late \in BOOLEAN

VARIABLES
  session,   \* calls of pouch_gateway_bt_start; a context is known by the
             \* session that opened it
  table,     \* the attribute table of the node
  node,      \* the record, and the state of its connection
  issued,    \* the gateway has a server certificate, and so a serial
  has,       \* history: "server", the node has that certificate, or "another"
             \* one; "device", the cloud has the node's
  bare,      \* history: the gateway had none when it compared the serials
  refused,   \* history: the node refused a subscription
  kicked,    \* history: downlinks that made the gateway subscribe, or try to
  uplinks,   \* uplinks the client has not ended
  closed,    \* uplinks that were closed
  downlinks  \* downlinks that are neither closed nor aborted

history  == <<has, bare, refused, kicked>>
contexts == <<uplinks, closed, downlinks>>
vars     == <<session, table, node, issued, history, contexts>>

Record == [
  link       : {"up", "closing", "down"}, \* not in the struct
  disc       : {"none", "svc16", "svc128", "chars", "descr"}, \* discover_params
  value      : [Attrs -> Nat], ccc : [Attrs -> Nat],          \* attr_handles
  sub        : [Attrs -> {"none", "live", "stopping", "refused"}],
  info       : BOOLEAN,  \* info_ctx and info_receiver
  server     : BOOLEAN,  \* server_cert_ctx and server_cert_sender
  device     : BOOLEAN,  \* device_cert_ctx and device_cert_receiver
  packetizer : {"none", "server", "downlink"}, \* packetizer, and whose it is
  next       : {"device_cert", "server_cert", "end"}, \* server_cert_next
  sprov      : BOOLEAN, dprov : BOOLEAN, \* ..._cert_provisioned
  uplink     : Nat, receiver : BOOLEAN,  \* uplink (0: NULL), uplink_receiver
  downlink   : Nat, sender : BOOLEAN]    \* downlink_ctx, downlink_sender

Cleared(link) == [
  link |-> link, disc |-> "none", value |-> Zeroes, ccc |-> Zeroes,
  sub |-> [a \in Attrs |-> "none"], info |-> FALSE, server |-> FALSE,
  device |-> FALSE, packetizer |-> "none", next |-> "device_cert",
  sprov |-> FALSE, dprov |-> FALSE, uplink |-> 0, receiver |-> FALSE,
  downlink |-> 0, sender |-> FALSE]

Init ==
  /\ session = 0 /\ table \in Tables /\ node = Cleared("down")
  /\ issued \in BOOLEAN /\ has = {} /\ bare = FALSE /\ refused = FALSE /\ kicked = {}
  /\ uplinks = {} /\ closed = {} /\ downlinks = {}

(* pouch_gateway_bt_finished, which the application answers by disconnecting. *)
Finish(n) == [n EXCEPT !.link = IF @ = "up" THEN "closing" ELSE @]

(* bt_gatt_subscribe needs a connection that is up, and a CCC handle.      *)
Subscribed(n, a) ==
  IF n.link = "up" /\ n.ccc[a] # 0 THEN {[n EXCEPT !.sub[a] = "live"]} ELSE {}

(* info_cleanup, server_cert_cleanup, device_cert_cleanup, cleanup_downlink *)
CleanInfo(n)     == [n EXCEPT !.info = FALSE]
CleanServer(n)   == [n EXCEPT !.server = FALSE, !.packetizer = "none"]
CleanDevice(n)   == [n EXCEPT !.device = FALSE]
CleanDownlink(n) == [n EXCEPT !.downlink = 0, !.sender = FALSE,
                              !.packetizer = "none"]

-----------------------------------------------------------------------------
(* The transfers, from the last to the first.                              *)

(***************************************************************************)
(* pouch_gateway_uplink_start.  The downlink is opened first; a failure    *)
(* after that leaves what was opened in the record.                        *)
(***************************************************************************)
UplinkStart(n) ==
  IF n.ccc["uplink"] = 0 THEN {Finish(n)}
  ELSE LET d == [n EXCEPT !.downlink = session, !.sender = TRUE,
                          !.packetizer = "downlink", !.sub["downlink"] = "none"]
           u == [d EXCEPT !.uplink = session]
           r == [u EXCEPT !.receiver = TRUE]
       IN {Finish(m) : m \in {n, CleanDownlink(n), d, u, r}}
            \cup Subscribed(r, "uplink")

(* pouch_gateway_device_cert_read                                          *)
DeviceCertRead(n) ==
  IF n.dprov THEN UplinkStart(n)
  ELSE {Finish(CleanDevice(n))}
         \cup (IF n.ccc["device_cert"] = 0 THEN {}
               ELSE Subscribed([n EXCEPT !.device = TRUE], "device_cert"))

(* pouch_gateway_server_cert_write                                         *)
ServerCertWrite(n) ==
  IF n.sprov THEN DeviceCertRead(n)
  ELSE {Finish(CleanServer(n))}
         \cup (IF n.value["server_cert"] = 0 THEN {}
               ELSE Subscribed([n EXCEPT !.server = TRUE, !.packetizer = "server",
                                         !.next = "end"], "server_cert"))

(* gateway_info_read_start                                                 *)
InfoReadStart(n) ==
  LET m == [n EXCEPT !.sprov = FALSE, !.dprov = FALSE]
  IN {Finish(m)} \cup Subscribed([m EXCEPT !.info = TRUE], "info")

-----------------------------------------------------------------------------
(***************************************************************************)
(* Discovery.  Each operator is a callback at the end of its phase; the    *)
(* next phase starts unless bt_gatt_discover fails, as it does when the    *)
(* connection is not up.                                                   *)
(***************************************************************************)
Discover(n, phase) ==
  {Finish([n EXCEPT !.disc = "none"])}
    \cup (IF n.link = "up" THEN {[n EXCEPT !.disc = phase]} ELSE {})

(* discover_services without an attribute: try the other UUID, or give up. *)
NoService(n) ==
  IF n.disc = "svc16" THEN Discover(n, "svc128")
                      ELSE {Finish([n EXCEPT !.disc = "none"])}

(* discover_characteristics, the first k handles having been reported.     *)
CharsDone(n, k) ==
  LET m == [n EXCEPT !.value = Values(table, k)]
  IN IF m.value["uplink"] = 0 \/ m.value["downlink"] = 0
     THEN {Finish([m EXCEPT !.disc = "none"])}
     ELSE Discover(m, "descr")

HasCertChars(n) == n.value["server_cert"] # 0 /\ n.value["device_cert"] # 0

(* discover_descriptors                                                    *)
DescrDone(n, k) ==
  LET m == [n EXCEPT !.ccc = Cccs(table, n.value, k), !.disc = "none"]
  IN IF HasCertChars(m) THEN InfoReadStart(m) ELSE UplinkStart(m)

-----------------------------------------------------------------------------
(* Notifications without data: a subscription has ended.                   *)

(* Mutant: the end of the downlink does not finish the session.            *)
DownlinkEndsOnly(n) == CleanDownlink(n)

DownlinkEnds(n) == Finish(CleanDownlink(n))

(* server_cert_notify_cb does what comes next.                             *)
ServerCertEnds(n) ==
  LET m == CleanServer(n)
  IN {[e EXCEPT !.next = "end"] :
        e \in CASE n.next = "device_cert" -> DeviceCertRead(m)
                [] n.next = "server_cert" -> ServerCertWrite(m)
                [] n.next = "end"         -> {Finish(m)}}

SubEnds(n, a) ==
  LET m == [n EXCEPT !.sub[a] = "none"]
  IN CASE a = "info"        -> {CleanInfo(m)}
       [] a = "server_cert" -> ServerCertEnds(m)
       [] a = "device_cert" -> {CleanDevice(m)}
       [] a = "uplink"      -> {[m EXCEPT !.receiver = FALSE]}
       [] a = "downlink"    -> {DownlinkEnds(m)}

Ends(n, a) == n.sub[a] \in {"live", "stopping"}

-----------------------------------------------------------------------------
(***************************************************************************)
(* What a step that leaves node' behind does to the contexts: a record     *)
(* that drops one has closed or aborted it.                                *)
(***************************************************************************)
Track ==
  /\ uplinks' = (uplinks \cup {node'.uplink}) \ {0}
  /\ closed' = closed \cup (IF node'.uplink = 0 THEN {node.uplink} \ {0} ELSE {})
  /\ downlinks' = (IF node'.downlink = 0 THEN downlinks \ {node.downlink}
                   ELSE downlinks \cup {node'.downlink})

(* What a node, and the cloud, may have of the certificates.               *)
Having ==
  {h \in SUBSET {"server", "another", "device"} :
     "server" \in h => issued /\ "another" \notin h}

(***************************************************************************)
(* A node connects, and security_changed calls pouch_gateway_bt_start.     *)
(***************************************************************************)
Start ==
  /\ node.link = "down" /\ session < MaxSessions
  /\ session' = session + 1
  /\ table' \in Tables
  /\ node' \in Discover(Cleared("up"), "svc16")
  /\ has' \in Having
  /\ bare' = FALSE /\ refused' = FALSE
  /\ UNCHANGED <<issued, kicked, contexts>>

(***************************************************************************)
(* main has the first certificate, when the download before Bluetooth was  *)
(* enabled had failed; it may be the one that the node has.                *)
(***************************************************************************)
Issue ==
  /\ ~issued /\ issued' = TRUE
  /\ has' \in {has} \cup (IF "another" \in has
                          THEN {(has \ {"another"}) \cup {"server"}} ELSE {})
  /\ UNCHANGED <<session, table, node, bare, refused, kicked, contexts>>

Callback == node.link # "down" /\ UNCHANGED <<session, table, issued>>

DiscoverStep ==
  /\ Callback /\ node.disc # "none"
  /\ node' \in CASE node.disc = "chars" -> CharsDone(node, Len(table.handles))
                 [] node.disc = "descr" -> DescrDone(node, Len(table.handles))
                 [] OTHER -> IF node.disc = table.uuid
                             THEN Discover(node, "chars") ELSE NoService(node)
  /\ Track /\ UNCHANGED history

Stop(n, a) == [n EXCEPT !.sub[a] = "stopping"]
Stopped(s, a) == {Stop(n, a) : n \in s}

(* Mutant: the comparison has the length of the node's serial.             *)
SerialIsPrefix == "server" \in has \/ "another" \notin has

(***************************************************************************)
(* pouch_gateway_info_finish compares the serials; without a certificate,  *)
(* the gateway's is empty, and so is the node's.                           *)
(***************************************************************************)
SerialsMatch ==
  IF issued THEN "server" \in has ELSE has \subseteq {"device"}

(***************************************************************************)
(* info_notify_cb: the info is complete, or receiving it fails.  Info that *)
(* has no sense leaves the flags alone.                                    *)
(***************************************************************************)
InfoDone ==
  /\ Callback /\ node.sub["info"] = "live" /\ node.value["info"] # 0
  /\ \/ /\ \E parsed \in BOOLEAN :
             node' \in Stopped(ServerCertWrite([CleanInfo(node) EXCEPT
                                  !.sprov = parsed /\ SerialsMatch,
                                  !.dprov = parsed /\ "device" \in has]), "info")
        /\ bare' = ~issued
     \/ node' = Stop(Finish(CleanInfo(node)), "info") /\ UNCHANGED bare
  /\ Track /\ UNCHANGED <<has, refused, kicked>>

(* Mutant: the next transfer starts before the subscription has ended.     *)
ServerCertDoneEarly(newest) ==
  /\ Callback /\ issued /\ node.sub["server_cert"] = "live"
  /\ node' \in Stopped(DeviceCertRead(node), "server_cert")
  /\ has' = (has \ {"another"}) \cup {"server"}
  /\ Track /\ UNCHANGED <<bare, refused, kicked>>

(***************************************************************************)
(* server_cert_notify_cb: the last packet of the certificate has arrived.  *)
(* What the node has got of it is the matter of ServerCert.                *)
(***************************************************************************)
ServerCertDone(newest) ==
  /\ Callback /\ issued /\ node.sub["server_cert"] = "live"
  /\ node' = Stop([node EXCEPT !.next = IF newest THEN "device_cert"
                                                  ELSE "server_cert"],
                  "server_cert")
  /\ has' = IF newest THEN (has \ {"another"}) \cup {"server"}
                       ELSE (has \ {"server"}) \cup {"another"}
  /\ Track /\ UNCHANGED <<bare, refused, kicked>>

(* A NACK, an error, or no certificate to send.                            *)
ServerCertFails ==
  /\ Callback /\ node.sub["server_cert"] = "live"
  /\ node' = Stop([node EXCEPT !.next = "end"], "server_cert")
  /\ Track /\ UNCHANGED history

(***************************************************************************)
(* device_cert_notify_cb.  The cloud takes the certificate in the data     *)
(* callback; a failure there cleans up and finishes, and both once more    *)
(* when it gets back to device_cert_notify_cb.                             *)
(***************************************************************************)
DeviceCertDone ==
  /\ Callback /\ node.sub["device_cert"] = "live"
  /\ \/ /\ has' = has \cup {"device"}
        /\ node' \in Stopped(UplinkStart(CleanDevice(node)), "device_cert")
     \/ /\ node' = Stop(Finish(CleanDevice(node)), "device_cert")
        /\ UNCHANGED has
  /\ Track /\ UNCHANGED <<bare, refused, kicked>>

(***************************************************************************)
(* uplink_notify_cb: the last data closes the uplink.  Data that cannot be *)
(* received, or not be written, finishes; the latter closes too.           *)
(***************************************************************************)
UplinkDone ==
  /\ Callback /\ node.sub["uplink"] = "live" /\ node.receiver
  /\ \/ node.uplink # 0 /\ node' = Stop([node EXCEPT !.uplink = 0], "uplink")
     \/ \E left \in {0, node.uplink} :
          node' = Stop(Finish([node EXCEPT !.uplink = left]), "uplink")
  /\ Track /\ UNCHANGED history

(* downlink_notify_cb: all is acknowledged, or the transfer stops.         *)
DownlinkDone ==
  /\ Callback /\ node.sub["downlink"] = "live"
  /\ \E left \in {0, node.downlink} :
       node' = Stop([node EXCEPT !.downlink = left], "downlink")
  /\ Track /\ UNCHANGED history

Unsubscribed(a) ==
  /\ Callback /\ node.sub[a] = "stopping"
  /\ node' \in SubEnds(node, a)
  /\ Track /\ UNCHANGED history

(* The node refuses the write to the CCC, which ends the subscription.     *)
Refuse(a) ==
  /\ Callback /\ node.sub[a] = "live"
  /\ node' \in SubEnds(node, a)
  /\ refused' = TRUE
  /\ Track /\ UNCHANGED <<has, bare, kicked>>

-----------------------------------------------------------------------------
(* Callbacks of the client, at any time.                                   *)

(* Mutant: the pointer to the uplink stays.                                *)
UplinkEndCbKeeps(n, res) == IF res = "success" THEN n ELSE Finish(n)

(* uplink_end_cb                                                           *)
UplinkEndCb(n, res) ==
  LET m == [n EXCEPT !.uplink = 0]
  IN IF res = "success" THEN m ELSE Finish(m)

UplinkEnd(s, res) ==
  /\ s \in uplinks /\ (Late \/ s = session)
  /\ res = "success" => s \in closed
  /\ uplinks' = uplinks \ {s}
  /\ node' = UplinkEndCb(node, res)
  /\ UNCHANGED <<session, table, issued, history, closed, downlinks>>

(* downlink_data_available, when there is no subscription.                 *)
Kick(s) ==
  /\ s \in downlinks \cap closed /\ (Late \/ s = session)
  /\ node.sub["downlink"] \in {"none", "stopping"}
  /\ node' \in Subscribed(node, "downlink") \cup
                 {[Finish(CleanDownlink(node)) EXCEPT !.sub["downlink"] = "refused"]}
  /\ kicked' = kicked \cup {s}
  /\ Track /\ UNCHANGED <<session, table, issued, has, bare, refused>>

-----------------------------------------------------------------------------
(***************************************************************************)
(* The node disconnects.  The host ends the subscriptions and a discovery  *)
(* in progress, then bt_disconnected calls pouch_gateway_bt_stop.  Only    *)
(* the end of the server certificate's subscription starts something, on a *)
(* connection that is down: the order of the rest does not matter.         *)
(***************************************************************************)
EndQuietly(n) ==
  LET down(a) == Ends(n, a)
      m == [n EXCEPT !.link = "down",
                     !.sub = [a \in Attrs |-> IF down(a) /\ a # "server_cert"
                                              THEN "none" ELSE @[a]],
                     !.info = @ /\ ~down("info"),
                     !.device = @ /\ ~down("device_cert"),
                     !.receiver = @ /\ ~down("uplink")]
  IN IF down("downlink") THEN DownlinkEnds(m) ELSE m

DiscoveryEnds(n) ==
  CASE n.disc = "none"  -> {n}
    [] n.disc = "chars" -> UNION {CharsDone(n, k) : k \in 0 .. Len(table.handles)}
    [] n.disc = "descr" -> UNION {DescrDone(n, k) : k \in 0 .. Len(table.handles)}
    [] OTHER            -> NoService(n)

(* Mutant: the uplink is not closed.                                       *)
UplinkCleanupHalf(n) == [n EXCEPT !.receiver = FALSE]

(* pouch_gateway_uplink_cleanup                                            *)
UplinkCleanup(n) == [n EXCEPT !.receiver = FALSE, !.uplink = 0]

Disconnect ==
  /\ node.link # "down"
  /\ \E n \in DiscoveryEnds(EndQuietly(node)) :
     \E m \in IF Ends(n, "server_cert") THEN SubEnds(n, "server_cert") ELSE {n} :
        node' = UplinkCleanup(m)
  /\ Track /\ UNCHANGED <<session, table, issued, history>>

-----------------------------------------------------------------------------
ClientCalls(s) == Kick(s) \/ \E res \in {"success", "error"} : UplinkEnd(s, res)

Next ==
  \/ Start \/ Issue \/ DiscoverStep \/ InfoDone
  \/ \E newest \in BOOLEAN : ServerCertDone(newest)
  \/ ServerCertFails \/ DeviceCertDone \/ UplinkDone \/ DownlinkDone
  \/ \E a \in Attrs : Unsubscribed(a) \/ Refuse(a)
  \/ \E s \in 1 .. session : ClientCalls(s)
  \/ Disconnect

Spec == Init /\ [][Next]_vars

(***************************************************************************)
(* The node answers and sends as long as it is connected, the cloud        *)
(* answers what was uploaded and sends a downlink, the host notifies; of a *)
(* certificate that the gateway does not have, sending fails.              *)
(* Strong fairness, for a certificate is renewed, and a downlink kicked,   *)
(* finitely often.                                                         *)
(***************************************************************************)
FairSpec ==
  /\ Spec
  /\ WF_vars(DiscoverStep) /\ WF_vars(InfoDone) /\ WF_vars(DeviceCertDone)
  /\ SF_vars(ServerCertDone(TRUE)) /\ WF_vars(~issued /\ ServerCertFails)
  /\ WF_vars(UplinkDone) /\ WF_vars(DownlinkDone)
  /\ \A a \in Attrs : SF_vars(Unsubscribed(a))
  /\ WF_vars(session \in closed /\ ClientCalls(session))

-----------------------------------------------------------------------------
(* Properties.                                                             *)

(***************************************************************************)
(* Types, and that the record points to no context that is gone.           *)
(***************************************************************************)
TypeOK ==
  /\ session \in 0 .. MaxSessions /\ table \in Tables /\ node \in Record
  /\ issued \in BOOLEAN /\ has \subseteq {"server", "another", "device"}
  /\ bare \in BOOLEAN /\ refused \in BOOLEAN
  /\ kicked \subseteq 1 .. session
  /\ uplinks \subseteq 1 .. session /\ closed \subseteq 1 .. session
  /\ downlinks \subseteq 1 .. session
  /\ node.uplink \in uplinks \cup {0} /\ node.downlink \in downlinks \cup {0}

(***************************************************************************)
(* lib/bt/connect.c:53 tells whose a CCC descriptor is by its handle: a    *)
(* characteristic that the node has is subscribed to by its own CCC, even  *)
(* if others are missing, unknown, in another order or without a CCC.      *)
(***************************************************************************)
SubscribesToOwn ==
  \A a \in Attrs :
    (node.sub[a] = "live" /\ node.value[a] # 0) => node.ccc[a] = OwnCcc(table, a)

(***************************************************************************)
(* A node synchronises only when its certificates are settled, whichever   *)
(* way the session took: skipped, sent, sent again, refused or stopped.    *)
(* The server's is settled, too, when neither the gateway nor the node had *)
(* one as lib/info.c:91 compared their serials, both empty: this is the    *)
(* only way to synchronise without.  Nodes without the characteristics are *)
(* exempt (lib/bt/connect.c:87).                                           *)
(***************************************************************************)
Settled ==
  {what \in {"server", "device"} :
     what \in has \/ (what = "server" /\ bare /\ "another" \notin has)}

CertsFirst ==
  (node.sub["uplink"] = "live" /\ HasCertChars(node)) =>
    Settled = {"server", "device"}

(***************************************************************************)
(* The transfer of the server certificate and the downlink share           *)
(* node->packetizer: each finds its own there as long as it has a sender.  *)
(***************************************************************************)
PacketizerIsOwn ==
  /\ node.server => node.packetizer = "server"
  /\ node.sender => node.packetizer = "downlink"

(***************************************************************************)
(* pouch_gateway_bt_start clears the record: by then no subscription is    *)
(* live and nothing is in it that would be lost, but for a downlink of     *)
(* which the node was not yet told (lib/bt/downlink.c:247): whatever way a *)
(* subscription ends, its downlink is closed or aborted.                   *)
(***************************************************************************)
NothingLost ==
  [][session' # session =>
       /\ ~node.info /\ ~node.server /\ ~node.device
       /\ node.uplink = 0 /\ ~node.receiver /\ node.downlink \notin kicked
       /\ \A a \in Attrs : ~Ends(node, a)]_vars

(***************************************************************************)
(* A session with a node that plays along ends, so that the gateway can    *)
(* serve others.                                                           *)
(***************************************************************************)
PlaysAlong == ~refused /\ (HasCertChars(node) => node.value["info"] # 0)

SessionEnds == (node.link = "up") ~> (node.link # "up" \/ ~PlaysAlong)

(***************************************************************************)
(* include/pouch_gateway/bt/connect.h:29 has pouch_gateway_bt_stop stop    *)
(* the operations of a connection: an uplink of an earlier session that    *)
(* ends leaves the record and the connection of the present one alone.     *)
(***************************************************************************)
SessionsApart ==
  [][\A s \in uplinks \ uplinks' : s < session => UNCHANGED node]_vars
=============================================================================
