----------------------------- MODULE ServerCert -----------------------------
(***************************************************************************)
(* The server certificate: lib/cert.c keeps one copy of it in a buffer,    *)
(* that the main thread downloads again whenever the cloud client          *)
(* reconnects (gateway/src/main.c), and the Bluetooth host thread sends it *)
(* to a node that does not have it (lib/bt/server_cert.c).  What decides   *)
(* whether a node has it is the serial in the node's info (lib/info.c).    *)
(*                                                                         *)
(* The certificates the cloud issues are 1, 2, ...; certificate v is       *)
(* CertLen[v] chunks long, a chunk being what one packet carries, and a    *)
(* chunk is represented by the certificate that it belongs to.             *)
(***************************************************************************)
EXTENDS Integers, Sequences

CONSTANTS
  Certs,          \* bound: certificates the cloud issues, 1 .. Certs
  CertLen,        \* chunks of each certificate
  SerialLen,      \* length of each certificate's serial number
  BufLen,         \* CONFIG_POUCH_GATEWAY_SERVER_CERT_MAX_LEN, in chunks
  MaxUpdates,     \* bound: the client reconnects no more after so many updates
  Failures        \* the downloads that may fail: "boot", the first one;
                  \* "before" or "after" a later one has written into the buffer

ASSUME CertAssumption ==
  /\ Certs \in Nat \ {0} /\ BufLen \in Nat
  /\ CertLen \in [1 .. Certs -> 1 .. BufLen]
  /\ SerialLen \in [1 .. Certs -> Nat \ {0}]
  /\ MaxUpdates \in Nat /\ Failures \subseteq {"boot", "before", "after"}

VARIABLES
  newest,    \* the certificate that the cloud issues now
  connected, \* the semaphore that the client's connection event gives
  booted,    \* main has got past its first download and enabled Bluetooth
  pc,        \* what main does next
  fetching,  \* the certificate that is being downloaded
  got_len,   \* chunks of it downloaded so far
  buf,       \* server_crt_buf, 0 where nothing was written
  crt_len,   \* server_crt_len
  serial,    \* server_crt_serial: whose, 0 where nothing was written
  serial_len, \* server_crt_serial_len
  installed, \* history: the certificate of each value of server_crt_id
  spoiled,   \* history: a download failed after it had written into the buffer
  conn,      \* the node is connected
  step,      \* what the node's session does: "idle", "info", "cert",
             \* "stopping", "next_stage" (device cert or uplink) or "finished"
  next,      \* node->server_cert_next
  has_ctx,   \* node->server_cert_ctx, packetizer and server_cert_sender
  ctx_id, offset,  \* the context
  last_sent, \* the packetizer has handed out the last chunk
  received,  \* chunks that the node has received in this transfer
  node_cert, \* the serial of the certificate that the node has stored
  provisioned, \* node->server_cert_provisioned
  judged     \* history: the id of the certificate that the session was found
             \* to have, 0 if the gateway was changing its own or had none

cloud   == <<newest, connected>>
store   == <<booted, pc, fetching, got_len, buf, crt_len, serial, serial_len,
             installed, spoiled>>
session == <<conn, step, next, has_ctx, ctx_id, offset, last_sent, received,
             node_cert, provisioned, judged>>
vars    == <<cloud, store, session>>

Whole(v) == [i \in 1 .. CertLen[v] |-> v]
Id       == Len(installed)

(* A node may have kept a certificate from before the gateway booted.      *)
Init ==
  /\ newest = 1 /\ connected = FALSE /\ booted = FALSE
  /\ pc = "get" /\ fetching = 1 /\ got_len = 0
  /\ buf = [i \in 1 .. BufLen |-> 0] /\ crt_len = 0
  /\ serial = 0 /\ serial_len = 0 /\ installed = <<>> /\ spoiled = FALSE
  /\ conn = FALSE /\ step = "idle" /\ next = "end"
  /\ has_ctx = FALSE /\ ctx_id = 0 /\ offset = 0
  /\ last_sent = FALSE /\ received = <<>>
  /\ node_cert \in 0 .. 1 /\ provisioned = FALSE /\ judged = 0

-----------------------------------------------------------------------------
(* The cloud issues another certificate, and its client reconnects.        *)
Renew ==
  /\ newest < Certs
  /\ newest' = newest + 1
  /\ UNCHANGED <<connected, store, session>>

Reconnect ==
  /\ ~connected /\ Id < MaxUpdates
  /\ connected' = TRUE
  /\ UNCHANGED <<newest, store, session>>

-----------------------------------------------------------------------------
(***************************************************************************)
(* main: pouch_gateway_cert_module_on_connected, before Bluetooth is       *)
(* enabled and after each k_sem_take.                                      *)
(***************************************************************************)

Take ==
  /\ pc = "wait" /\ connected
  /\ connected' = FALSE
  /\ fetching' = newest /\ got_len' = 0
  /\ pc' = "get"
  /\ UNCHANGED <<newest, booted, buf, crt_len, serial, serial_len, installed,
                 spoiled, session>>

(* golioth_gateway_server_cert_get writes into the buffer chunk by chunk.  *)
GetChunk ==
  /\ pc = "get" /\ got_len < CertLen[fetching]
  /\ got_len' = got_len + 1
  /\ buf' = [buf EXCEPT ![got_len + 1] = fetching]
  /\ pc' = IF got_len + 1 = CertLen[fetching] THEN "update" ELSE "get"
  /\ UNCHANGED <<cloud, booted, fetching, crt_len, serial, serial_len, installed,
                 spoiled, session>>

(* The download fails, or server_crt_update cannot parse it.               *)
Failure == IF ~booted THEN "boot" ELSE IF got_len = 0 THEN "before" ELSE "after"

GetFails ==
  /\ pc \in {"get", "update"} /\ Failure \in Failures
  /\ pc' = "wait" /\ booted' = TRUE
  /\ spoiled' = (spoiled \/ got_len > 0)
  /\ UNCHANGED <<cloud, fetching, got_len, buf, crt_len, serial, serial_len,
                 installed, session>>

(* server_crt_update: the serial, its length, the length, then the id.     *)
SetSerial ==
  /\ pc = "update"
  /\ serial' = fetching
  /\ pc' = "serial_len"
  /\ UNCHANGED <<cloud, booted, fetching, got_len, buf, crt_len, serial_len,
                 installed, spoiled, session>>

SetSerialLen ==
  /\ pc = "serial_len"
  /\ serial_len' = SerialLen[fetching]
  /\ pc' = "len"
  /\ UNCHANGED <<cloud, booted, fetching, got_len, buf, crt_len, serial,
                 installed, spoiled, session>>

(* Mutant: a terminator is counted.                                        *)
SetLenWithNul ==
  /\ pc = "len"
  /\ crt_len' = CertLen[fetching] + 1
  /\ pc' = "id"
  /\ UNCHANGED <<cloud, booted, fetching, got_len, buf, serial, serial_len,
                 installed, spoiled, session>>

SetLen ==
  /\ pc = "len"
  /\ crt_len' = CertLen[fetching]
  /\ pc' = "id"
  /\ UNCHANGED <<cloud, booted, fetching, got_len, buf, serial, serial_len,
                 installed, spoiled, session>>

IncId ==
  /\ pc = "id"
  /\ installed' = Append(installed, fetching)
  /\ spoiled' = FALSE
  /\ pc' = "wait" /\ booted' = TRUE
  /\ UNCHANGED <<cloud, fetching, got_len, buf, crt_len, serial, serial_len,
                 session>>

Main ==
  \/ Take \/ GetChunk \/ GetFails
  \/ SetSerial \/ SetSerialLen \/ SetLen \/ IncId

-----------------------------------------------------------------------------
(***************************************************************************)
(* The host thread, once Bluetooth is enabled.  It runs between any two    *)
(* steps of main, which waits for the network while it downloads; main,    *)
(* whose priority is lower, does not interrupt a handler.                  *)
(***************************************************************************)
At(s) == booted /\ conn /\ step = s

(* No download has written into the buffer since the last that installed   *)
(* its certificate.                                                        *)
Untouched == ~spoiled /\ (pc = "wait" \/ (pc = "get" /\ got_len = 0))

(* pouch_gateway_bt_start clears the node info; then the info is read.     *)
Connect ==
  /\ booted /\ ~conn
  /\ conn' = TRUE /\ step' = "info" /\ next' = "device_cert"
  /\ provisioned' = FALSE /\ judged' = 0
  /\ UNCHANGED <<cloud, store, has_ctx, ctx_id, offset, last_sent, received,
                 node_cert>>

(* Mutant: the context stays.                                              *)
CleanupNothing == UNCHANGED has_ctx

(* server_cert_cleanup                                                     *)
CleanupServerCert == has_ctx' = FALSE

(***************************************************************************)
(* pouch_gateway_server_cert_write: go on to the device certificate when   *)
(* the node has the server's, else subscribe and start sending.  Without   *)
(* memory, or when the subscription fails, clean up and finish.            *)
(***************************************************************************)
Write(skip) ==
  \/ /\ skip
     /\ step' = "next_stage"
     /\ UNCHANGED <<next, has_ctx, ctx_id, offset, last_sent, received>>
  \/ /\ ~skip /\ conn'
     /\ step' = "cert" /\ next' = "end"
     /\ has_ctx' = TRUE /\ ctx_id' = Id /\ offset' = 0
     /\ last_sent' = FALSE /\ received' = <<>>
  \/ /\ ~skip
     /\ step' = "finished" /\ next' \in {next, "end"}
     /\ CleanupServerCert
     /\ UNCHANGED <<ctx_id, offset, last_sent, received>>

(* Mutant: the comparison has the length of the node's serial.             *)
SerialIsPrefix ==
  node_cert = 0 \/ (serial = node_cert /\ serial_len = SerialLen[node_cert])

(* zcbor_compare_strings: a node without a certificate has the empty serial. *)
SerialMatches ==
  IF node_cert = 0 THEN serial_len = 0
  ELSE serial = node_cert /\ serial_len = SerialLen[node_cert]

(***************************************************************************)
(* pouch_gateway_info_finish compares the node's serial with the gateway's *)
(* and info_notify_cb goes on; info that cannot be parsed is ignored.      *)
(***************************************************************************)
InfoComplete ==
  /\ At("info")
  /\ UNCHANGED <<cloud, store, conn, node_cert>>
  /\ \E parsed \in BOOLEAN :
       /\ provisioned' = (parsed /\ SerialMatches)
       /\ judged' = IF provisioned' /\ pc \in {"wait", "get", "update"}
                    THEN Id ELSE 0
       /\ Write(provisioned')

(* pouch_gateway_server_cert_get_data, for the next packet of the sender.  *)
SendChunk ==
  /\ At("cert") /\ ~last_sent /\ offset < crt_len
  /\ received' = Append(received, buf[offset + 1])
  /\ offset' = offset + 1
  /\ last_sent' = (offset + 1 >= crt_len)
  /\ UNCHANGED <<cloud, store, conn, step, next, has_ctx, ctx_id, node_cert,
                 provisioned, judged>>

(* Mutants: the test is missing, or inverted.                              *)
AlwaysNewest == TRUE
IsOutdated == ctx_id # Id

(* pouch_gateway_server_cert_is_newest                                     *)
IsNewest == ctx_id = Id

(***************************************************************************)
(* server_cert_notify_cb, when the node has acknowledged every packet: the *)
(* certificate is sent again if it is not the newest any more.  The node   *)
(* stores what it received if that is a certificate.                       *)
(***************************************************************************)
Complete ==
  /\ At("cert") /\ last_sent
  /\ node_cert' = IF \E v \in 1 .. Certs : received = Whole(v)
                  THEN received[1] ELSE 0
  /\ next' = IF IsNewest THEN "device_cert" ELSE "server_cert"
  /\ step' = "stopping"
  /\ judged' = IF IsNewest /\ Untouched THEN Id ELSE 0
  /\ UNCHANGED <<cloud, store, conn, has_ctx, ctx_id, offset, last_sent,
                 received, provisioned>>

(* The transfer stops for good.                                            *)
GiveUp ==
  /\ next' = "end" /\ step' = "stopping"
  /\ UNCHANGED <<cloud, store, conn, has_ctx, ctx_id, offset, last_sent,
                 received, node_cert, provisioned, judged>>

(* get_data is asked for more of a certificate that has got shorter.       *)
PastEnd == At("cert") /\ ~last_sent /\ offset >= crt_len /\ GiveUp

(* A NACK, or an acknowledgement that the sender cannot handle.            *)
Nack == At("cert") /\ GiveUp

(***************************************************************************)
(* server_cert_notify_cb without data: clean up, then do what comes next,  *)
(* even when it is the disconnection that ended the subscription.          *)
(***************************************************************************)
SubscriptionEnds ==
  IF next = "server_cert"
  THEN Write(provisioned) /\ next' = "end"
  ELSE /\ step' = IF next = "device_cert" THEN "next_stage" ELSE "finished"
       /\ next' = "end" /\ CleanupServerCert
       /\ UNCHANGED <<ctx_id, offset, last_sent, received>>

Unsubscribed ==
  /\ At("stopping")
  /\ UNCHANGED <<cloud, store, conn, node_cert, provisioned, judged>>
  /\ SubscriptionEnds

Disconnect ==
  /\ booted /\ conn
  /\ conn' = FALSE
  /\ UNCHANGED <<cloud, store, node_cert, provisioned, judged>>
  /\ IF step \in {"cert", "stopping"}
     THEN SubscriptionEnds
     ELSE UNCHANGED <<step, next, has_ctx, ctx_id, offset, last_sent, received>>

Host ==
  \/ Connect \/ InfoComplete \/ SendChunk \/ PastEnd \/ Complete \/ Nack
  \/ Unsubscribed \/ Disconnect

Next == Renew \/ Reconnect \/ Main \/ Host

Spec == Init /\ [][Next]_vars

(***************************************************************************)
(* The host thread is scheduled and the node goes on acknowledging.  Main  *)
(* may wait for the network for good, the cloud never renew, the client    *)
(* never reconnect; and main, downloading, does not keep the host thread   *)
(* from running.                                                           *)
(***************************************************************************)
FairSpec ==
  /\ Spec
  /\ WF_vars(SendChunk \/ PastEnd \/ Complete) /\ WF_vars(Unsubscribed)

-----------------------------------------------------------------------------
(* Properties.                                                             *)

TypeOK ==
  /\ newest \in 1 .. Certs /\ connected \in BOOLEAN /\ booted \in BOOLEAN
  /\ pc \in {"wait", "get", "update", "serial_len", "len", "id"}
  /\ fetching \in 1 .. Certs /\ got_len \in 0 .. BufLen
  /\ buf \in [1 .. BufLen -> 0 .. Certs]
  /\ crt_len \in 0 .. BufLen /\ serial \in 0 .. Certs
  /\ serial_len \in Nat
  /\ installed \in Seq(1 .. Certs) /\ spoiled \in BOOLEAN
  /\ conn \in BOOLEAN
  /\ step \in {"idle", "info", "cert", "stopping", "next_stage", "finished"}
  /\ next \in {"device_cert", "server_cert", "end"}
  /\ has_ctx \in BOOLEAN /\ ctx_id \in Nat /\ offset \in 0 .. BufLen
  /\ last_sent \in BOOLEAN /\ received \in Seq(0 .. Certs)
  /\ node_cert \in 0 .. Certs /\ provisioned \in BOOLEAN /\ judged \in 0 .. Id

(***************************************************************************)
(* lib/bt/server_cert.c:171 has a certificate that was updated while it    *)
(* was sent be sent again.  A transfer that is judged the newest while the *)
(* buffer is Untouched gives the node the certificate installed last, and  *)
(* whole: downloads that came and went during the transfer, that succeeded *)
(* or failed, were either before it wrote or left the context outdated.    *)
(***************************************************************************)
Succeeds == step = "cert" /\ step' = "stopping" /\ next' = "device_cert"

NewestIsWhole ==
  [][Succeeds /\ Untouched => Id >= 1 /\ node_cert' = installed[Id]]_vars

(***************************************************************************)
(* A node that goes on to synchronise has the certificate that was the     *)
(* newest when it was found to have it, whether it was sent or skipped as  *)
(* provisioned, once or again; unless main was changing the copy or its    *)
(* serial then, or the gateway had none.                                   *)
(***************************************************************************)
SyncHasCert ==
  step = "next_stage" /\ judged # 0 => node_cert = installed[judged]

(***************************************************************************)
(* lib/bt/server_cert.c:171 has an outdated certificate be sent again: one *)
(* that is judged the newest is that certificate, and nothing of another.  *)
(***************************************************************************)
TransferIsNewest ==
  has_ctx /\ next = "device_cert" =>
    ctx_id \in 1 .. Id /\ received = Whole(installed[ctx_id])

(***************************************************************************)
(* gateway/src/main.c:351 downloads the certificate before Bluetooth is    *)
(* enabled: a node goes on to synchronise with one that the gateway has    *)
(* had.                                                                    *)
(***************************************************************************)
SyncsWithSome ==
  step = "next_stage" => \E i \in 1 .. Id : installed[i] = node_cert

(***************************************************************************)
(* A disconnection leaves no context behind, although the end of the       *)
(* subscription may start the next transfer on the dead connection.        *)
(***************************************************************************)
NothingLeftBehind == ~conn => ~has_ctx

(***************************************************************************)
(* Sending ends: updates make it start again, but only as often as the     *)
(* certificate changes, and then the session goes on or is finished.       *)
(***************************************************************************)
TransferEnds ==
  (step = "cert") ~> (step \in {"next_stage", "finished"} \/ ~conn)
=============================================================================
