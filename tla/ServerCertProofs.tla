--------------------------- MODULE ServerCertProofs ---------------------------
(***************************************************************************)
(* Proofs about the server certificate, for every number and every length  *)
(* of certificates and serials, every set of failures, and a host thread   *)
(* that runs between any two steps of main.  What main does to its copy is *)
(* known but for the time between a download's first write and its last    *)
(* (Stored, Named); what a transfer has sent, unless it is outdated or the *)
(* buffer not Untouched (Copies).  Last, why a transfer ends.              *)
(***************************************************************************)
EXTENDS ServerCert, TLAPS

(* What main has downloaded so far is in the buffer.                       *)
Downloading ==
  /\ pc # "wait" => /\ got_len <= CertLen[fetching]
                    /\ \A i \in 1 .. got_len : buf[i] = fetching
  /\ pc = "get" => got_len < CertLen[fetching]
  /\ pc \in {"update", "serial_len", "len", "id"} => got_len = CertLen[fetching]
  /\ pc \in {"serial_len", "len", "id"} => serial = fetching
  /\ pc \in {"len", "id"} => serial_len = SerialLen[fetching]
  /\ pc = "id" => crt_len = CertLen[fetching]

Transferring == step \in {"cert", "stopping"}

(* A transfer takes place on a connection, to a node without certificate.  *)
Transfers ==
  /\ has_ctx => Transferring
  /\ Transferring => conn /\ ~provisioned
  /\ step = "cert" => next = "end"

(* The length is that of the certificate installed last, until the next    *)
(* one's is set.                                                           *)
Measured ==
  pc # "id" => crt_len = IF Id = 0 THEN 0 ELSE CertLen[installed[Id]]

(* The serial is the one of the certificate installed last, until the next *)
(* one's is written.                                                       *)
Named ==
  pc \in {"wait", "get", "update"} =>
    IF Id = 0 THEN serial_len = 0
    ELSE serial = installed[Id] /\ serial_len = SerialLen[serial]

(* The buffer holds the certificate installed last, and nothing else.      *)
Stored == Untouched => \A i \in 1 .. crt_len : buf[i] = installed[Id]

(* A context has the id of a certificate of the past, or of the present.   *)
Dated == step = "cert" => ctx_id <= Id /\ offset = Len(received)

(* What a node has received, unless it is outdated.                        *)
Copies ==
  step = "cert" /\ IsNewest /\ Untouched =>
    /\ offset <= crt_len /\ (last_sent => offset = crt_len /\ Id >= 1)
    /\ \A i \in 1 .. offset : received[i] = installed[Id]

(* A node that was found to have a certificate has it.                     *)
Judged ==
  judged # 0 /\ (step = "next_stage" \/ (step = "stopping" /\ next = "device_cert"))
    => node_cert = installed[judged]

(* A transfer of the certificate in the copy has not come to its end.      *)
MoreToSend ==
  step = "cert" /\ ~last_sent /\ IsNewest =>
    pc = "id" \/ Id = 0 \/ offset < crt_len

Delivered ==
  Measured /\ Named /\ Stored /\ Dated /\ Copies /\ Judged /\ MoreToSend

IInv == TypeOK /\ Downloading /\ Transfers /\ Delivered

-----------------------------------------------------------------------------
(* The certificate that is being downloaded fits the buffer.               *)
LEMMA Fits ==
  ASSUME NEW v \in 1 .. Certs
  PROVE  /\ CertLen[v] \in Nat /\ CertLen[v] >= 1 /\ CertLen[v] <= BufLen
         /\ CertLen[v] \in 1 .. BufLen
BY CertAssumption

LEMMA SerialFits ==
  ASSUME NEW v \in 1 .. Certs
  PROVE  SerialLen[v] \in Nat /\ SerialLen[v] # 0
BY CertAssumption

(* The three ways server_cert_write goes.                                  *)
Skips  == /\ step' = "next_stage"
          /\ UNCHANGED <<next, has_ctx, ctx_id, offset, last_sent, received>>
Starts == /\ conn' /\ step' = "cert" /\ next' = "end"
          /\ has_ctx' = TRUE /\ ctx_id' = Id /\ offset' = 0
          /\ last_sent' = FALSE /\ received' = <<>>
Ended  == /\ step' \in {"next_stage", "finished"} /\ next' \in {next, "end"}
          /\ has_ctx' = FALSE
          /\ UNCHANGED <<ctx_id, offset, last_sent, received>>

(* The node's info either names the copy or lets a transfer start.         *)
LEMMA AfterInfo ==
  ASSUME InfoComplete
  PROVE  /\ conn /\ step = "info"
         /\ UNCHANGED <<cloud, store, conn, node_cert>>
         /\ provisioned' \in BOOLEAN /\ judged' \in {0, Id}
         /\ judged' # 0 => SerialMatches /\ pc \in {"wait", "get", "update"}
         /\ \/ Skips
            \/ Starts /\ ~provisioned'
            \/ Ended /\ step' = "finished" /\ ~provisioned'
<1>1. PICK parsed \in BOOLEAN :
        /\ provisioned' = (parsed /\ SerialMatches)
        /\ judged' = IF provisioned' /\ pc \in {"wait", "get", "update"}
                     THEN Id ELSE 0
        /\ Write(provisioned')
  BY DEF InfoComplete
<1>2. /\ judged' \in {0, Id}
      /\ judged' # 0 => SerialMatches /\ pc \in {"wait", "get", "update"}
  BY <1>1
<1>3. \/ Skips /\ provisioned'
      \/ Starts /\ ~provisioned'
      \/ Ended /\ step' = "finished" /\ ~provisioned'
  BY <1>1 DEF Write, Skips, Starts, Ended, CleanupServerCert
<1>4. /\ conn /\ step = "info"
      /\ UNCHANGED <<cloud, store, conn, node_cert>>
  BY DEF InfoComplete, At
<1>5. provisioned' \in BOOLEAN
  BY <1>1 DEF SerialMatches
<1> QED
  BY <1>1, <1>2, <1>3, <1>4, <1>5

(* The end of a subscription starts the transfer again or leaves it.       *)
LEMMA AfterEnd ==
  ASSUME SubscriptionEnds
  PROVE  \/ Starts /\ next = "server_cert" /\ ~provisioned
         \/ /\ Ended /\ next' = "end"
            /\ step' = "next_stage" => next = "device_cert"
<1>1. CASE next = "server_cert"
  BY <1>1 DEF SubscriptionEnds, Write, Starts, Ended, CleanupServerCert
<1>2. CASE next # "server_cert"
  BY <1>2 DEF SubscriptionEnds, Ended, CleanupServerCert
<1> QED
  BY <1>1, <1>2

(* The types, in two parts: the provers treat truth values apart.          *)
Bits ==
  /\ connected \in BOOLEAN /\ booted \in BOOLEAN /\ conn \in BOOLEAN
  /\ has_ctx \in BOOLEAN /\ last_sent \in BOOLEAN /\ provisioned \in BOOLEAN
  /\ spoiled \in BOOLEAN

Values ==
  /\ newest \in 1 .. Certs
  /\ pc \in {"wait", "get", "update", "serial_len", "len", "id"}
  /\ fetching \in 1 .. Certs /\ got_len \in 0 .. BufLen
  /\ buf \in [1 .. BufLen -> 0 .. Certs]
  /\ crt_len \in 0 .. BufLen /\ serial \in 0 .. Certs
  /\ serial_len \in Nat
  /\ installed \in Seq(1 .. Certs)
  /\ step \in {"idle", "info", "cert", "stopping", "next_stage", "finished"}
  /\ next \in {"device_cert", "server_cert", "end"}
  /\ ctx_id \in Nat /\ offset \in 0 .. BufLen
  /\ received \in Seq(0 .. Certs) /\ node_cert \in 0 .. Certs
  /\ judged \in 0 .. Id

LEMMA Typed == TypeOK <=> (Bits /\ Values)
BY Zenon DEF TypeOK, Bits, Values

LEMMA InitTyped == Init => TypeOK
<1>1. Init => Bits
  BY Zenon DEF Init, Bits
<1>2. Init => Values
  BY CertAssumption DEF Init, Values, Id
<1> QED
  BY <1>1, <1>2, Typed

LEMMA NextBits == Bits /\ Values /\ [Next]_vars => Bits'
<1> SUFFICES ASSUME Bits, Values, [Next]_vars PROVE Bits'
  OBVIOUS
<1> USE DEF Bits
<1>1. CASE Renew \/ Reconnect \/ Main
  BY <1>1, Zenon DEF Renew, Reconnect, Main, Take, GetChunk, GetFails,
     SetSerial, SetSerialLen, SetLen, IncId, cloud, store, session
<1>2. CASE Connect \/ PastEnd \/ Complete \/ Nack
  BY <1>2, Zenon DEF Connect, PastEnd, Complete, Nack, GiveUp, cloud, store
<1>7. CASE SendChunk
  <2>1. (offset + 1 >= crt_len) \in BOOLEAN
    BY DEF Values
  <2>2. last_sent' = (offset + 1 >= crt_len)
    BY <1>7, Zenon DEF SendChunk
  <2>3. last_sent' \in BOOLEAN
    BY <2>1, <2>2, Zenon
  <2> QED
    BY <1>7, <2>3, Zenon DEF SendChunk, cloud, store
<1>3. CASE InfoComplete
  BY <1>3, AfterInfo DEF Skips, Starts, Ended, cloud, store
<1>4. CASE Unsubscribed
  BY <1>4, AfterEnd DEF Unsubscribed, Starts, Ended, cloud, store
<1>5. CASE Disconnect
  BY <1>5, AfterEnd DEF Disconnect, Starts, Ended, cloud, store
<1>6. CASE UNCHANGED vars
  BY <1>6 DEF vars, cloud, store, session
<1> QED
  BY <1>1, <1>2, <1>3, <1>4, <1>5, <1>6, <1>7 DEF Next, Host

LEMMA Moves ==
  ASSUME Values, UNCHANGED <<cloud, store, node_cert>>, judged' \in 0 .. Id,
         Skips \/ Starts \/ Ended
  PROVE  Values'
<1> USE DEF Values
<1>1. /\ newest' = newest /\ pc' = pc /\ fetching' = fetching
      /\ got_len' = got_len /\ buf' = buf /\ crt_len' = crt_len
      /\ serial' = serial /\ serial_len' = serial_len
      /\ installed' = installed /\ Id' = Id /\ node_cert' = node_cert
  BY DEF cloud, store, Id
<1>2. CASE Skips
  BY <1>1, <1>2 DEF Skips
<1>3. CASE Starts
  <2> <<>> \in Seq(0 .. Certs) /\ Id \in Nat /\ 0 \in 0 .. BufLen
    BY CertAssumption DEF Id
  <2> QED
    BY <1>1, <1>3 DEF Starts
<1>4. CASE Ended
  BY <1>1, <1>4 DEF Ended
<1> QED
  BY <1>2, <1>3, <1>4

LEMMA NextValues == Values /\ [Next]_vars => Values'
<1> SUFFICES ASSUME Values, [Next]_vars PROVE Values'
  OBVIOUS
<1> USE CertAssumption DEF Values, Id
<1>1. CASE Renew
  BY <1>1 DEF Renew, store, session
<1>2. CASE Reconnect
  BY <1>2 DEF Reconnect, store, session
<1>3. CASE Take
  BY <1>3 DEF Take, session
<1>4. CASE GetChunk
  <2> CertLen[fetching] \in 1 .. BufLen
    BY Fits
  <2> QED
    BY <1>4 DEF GetChunk, cloud, session
<1>5. CASE GetFails
  BY <1>5 DEF GetFails, cloud, session
<1>6. CASE SetSerial
  BY <1>6 DEF SetSerial, cloud, session
<1>18. CASE SetSerialLen
  <2> SerialLen[fetching] \in Nat
    BY SerialFits
  <2> QED
    BY <1>18 DEF SetSerialLen, cloud, session
<1>7. CASE SetLen
  <2> CertLen[fetching] \in 1 .. BufLen
    BY Fits
  <2> QED
    BY <1>7 DEF SetLen, cloud, session
<1>8. CASE IncId
  BY <1>8 DEF IncId, cloud, session
<1>9. CASE Connect
  BY <1>9 DEF Connect, cloud, store
<1>10. CASE InfoComplete
  <2>1. UNCHANGED <<cloud, store, node_cert>> /\ (Skips \/ Starts \/ Ended)
    BY <1>10, AfterInfo, Zenon
  <2>2. judged' \in {0, Id} /\ Id \in Nat
    BY <1>10, AfterInfo
  <2>3. judged' \in 0 .. Id
    BY <2>2
  <2> QED
    BY <2>1, <2>3, Moves
<1>11. CASE SendChunk
  BY <1>11 DEF SendChunk, cloud, store
<1>12. CASE PastEnd \/ Nack
  BY <1>12 DEF PastEnd, Nack, GiveUp, cloud, store
<1>13. CASE Complete
  <2>1. node_cert' \in 0 .. Certs
    <3>1. CASE \E v \in 1 .. Certs : received = Whole(v)
      <4> PICK v \in 1 .. Certs : received = Whole(v)
        BY <3>1
      <4> received[1] = v
        BY Fits DEF Whole
      <4> QED
        BY <1>13, <3>1 DEF Complete
    <3>2. CASE ~\E v \in 1 .. Certs : received = Whole(v)
      BY <1>13, <3>2 DEF Complete
    <3> QED
      BY <3>1, <3>2
  <2> QED
    BY <1>13, <2>1 DEF Complete, cloud, store
<1>15. CASE Unsubscribed
  <2>1. /\ UNCHANGED <<cloud, store, node_cert, judged>>
        /\ Starts \/ Ended
    BY <1>15, AfterEnd DEF Unsubscribed
  <2> QED
    BY <2>1, Moves
<1>16. CASE Disconnect
  <2>1. CASE step \in {"cert", "stopping"}
    <3>1. /\ UNCHANGED <<cloud, store, node_cert, judged>>
          /\ Starts \/ Ended
      BY <1>16, <2>1, AfterEnd DEF Disconnect
    <3> QED
      BY <3>1, Moves
  <2>2. CASE step \notin {"cert", "stopping"}
    BY <1>16, <2>2 DEF Disconnect, cloud, store
  <2> QED
    BY <2>1, <2>2
<1>17. CASE UNCHANGED vars
  BY <1>17 DEF vars, cloud, store, session
<1> QED
  BY <1>1, <1>2, <1>3, <1>4, <1>5, <1>6, <1>7, <1>8, <1>9, <1>10, <1>11,
     <1>12, <1>13, <1>15, <1>16, <1>17, <1>18 DEF Next, Main, Host

-----------------------------------------------------------------------------
(* Only main writes the copy.                                              *)
LEMMA OnlyMain == [Next]_vars => Main \/ UNCHANGED store
BY DEF Next, Host, Renew, Reconnect, Connect, InfoComplete, SendChunk, PastEnd,
   Complete, Nack, GiveUp, Unsubscribed, Disconnect, vars

LEMMA NextDownloading ==
  Values /\ Downloading /\ [Next]_vars => Downloading'
<1> SUFFICES ASSUME Values, Downloading, [Next]_vars PROVE Downloading'
  OBVIOUS
<1> USE DEF Values, Downloading
<1>0. CertLen[fetching] \in Nat /\ CertLen[fetching] >= 1
      /\ CertLen[fetching] <= BufLen /\ BufLen \in Nat
  BY Fits, CertAssumption
<1>1. CASE Take
  <2> CertLen[newest] \in Nat /\ CertLen[newest] >= 1
    BY Fits
  <2> QED
    BY <1>1 DEF Take
<1>2. CASE GetChunk
  <2>1. /\ got_len \in 0 .. BufLen /\ got_len < CertLen[fetching]
        /\ got_len' = got_len + 1 /\ fetching' = fetching
        /\ buf' = [buf EXCEPT ![got_len + 1] = fetching]
        /\ pc = "get" /\ pc' \in {"get", "update"}
        /\ pc' = "get" => got_len + 1 # CertLen[fetching]
        /\ pc' = "update" => got_len + 1 = CertLen[fetching]
    BY <1>2, <1>0 DEF GetChunk
  <2>2. \A i \in 1 .. got_len + 1 : buf'[i] = fetching
    BY <2>1, <1>0
  <2> QED
    BY <2>1, <2>2, <1>0
<1>3. CASE GetFails
  BY <1>3 DEF GetFails
<1>4. CASE SetSerial
  BY <1>4 DEF SetSerial
<1>8. CASE SetSerialLen
  BY <1>8 DEF SetSerialLen
<1>5. CASE SetLen
  BY <1>5 DEF SetLen
<1>6. CASE IncId
  BY <1>6 DEF IncId
<1>7. CASE UNCHANGED store
  BY <1>7 DEF store
<1> QED
  BY <1>1, <1>2, <1>3, <1>4, <1>5, <1>6, <1>7, <1>8, OnlyMain DEF Main

-----------------------------------------------------------------------------
LEMMA NextTransfers == Values /\ Transfers /\ [Next]_vars => Transfers'
<1> SUFFICES ASSUME Values, Transfers, [Next]_vars PROVE Transfers'
  OBVIOUS
<1> USE DEF Transfers, Transferring
<1>1. CASE Renew \/ Reconnect \/ Main \/ UNCHANGED vars
  <2> UNCHANGED session
    BY <1>1, Zenon DEF Renew, Reconnect, Main, Take, GetChunk, GetFails,
       SetSerial, SetSerialLen, SetLen, IncId, vars
  <2> QED
    BY DEF session
<1>2. CASE Connect
  BY <1>2 DEF Connect
<1>3. CASE InfoComplete
  <2>1. CASE Skips
    BY <1>3, <2>1, AfterInfo, Zenon DEF Skips
  <2>2. CASE Starts /\ ~provisioned'
    BY <2>2, Zenon DEF Starts
  <2>3. CASE Ended
    BY <2>3 DEF Ended
  <2> QED
    BY <1>3, <2>1, <2>2, <2>3, AfterInfo
<1>4. CASE SendChunk
  BY <1>4, Zenon DEF SendChunk, At
<1>5. CASE PastEnd \/ Nack
  <2> step = "cert" /\ GiveUp
    BY <1>5, Zenon DEF PastEnd, Nack, At
  <2> QED
    BY DEF GiveUp
<1>6. CASE Complete
  BY <1>6, Zenon DEF Complete, At
<1>7. CASE Unsubscribed
  BY <1>7, AfterEnd DEF Unsubscribed, At, Starts, Ended
<1>8. CASE Disconnect
  BY <1>8, AfterEnd DEF Disconnect, Starts, Ended
<1> QED
  BY <1>1, <1>2, <1>3, <1>4, <1>5, <1>6, <1>7, <1>8 DEF Next, Host

-----------------------------------------------------------------------------
(***************************************************************************)
(* What main does to the copy, and what a transfer gets of it.  A download *)
(* that has written into the buffer either spoils it or ends in a new id,  *)
(* which tells every transfer under way that it is outdated.               *)
(***************************************************************************)
(* Main changes the session no more than the cloud does.                   *)
LEMMA MainOnly ==
  ASSUME Renew \/ Reconnect \/ Main \/ UNCHANGED vars
  PROVE  UNCHANGED session
BY Zenon DEF Renew, Reconnect, Main, Take, GetChunk, GetFails, SetSerial,
   SetSerialLen, SetLen, IncId, vars

(* The certificates that were installed stay; another may be added.        *)
LEMMA History ==
  ASSUME Values, Renew \/ Reconnect \/ Main \/ UNCHANGED vars
  PROVE  \/ installed' = installed
         \/ installed' = Append(installed, fetching)
BY DEF Renew, Reconnect, Main, Take, GetChunk, GetFails, SetSerial,
   SetSerialLen, SetLen, IncId, vars, store

LEMMA Grows ==
  ASSUME Values, Renew \/ Reconnect \/ Main \/ UNCHANGED vars
  PROVE  /\ Id \in Nat /\ Id' \in Nat /\ Id' >= Id
         /\ Id' = Id => installed' = installed
         /\ \A i \in 1 .. Id : installed'[i] = installed[i]
<1>1. CASE installed' = installed
  BY <1>1 DEF Values, Id
<1>2. CASE installed' = Append(installed, fetching)
  <2>1. installed \in Seq(1 .. Certs) /\ fetching \in 1 .. Certs
    BY DEF Values
  <2>2. /\ Len(installed) \in Nat /\ Len(installed') = Len(installed) + 1
        /\ \A i \in 1 .. Len(installed) : installed'[i] = installed[i]
    BY <1>2, <2>1
  <2> QED
    BY <2>2 DEF Id
<1> QED
  BY <1>1, <1>2, History

LEMMA Element ==
  ASSUME NEW S, NEW s \in Seq(S), NEW i \in 1 .. Len(s)
  PROVE  s[i] \in S
OBVIOUS

LEMMA Newest ==
  ASSUME Values
  PROVE  Id \in Nat /\ (Id # 0 => Id \in 1 .. Id /\ installed[Id] \in 1 .. Certs)
<1>1. installed \in Seq(1 .. Certs) /\ Id = Len(installed) /\ Id \in Nat
  BY DEF Values, Id
<1>2. Id # 0 => Id \in 1 .. Len(installed)
  BY <1>1
<1> QED
  BY <1>1, <1>2, Element

LEMMA Appended ==
  ASSUME Values, IncId
  PROVE  Id' = Id + 1 /\ Id' # 0 /\ installed'[Id'] = fetching
<1>1. installed' = Append(installed, fetching) /\ installed \in Seq(1 .. Certs)
      /\ fetching \in 1 .. Certs
  BY DEF IncId, Values
<1>2. /\ Len(installed') = Len(installed) + 1 /\ Len(installed) \in Nat
      /\ installed'[Len(installed) + 1] = fetching
  BY <1>1
<1> QED
  BY <1>2 DEF Id

LEMMA NextMeasured ==
  ASSUME Values, Downloading, Measured, [Next]_vars
  PROVE  Measured'
<1>1. CASE IncId
  <2>1. crt_len' = CertLen[fetching]
    BY <1>1 DEF IncId, Downloading
  <2> QED
    BY <1>1, <2>1, Appended DEF Measured
<1>2. CASE SetLen
  BY <1>2 DEF SetLen, Measured
<1>3. CASE Take \/ GetChunk \/ GetFails \/ SetSerial \/ SetSerialLen
  <2>1. UNCHANGED <<crt_len, installed>> /\ pc # "id"
    BY <1>3 DEF Take, GetChunk, GetFails, SetSerial, SetSerialLen
  <2> QED
    BY <2>1 DEF Measured, Id
<1>4. CASE UNCHANGED store
  BY <1>4 DEF store, Measured, Id
<1> QED
  BY <1>1, <1>2, <1>3, <1>4, OnlyMain DEF Main

LEMMA NextNamed ==
  ASSUME Values, Downloading, Named, [Next]_vars
  PROVE  Named'
<1>1. CASE IncId
  <2>1. serial' = fetching /\ serial_len' = SerialLen[fetching]
    BY <1>1 DEF IncId, Downloading
  <2> QED
    BY <1>1, <2>1, Appended DEF Named
<1>2. CASE SetSerial \/ SetSerialLen \/ SetLen
  BY <1>2 DEF SetSerial, SetSerialLen, SetLen, Named
<1>3. CASE Take \/ GetChunk \/ GetFails
  <2>1. UNCHANGED <<serial, serial_len, installed>>
        /\ pc \in {"wait", "get", "update"}
    BY <1>3 DEF Take, GetChunk, GetFails
  <2> QED
    BY <2>1 DEF Named, Id
<1>4. CASE UNCHANGED store
  BY <1>4 DEF store, Named, Id
<1> QED
  BY <1>1, <1>2, <1>3, <1>4, OnlyMain DEF Main

(* Only a new certificate makes the buffer Untouched again.                *)
LEMMA StaysUntouched ==
  ASSUME Values, Downloading, Main \/ UNCHANGED store, ~IncId, Untouched'
  PROVE  Untouched /\ UNCHANGED <<buf, crt_len, installed>>
<1> USE DEF Untouched
<1>1. CASE Take
  BY <1>1 DEF Take
<1>2. CASE GetChunk
  BY <1>2 DEF GetChunk, Values
<1>3. CASE GetFails
  <2>1. ~(got_len > 0) /\ ~spoiled /\ pc \in {"get", "update"}
    BY <1>3, Zenon DEF GetFails
  <2>2. got_len \in Nat /\ got_len = 0
    BY <2>1, CertAssumption DEF Values
  <2>3. pc # "update"
    BY <2>2, Fits DEF Downloading, Values
  <2> QED
    BY <1>3, <2>1, <2>2, <2>3 DEF GetFails
<1>4. CASE SetSerial \/ SetSerialLen \/ SetLen
  BY <1>4 DEF SetSerial, SetSerialLen, SetLen
<1>5. CASE UNCHANGED store
  BY <1>5 DEF store
<1> QED
  BY <1>1, <1>2, <1>3, <1>4, <1>5 DEF Main

LEMMA NextStored ==
  ASSUME Values, Downloading, Stored, [Next]_vars
  PROVE  Stored'
<1>1. CASE IncId
  <2>1. /\ crt_len = CertLen[fetching] /\ got_len = crt_len
        /\ \A i \in 1 .. got_len : buf[i] = fetching
        /\ crt_len' = crt_len /\ buf' = buf
    BY <1>1 DEF IncId, Downloading
  <2> QED
    BY <1>1, <2>1, Appended DEF Stored
<1>2. CASE ~IncId
  <2> SUFFICES ASSUME Untouched' PROVE Stored'
    BY DEF Stored
  <2> QED
    BY <1>2, OnlyMain, StaysUntouched DEF Stored, Id
<1> QED
  BY <1>1, <1>2

-----------------------------------------------------------------------------
(* The transfer.                                                           *)

LEMMA NextDated ==
  ASSUME Values, Dated, [Next]_vars
  PROVE  Dated'
<1>1. CASE Renew \/ Reconnect \/ Main \/ UNCHANGED vars
  <2>1. /\ Id \in Nat /\ Id' \in Nat /\ Id' >= Id
        /\ UNCHANGED <<step, ctx_id, offset, received>>
    BY <1>1, Grows, MainOnly DEF session
  <2>2. ctx_id \in Nat
    BY DEF Values
  <2> QED
    BY <2>1, <2>2 DEF Dated
<1>2. ASSUME Starts, UNCHANGED store PROVE Dated'
  <2>1. Id \in Nat /\ Id' = Id /\ ctx_id' = Id /\ offset' = 0 /\ received' = <<>>
    BY <1>2 DEF Starts, store, Values, Id
  <2> QED
    BY <2>1 DEF Dated
<1>3. ASSUME Ended \/ Skips PROVE Dated'
  BY <1>3 DEF Ended, Skips, Dated
<1>4. CASE InfoComplete
  BY <1>2, <1>3, <1>4, AfterInfo
<1>5. CASE Unsubscribed \/ Disconnect
  <2>1. CASE SubscriptionEnds
    BY <1>2, <1>3, <1>5, <2>1, AfterEnd DEF Unsubscribed, Disconnect
  <2>2. CASE ~SubscriptionEnds
    BY <1>5, <2>2 DEF Unsubscribed, Disconnect, Dated, store, Id
  <2> QED
    BY <2>1, <2>2
<1>6. CASE Connect \/ PastEnd \/ Nack \/ Complete
  BY <1>6 DEF Connect, PastEnd, Nack, Complete, GiveUp, Dated
<1>7. CASE SendChunk
  <2>1. /\ step = "cert" /\ offset < crt_len /\ offset' = offset + 1
        /\ received' = Append(received, buf[offset + 1])
        /\ ctx_id' = ctx_id /\ Id' = Id
    BY <1>7 DEF SendChunk, At, store, Id
  <2>2. received \in Seq(0 .. Certs) /\ offset = Len(received)
    BY <2>1 DEF Values, Dated
  <2>3. Len(received') = Len(received) + 1
    BY <2>1, <2>2
  <2> QED
    BY <2>1, <2>2, <2>3 DEF Dated
<1> QED
  BY <1>1, <1>4, <1>5, <1>6, <1>7 DEF Next, Host

(* What main does is no harm to a transfer that is judged the newest.      *)
LEMMA NotOutdated ==
  ASSUME Values, Dated, step = "cert", IsNewest',
         Renew \/ Reconnect \/ Main \/ UNCHANGED vars
  PROVE  IsNewest /\ ~IncId /\ installed' = installed /\ Id' = Id
<1>1. ctx_id = Id' /\ Id' \in Nat /\ Id \in Nat /\ Id' >= Id
  BY MainOnly, Grows DEF session, IsNewest
<1>2. ctx_id <= Id
  BY DEF Dated
<1>3. Id' = Id /\ installed' = installed
  BY <1>1, <1>2, Grows
<1>4. ~IncId
  BY <1>1, <1>3, Appended
<1> QED
  BY <1>1, <1>3, <1>4 DEF IsNewest

LEMMA NextCopies ==
  ASSUME Values, Downloading, Measured, Stored, Dated, Copies, [Next]_vars
  PROVE  Copies'
<1>1. CASE Renew \/ Reconnect \/ Main \/ UNCHANGED vars
  <2> SUFFICES ASSUME step = "cert", IsNewest', Untouched' PROVE Copies'
    BY <1>1, MainOnly DEF session, Copies
  <2>1. IsNewest /\ ~IncId /\ installed' = installed /\ Id' = Id
    BY <1>1, NotOutdated
  <2>2. Untouched /\ UNCHANGED <<buf, crt_len, installed>>
    <3> Main \/ UNCHANGED store
      BY <1>1 DEF Renew, Reconnect, vars
    <3> QED
      BY <2>1, StaysUntouched
  <2>3. UNCHANGED <<step, offset, last_sent, received>>
    BY <1>1, MainOnly DEF session
  <2> QED
    BY <2>1, <2>2, <2>3 DEF Copies
<1>2. ASSUME Starts, UNCHANGED store PROVE Copies'
  <2>1. offset' = 0 /\ ~last_sent' /\ crt_len' \in Nat /\ 0 <= crt_len'
    BY <1>2, CertAssumption DEF Starts, store, Values
  <2> QED
    BY <2>1 DEF Copies
<1>3. ASSUME step' # "cert" PROVE Copies'
  BY <1>3 DEF Copies
<1>4. CASE Connect \/ PastEnd \/ Nack \/ Complete
  BY <1>3, <1>4 DEF Connect, PastEnd, Nack, Complete, GiveUp
<1>5. CASE InfoComplete
  BY <1>2, <1>3, <1>5, AfterInfo DEF Skips, Ended
<1>6. CASE Unsubscribed \/ Disconnect
  <2>1. CASE SubscriptionEnds
    BY <1>2, <1>3, <1>6, <2>1, AfterEnd DEF Unsubscribed, Disconnect, Ended
  <2>2. CASE ~SubscriptionEnds
    BY <1>3, <1>6, <2>2 DEF Unsubscribed, Disconnect
  <2> QED
    BY <2>1, <2>2
<1>7. CASE SendChunk
  <2> SUFFICES ASSUME IsNewest', Untouched' PROVE Copies'
    BY DEF Copies
  <2>1. /\ step = "cert" /\ ~last_sent /\ offset < crt_len
        /\ received' = Append(received, buf[offset + 1])
        /\ offset' = offset + 1 /\ ctx_id' = ctx_id
        /\ last_sent' = (offset + 1 >= crt_len) /\ UNCHANGED store
    BY <1>7, Zenon DEF SendChunk, At
  <2>2. IsNewest /\ Untouched /\ Id' = Id /\ installed' = installed
        /\ crt_len' = crt_len
    BY <2>1 DEF store, IsNewest, Untouched, Id
  <2>3. /\ offset = Len(received) /\ received \in Seq(0 .. Certs)
        /\ offset \in Nat /\ crt_len \in Nat /\ Id \in Nat
    BY <2>1, CertAssumption DEF Dated, Values, Id
  <2>4. Id >= 1
    <3> Id # 0
      BY <2>1, <2>2, <2>3 DEF Measured, Untouched
    <3> QED
      BY <2>3
  <2>5. buf[offset + 1] = installed[Id]
    BY <2>1, <2>2, <2>3 DEF Stored
  <2>6. \A i \in 1 .. offset : received[i] = installed[Id]
    BY <2>1, <2>2 DEF Copies
  <2>7. \A i \in 1 .. offset + 1 : received'[i] = installed[Id]
    BY <2>1, <2>3, <2>5, <2>6
  <2>8. offset + 1 <= crt_len /\ (last_sent' => offset + 1 = crt_len)
    <3>1. last_sent' => offset + 1 >= crt_len
      BY <2>1, Zenon
    <3>2. offset < crt_len
      BY <2>1, Zenon
    <3> QED
      BY <2>3, <3>1, <3>2
  <2> QED
    BY <2>1, <2>2, <2>4, <2>7, <2>8 DEF Copies
<1> QED
  BY <1>1, <1>4, <1>5, <1>6, <1>7 DEF Next, Host

(* A transfer judged the newest while the buffer is Untouched has given    *)
(* the node the certificate installed last.                                *)
LEMMA Delivers ==
  ASSUME Values, Measured, Dated, Copies, Complete, IsNewest, Untouched
  PROVE  Id >= 1 /\ node_cert' = installed[Id]
<1>1. /\ step = "cert" /\ last_sent
      /\ node_cert' = IF \E v \in 1 .. Certs : received = Whole(v)
                      THEN received[1] ELSE 0
  BY Zenon DEF Complete, At
<1>2. /\ offset = crt_len /\ Id >= 1 /\ offset = Len(received)
      /\ \A i \in 1 .. offset : received[i] = installed[Id]
  BY <1>1, Zenon DEF Copies, Dated
<1>3. installed[Id] \in 1 .. Certs /\ crt_len = CertLen[installed[Id]]
  BY <1>2, Newest DEF Measured, Untouched
<1>4. received = Whole(installed[Id])
  <2>1. received \in Seq(0 .. Certs)
    BY DEF Values
  <2>2. received = [i \in 1 .. Len(received) |-> received[i]]
    BY <2>1
  <2> QED
    BY <1>2, <1>3, <2>2 DEF Whole
<1>5. received[1] = installed[Id]
  BY <1>3, <1>4, Fits DEF Whole
<1> QED
  BY <1>1, <1>2, <1>3, <1>4, <1>5

LEMMA NextJudged ==
  ASSUME Values, Transfers, Measured, Named, Dated, Copies, Judged, [Next]_vars
  PROVE  Judged'
<1>1. CASE Renew \/ Reconnect \/ Main \/ UNCHANGED vars
  <2>1. UNCHANGED <<step, next, judged, node_cert>>
    BY <1>1, MainOnly DEF session
  <2>2. judged # 0 => judged \in 1 .. Id
    BY Newest DEF Values
  <2>3. judged # 0 => installed'[judged] = installed[judged]
    BY <1>1, <2>2, Grows
  <2> QED
    BY <2>1, <2>3 DEF Judged
<1>2. CASE Connect \/ PastEnd \/ Nack \/ SendChunk
  <2> step' # "next_stage" /\ (step' # "stopping" \/ next' = "end")
    BY <1>2, Zenon DEF Connect, PastEnd, Nack, GiveUp, SendChunk, At
  <2> QED
    BY DEF Judged
<1>3. CASE InfoComplete
  <2> SUFFICES ASSUME judged' # 0 PROVE node_cert' = installed'[judged']
    BY DEF Judged
  <2>1. /\ judged' = Id /\ Id # 0 /\ SerialMatches
        /\ pc \in {"wait", "get", "update"}
        /\ node_cert' = node_cert /\ installed' = installed
    BY <1>3, AfterInfo DEF store
  <2>2. serial = installed[Id] /\ serial_len = SerialLen[serial] /\ serial_len # 0
    BY <2>1, Newest, SerialFits DEF Named
  <2>3. node_cert = serial
    BY <2>1, <2>2 DEF SerialMatches
  <2> QED
    BY <2>1, <2>2, <2>3
<1>4. CASE Complete
  <2> SUFFICES ASSUME judged' # 0 PROVE node_cert' = installed'[judged']
    BY DEF Judged
  <2>1. /\ IsNewest /\ Untouched /\ judged' = Id /\ installed' = installed
    BY <1>4 DEF Complete, store
  <2> QED
    BY <1>4, <2>1, Delivers
<1>5. ASSUME SubscriptionEnds, Transferring, UNCHANGED store,
             UNCHANGED <<judged, node_cert>>
      PROVE  Judged'
  <2>1. installed' = installed
    BY <1>5 DEF store
  <2>2. step' # "stopping"
        /\ (step' = "next_stage" => step = "stopping" /\ next = "device_cert")
    BY <1>5, AfterEnd DEF Starts, Ended, Transfers, Transferring
  <2> QED
    BY <1>5, <2>1, <2>2 DEF Judged
<1>6. CASE Unsubscribed
  BY <1>5, <1>6 DEF Unsubscribed, At, Transferring
<1>7. CASE Disconnect
  <2>1. CASE Transferring
    BY <1>5, <1>7, <2>1 DEF Disconnect, Transferring
  <2>2. CASE ~Transferring
    BY <1>7, <2>2 DEF Disconnect, Transferring, Judged, store
  <2> QED
    BY <2>1, <2>2
<1> QED
  BY <1>1, <1>2, <1>3, <1>4, <1>6, <1>7 DEF Next, Host

LEMMA NextMore ==
  ASSUME Values, Downloading, Measured, Dated, MoreToSend, [Next]_vars
  PROVE  MoreToSend'
<1>1. CASE Renew \/ Reconnect \/ Main \/ UNCHANGED vars
  <2> SUFFICES ASSUME step = "cert", ~last_sent, IsNewest', pc' # "id", Id' # 0
               PROVE  offset < crt_len'
    BY <1>1, MainOnly DEF session, MoreToSend
  <2>1. IsNewest /\ ~IncId /\ Id' = Id
    BY <1>1, NotOutdated
  <2>2. pc # "id" /\ crt_len' = crt_len
    BY <1>1, <2>1 DEF Renew, Reconnect, Main, Take, GetChunk, GetFails,
       SetSerial, SetSerialLen, SetLen, vars, store
  <2> QED
    BY <2>1, <2>2 DEF MoreToSend
<1>2. ASSUME Starts, UNCHANGED store PROVE MoreToSend'
  <2> SUFFICES ASSUME pc # "id", Id # 0 PROVE 0 < crt_len
    BY <1>2 DEF Starts, MoreToSend, store, Id
  <2> QED
    BY Newest, Fits DEF Measured
<1>3. ASSUME step' # "cert" PROVE MoreToSend'
  BY <1>3 DEF MoreToSend
<1>4. CASE InfoComplete
  BY <1>2, <1>3, <1>4, AfterInfo DEF Skips, Ended
<1>5. CASE Unsubscribed \/ Disconnect
  <2>1. CASE SubscriptionEnds
    BY <1>2, <1>3, <1>5, <2>1, AfterEnd DEF Unsubscribed, Disconnect, Ended
  <2>2. CASE ~SubscriptionEnds
    BY <1>3, <1>5, <2>2 DEF Unsubscribed, Disconnect
  <2> QED
    BY <2>1, <2>2
<1>6. CASE Connect \/ PastEnd \/ Nack \/ Complete
  BY <1>3, <1>6 DEF Connect, PastEnd, Nack, Complete, GiveUp
<1>7. CASE SendChunk
  <2> SUFFICES ASSUME ~last_sent' PROVE offset' < crt_len'
    BY DEF MoreToSend
  <2>1. /\ offset' = offset + 1 /\ last_sent' = (offset + 1 >= crt_len)
        /\ crt_len' = crt_len
    BY <1>7 DEF SendChunk, store
  <2>2. offset \in Nat /\ crt_len \in Nat
    BY CertAssumption DEF Values
  <2>3. ~(offset + 1 >= crt_len)
    BY <2>1
  <2> QED
    BY <2>1, <2>2, <2>3
<1> QED
  BY <1>1, <1>4, <1>5, <1>6, <1>7 DEF Next, Host

LEMMA InitDelivered == Init => Delivered
BY CertAssumption DEF Init, Delivered, Measured, Named, Stored, Dated, Copies,
   Judged, MoreToSend, Id
-----------------------------------------------------------------------------
(* The invariant and what follows from it.                                 *)
THEOREM Inductive == Spec => []IInv
<1>1. Init => IInv
  <2> Init => Downloading /\ Transfers
    BY Fits, CertAssumption DEF Init, Downloading, Transfers, Transferring
  <2> QED
    BY InitTyped, InitDelivered DEF IInv
<1>2. IInv /\ [Next]_vars => IInv'
  <2> SUFFICES ASSUME IInv, [Next]_vars PROVE IInv'
    OBVIOUS
  <2>1. TypeOK' /\ Values
    BY Typed, NextBits, NextValues, PTL DEF IInv
  <2>2. Downloading' /\ Transfers'
    BY <2>1, NextDownloading, NextTransfers DEF IInv
  <2>3. Delivered'
    BY <2>1, NextMeasured, NextNamed, NextStored, NextDated, NextCopies,
       NextJudged, NextMore DEF IInv, Delivered
  <2> QED
    BY <2>1, <2>2, <2>3 DEF IInv
<1> QED
  BY <1>1, <1>2, PTL DEF Spec

(***************************************************************************)
(* Every variable stays in its range: with certificates that fit, neither  *)
(* a download nor a transfer leaves the buffer, however the two interleave.*)
(***************************************************************************)
THEOREM TypeCorrect == Spec => []TypeOK
BY Inductive, PTL DEF IInv

(***************************************************************************)
(* A disconnection leaves no context of a transfer behind.                 *)
(***************************************************************************)
THEOREM ContextFreed == Spec => []NothingLeftBehind
<1>1. IInv => NothingLeftBehind
  BY DEF IInv, Transfers, NothingLeftBehind
<1> QED
  BY <1>1, Inductive, PTL

(***************************************************************************)
(* A transfer that ends as the newest while the buffer is Untouched has    *)
(* given the node that certificate, and nothing of another, whatever       *)
(* downloads were made, failed or were abandoned while it was sent.        *)
(***************************************************************************)
THEOREM WholeCertificate == Spec => NewestIsWhole
<1>1. IInv /\ [Next]_vars =>
        [Succeeds /\ Untouched => Id >= 1 /\ node_cert' = installed[Id]]_vars
  <2> SUFFICES ASSUME IInv, Next, Succeeds, Untouched
               PROVE  Id >= 1 /\ node_cert' = installed[Id]
    BY DEF Succeeds, vars, session
  <2>1. step = "cert" /\ step' = "stopping" /\ next' = "device_cert"
    BY DEF Succeeds
  <2>2. ~(Renew \/ Reconnect \/ Main)
    BY <2>1, MainOnly DEF session
  <2>3. ~Connect /\ ~InfoComplete /\ ~SendChunk /\ ~PastEnd /\ ~Nack
    BY <2>1 DEF Connect, InfoComplete, SendChunk, PastEnd, Nack, GiveUp, At
  <2>4. ~Unsubscribed /\ ~Disconnect
    BY <2>1, AfterEnd DEF Unsubscribed, Disconnect, At, Starts, Ended
  <2>5. Complete
    BY <2>2, <2>3, <2>4 DEF Next, Host
  <2>6. IsNewest
    BY <2>1, <2>5 DEF Complete
  <2> QED
    BY <2>5, <2>6, Delivers, Typed DEF IInv, Delivered
<1> QED
  BY <1>1, Inductive, PTL DEF Spec, NewestIsWhole

(***************************************************************************)
(* A node that goes on to synchronise has the certificate that was the     *)
(* newest when it was found to have it, by its serial or by a transfer, if *)
(* the gateway had one and main was not changing it then.                  *)
(***************************************************************************)
THEOREM SyncsWithCert == Spec => []SyncHasCert
<1>1. IInv => SyncHasCert
  BY DEF IInv, Delivered, Judged, SyncHasCert
<1> QED
  BY <1>1, Inductive, PTL

-----------------------------------------------------------------------------
(* Why a transfer ends: the safety that TransferEnds rests on.             *)

(* The host's steps of a transfer that is not outdated by an update.       *)
FullTransfer == BufLen + 3

(* How far a transfer is from its end: what remains to be sent, and, once  *)
(* it is outdated, another transfer.                                       *)
Remaining ==
  BufLen - offset + (IF last_sent THEN 0 ELSE 1) + 2
    + (IF IsNewest THEN 0 ELSE FullTransfer)

StepsLeft ==
  CASE step = "cert" -> Remaining
    [] step = "stopping" -> IF next = "server_cert" THEN FullTransfer + 1 ELSE 1
    [] OTHER -> 0

(* Each step of the host is one nearer to the end, a disconnection and a   *)
(* NACK too. Nothing that main does takes it further away, except that it  *)
(* installs another certificate, which costs one more transfer at most.    *)
TransferNearer ==
  [][Transferring =>
       IF UNCHANGED session
       THEN IF Id' = Id THEN StepsLeft' = StepsLeft
                        ELSE StepsLeft' \in StepsLeft .. StepsLeft + FullTransfer
       ELSE StepsLeft' \in 0 .. StepsLeft - 1]_vars

(* What remains is a number. *)
Numbered == StepsLeft \in Nat

LEMMA Countable ==
  ASSUME Values
  PROVE  /\ Id \in Nat /\ FullTransfer \in Nat /\ BufLen \in Nat
         /\ Remaining \in 2 .. 2 * FullTransfer
         /\ IsNewest => Remaining <= FullTransfer
         /\ StepsLeft \in Nat
<1>1. BufLen \in Nat /\ offset \in 0 .. BufLen /\ Id \in Nat
  BY CertAssumption DEF Values, Id
<1>2. FullTransfer \in Nat /\ FullTransfer = BufLen + 3
  BY <1>1 DEF FullTransfer
<1>3. /\ Remaining \in 2 .. 2 * FullTransfer
      /\ IsNewest => Remaining <= FullTransfer
  <2> DEFINE a == IF last_sent THEN 0 ELSE 1
             b == IF IsNewest THEN 0 ELSE FullTransfer
  <2>1. Remaining = BufLen - offset + a + 2 + b
    BY DEF Remaining
  <2>2. a \in {0, 1} /\ b \in {0, FullTransfer} /\ (IsNewest => b = 0)
    OBVIOUS
  <2> HIDE DEF a, b
  <2>3. QED
    BY <1>1, <1>2, <2>1, <2>2
<1>4. StepsLeft \in Nat
  BY <1>2, <1>3 DEF StepsLeft
<1>5. QED
  BY <1>1, <1>2, <1>3, <1>4

(* A transfer that starts has one transfer left. *)
LEMMA StartCosts ==
  ASSUME Values, Starts, UNCHANGED store
  PROVE  StepsLeft' = FullTransfer
<1>1. offset' = 0 /\ ~last_sent' /\ IsNewest' /\ step' = "cert"
  BY DEF Starts, IsNewest, Id, store
<1>2. BufLen \in Nat
  BY CertAssumption
<1>3. Remaining' = FullTransfer
  BY <1>1, <1>2 DEF Remaining, FullTransfer
<1>4. QED
  BY <1>1, <1>3 DEF StepsLeft

(* The end of a subscription is the end of a transfer, or, after an        *)
(* outdated one, the start of the next.                                    *)
LEMMA EndCosts ==
  ASSUME Values, Transferring, UNCHANGED store, SubscriptionEnds,
         step = "cert" => next = "end"
  PROVE  StepsLeft' < StepsLeft
<1>1. /\ StepsLeft \in Nat /\ FullTransfer \in Nat
      /\ step = "cert" => StepsLeft = Remaining /\ Remaining >= 2
      /\ step = "stopping" => StepsLeft = IF next = "server_cert"
                                          THEN FullTransfer + 1 ELSE 1
      /\ step \in {"cert", "stopping"}
  BY Countable DEF StepsLeft, Transferring
<1>2. CASE Starts /\ next = "server_cert"
  <2>1. step = "stopping" /\ StepsLeft' = FullTransfer
    BY <1>1, <1>2, StartCosts
  <2>2. QED
    BY <1>1, <1>2, <2>1
<1>3. CASE Ended
  <2>1. StepsLeft' = 0
    BY <1>3 DEF Ended, StepsLeft
  <2>2. StepsLeft >= 1
    BY <1>1
  <2>3. QED
    BY <1>1, <2>1, <2>2
<1>4. QED
  BY <1>2, <1>3, AfterEnd

(* A step of the host thread during a transfer costs something. *)
LEMMA HostCosts ==
  ASSUME Values, Transfers, Transferring, Host
  PROVE  ~UNCHANGED session /\ StepsLeft' < StepsLeft
<1>a. /\ BufLen \in Nat /\ FullTransfer \in Nat /\ Remaining \in 2 .. 2 * FullTransfer
      /\ IsNewest => Remaining <= FullTransfer
      /\ StepsLeft \in Nat
  BY Countable
<1>b. conn /\ ~provisioned /\ (step = "cert" => next = "end")
  BY DEF Transfers
<1>1. ~Connect /\ ~InfoComplete
  BY <1>b DEF Connect, InfoComplete, At, Transferring
<1>2. CASE SendChunk
  <2>1. /\ step = "cert" /\ step' = "cert" /\ ~last_sent /\ offset' = offset + 1
        /\ ctx_id' = ctx_id /\ Id' = Id /\ offset \in Nat /\ offset' \in Nat
    BY <1>2, CertAssumption DEF SendChunk, At, Values, Id, store
  <2> DEFINE a == IF last_sent' THEN 0 ELSE 1
             b == IF IsNewest THEN 0 ELSE FullTransfer
  <2>2. (IF IsNewest THEN 0 ELSE FullTransfer)' = b /\ b \in Nat /\ a \in {0, 1}
    BY <1>a, <2>1 DEF IsNewest, FullTransfer
  <2>3. Remaining = BufLen - offset + 1 + 2 + b
    BY <2>1 DEF Remaining
  <2>4. Remaining' = BufLen - (offset + 1) + a + 2 + b
    BY <2>1, <2>2 DEF Remaining
  <2> HIDE DEF a, b
  <2>5. Remaining' < Remaining
    BY <1>a, <2>1, <2>2, <2>3, <2>4
  <2>6. StepsLeft' < StepsLeft
    BY <2>1, <2>5 DEF StepsLeft
  <2>7. offset' # offset
    BY <2>1
  <2>8. QED
    BY <2>6, <2>7 DEF session
<1>3. CASE Complete
  <2>1. /\ step = "cert" /\ step' = "stopping"
        /\ next' = IF IsNewest THEN "device_cert" ELSE "server_cert"
    BY <1>3 DEF Complete, At
  <2>2. IsNewest \/ Remaining >= 2 + FullTransfer
    <3> SUFFICES ASSUME ~IsNewest PROVE Remaining >= 2 + FullTransfer
      OBVIOUS
    <3> DEFINE a == IF last_sent THEN 0 ELSE 1
    <3>1. Remaining = BufLen - offset + a + 2 + FullTransfer
      BY DEF Remaining
    <3>2. a \in {0, 1} /\ offset \in 0 .. BufLen
      BY DEF Values
    <3> HIDE DEF a
    <3>3. QED
      BY <1>a, <3>1, <3>2
  <2>3. StepsLeft = Remaining
    BY <2>1 DEF StepsLeft
  <2>4. StepsLeft' = IF IsNewest THEN 1 ELSE FullTransfer + 1
    BY <2>1 DEF StepsLeft
  <2>5. StepsLeft' < StepsLeft
    BY <1>a, <2>2, <2>3, <2>4
  <2>6. QED
    BY <2>1, <2>5 DEF session
<1>4. CASE PastEnd \/ Nack
  <2>1. step = "cert" /\ step' = "stopping" /\ next' = "end"
    BY <1>4 DEF PastEnd, Nack, GiveUp, At
  <2>2. StepsLeft' = 1 /\ StepsLeft = Remaining
    BY <2>1 DEF StepsLeft
  <2>3. QED
    BY <1>a, <2>1, <2>2 DEF session
<1>5. CASE Unsubscribed \/ Disconnect
  <2>1. SubscriptionEnds /\ UNCHANGED store
    BY <1>5 DEF Unsubscribed, Disconnect, Transferring
  <2>2. StepsLeft' < StepsLeft
    BY <1>b, <2>1, EndCosts
  <2>3. session' # session
    <3>1. CASE Disconnect
      BY <1>b, <3>1 DEF Disconnect, session
    <3>2. CASE Unsubscribed
      <4>1. step = "stopping" /\ step' # "stopping"
        BY <2>1, <3>2, AfterEnd DEF Unsubscribed, At, Starts, Ended
      <4>2. QED
        BY <4>1 DEF session
    <3>3. QED
      BY <1>5, <3>1, <3>2
  <2>4. QED
    BY <2>2, <2>3
<1>6. QED
  BY <1>1, <1>2, <1>3, <1>4, <1>5 DEF Host

(* What main does to a transfer that is under way. *)
LEMMA MainCosts ==
  ASSUME Values, Dated, Renew \/ Reconnect \/ Main \/ UNCHANGED vars
  PROVE  /\ UNCHANGED session
         /\ Id' = Id => StepsLeft' = StepsLeft
         /\ StepsLeft' \in StepsLeft .. StepsLeft + FullTransfer
<1>a. /\ BufLen \in Nat /\ FullTransfer \in Nat /\ StepsLeft \in Nat
      /\ Id \in Nat /\ Id' \in Nat /\ offset \in 0 .. BufLen
  BY Countable, Grows DEF Values
<1>1. UNCHANGED session
  BY MainOnly
<1>2. Id' = Id => StepsLeft' = StepsLeft
  BY <1>1 DEF session, StepsLeft, Remaining, IsNewest
<1>3. step # "cert" => StepsLeft' = StepsLeft
  BY <1>1 DEF session, StepsLeft
<1>4. CASE step = "cert" /\ Id' # Id
  <2>1. ~IsNewest'
    BY <1>a, <1>1, <1>4, Grows DEF Dated, IsNewest, session, Values
  <2> DEFINE a == IF last_sent THEN 0 ELSE 1
             b == IF IsNewest THEN 0 ELSE FullTransfer
  <2>2. Remaining = BufLen - offset + a + 2 + b
    BY DEF Remaining
  <2>3. Remaining' = BufLen - offset + a + 2 + FullTransfer
    BY <1>1, <2>1 DEF Remaining, session, FullTransfer
  <2>4. a \in {0, 1} /\ b \in {0, FullTransfer}
    OBVIOUS
  <2>5. StepsLeft = Remaining /\ StepsLeft' = Remaining'
    BY <1>1, <1>4 DEF StepsLeft, session
  <2> HIDE DEF a, b
  <2>6. QED
    BY <1>a, <1>1, <1>4, <2>2, <2>3, <2>4, <2>5
<1>5. QED
  BY <1>a, <1>1, <1>2, <1>3, <1>4

(* Sending ends: a transfer is at most one transfer longer for each        *)
(* certificate that main installs meanwhile, and each step of the host     *)
(* thread shortens it. In "cert" there is always such a step to take.      *)
THEOREM TransferComesToEnd == Spec => TransferNearer
<1>1. IInv /\ Numbered /\ Numbered' /\ [Next]_vars => [Transferring =>
         IF UNCHANGED session
         THEN IF Id' = Id THEN StepsLeft' = StepsLeft
                          ELSE StepsLeft' \in StepsLeft .. StepsLeft + FullTransfer
         ELSE StepsLeft' \in 0 .. StepsLeft - 1]_vars
  <2> SUFFICES ASSUME IInv, Numbered, Numbered', [Next]_vars, Transferring
               PROVE  IF UNCHANGED session
                      THEN IF Id' = Id THEN StepsLeft' = StepsLeft
                           ELSE StepsLeft' \in StepsLeft .. StepsLeft + FullTransfer
                      ELSE StepsLeft' \in 0 .. StepsLeft - 1
    OBVIOUS
  <2>1. Values /\ Values' /\ Transfers /\ Dated
    BY Typed, NextBits, NextValues DEF IInv, Delivered
  <2>2. CASE Renew \/ Reconnect \/ Main \/ UNCHANGED vars
    BY <2>1, <2>2, MainCosts
  <2>3. CASE Host
    <3>1. ~UNCHANGED session /\ StepsLeft' < StepsLeft
      BY <2>1, <2>3, HostCosts
    <3>2. StepsLeft \in Nat /\ StepsLeft' \in Nat
      BY DEF Numbered
    <3>3. QED
      BY <3>1, <3>2
  <2>4. QED
    BY <2>2, <2>3 DEF Next
<1>3. IInv => Values /\ Numbered
  BY Typed, Countable DEF IInv, Numbered
<1>4. QED
  BY <1>1, <1>3, Inductive, PTL DEF Spec, TransferNearer

(***************************************************************************)
(* Of the certificate that is the newest there is always another chunk     *)
(* until the last one was sent, so that no transfer fails for a            *)
(* certificate that did not change: except between the stores of the new   *)
(* length and of the new id (lib/cert.c:138-139), when an outdated context *)
(* is still taken for the newest, and when the gateway has none to send.   *)
(***************************************************************************)
PastEndIsOutdated ==
  [][PastEnd => ~IsNewest \/ pc = "id" \/ Id = 0]_vars

THEOREM NewestIsNotCutShort == Spec => PastEndIsOutdated
<1>1. IInv => [PastEnd => ~IsNewest \/ pc = "id" \/ Id = 0]_vars
  <2> SUFFICES ASSUME IInv, PastEnd, IsNewest, pc # "id", Id # 0 PROVE FALSE
    OBVIOUS
  <2>1. step = "cert" /\ ~last_sent /\ offset >= crt_len
    BY DEF PastEnd, At
  <2>2. offset \in Nat /\ crt_len \in Nat
    BY Typed, CertAssumption DEF IInv, Values
  <2>3. offset < crt_len
    BY <2>1 DEF IInv, Delivered, MoreToSend
  <2> QED
    BY <2>1, <2>2, <2>3
<1> QED
  BY <1>1, Inductive, PTL DEF PastEndIsOutdated
=============================================================================
