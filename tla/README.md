# A TLA+ development of the Pouch gateway

The gateway connects Bluetooth LE nodes to the Golioth cloud. It scans for
nodes, connects to one, gives it the server's certificate, takes its device
certificate, and then forwards the node's *pouch* to the cloud (uplink) and the
cloud's pouch to the node (downlink). This directory holds TLA+ models of that
code, configurations with which TLC checks them on small instances, and proofs
that TLAPS checks. Source paths below are relative to the repository.

    tlc -config UplinkLife.cfg MCUplink.tla       # any run: PROJECT.json lists them
    tlapm UplinkProofs.tla                        # section 6 lists the modules with proofs

## 1. Inventory

Three threads matter. **bt** is Zephyr's Bluetooth host thread: every GATT
callback and connection callback runs in it, to its end, because its priority
is cooperative. **client** is the Golioth client's thread: it delivers blocks
of a download and the result of an upload, and it is preemptible, so bt may run
between any two of its instructions. **main** downloads the server certificate
whenever the client reconnects, and bt may run in its middle too. The button's
interrupt and the system work queue (the bonding timer, the sample's sessions)
come on top.

| Component (source) | State | Operations | What is hard |
|---|---|---|---|
| uplink (`lib/uplink.c`, `lib/bt/uplink.c`) | flags CLOSED and SENDING, wblock, rblock, an unlocked list of blocks, block_idx | open, write, close, process_uplink, the upload callback, cleanup on disconnection | two threads in process_uplink under one bit; freeing the context in the middle of callers |
| downlink (`lib/downlink.c`, `lib/bt/downlink.c`) | flags COMPLETE, ABORTED, WAITING, COAP_ERROR, current block and offset, FIFO | open, block_cb, end_cb, get_data, abort, close, subscribe, acknowledge | lost wakeups, aborts against the end of the transfer, the node leaving at any time |
| block pool (`lib/block.c`) | a slab shared by all nodes | alloc (with timeout), free | exhaustion, leaks |
| server certificate (`lib/cert.c`, `lib/bt/server_cert.c`) | buffer, length, serial, id; per node context and what comes next | download, update, transfer, restart | an update in the middle of a transfer; failed downloads |
| node info (`lib/info.c`, `lib/bt/info.c`) | 64 byte buffer | push, finish: is the node provisioned | stale or empty serials |
| device certificate (`lib/cert.c`, `lib/bt/device_cert.c`) | buffer | push, finish (blocks on the cloud) | re-entrant cleanup, a host thread that waits |
| session (`lib/bt/connect.c`, `types.h`) | one record per connection index | discover, start, stop | callbacks of an old session that find the record of a new one |
| scanning (`lib/bt/scan.c`) | scanning or not | device_found, scan_start | every failure has to lead back to scanning |
| bonding window (`lib/bt/bond.c`) | a flag and a timer | enable, disable, timeout | timer, button and device_found race |
| application (`gateway/src/main.c`, `fatal_error.c`) | default_conn, references, the `connected` semaphore, bonds and a passkey in the host | connection callbacks, pairing, button, boot, reboot | references given back once; who gets a bond |
| sample `custom_connect` | the same, a delayed work item and a counter | the same, with a filter of its own and two sessions on one connection | a work item that outlives the connection; sessions that finish twice |

How they interact: `connect.c` starts `info.c`, whose end starts
`server_cert.c`, whose end of subscription starts `device_cert.c` (or itself
again), whose end starts `bt/uplink.c`. That opens the downlink first and hands
it to the cloud client together with the uplink's session, so the answer to the
last uploaded block begins the download, whose first block makes the gateway
subscribe to the downlink characteristic. All of them share the node record;
the end of the downlink's subscription finishes the session, the application
disconnects, and scanning starts again.

What makes each correct: the cloud gets the node's bytes once, in order, with
one last flag (uplink); the node gets the cloud's bytes and is told the end
only then, and nobody waits for a wakeup that does not come (downlink); blocks
are not lost (pool); a node that goes on has a certificate of this gateway
(server certificate, info); contexts are freed once, after their last use (all);
the gateway always returns to scanning and lets strangers in only through a
window (scanning, bonding, application).

## 2. Modules

| Module | Models | Correspondence |
|---|---|---|
| `BytePipe` | abstract: what one direction of a synchronisation promises | bytes put in, bytes got out, and a mode; done only when closed and everything is out, or short when the end of the last bytes put in was lost |
| `Uplink` | `lib/uplink.c`, `lib/bt/uplink.c` | one action per access to shared state inside process_uplink, so that another thread can come between; one action for what bt does alone |
| `Downlink` | `lib/downlink.c`, `lib/block.c`, `lib/bt/downlink.c` | the same: block_cb and end_cb step by step, get_data one turn of its loop at a time |
| `ServerCert` | the server half of `lib/cert.c`, `lib/bt/server_cert.c`, the decision of `lib/info.c`, main's loop | the download chunk by chunk, the update store by store; one node whose certificate survives sessions |
| `Gateway` | `lib/bt/scan.c`, `lib/bt/bond.c`, the fatal error handler, and of both applications the connection and pairing callbacks and the button; the sample's filter, counter and work item | device_found cut where bt_conn_le_create blocks; `config` says which application it is, and how it was built |
| `Discovery` | what `lib/bt/connect.c` makes of an attribute table | pure operators over tables, next to GATT's own definition of whose a descriptor is |
| `Node` | the record of one connection index: `lib/bt/connect.c`, `info.c`, `device_cert.c`, and the outer handlers of `server_cert.c`, `uplink.c` and `downlink.c` | a handler that calls the next is an operator from a record to the set of records it can leave behind; one action per callback |
| `UplinkProofs`, `UplinkSerialProofs`, `UplinkProgressProofs`, `DownlinkProofs`, `ServerCertProofs`, `GatewayProofs`, `DiscoveryProofs`, `NodeProofs` | theorems about the modules they are named after | section 6 |
| `MC...` | instances for TLC | model values, the lengths of the certificates, the attribute tables |

The modules divide the code by depth. `Node` knows a transfer as one callback
that ends it in one of the ways it can end; `Uplink`, `Downlink` and
`ServerCert` are those transfers from the inside, for one session. What `Node`
lets the client do to a session that is over, the others exclude by having one.
`Gateway` knows a session as what calls `pouch_gateway_bt_finished`: once, again
if it failed, or during the disconnection.

Conventions. Variables keep the names of the source's fields and flags. `pc`
says which statement a thread is about to execute; `At(t, l)` is "t may run and
is at l", `Touches(t, l)` also needs the context to be there: a behaviour is
modelled up to the first use of freed memory, which is what the
`NoUseAfterFree` properties are about. A block of data is a slice, an offset in
the pouch and a length, which is all that order, loss and duplication can
change. In `ServerCert` a chunk of a certificate is represented by the number
of the certificate. Allocation failures, refusals by the client and failures
of the host's calls are free choices at the place of the call.

A definition commented *Mutant* is not part of the model: it is a slip the
code could plausibly have had, next to the definition it would replace.
PROJECT.json pairs it with the property that then fails.

### Scheduling

The variable `sched` of `Uplink` and `Downlink` (any of the constant `Scheds`)
chooses between two schedulings.
`"preempt"` is what the hardware allows: bt runs between any two accesses of
client. `"serial"` lets a handler finish first. A property that holds
in the first holds in the second. Several properties hold in the second only,
and say so by `sched = "serial"`: the code is right as a sequential program and
relies on being lucky about its threads. Which ones these are is part of the
result (section 5). In `Downlink`, bt may run while client waits for a block of the
pool in both, as waiting is a scheduling point.

`ServerCert` has no such choice: main waits for the network in the middle of
every download (`lib/cert.c:207`), so bt runs between any two of main's stores.
Main does not interrupt a handler of bt, which is one action.

### Fairness

`FairSpec` has weak fairness for: the steps of each thread once it is in a
handler (threads are scheduled, and no handler waits without a timeout); the
answer to a block in flight, and a download that has begun (CoAP requests time
out); acknowledgements of a node that is connected (else the link's
supervision timeout disconnects it, which is another behaviour the properties
allow for); the host's notification of the end of a subscription; the timer,
and the outcome of a connection attempt and of a pairing (the controller and the
host time them out); in `Gateway` also a session's end, which `SessionEnds` of
`Node` promises and a node that leaves replaces, and, strongly, that each node
goes on to ask for a synchronisation and is not always refused a connection at
once. In `ServerCert` only the host thread and the node are fair: main may
wait for the network for good. In `Node` the
node answers and sends as long as it is connected, sending a certificate that
the gateway does not have fails, the cloud takes or refuses
what was uploaded and kicks the downlink; strong fairness of the renewal's end
and of the ends of subscriptions says that a certificate is renewed, and one
downlink kicked, finitely often. There
is none for what nothing forces: a node that sends, leaves or advertises, the
user's button, the cloud's renewals, `cloud = "quiet"` becoming a download.

### Deadlock

Every configuration says `CHECK_DEADLOCK FALSE`: a session ends, the bounds on
bytes, presses and certificates are reached, and the system rightly stops. What
must not stop is stated as liveness.

## 3. Runs and bounds

| Run | Checks | Shows |
|---|---|---|
| `UplinkLife` | TypeOK, OneInFlight, UploadIsPrefix, LastIsFinal, and for serial handlers NoUseAfterFree, InFlightIsHeld, SuccessLacksOneWrite, FullBlocks, ClosedEnds, ForwardsAll | what preemption cannot break; as a sequential program the uplink implements the byte pipe, which a write without memory cuts short, ends when closed, frees what nobody uses |
| `DownlinkLife` | TypeOK, PoolConserved, InOrder, FinalIsEnd, NoLostWakeup, Delivered, DeliversAll, KickFindsSender (a subscription that the kick sees has its sender), and for serial handlers NoUseAfterFree and the other half of KickFindsSender (the sender is there at its use) | blocks, order, wakeups and delivery survive preemption, and the downlink implements the byte pipe; that nothing is used after it was freed, the sender in a kick included, needs handlers that do not interleave |
| `CertLife` | TypeOK, SyncHasCert, NothingLeftBehind, NewestIsWhole, TransferEnds | the host thread between any two steps of main, every download failing anywhere: what ends while the copy is not being changed has delivered the newest certificate, whatever went on during the transfer |
| `GatewayLife` | TypeOK, OneThingAtATime, WindowIsTimed, OneStrangerPerWindow, NewBondsFromWindow, ScanningResumes, WindowCloses, GatewayServes, SyncsStop | both applications in all their builds: who gets in and gets a bond, that nobody who may come is passed over, and that every way of failing leads back to scanning |
| `NodeLife` | TypeOK, SubscribesToOwn, CertsFirst, PacketizerIsOwn, NothingLost, SessionEnds | sessions of one connection index with each of six kinds of nodes, and with every failure of every step |

Bounds. Uplink: blocks of 3 bytes, fragments of 0 to 3 and pouches of up to 8,
so a fragment ends inside, at and across a block, up to three blocks are queued
and the last one is empty, short or full. A fragment is never larger than a
block (`MaxWrite`), as a GATT write (at most 512 bytes) is below the default
block size of 1024: the copy loop then submits at most one block. Downlink: a
pool of 2 that other nodes share, blocks of 0 to 2 bytes, packets of 3, a window
of 2, downloads of 5 bytes: the pool runs dry, packets span blocks
and end with them, the window fills. ServerCert: three certificates of 2, 3 and
2 chunks in a buffer that the longest fills, and three updates, so an update makes a certificate longer and shorter
and a transfer can be restarted twice; serials of 1, 2 and 1 bytes; a node that has no
certificate or kept the first one from before the boot. `CertLife` has 733,408 distinct
states. Gateway: three nodes, so that two can
keep a third from its turn, two presses of the button, enough for a window to be
followed by another while a stranger of the first is being connected, one
reboot, and the eight combinations of application, filter and automatic bonding.
Node: two sessions, so
that the second finds what the first left; a node with this gateway's certificate,
another one or none, and a gateway that has one from the start, later or never; six attribute tables: all
characteristics behind a foreign service with a descriptor of its own, another
order with an unknown characteristic and a characteristic without descriptor,
no certificates, no info, no uplink, no pouch service; `MCNode` has TLC check that
they are `Plain`, as section 6 asks of tables. `Late = FALSE` keeps the
client from calling back about a session that is over; `NodeStale` is the run
in which it may.

## 4. What the passing runs mean

*Uplink.* Every prefix property is about the history `upload`. `UploadIsPrefix`
holds although `sys_slist` is not locked: a race loses the *tail* of the list
for good (`orphans`), it never reorders or duplicates. `LastIsFinal` says that
the cloud is never sent a block after the last one. `SuccessLacksOneWrite` and
`ForwardsAll` add, for handlers that do not interleave, what success means. It
does not mean a whole pouch. Both count every byte given to write (`Given`), also
those that a write without memory drops (`dropped`, `lib/uplink.c:194`): an
uplink that ends in success has uploaded everything but the end of at most one
fragment, the last that was written, and its last block is flagged as if the
pouch ended there (section 5).

*Downlink.* `NoLostWakeup` is the property one would doubt when reading
`block_cb` and `get_data` side by side: between get_data finding the queue
empty and setting WAITING no block can arrive unnoticed, because that stretch
runs in bt (which client does not interrupt), or in client itself (which
delivers the blocks). `FinalIsEnd` covers the early end after a CoAP error.

*Server certificate.* The copy is `Untouched` when no download has written into
it since the last that succeeded. `NewestIsWhole` is about a transfer that
`is_newest` accepts at such a time: nothing is asked of how it went, so downloads
may have come, failed or succeeded while it was sent, and the node still has the
certificate installed last. That is what `server_crt_id` is for, and its mutant,
`is_newest` without the comparison, shows it to be needed.
`SyncHasCert` carries this on to the next stage and adds the nodes that are
skipped as provisioned: `judged` is the id that the session was judged by, 0
when main was changing the copy or its serial at that moment, or had none. What
happens in the moments that are left out is in section 5: `CertTorn` and
`CertNone`, and a download that fails after it has written. `TransferEnds` needs
that renewals are finite.

*Gateway.* `OneThingAtATime` relates the controller's activity, device_found's
progress and the reference count. `OneStrangerPerWindow` counts connections
begun, those that bt_conn_le_create accepted; an attempt that it refuses leaves
the window open (section 5). `GatewayServes` follows each node that may be
connected to through the connections of others, failed attempts and a reboot.
`NewBondsFromWindow` covers a bond that is dropped in the connection it opened:
the node has to wait for a window again. `ScanningResumes` and `SyncsStop`
depend, for the sample, on its counter: a work item that outlives its connection
starts sessions on whatever the connection object stands for by then, a
connection that is gone, one that is being made, or the next node's before its
security is up; each of those calls counts and, the first time, schedules the
next. It comes to rest because the counter is reset by a new connection only.
Scanning is assumed to start when asked to.

*Node.* `CertsFirst` follows the session through all ways around the
certificates, skipped, sent, sent again, refused or stopped. The server's is
skipped as `lib/info.c:91` has it, by comparing the serials (`SerialsMatch`): as
long as the gateway has no certificate (`issued`), its serial is empty and equals
that of a node without one. `Settled` says of which nodes the server's certificate
is settled, and that this is the only one that does not have it. `PacketizerIsOwn` is about the one field of the record that two
transfers use, and would fail if the next transfer began at the last packet
and not at the end of the subscription. `NothingLost` is what makes clearing
the record in `pouch_gateway_bt_start` harmless: the disconnection ends every
subscription and each end cleans up what its transfer had, its downlink too if
the node was told of it. A downlink it was not told of is the exception (below). `SessionEnds` exempts the two kinds of nodes
for which it is false: one that refuses the write to a CCC of the info, the
uplink or the device certificate (the transfer is cleaned up, `subscribe_cb` of
`lib/bt/info.c:133` logs, nothing finishes), and one that has the certificate
characteristics and no info characteristic, but a descriptor in front of the
service: the gateway takes that for the info's, subscribes and listens for ever.

## 5. Disagreements between the code and its documentation

Each is a run that must end in a counterexample, with one property that states
the documentation's words; PROJECT.json quotes them.

| Run | Property | What the code does |
|---|---|---|
| `UplinkLeak` | DisconnectFrees | a node that leaves before it sent anything leaks its uplink: the empty block is skipped and the uplink is not looked at again |
| `DownlinkAbort` | AbortFrees | an abort after the transfer from the cloud ended, with an error or with blocks not yet delivered, is noticed by nobody |
| `CertTorn` | TransferIsNewest | parts of two certificates, sent while the next was downloaded, count as the newest |
| `CertNone` | SyncsWithSome | before the first successful download, "no certificate" equals "no certificate" |
| `CustomScan` | SampleServes | the sample takes every node for a stranger: one that meets all criteria of its README is passed over when no bonding window is open |
| `CustomSyncs` | TwoSyncs | a failing session finishes twice, which uses up the second synchronisation of the connection |
| `NodeStale` | SessionsApart | the end of an upload of a session that is over takes the uplink from, or disconnects, the session that has the connection index by then |

More are behaviours of the models, seen while modelling, without a run of
their own:

- `ClosedEnds` is false under preemption. process_uplink reads CLOSED
  (`lib/uplink.c:105`) before it takes a block; if bt closes the uplink after
  that read, close's own process_uplink finds SENDING set and returns, and the
  first one, which has nothing left to send, ends with its old copy: nobody
  enters again. (`FairSpec` and
  `ClosedEnds` without its condition on `sched`, blocks of 2 and a pouch of 4 show
  it.)
- `FillFails` in `Uplink`: a write that finds no memory in the middle of a fragment
  returns -ENOMEM (`lib/uplink.c:200`) and has dropped the rest of the fragment;
  its handler closes the uplink (`lib/bt/uplink.c:43`), which flags what was copied
  as the last block. The cloud is sent the truncated pouch as a complete one, and
  uplink_end_cb is told success. So it is with a node that leaves in the middle of
  its pouch: `pouch_gateway_uplink_cleanup` closes, and what had arrived goes to the
  cloud with the last flag.
- `CreateFails` in `Gateway`: when bt_conn_le_create fails, device_found returns
  (`lib/bt/scan.c:172`) before it closes the bonding window, although the comment
  at `lib/bt/scan.c:179` reads "Disable bonding after first connect attempt": the
  window stays open for further attempts until one is accepted or the timer
  expires.
- `WakeSender` in `Downlink` under preemption: between the test of the subscription
  (`lib/bt/downlink.c:160`) and the use of `node->downlink_sender` (:183) bt may
  end the subscription and destroy the sender. The model stops there.
- `EndLocal` inside `DataReceived`'s call of process_uplink: a refused block
  frees the context and write still returns 0 (`include/pouch_gateway/uplink.h:36`:
  "@return 0 on success, negative on error"); the last fragment's handler then
  closes NULL (`lib/bt/uplink.c:48`). The model stops there.
- `Disconnect` in `Downlink` while `sub = "no"`: `pouch_gateway_downlink_cleanup`
  (`lib/bt/downlink.h:21`) only unsubscribes, so before the first block it frees
  and aborts nothing, and `pouch_gateway_bt_start` of the next session drops
  the pointer. The next kick finds no subscription, fails to subscribe on the
  dead connection and aborts the download then; if none comes, or the uplink
  could not be opened at all (`UplinkStart` in `Node`), the context is lost.
- `GetFails` in `ServerCert` with `got_len > 0`: a failed download leaves a damaged buffer under
  the old id, which every later transfer sends as the newest (`lib/cert.c:208`).
- `Wanted` in `Gateway`: in a bonding window a node without a bond is connected
  to without a sync request (`include/pouch_gateway/bt/scan.h:15`).
- `FatalCompare` in `Gateway`: built with the filter and with a bond in store, the
  sample's `bond_filter` (`samples/custom_connect/src/scan.c:87`) reads address 0,
  as its device_found never sets `tf.addr`. Where that faults, the first node that
  advertises after a pairing stops the system.
- `Closest` in `Discovery` on a table that is not `Plain`: the descriptor of an
  unknown characteristic of the pouch service counts as the CCC of the known
  characteristic before it (`lib/bt/connect.c:53`) and replaces the right handle,
  as the last descriptor reported wins.
- `SyncStart` in `Gateway` on a link that is `"connected"`: the sample's work item
  may start a session before the next node's security is up, and
  security_changed then starts another one, which clears the record of the first
  in the middle of its discovery.

## 6. Proofs

`UplinkProofs` proves, for every `BlockSize`, `MaxWrite` up to it, `PouchLen`
and both schedulings, from the assumption `UplinkAssumption` on the constants
alone:

- `TypeCorrect`: `Spec => []TypeOK`
- `MutualExclusion`: `Spec => []OneInFlight`
- `PrefixUploaded`: `Spec => []UploadIsPrefix`

all by way of `Inductive`: `Spec => []IInv`. Neither of the last two is
inductive. `IInv` adds:

- `NodeInv`: node->uplink points to an open context only, and nothing is in it
  before it is opened;
- `LockInv`: whoever is in the locked part, and the block in flight, own the
  SENDING bit, one at a time. It is claimed while the context lives only: the
  steps after a free are not the code's any more;
- `IndexInv`: block_idx counts the uploads, but between a refusal and the end;
- `HolderInv`: a thread that has seen a block in the list still finds it when
  it takes it (only the holder of SENDING removes blocks), and the block it
  took starts where the uploads end;
- `QueueInv`: uploads, the block being sent, the queue and the block being
  filled are consecutive slices. Once a race has lost a block, the reachable
  queue is empty and stays so, which is why the uploads remain a prefix.

The proof has one lemma per action (two kinds of thread are one lemma each),
lemmas on what append, tail and concatenation do to slices, and a temporal step
per theorem. `IInv` was model checked on the instance of `UplinkLife` before it
was proved.

`GatewayProofs` proves, for all nodes, builds, presses and reboots, from
`GatewayAssumption`:

- `TypeCorrect`: `Spec => []TypeOK`
- `OneAtATime`: `Spec => []OneThingAtATime`
- `WindowTimed`: `Spec => []WindowIsTimed`
- `StrangersBounded`: `Spec => []OneStrangerPerWindow`
- `BondsFromWindow`: `Spec => NewBondsFromWindow`

`TypeOK` alone is not inductive: `Unbooted` and `OneThingAtATime` bound the
references, `NodeKnown` says that a connection has a node, `StartsCounted` that the
sample's counter bounds its sessions. `WindowsSpent` says for
`OneStrangerPerWindow` that an open window has not been spent yet, but while
device_found is about to close it, and `BondsKept` for `NewBondsFromWindow` that
a node which device_found took for bonded keeps its bond until its connection is
secured. There is one step per action, in two parts, because a leaf about both
Boolean variables and numbers is beyond each prover.

`UplinkSerialProofs` adds what `UplinkProofs` leaves, from the same assumption:

- `LastFlagFinal`: `Spec => []LastIsFinal`, under both schedulings. `Sealed` says
  that the writing block is gone once the uplink was closed, and `NoMore` that
  nothing is queued behind a block with the last flag.
- `NoneAfterFree`, `BlockHeld`, `BlocksFull`, `SuccessAccounted`:
  `Spec => []P` for `NoUseAfterFree`, `InFlightIsHeld`, `FullBlocks` and
  `SuccessLacksOneWrite`, whose statements are about `sched = "serial"`.
- `PipeImplemented`: `Spec => ForwardsAll`. Every step of the uplink is a step of
  `BytePipe` or changes nothing of it; what is put in is all that write was given,
  and `FillFails` cuts the pipe.

`SerialInv` is what serial handlers add to `IInv`: one thread at a time is in a
handler (`Turns`), what process_uplink has read is still so (`Seen`), a block in
flight keeps the context (`Held`), the block being filled is the uplink's own
(`Writer`), every queued block but the last is full (`Sizes`), and what the node
was told agrees with what was uploaded (`Told`).

`DownlinkProofs` proves, for all sizes of blocks, packets, window, pool and
download, from `DownlinkAssumption`:

- `TypeCorrect`, `BlocksConserved`, `BytesInOrder`, `EndIsEnd`, `SenderThere`,
  `AlwaysWoken`, `NoneAfterFree`: `Spec => []P` for `TypeOK`, `PoolConserved`,
  `InOrder`, `FinalIsEnd`, `KickFindsSender`, `NoLostWakeup`, `NoUseAfterFree`
- `PipeImplemented`: `Spec => DeliversAll`

`IInv` has, besides types: who may be where at the same time (`Links`, `Turns`,
`Arrives`); `Chain`, which says with one equation per neighbour in the queue that
current block, queue and arriving block continue each other (`InOrder` speaks of
sums over the queue, which only induction would give; `Bounded` keeps the part of
that which is needed); `LastBlocks` and `Ends`, how a block marked last, COMPLETE
and the end of the download belong together; `Woken` and `Wakes`, that whoever
sets WAITING has seen the queue empty and COMPLETE clear, and that whoever
queues or completes after that goes on to kick; `SerialFree` for the serial
schedule. get_data is one turn of its loop at a time, and `Copied` describes what
a turn does to the slices.

`ServerCertProofs` proves, for all numbers and lengths of certificates that fit
the buffer, from `CertAssumption`:

- `TypeCorrect`: `Spec => []TypeOK`, `ContextFreed`: `Spec => []NothingLeftBehind`
- `WholeCertificate`: `Spec => NewestIsWhole`
- `SyncsWithCert`: `Spec => []SyncHasCert`

None has a condition on scheduling or on which downloads fail. `IInv` has: what main
has stored so far of the certificate it downloads (`Downloading`), that the copy is
the certificate installed last while it is `Untouched` (`Stored`), that a transfer
whose id is the copy's has sent its first chunks, and no others, as long as the copy
is untouched (`Copies`), and what the session was judged by (`Judged`). The step that
matters is the end of a download: it makes the copy untouched again, and gives it a
new id, which makes every transfer under way outdated.

`DiscoveryProofs` proves `OwnCccFound`: in every table that is `Plain`, of any
length, each known characteristic that the node has gets the handle of its own
CCC descriptor as GATT defines it (`OwnCcc`), 0 if it has none. `Plain` says that
a known characteristic occurs once in the service, and that only known ones have a
descriptor; both are needed. The maxima and minima of the operators are taken
apart by a least-element principle, which the library's `WFMin` gives without an
operator parameter.

`NodeProofs` proves, for every set of tables and any number of sessions, from
`NodeAssumption`:

- `TypeCorrect`, `CertsBeforeSync`, `Lossless`: `Spec => []TypeOK`,
  `Spec => []CertsFirst`, `Spec => NothingLost`, also with `Late`
  and for a gateway with and without a certificate
- `PacketizerOwn`: `Spec => []PacketizerIsOwn`, given `~Late`
- `SubscribesOwn`: `Spec => []SubscribesToOwn`, given that all tables are `Plain`

The operators that start a transfer call each other four deep. Each is described
once by a relation between the record before and after (`UplinkBegins` up to
`InfoBegins`), and a record is `Between` transfers when they are called: the
lemmas `UplinkGood` up to `InfoGood` then say that whatever they leave behind is
`Good`. `Good` has: one stage at a time, and no uplink before the last (`OneStage`);
a context or receiver only while the subscription that cleans it up goes on
(`Holds`, from which `NothingLost` follows once a disconnection has ended all
subscriptions, `Down`); nothing taken for settled that is not (`Certified`);
handles of the whole table once anything is subscribed to (`Located`, `Found`);
contexts of the present session (`Current`); and, without late callbacks, no
downlink beside the earlier stages (`Alone`). Steps that only end things are
`Less`, which one lemma covers.

### What liveness rests on

The proof system has no rule for fairness, so the liveness properties themselves
stay with TLC. What makes them true is safety, and that is proved, for every
value of the constants: (1) where the property does not hold yet, some step
that the fairness of `FairSpec` covers has its guard true (`Due` in each of
these modules: its disjuncts are those guards, written out because ENABLED is
out of reach as well); (2) each step takes one off a natural number, or the
few that do not are named. A deadlock of the code, a lost wakeup, a flag left set
or a handler that starts the same thing over again violates (1) or (2), in a
configuration larger than TLC's too.

| Liveness | (1) something is due | (2) it comes nearer | the steps that do not count |
|---|---|---|---|
| `ClosedEnds` | `ClosedHasStepDue` | `ClosedComesToEnd` | the disconnection, which comes once |
| `Delivered` | `DeliveryHasStepDue` | `DeliveryComesToEnd` | other nodes' use of the pool |
| `TransferEnds` | every step of the host in state "cert" | `TransferComesToEnd` | a certificate installed: one transfer more |
| `ScanningResumes` | `ScanHasStepDue` | `ScanComesBack` | window, button and timer; a reboot |
| `SyncsStop` | `work` is the guard of `SyncStart` | `SyncsComeToRest` | a connection that is secured |
| `SessionEnds` | `SessionHasStepDue` | `SessionComesToEnd` | a certificate renewed, a downlink kicked again; main's first certificate |
| `GatewayServes` | `ScanHasStepDue`, for the way back to scanning only | `ScanComesBack` | as for `ScanningResumes`; that a node which asks is then taken is TLC's |
| `WindowCloses` | | `WindowTimed` | |

Missing between these and the properties is the induction over the number, that
the disjuncts of `Due` stay true until their step is taken (or its strong
fairness), and that the last column is finite, which are assumptions on the
cloud, the button and the other nodes (section 2).

*Uplink* (`UplinkProgressProofs`, under serial handlers, where `ClosedEnds` is
claimed too). `RestInv` is what `SerialInv` lacks: the SENDING bit has a holder, a
thread in the locked part or the answer to a block in flight (`Holder`); who gives
it back without a block saw an empty queue that was not closed (`Empty`); the loss
of the connection goes straight to the close, and only the close forgets the
context (`Gone`, `Places`); a context nobody works for has nothing in it (`Rested`).
Hence `NothingWaitsAlone`: a block queued while another is in flight is picked up
by that one's answer. The exception, an uplink closed before it had data, is what
the run `UplinkLeak` finds left behind: `OnlyEmptyLeaks` proves that nothing
else is, and `LeakIsForGood` that nothing frees it later. `BlocksLandInPlace` and
`BlocksCounted` say of the same model that block `block_idx` starts at
`block_idx * BlockSize` of the pouch and that no block is empty; they need
`FullBlocks`, and that none follows the last.

*Downlink.* `DueInv` adds to `IInv`: a download that nobody subscribed to waits for
its first block, or the client thread is on its way to kick it (`Unasked`); the
last block is in the queue until the final packet is made of it (`LastKept`), so
COMPLETE cannot be missed; a failed download has told the context so (`FailureTold`).
The number is 7 for each byte that is not sent yet and for each block held, 4 for each
packet not acknowledged, and what the labels of the two threads leave to do. It goes
down once the download was received or failed; before that a download of `PouchLen`
bytes has one block more than that at most, none but the last being empty. Both hold
under both schedulings.
`AbortLeaks` is the counterpart of the finding `DownlinkAbort`: an aborted download
that the cloud is done with stays.

*Server certificate.* The number counts what is left of the buffer, the last
packet, and one more transfer if the certificate sent is not the newest: that is why
a renewal takes it up by one transfer and not more. No bound on failures is needed.
`NewestIsNotCutShort` says, for every interleaving, when `offset` may have reached
the length of the certificate before the last packet: in a transfer that is
outdated, between the stores of a new length and of its id, or when there is no
certificate.

*Gateway.* `DueInv` says that a secured connection has a session or work, and that
only the sample halts; `Distance` weighs connection, pairing, device_found and the
work item. A session counts 2, a scheduled work item 3, and what the counter still
allows 5 each, because each sync that starts a session may leave both again.

*Node.* `Progresses` says that a session whose node refuses nothing is under way: in
an early stage, or with a downlink that is subscribed to or will be, the uplink
being subscribed to or closed. It needs no condition on late callbacks. `Stage`
numbers the stages from the end of the session; `Loose` are the ends of earlier
stages that are yet to be notified. With `Late`, a callback about an earlier
session kicks the present session's downlink, a stage ends that should not have, and
`SessionComesToEnd` is false: hence its assumption.

### What is model-checked only

The eight liveness properties of the table: their combination with fairness.
Every safety property of a passing run and both refinements are proved.

## 7. Not modelled

- `CONFIG_POUCH_GATEWAY_CLOUD=n`: the uplink without a cloud frees its blocks
  and starts no downlink, the certificate is built in.
- The pouch library (sender, receiver, packetizer), the Golioth client, Zephyr's
  host and kernel: external. Their behaviour is what the code in `lib/` asks of
  them: a window of unacknowledged packets, one callback per block, cooperative
  callbacks, a FIFO and a slab that are atomic, a list that is not. The host is
  assumed to notify the end of every subscription, a disconnection's included,
  and to reset the value of a subscription that has ended.
- A session that starts in the middle of another one, by a second security change
  or by the sample's work item: `Start` of `Node` comes once per connection, and
  `Gateway` only counts such sessions.
- A failed bt_gatt_write inside a kick: the sender keeps the error for the next
  acknowledgement, which is the `Nack` of the models.
- Advertisement parsing (`data_cb`): inputs of device_found are nodes with the
  service and a compatible version. A node without the certificate
  characteristics skips the exchange and is not a node of `ServerCert`.
- Bonds in flash: no configuration of the repository sets CONFIG_BT_SETTINGS, so
  they are lost in a reboot, and `Reboot` of `Gateway` loses them.
- A scan that does not start (`lib/bt/scan.c:195`): it is logged and not retried.
- The sample's signal and name criteria: inputs of its device_found meet them.
- Network bring-up and credentials of both applications, logging, the simulator's
  runners, patches and board files.

## 8. Plan

Done: `BytePipe`, `Uplink`, `Downlink`, `ServerCert`, `Gateway` with both
applications, `Discovery`, `Node`, and the proofs of section 6, the cores of liveness
included. Next, in this order:

1. Abstract specifications for `ServerCert` (a node has some whole certificate) and
   `Gateway` (one guest at a time), which their invariants are steps towards.
2. Two connections, which the library allows and no application makes: the device
   certificate's wait for the cloud against the pool (`lib/cert.c:84`).
3. A session that starts in the middle of another, in `Node`: what is lost of the
   first, and which callbacks of its discovery reach the second.
