------------------------------ MODULE Downlink ------------------------------
(***************************************************************************)
(* One downlink context of the gateway (lib/downlink.c), the pool of its   *)
(* blocks (lib/block.c) and the GATT handlers that drain it towards the    *)
(* node (lib/bt/downlink.c).  "client", the Golioth client thread, fills   *)
(* the block queue and kicks a transport that waits; "bt", the Bluetooth   *)
(* host thread, drains it when the node acknowledges packets.              *)
(*                                                                         *)
(* The sender and the packetizer come from the pouch library: they fill    *)
(* packets one at a time under a lock, as long as fewer than Window are    *)
(* unacknowledged, and stop at a packet for which there is no data yet.    *)
(* A block is a slice of the download, as in Uplink.                       *)
(***************************************************************************)
EXTENDS Integers, Sequences, SequencesExt

CONSTANTS
  NumBlocks,   \* CONFIG_POUCH_GATEWAY_NUM_BLOCKS
  MaxBlock,    \* bound: bytes of one block
  PouchLen,    \* bound: bytes of the download
  PacketSize,  \* bytes of one packet's payload
  Window,      \* packets the node lets the sender have unacknowledged
  Scheds,      \* the schedulings to look at, as in Uplink
  NULL

Threads == {"bt", "client"}
Block   == [off : Nat, len : Nat, last : BOOLEAN]

ASSUME DownlinkAssumption ==
  /\ NumBlocks \in Nat \ {0} /\ MaxBlock \in Nat \ {0} /\ PouchLen \in Nat
  /\ PacketSize \in Nat \ {0} /\ Window \in Nat \ {0}
  /\ Scheds \subseteq {"serial", "preempt"}
  /\ NULL \notin Block

VARIABLES
  conn,        \* the node is connected
  sub,         \* the subscription to the downlink characteristic: "no", "yes",
               \* "stopping" (the host will notify its end), "gone" or "failed"
  node_ctx,    \* node->downlink_ctx is not NULL
  node_sender, \* node->downlink_sender and node->packetizer are not NULL
  ctx,         \* the context: "none", "open" or "freed"
  complete, aborted, waiting, coap_error,  \* the bits of flags
  cur, offset, \* current_block, or NULL, and what of it was copied
  fifo,        \* block_queue
  pool,        \* free blocks of block_slab
  others,      \* blocks that the contexts of other nodes hold
  cloud,       \* the download: "none" (never asked for), "quiet" (not begun),
               \* "blocks", "failing" (block_cb refused a block), "last" (the
               \* last block came), "ended" or "failed" (end_cb was called)
  arriving,    \* the block that block_cb holds, or NULL
  taken,       \* bytes put into the queue so far
  started,     \* the subscription's first acknowledgement has come
  unacked,     \* packets sent and not acknowledged
  final,       \* the packet that ends the download was sent
  room,        \* free bytes of the packet that is being filled
  out,         \* bytes copied into packets so far
  pc,
  sched        \* the scheduling of this behaviour

link   == <<conn, sub, node_ctx, node_sender>>
flags  == <<complete, aborted, waiting, coap_error>>
data   == <<cur, offset, fifo, pool, others>>
source == <<cloud, arriving, taken>>
sender == <<started, unacked, final, room, out>>
vars   == <<link, ctx, flags, data, source, sender, pc, sched>>

(***************************************************************************)
(* The same two schedulings as in Uplink: client never runs in the middle  *)
(* of a handler of bt, and in "serial" bt starts a handler only when       *)
(* client is between two callbacks or has to wait for a block.             *)
(***************************************************************************)
Runs(t) ==
  \/ t = "client" /\ pc["bt"] = "idle"
  \/ t = "bt" /\ \/ sched = "preempt" \/ pc["bt"] # "idle"
                 \/ pc["client"] = "idle"
                 \/ pc["client"] = "alloc" /\ pool = 0

At(t, label) == Runs(t) /\ pc[t] = label
Touches(t, label) == At(t, label) /\ ctx = "open"
Goto(t, label) == pc' = [pc EXCEPT ![t] = label]

Init ==
  /\ conn = TRUE /\ sub = "no" /\ node_ctx = FALSE /\ node_sender = FALSE
  /\ ctx = "none"
  /\ complete = FALSE /\ aborted = FALSE /\ waiting = FALSE /\ coap_error = FALSE
  /\ cur = NULL /\ offset = 0 /\ fifo = <<>> /\ pool = NumBlocks /\ others = 0
  /\ cloud = "quiet" /\ arriving = NULL /\ taken = 0
  /\ started = FALSE /\ unacked = 0 /\ final = FALSE /\ room = 0 /\ out = 0
  /\ pc = [t \in Threads |-> "idle"]
  /\ sched \in Scheds

-----------------------------------------------------------------------------
(* lib/block.c: block_is_last and block_free.                              *)

(* Mutants: every block is the last one; a block is not given back.        *)
AnyBlock(b) == TRUE
KeepBlock == UNCHANGED pool

BlockIsLast(b) == b.last
BlockFree == pool' = pool + 1

(* Mutant: a current block is freed that is not there.                     *)
HeldUnchecked == Len(fifo) + 1

(* pouch_gateway_downlink_close: every block goes back to the pool.        *)
Held == Len(fifo) + (IF cur = NULL THEN 0 ELSE 1)

CloseContext ==
  /\ ctx' = "freed"
  /\ pool' = pool + Held
  /\ fifo' = <<>> /\ cur' = NULL
  /\ UNCHANGED <<offset, others>>

KeepContext == UNCHANGED <<ctx, data>>

(* Mutant: an abort frees at once.                                         *)
FreesAlways == node_ctx

FreesOnAbort == node_ctx /\ complete

(* cleanup_downlink, with pouch_gateway_downlink_abort inlined.            *)
CleanupDownlink ==
  /\ aborted' = (aborted \/ node_ctx)
  /\ IF FreesOnAbort THEN CloseContext ELSE KeepContext
  /\ node_ctx' = FALSE /\ node_sender' = FALSE
  /\ UNCHANGED <<complete, waiting, coap_error>>

(***************************************************************************)
(* pouch_gateway_downlink_start.  The context is opened waiting; without a *)
(* packetizer or a sender it is cleaned up at once.                        *)
(***************************************************************************)
Start ==
  /\ At("bt", "idle") /\ conn /\ ctx = "none"
  /\ ctx' = "open" /\ waiting' = TRUE
  /\ \E ok \in BOOLEAN :
       /\ node_ctx' = ok /\ node_sender' = ok /\ aborted' = ~ok
       /\ cloud' = IF ok THEN cloud ELSE "none"
  /\ UNCHANGED <<conn, sub, complete, coap_error, data, arriving, taken,
                 sender, pc, sched>>

-----------------------------------------------------------------------------
(* pouch_gateway_downlink_block_cb, in the client thread.  Only the last   *)
(* block of a CoAP transfer can be empty.                                  *)

BlockArrives(n, last) ==
  /\ Touches("client", "idle") /\ cloud \in {"quiet", "blocks"}
  /\ taken + n <= PouchLen /\ (n > 0 \/ last)
  /\ IF aborted
     THEN cloud' = "failing" /\ UNCHANGED <<arriving, pc>>
     ELSE /\ cloud' = "blocks"
          /\ arriving' = [off |-> taken, len |-> n, last |-> last]
          /\ Goto("client", "alloc")
  /\ UNCHANGED <<link, ctx, flags, data, taken, sender, sched>>

(***************************************************************************)
(* The contexts of other nodes take blocks from the pool, in callbacks of  *)
(* the same client thread, and return them from the host thread.           *)
(***************************************************************************)
OthersTake ==
  /\ At("client", "idle")
  /\ pool > 0 /\ pool' = pool - 1 /\ others' = others + 1
  /\ UNCHANGED <<link, ctx, flags, cur, offset, fifo, source, sender,
                 pc, sched>>

OthersReturn ==
  /\ pc["bt"] = "idle"
  /\ others > 0 /\ BlockFree /\ others' = others - 1
  /\ UNCHANGED <<link, ctx, flags, cur, offset, fifo, source, sender,
                 pc, sched>>

(* block_alloc waits for a block, at most DOWNLINK_BLOCK_TIMEOUT seconds.  *)
Alloc ==
  /\ At("client", "alloc")
  /\ IF pool > 0
     THEN /\ pool' = pool - 1
          /\ Goto("client", "put")
          /\ UNCHANGED <<arriving, cloud>>
     ELSE /\ arriving' = NULL
          /\ cloud' = "failing"
          /\ Goto("client", "idle")
          /\ UNCHANGED pool
  /\ UNCHANGED <<link, ctx, flags, cur, offset, fifo, others, taken,
                 sender, sched>>

PutBlock ==
  /\ Touches("client", "put")
  /\ fifo' = Append(fifo, arriving)
  /\ taken' = taken + arriving.len
  /\ cloud' = IF arriving.last THEN "last" ELSE "blocks"
  /\ arriving' = NULL
  /\ Goto("client", "peek")
  /\ UNCHANGED <<link, ctx, flags, cur, offset, pool, others, sender, sched>>

(* NULL == downlink->current_block: nothing is being drained.              *)
Peek ==
  /\ Touches("client", "peek")
  /\ Goto("client", IF cur = NULL THEN "wake" ELSE "idle")
  /\ UNCHANGED <<link, ctx, flags, data, source, sender, sched>>

(* atomic_test_and_clear_bit(TRANSPORT_WAITING).                           *)
Wake ==
  /\ Touches("client", "wake")
  /\ waiting' = FALSE
  /\ Goto("client", IF waiting THEN "kick" ELSE "idle")
  /\ UNCHANGED <<link, ctx, complete, aborted, coap_error, data, source,
                 sender, sched>>

-----------------------------------------------------------------------------
(* pouch_gateway_downlink_end_cb.  Success leaves everything alone.        *)

EndOk ==
  /\ At("client", "idle") /\ cloud = "last"
  /\ cloud' = "ended"
  /\ UNCHANGED <<link, ctx, flags, data, arriving, taken, sender, pc, sched>>

EndError ==
  /\ Touches("client", "idle") /\ cloud \in {"quiet", "blocks", "failing"}
  /\ cloud' = "failed"
  /\ IF aborted THEN CloseContext /\ UNCHANGED pc
                ELSE KeepContext /\ Goto("client", "error")
  /\ UNCHANGED <<link, flags, arriving, taken, sender, sched>>

(* Mutant: a transport that waits is not kicked.                           *)
SetErrorQuiet ==
  /\ Touches("client", "error")
  /\ coap_error' = TRUE
  /\ Goto("client", "idle")
  /\ UNCHANGED <<link, ctx, complete, aborted, waiting, data, source,
                 sender, sched>>

SetError ==
  /\ Touches("client", "error")
  /\ coap_error' = TRUE
  /\ Goto("client", "peek")
  /\ UNCHANGED <<link, ctx, complete, aborted, waiting, data, source,
                 sender, sched>>

-----------------------------------------------------------------------------
(***************************************************************************)
(* downlink_data_available: a kick subscribes, and a subscription that     *)
(* fails cleans up; when there is a subscription it wakes the sender, in a *)
(* step after the test.  The host resets the value of a subscription that  *)
(* it ends.                                                                *)
(***************************************************************************)
(* Mutant: only the first kick subscribes.                                 *)
NeverSubscribed == sub = "no"

ValueIsZero == sub \in {"no", "stopping", "gone"}

Subscribe ==
  /\ At("client", "kick") /\ ValueIsZero /\ conn
  /\ sub' = "yes" /\ started' = FALSE
  /\ Goto("client", "idle")
  /\ UNCHANGED <<conn, node_ctx, node_sender, ctx, flags, data, source, unacked,
                 final, room, out, sched>>

SubscribeFails ==
  /\ At("client", "kick") /\ ValueIsZero
  /\ sub' = "failed"
  /\ CleanupDownlink
  /\ Goto("client", "idle")
  /\ UNCHANGED <<conn, source, sender, sched>>

SeesSubscription ==
  /\ At("client", "kick") /\ ~ValueIsZero
  /\ Goto("client", "nudge")
  /\ UNCHANGED <<link, ctx, flags, data, source, sender, sched>>

(* The host may have ended the subscription since: nothing is said of what *)
(* a sender does that is gone.                                             *)
WakeSender ==
  /\ At("client", "nudge") /\ node_sender
  /\ Goto("client", "send")
  /\ UNCHANGED <<link, ctx, flags, data, source, sender, sched>>

-----------------------------------------------------------------------------
(* The sender, run by either thread: the next packet, or no more for now.  *)

MaySend == started /\ ~final /\ unacked < Window

BeginPacket(t) ==
  /\ Touches(t, "send") /\ node_sender /\ MaySend
  /\ room' = PacketSize
  /\ Goto(t, "fill")
  /\ UNCHANGED <<link, ctx, flags, data, source, started, unacked, final,
                 out, sched>>

StopSending(t) ==
  /\ At(t, "send") /\ ~MaySend
  /\ Goto(t, "idle")
  /\ UNCHANGED <<link, ctx, flags, data, source, sender, sched>>

(***************************************************************************)
(* pouch_gateway_downlink_get_data, one action per turn of its loop: it    *)
(* copies from a block, or finds the queue empty.                          *)
(***************************************************************************)
(* Mutants: only the current block counts; the next one is popped and lost. *)
CurrentOnly == cur # NULL
HeadDropped(s) == NULL

Available == cur # NULL \/ fifo # <<>>
HeadOrNull(s) == IF s = <<>> THEN NULL ELSE Head(s)
TailOrEmpty(s) == IF s = <<>> THEN s ELSE Tail(s)

SendPacket(t, last) ==
  /\ unacked' = unacked + 1 /\ final' = last
  /\ Goto(t, "send")

CopyFromBlock(t) ==
  /\ Touches(t, "fill") /\ node_sender /\ Available
  /\ LET b    == IF cur = NULL THEN Head(fifo) ELSE cur
         rest == IF cur = NULL THEN Tail(fifo) ELSE fifo
         n    == Min({room, b.len - offset})
         done == offset + n = b.len
         end  == done /\ BlockIsLast(b)
     IN /\ out' = out + n
        /\ room' = room - n
        /\ IF done
           THEN /\ cur' = HeadOrNull(rest) /\ fifo' = TailOrEmpty(rest)
                /\ offset' = 0 /\ BlockFree
           ELSE /\ cur' = b /\ fifo' = rest
                /\ offset' = offset + n /\ UNCHANGED pool
        /\ complete' = (complete \/ end)
        /\ IF room = n \/ end
           THEN SendPacket(t, end)
           ELSE UNCHANGED <<unacked, final, pc>>
  /\ UNCHANGED <<link, ctx, aborted, waiting, coap_error, others, source,
                 started, sched>>

(* The queue is empty after an error: this packet is the last one.         *)
EndAfterError(t) ==
  /\ Touches(t, "fill") /\ node_sender /\ ~Available /\ coap_error
  /\ complete' = TRUE
  /\ SendPacket(t, TRUE)
  /\ UNCHANGED <<link, ctx, aborted, waiting, coap_error, data, source, started,
                 room, out, sched>>

(* Some bytes, but no full packet: they go out, and the next call waits.   *)
ShortPacket(t) ==
  /\ Touches(t, "fill") /\ node_sender /\ ~Available /\ ~coap_error
  /\ room < PacketSize
  /\ SendPacket(t, FALSE)
  /\ UNCHANGED <<link, ctx, flags, data, source, started, room, out, sched>>

(* Mutant: nobody is told that the transport waits.                        *)
AwaitDataSilent(t) ==
  /\ Touches(t, "fill") /\ node_sender /\ ~Available /\ ~coap_error
  /\ room = PacketSize
  /\ Goto(t, "idle")
  /\ UNCHANGED <<link, ctx, flags, data, source, sender, sched>>

AwaitData(t) ==
  /\ Touches(t, "fill") /\ node_sender /\ ~Available /\ ~coap_error
  /\ room = PacketSize
  /\ waiting' = TRUE
  /\ Goto(t, "idle")
  /\ UNCHANGED <<link, ctx, complete, aborted, coap_error, data, source,
                 sender, sched>>

-----------------------------------------------------------------------------
(* downlink_notify_cb, in the host thread.                                 *)

SenderFree == pc["client"] \notin {"send", "fill"}

(* The subscription's first acknowledgement, or one of k more packets.     *)
Ack(k) ==
  /\ At("bt", "idle") /\ conn /\ sub = "yes" /\ node_sender /\ SenderFree
  /\ started => k > 0
  /\ k <= unacked
  /\ started' = TRUE
  /\ unacked' = unacked - k
  /\ IF final /\ unacked' = 0
     THEN /\ ctx = "open"
          /\ CloseContext
          /\ node_ctx' = FALSE /\ sub' = "stopping"
          /\ UNCHANGED pc
     ELSE /\ KeepContext
          /\ Goto("bt", "send")
          /\ UNCHANGED <<node_ctx, sub>>
  /\ UNCHANGED <<conn, node_sender, flags, source, final, room, out, sched>>

(* A NACK, an acknowledgement that the sender cannot handle, or any packet *)
(* when there is no sender.                                                *)
Nack ==
  /\ At("bt", "idle") /\ conn /\ sub = "yes" /\ SenderFree
  /\ sub' = "stopping"
  /\ UNCHANGED <<conn, node_ctx, node_sender, ctx, flags, data, source, sender,
                 pc, sched>>

(* The host notifies the end of a subscription that was given up.          *)
SubscriptionEnds ==
  /\ At("bt", "idle") /\ conn /\ sub = "stopping"
  /\ sub' = "gone"
  /\ CleanupDownlink
  /\ UNCHANGED <<conn, source, sender, pc, sched>>

(***************************************************************************)
(* The node disconnects: the host notifies the end of a live subscription. *)
(* pouch_gateway_downlink_cleanup only unsubscribes, which frees nothing.  *)
(***************************************************************************)
Disconnect ==
  /\ At("bt", "idle") /\ conn /\ ctx # "none"
  /\ conn' = FALSE
  /\ IF sub \in {"yes", "stopping"}
     THEN CleanupDownlink /\ sub' = "gone"
     ELSE KeepContext /\ UNCHANGED <<sub, node_ctx, node_sender, flags>>
  /\ UNCHANGED <<source, sender, pc, sched>>

-----------------------------------------------------------------------------
Sending(t) ==
  \/ BeginPacket(t) \/ StopSending(t) \/ CopyFromBlock(t)
  \/ EndAfterError(t) \/ ShortPacket(t) \/ AwaitData(t)

ClientSteps ==
  \/ Alloc \/ PutBlock \/ Peek \/ Wake \/ SetError
  \/ Subscribe \/ SubscribeFails \/ SeesSubscription \/ WakeSender
  \/ Sending("client")

Receive ==
  \/ \E n \in 0 .. MaxBlock, last \in BOOLEAN : BlockArrives(n, last)
  \/ EndOk \/ EndError

Acks == \E k \in 0 .. Window : Ack(k)

Next ==
  \/ Start \/ Receive \/ ClientSteps \/ Sending("bt")
  \/ Acks \/ Nack \/ SubscriptionEnds \/ Disconnect
  \/ OthersTake \/ OthersReturn

Spec == Init /\ [][Next]_vars

(***************************************************************************)
(* Both threads are scheduled, a download that has begun goes on to its    *)
(* end, and a node that stays connected acknowledges what it receives.     *)
(***************************************************************************)
FairSpec ==
  /\ Spec
  /\ WF_vars(ClientSteps) /\ WF_vars(Sending("bt"))
  /\ WF_vars(Receive /\ cloud # "quiet")
  /\ WF_vars(Acks) /\ WF_vars(SubscriptionEnds)

-----------------------------------------------------------------------------
(* Properties.                                                             *)

TypeOK ==
  /\ conn \in BOOLEAN /\ sub \in {"no", "yes", "stopping", "gone", "failed"}
  /\ node_ctx \in BOOLEAN /\ node_sender \in BOOLEAN
  /\ ctx \in {"none", "open", "freed"}
  /\ complete \in BOOLEAN /\ aborted \in BOOLEAN
  /\ waiting \in BOOLEAN /\ coap_error \in BOOLEAN
  /\ cur \in Block \cup {NULL} /\ offset \in Nat
  /\ fifo \in Seq(Block)
  /\ pool \in 0 .. NumBlocks /\ others \in 0 .. NumBlocks
  /\ cloud \in {"none", "quiet", "blocks", "failing", "last", "ended", "failed"}
  /\ arriving \in Block \cup {NULL} /\ taken \in Nat
  /\ started \in BOOLEAN /\ unacked \in 0 .. Window /\ final \in BOOLEAN
  /\ room \in 0 .. PacketSize /\ out \in Nat
  /\ pc \in [Threads -> {"idle", "alloc", "put", "peek", "wake", "kick",
                         "nudge", "error", "send", "fill"}]
  /\ sched \in Scheds

(***************************************************************************)
(* No block of the pool is lost or given back twice: what is not free is   *)
(* in the queue, is the current block, is held by block_cb or by others.   *)
(***************************************************************************)
PoolConserved ==
  pool + others + Held + (IF pc["client"] = "put" THEN 1 ELSE 0) = NumBlocks

(***************************************************************************)
(* get_data hands out the bytes in the order they came, across blocks,     *)
(* packets and empty blocks: the next byte it will copy is byte out, and   *)
(* what is queued continues the current block without a gap.               *)
(***************************************************************************)
Pending == (IF cur = NULL THEN <<>> ELSE <<cur>>) \o fifo

InOrder ==
  ctx = "open" =>
       /\ IF cur = NULL THEN offset = 0 ELSE offset <= cur.len
       /\ Pending # <<>> => Head(Pending).off + offset = out
       /\ \A i \in 1 .. Len(Pending) :
            Pending[i].off + Pending[i].len
              = IF i = Len(Pending) THEN taken ELSE Pending[i + 1].off
       /\ Pending = <<>> => out = taken

(***************************************************************************)
(* The node is told that the download is over only when it has every byte  *)
(* the cloud delivered and the cloud will deliver no more.                 *)
(***************************************************************************)
Over == cloud \in {"last", "ended", "failed"}

FinalIsEnd ==
  final => complete /\ out = taken /\ Over

(***************************************************************************)
(* No wakeup is lost: when both threads are idle and no acknowledgement is *)
(* due, a transport that can send has nothing to send and is marked as     *)
(* waiting, so that the next block kicks it.                               *)
(***************************************************************************)
Idle == pc["bt"] = "idle" /\ pc["client"] \in {"idle", "alloc"}

NoLostWakeup ==
  (Idle /\ ctx = "open" /\ sub = "yes" /\ started /\ unacked = 0)
    => ~Available /\ ~coap_error /\ waiting

(***************************************************************************)
(* When handlers do not interleave, nobody holds a context that was freed: *)
(* the cloud is past its last callback that uses it, the client thread is  *)
(* not in a callback, and the node's pointer is cleared.                   *)
(***************************************************************************)
NoUseAfterFree ==
  (sched = "serial" /\ ctx = "freed") =>
    Over /\ pc["client"] = "idle" /\ ~node_ctx

(***************************************************************************)
(* A subscription that downlink_data_available sees has its sender, even   *)
(* when the node left or gave up while block_cb, past its test of the      *)
(* abort, waited for a block: such a kick subscribes once more instead.    *)
(* When handlers do not interleave the sender is still there at its use,   *)
(* lib/bt/downlink.c:183.                                                  *)
(***************************************************************************)
KickFindsSender ==
  /\ pc["client"] = "kick" /\ ~ValueIsZero => node_sender
  /\ sched = "serial" /\ pc["client"] = "nudge" => node_sender

(***************************************************************************)
(* A download that has begun is delivered and its context freed, unless    *)
(* the transport fails or the node disconnects.                            *)
(***************************************************************************)
Delivered == (cloud = "blocks") ~> (ctx = "freed" \/ aborted \/ ~conn \/ sub = "stopping")

(***************************************************************************)
(* lib/downlink.c:237 has an aborted downlink end once the CoAP request in *)
(* flight is completed: an aborted context is freed at the latest then.    *)
(***************************************************************************)
AbortFrees == (aborted /\ cloud \notin {"none", "quiet"}) ~> ctx = "freed"

(***************************************************************************)
(* The downlink is a byte pipe from the cloud to the node, shut by the     *)
(* cloud's last block and done when the node has acknowledged everything.  *)
(***************************************************************************)
DownlinkMode ==
  CASE ctx = "none" -> "shut"
    [] ctx # "none" /\ aborted -> "failed"
    [] ctx = "open" /\ ~aborted -> IF cloud \in {"last", "ended"}
                                   THEN "closed" ELSE "open"
    [] OTHER -> IF cloud = "failed" THEN "failed" ELSE "done"

Pipe == INSTANCE BytePipe WITH put <- taken, got <- out, mode <- DownlinkMode

DeliversAll == Pipe!PipeSpec
=============================================================================
