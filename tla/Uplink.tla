------------------------------- MODULE Uplink -------------------------------
(***************************************************************************)
(* One uplink context of the gateway (lib/uplink.c) and the GATT handlers  *)
(* that own it (lib/bt/uplink.c).  Two threads run the code: "bt", the     *)
(* Bluetooth host thread (data from the node, disconnection), and          *)
(* "client", the Golioth client thread (completion of a block upload).     *)
(* Both enter process_uplink; the SENDING bit is its only lock.            *)
(*                                                                         *)
(* A block is a slice of the pouch: off bytes precede it, it has len       *)
(* bytes.  upload is the history of the blocks handed to the cloud client. *)
(***************************************************************************)
EXTENDS Integers, Sequences

CONSTANTS
  BlockSize,   \* CONFIG_GOLIOTH_BLOCKWISE_UPLOAD_MAX_BLOCK_SIZE
  MaxWrite,    \* bound: bytes of one GATT fragment, never above BlockSize
  PouchLen,    \* bound: bytes a node sends
  Scheds,      \* the schedulings to look at: "serial", a handler runs to
               \* completion; "preempt", bt interrupts client anywhere
  NULL

Threads == {"bt", "client"}
Block   == [off : Nat, len : Nat]
Upload  == [idx : Nat, off : Nat, len : Nat, last : BOOLEAN]

ASSUME UplinkAssumption ==
  /\ BlockSize \in Nat \ {0}
  /\ MaxWrite \in 1 .. BlockSize
  /\ PouchLen \in Nat
  /\ Scheds \subseteq {"serial", "preempt"}
  /\ NULL \notin Block

VARIABLES
  conn,         \* the node is connected
  node_uplink,  \* node->uplink is not NULL
  ctx,          \* the context: "none", "open" or "freed"
  closed,       \* bit POUCH_UPLINK_CLOSED
  sending,      \* bit POUCH_UPLINK_SENDING
  wblock,       \* the block being filled, or NULL
  rblock,       \* the block being uploaded, or NULL
  queue,        \* the blocks that can be reached from the head of the list
  orphans,      \* the blocks that can be reached from its tail only
  block_idx,    \* index of the next block
  fed,          \* bytes copied into blocks so far
  dropped,      \* history: bytes of a fragment that write had no memory for
  inflight,     \* uploads whose callback is still to come
  upload,       \* history: the blocks given to golioth_gateway_uplink_block
  result,       \* what end_cb was called with, "none" before
  pc,           \* what each thread does next
  ret,          \* where each thread goes when process_uplink returns
  saw_closed,   \* process_uplink's local closed
  alone,        \* sys_slist_get found no successor of the head
  sched         \* the scheduling of this behaviour

state == <<conn, node_uplink, ctx, closed, sending, wblock, rblock, queue,
           orphans, block_idx, fed, dropped, inflight, upload, result>>
locals == <<ret, saw_closed, alone, sched>>
vars == <<state, pc, locals>>

Labels == {"idle", "test", "flag", "get", "unlink", "skip", "send", "clear",
           "end_success", "end_local", "cb_ok", "cb_err", "close", "forget"}

EndOf(s) == IF s = <<>> THEN 0 ELSE s[Len(s)].off + s[Len(s)].len

(***************************************************************************)
(* The host thread is cooperative and the client thread is not, so client  *)
(* never runs in the middle of a handler of bt.                            *)
(***************************************************************************)
Runs(t) ==
  /\ t = "client" => pc["bt"] = "idle"
  /\ sched = "serial" => \A u \in Threads \ {t} : pc[u] = "idle"

At(t, label) == Runs(t) /\ pc[t] = label
Touches(t, label) == At(t, label) /\ ctx = "open"
Goto(t, label) == pc' = [pc EXCEPT ![t] = label]
Return(t) == Goto(t, ret[t])

Init ==
  /\ conn = TRUE /\ node_uplink = FALSE /\ ctx = "none"
  /\ closed = FALSE /\ sending = FALSE
  /\ wblock = NULL /\ rblock = NULL /\ queue = <<>> /\ orphans = <<>>
  /\ block_idx = 0 /\ fed = 0 /\ dropped = 0 /\ inflight = 0 /\ upload = <<>>
  /\ result = "none"
  /\ pc = [t \in Threads |-> "idle"]
  /\ ret = [t \in Threads |-> "idle"]
  /\ saw_closed = [t \in Threads |-> FALSE]
  /\ alone = [t \in Threads |-> FALSE]
  /\ sched \in Scheds

(***************************************************************************)
(* pouch_gateway_uplink_open, called by pouch_gateway_uplink_start.  When  *)
(* an allocation or the session fails nothing is kept and the connection   *)
(* is given up.                                                            *)
(***************************************************************************)
Open ==
  /\ At("bt", "idle") /\ conn /\ ctx = "none"
  /\ \E ok \in BOOLEAN :
        /\ conn' = ok /\ node_uplink' = ok
        /\ ctx' = IF ok THEN "open" ELSE "none"
        /\ wblock' = IF ok THEN [off |-> 0, len |-> 0] ELSE NULL
  /\ UNCHANGED <<closed, sending, rblock, queue, orphans, block_idx, fed,
                 dropped, inflight, upload, result, pc, locals>>

(* Mutant: the block is put in front of the list.                          *)
EnqueueFirst(b) == queue' = <<b>> \o queue /\ UNCHANGED orphans

(* sys_slist_append: after a lost head, new blocks hang off the tail only. *)
Enqueue(b) ==
  IF orphans = <<>>
  THEN queue' = Append(queue, b) /\ UNCHANGED orphans
  ELSE orphans' = Append(orphans, b) /\ UNCHANGED queue

(* What the node's fragments gave to pouch_gateway_uplink_write so far.    *)
Given == fed + dropped

Room == IF wblock = NULL THEN 0 ELSE BlockSize - wblock.len

(***************************************************************************)
(* The copy loop of pouch_gateway_uplink_write for n bytes.  A full block  *)
(* is submitted only when more bytes follow it, and n <= BlockSize, so at  *)
(* most one block is submitted and one allocated.                          *)
(***************************************************************************)
FillBlock(n) ==
  /\ n <= Room \/ n = 0
  /\ wblock' = IF n = 0 THEN wblock ELSE [wblock EXCEPT !.len = @ + n]
  /\ fed' = fed + n
  /\ UNCHANGED <<queue, orphans, dropped>>

SubmitFull ==
  IF wblock = NULL THEN UNCHANGED <<queue, orphans>>
                   ELSE Enqueue([wblock EXCEPT !.len = BlockSize])

(* Mutant: a block is submitted when the fragment does not fit into it.    *)
FillNextWhole(n) ==
  /\ n > Room
  /\ IF wblock = NULL THEN UNCHANGED <<queue, orphans>> ELSE Enqueue(wblock)
  /\ wblock' = [off |-> fed, len |-> n]
  /\ fed' = fed + n
  /\ UNCHANGED dropped

FillNext(n) ==
  /\ n > Room
  /\ SubmitFull
  /\ wblock' = [off |-> fed + Room, len |-> n - Room]
  /\ fed' = fed + n
  /\ UNCHANGED dropped

(* There is no memory for the next block: the rest of the fragment is lost. *)
FillFails(n) ==
  /\ n > Room
  /\ SubmitFull
  /\ wblock' = NULL
  /\ fed' = fed + Room
  /\ dropped' = n - Room

(***************************************************************************)
(* uplink_data_received_cb: n bytes from the node, the last ones if last.  *)
(* A write that runs out of memory closes the uplink without calling       *)
(* process_uplink first; a last one closes it after.                       *)
(***************************************************************************)
DataReceived(n, last) ==
  /\ At("bt", "idle") /\ conn /\ node_uplink
  /\ Given + n <= PouchLen
  /\ \/ /\ FillBlock(n) \/ FillNext(n)
        /\ Goto("bt", "test")
        /\ ret' = [ret EXCEPT !["bt"] = IF last THEN "close" ELSE "idle"]
     \/ /\ FillFails(n)
        /\ Goto("bt", "close")
        /\ UNCHANGED ret
  /\ UNCHANGED <<conn, node_uplink, ctx, closed, sending, rblock, block_idx,
                 inflight, upload, result, saw_closed, alone, sched>>

(* pouch_gateway_uplink_cleanup, called when the node disconnects.         *)
Disconnect ==
  /\ At("bt", "idle") /\ conn /\ ctx # "none"
  /\ conn' = FALSE
  /\ Goto("bt", IF node_uplink THEN "close" ELSE "idle")
  /\ UNCHANGED <<node_uplink, ctx, closed, sending, wblock, rblock, queue,
                 orphans, block_idx, fed, dropped, inflight, upload, result,
                 locals>>

(* Mutant: a block that is not there is submitted.                         *)
SubmitRestUnchecked ==
  IF ~closed THEN Enqueue(wblock) /\ wblock' = NULL
             ELSE UNCHANGED <<queue, orphans, wblock>>

SubmitRest ==
  IF ~closed /\ wblock # NULL THEN Enqueue(wblock) /\ wblock' = NULL
                              ELSE UNCHANGED <<queue, orphans, wblock>>

(* pouch_gateway_uplink_close, up to its call of process_uplink.           *)
Close ==
  /\ Touches("bt", "close") /\ node_uplink
  /\ closed' = TRUE
  /\ SubmitRest
  /\ Goto("bt", "test")
  /\ ret' = [ret EXCEPT !["bt"] = "forget"]
  /\ UNCHANGED <<conn, node_uplink, ctx, sending, rblock, block_idx, fed,
                 dropped, inflight, upload, result, saw_closed, alone,
                 sched>>

(* node->uplink = NULL, after the call of pouch_gateway_uplink_close.      *)
Forget ==
  /\ At("bt", "forget")
  /\ node_uplink' = FALSE
  /\ Goto("bt", "idle")
  /\ UNCHANGED <<conn, ctx, closed, sending, wblock, rblock, queue, orphans,
                 block_idx, fed, dropped, inflight, upload, result, locals>>

-----------------------------------------------------------------------------
(* process_uplink, by either thread, one access to shared state at a time. *)

(* Mutant: the old value of the bit is ignored.                            *)
EnterAlways(t) == Goto(t, "flag")

Enter(t) == IF sending THEN Return(t) ELSE Goto(t, "flag")

TestAndSet(t) ==
  /\ Touches(t, "test")
  /\ sending' = TRUE
  /\ Enter(t)
  /\ UNCHANGED <<conn, node_uplink, ctx, closed, wblock, rblock, queue,
                 orphans, block_idx, fed, dropped, inflight, upload, result,
                 locals>>

ReadClosed(t) ==
  /\ Touches(t, "flag")
  /\ saw_closed' = [saw_closed EXCEPT ![t] = closed]
  /\ Goto(t, "get")
  /\ UNCHANGED <<state, ret, alone, sched>>

(***************************************************************************)
(* sys_slist_get reads the head and its successor and then writes them     *)
(* back: a block appended to a one-block list between the two steps is     *)
(* left reachable from the tail only.                                      *)
(***************************************************************************)
ReadHead(t) ==
  /\ Touches(t, "get")
  /\ alone' = [alone EXCEPT ![t] = Len(queue) = 1]
  /\ Goto(t, IF queue # <<>> THEN "unlink"
             ELSE IF saw_closed[t] THEN "end_success" ELSE "clear")
  /\ UNCHANGED <<state, ret, saw_closed, sched>>

Unlink(t) ==
  /\ Touches(t, "unlink")
  /\ rblock' = Head(queue)
  /\ IF alone[t] THEN queue' = <<>> /\ orphans' = orphans \o Tail(queue)
                 ELSE queue' = Tail(queue) /\ UNCHANGED orphans
  /\ Goto(t, IF Head(queue).len = 0 THEN "skip" ELSE "send")
  /\ UNCHANGED <<conn, node_uplink, ctx, closed, sending, wblock, block_idx,
                 fed, dropped, inflight, upload, result, locals>>

(* A zero length block is freed, and process_uplink returns.               *)
Skip(t) ==
  /\ Touches(t, "skip")
  /\ rblock' = NULL
  /\ sending' = FALSE
  /\ Return(t)
  /\ UNCHANGED <<conn, node_uplink, ctx, closed, wblock, queue, orphans,
                 block_idx, fed, dropped, inflight, upload, result, locals>>

(* Mutants: the last flag without the list, or without the close.          *)
LastWhenClosed(t) == saw_closed[t]
LastWhenEmpty(t) == queue = <<>>

IsLast(t) == queue = <<>> /\ saw_closed[t]

(* golioth_gateway_uplink_block takes the block, or refuses it at once.    *)
Send(t) ==
  /\ Touches(t, "send")
  /\ block_idx' = block_idx + 1
  /\ \/ /\ upload' = Append(upload,
                            [idx |-> block_idx, off |-> rblock.off,
                             len |-> rblock.len,
                             last |-> IsLast(t)])
        /\ inflight' = inflight + 1
        /\ Return(t)
     \/ /\ Goto(t, "end_local")
        /\ UNCHANGED <<upload, inflight>>
  /\ UNCHANGED <<conn, node_uplink, ctx, closed, sending, wblock, rblock,
                 queue, orphans, fed, dropped, result, locals>>

(* Mutant: the lock is kept.                                               *)
ClearNothing(t) ==
  /\ Touches(t, "clear")
  /\ Return(t)
  /\ UNCHANGED <<state, locals>>

(* Nothing to upload and not closed: the lock is released.                 *)
Clear(t) ==
  /\ Touches(t, "clear")
  /\ sending' = FALSE
  /\ Return(t)
  /\ UNCHANGED <<conn, node_uplink, ctx, closed, wblock, rblock, queue,
                 orphans, block_idx, fed, dropped, inflight, upload, result,
                 locals>>

(* Mutant: node->uplink keeps pointing to the context.                     *)
NodeKeeps == UNCHANGED node_uplink

(* uplink_end_cb                                                           *)
UplinkEndCb == node_uplink' = FALSE

(***************************************************************************)
(* end_cb and cleanup_uplink, which finishes the session and frees the     *)
(* blocks and the context.                                                 *)
(***************************************************************************)
EndWith(t, res, label) ==
  /\ Touches(t, label)
  /\ result' = res
  /\ UplinkEndCb
  /\ ctx' = "freed"
  /\ wblock' = NULL /\ rblock' = NULL /\ queue' = <<>>
  /\ Return(t)
  /\ UNCHANGED <<conn, closed, sending, orphans, block_idx, fed, dropped,
                 inflight, upload, locals>>

EndSuccess(t) == EndWith(t, "success", "end_success")

(* Mutant: a refused block is taken for an end.                            *)
EndRefused(t) == EndWith(t, "success", "end_local")
EndLocal(t)   == EndWith(t, "local", "end_local")
EndCloud      == EndWith("client", "cloud", "cb_err")

-----------------------------------------------------------------------------
(* block_upload_callback: the answer to the block in flight, good or bad.  *)

Callback ==
  /\ Touches("client", "idle") /\ inflight > 0
  /\ inflight' = inflight - 1
  /\ sending' = FALSE
  /\ IF sending THEN \E label \in {"cb_ok", "cb_err"} : Goto("client", label)
                ELSE UNCHANGED pc
  /\ ret' = [ret EXCEPT !["client"] = "idle"]
  /\ UNCHANGED <<conn, node_uplink, ctx, closed, wblock, rblock, queue,
                 orphans, block_idx, fed, dropped, upload, result,
                 saw_closed, alone, sched>>

(* free(uplink->rblock), after the lock was released.                      *)
CallbackOk ==
  /\ Touches("client", "cb_ok")
  /\ rblock' = NULL
  /\ Goto("client", "test")
  /\ UNCHANGED <<conn, node_uplink, ctx, closed, sending, wblock, queue,
                 orphans, block_idx, fed, dropped, inflight, upload, result,
                 locals>>

-----------------------------------------------------------------------------
ProcessUplink(t) ==
  \/ TestAndSet(t) \/ ReadClosed(t) \/ ReadHead(t) \/ Unlink(t)
  \/ Skip(t) \/ Send(t) \/ Clear(t) \/ EndSuccess(t) \/ EndLocal(t)

BtSteps == Close \/ Forget \/ ProcessUplink("bt")
ClientSteps == CallbackOk \/ EndCloud \/ ProcessUplink("client")

Next ==
  \/ Open
  \/ \E n \in 0 .. MaxWrite, last \in BOOLEAN : DataReceived(n, last)
  \/ Disconnect
  \/ Callback
  \/ BtSteps
  \/ ClientSteps

Spec == Init /\ [][Next]_vars

(***************************************************************************)
(* Both threads are scheduled, and the cloud client answers every block    *)
(* (its requests time out).  Nothing makes the node send or disconnect.    *)
(***************************************************************************)
FairSpec == Spec /\ WF_vars(BtSteps) /\ WF_vars(ClientSteps) /\ WF_vars(Callback)

-----------------------------------------------------------------------------
(* Properties.                                                             *)

TypeOK ==
  /\ conn \in BOOLEAN /\ node_uplink \in BOOLEAN
  /\ ctx \in {"none", "open", "freed"}
  /\ closed \in BOOLEAN /\ sending \in BOOLEAN
  /\ wblock \in Block \cup {NULL} /\ rblock \in Block \cup {NULL}
  /\ queue \in Seq(Block) /\ orphans \in Seq(Block)
  /\ block_idx \in Nat /\ fed \in Nat /\ dropped \in Nat /\ inflight \in Nat
  /\ upload \in Seq(Upload)
  /\ result \in {"none", "success", "local", "cloud"}
  /\ pc \in [Threads -> Labels]
  /\ ret \in [Threads -> {"idle", "close", "forget"}]
  /\ saw_closed \in [Threads -> BOOLEAN]
  /\ alone \in [Threads -> BOOLEAN]
  /\ sched \in Scheds

(***************************************************************************)
(* The SENDING bit is a lock: at most one block is with the cloud client,  *)
(* and while it is there no thread is inside process_uplink's locked part, *)
(* nor are two of them, however write, close and the callback interleave.  *)
(***************************************************************************)
Locked == {"flag", "get", "unlink", "skip", "send", "clear", "end_success",
           "end_local"}

OneInFlight ==
  ctx = "open" =>
    /\ inflight <= 1
    /\ \A t \in Threads : pc[t] \in Locked => inflight = 0
    /\ ~ \A t \in Threads : pc[t] \in Locked

(***************************************************************************)
(* The cloud receives a prefix of the pouch: the blocks come with the      *)
(* indices 0, 1, 2... and each starts where the one before it ended, even  *)
(* when sys_slist_get races with sys_slist_append on the unlocked list.    *)
(***************************************************************************)
UploadIsPrefix ==
  /\ \A i \in 1 .. Len(upload) :
        /\ upload[i].idx = i - 1
        /\ upload[i].off = IF i = 1 THEN 0
                           ELSE upload[i - 1].off + upload[i - 1].len
  /\ EndOf(upload) <= fed

(***************************************************************************)
(* A block is flagged as the last one only if nothing follows it: every    *)
(* byte is uploaded or was lost from the list, and no more can be written. *)
(***************************************************************************)
LastIsFinal ==
  \A i \in 1 .. Len(upload) :
    upload[i].last => i = Len(upload) /\ closed /\ queue = <<>> /\ wblock = NULL

(***************************************************************************)
(* The client thread and the callback in flight never meet a freed context *)
(* when handlers do not interleave: cleanup_uplink runs only when nobody   *)
(* else can still hold the pointer.                                        *)
(***************************************************************************)
NoUseAfterFree ==
  (sched = "serial" /\ ctx = "freed") =>
    /\ inflight = 0
    /\ pc["client"] = "idle"
    /\ pc["bt"] \in {"idle", "close", "forget"}

(***************************************************************************)
(* When handlers do not interleave, the block that the cloud client is     *)
(* sending is still there: block_upload_callback frees no other block.     *)
(***************************************************************************)
InFlightIsHeld ==
  (sched = "serial" /\ ctx = "open" /\ inflight = 1) =>
    /\ rblock # NULL
    /\ rblock.off + rblock.len = EndOf(upload)

(***************************************************************************)
(* When handlers do not interleave, an uplink that ends in success has     *)
(* uploaded all that write was given, but for the end of one fragment that *)
(* write had no memory for (lib/uplink.c:194): that fragment is the last   *)
(* one, and the cloud is told of the end, by the last flag of the last     *)
(* block alone, as if the pouch were whole.                                *)
(***************************************************************************)
SuccessLacksOneWrite ==
  (sched = "serial" /\ result = "success") =>
    /\ EndOf(upload) = Given - dropped
    /\ dropped <= MaxWrite
    /\ \A i \in 1 .. Len(upload) : upload[i].last <=> i = Len(upload)

(***************************************************************************)
(* Blockwise transfer needs every block but the last one to be full, which *)
(* they are when handlers do not interleave.                               *)
(***************************************************************************)
FullBlocks ==
  sched = "serial" =>
    \A i \in 1 .. Len(upload) :
      /\ upload[i].len \in 1 .. BlockSize
      /\ ~upload[i].last => upload[i].len = BlockSize

(***************************************************************************)
(* When handlers do not interleave, an uplink with data that is closed, by *)
(* the last fragment, by a failed write or by a disconnection, ends and    *)
(* frees its context.                                                      *)
(***************************************************************************)
ClosedEnds == (sched = "serial" /\ closed /\ fed > 0) ~> (ctx = "freed")

(***************************************************************************)
(* lib/bt/uplink.h:19 has the cleanup of a lost connection free the        *)
(* connection's uplink resources: the context of a node that is gone is    *)
(* freed, now or when its last upload is answered.                         *)
(***************************************************************************)
DisconnectFrees == ~conn ~> ctx # "open"

(***************************************************************************)
(* The uplink is a byte pipe from the node to the cloud: what write was    *)
(* given comes out in order and once.  It reports success once all of it   *)
(* is uploaded, or when a write that ran out of memory cut the pipe short; *)
(* nothing is put in after the cut, and the lost end never comes out.      *)
(* It implements Pipe!PipeSpec when handlers do not interleave.            *)
(***************************************************************************)
UplinkMode ==
  CASE ctx = "none" -> "shut"
    [] ctx = "open" -> IF dropped > 0 THEN "cut"
                       ELSE IF closed THEN "closed" ELSE "open"
    [] ctx = "freed" -> IF result # "success" THEN "failed"
                        ELSE IF dropped > 0 THEN "short" ELSE "done"

Pipe == INSTANCE BytePipe WITH put <- Given, got <- EndOf(upload), mode <- UplinkMode

ForwardsAll ==
  /\ Pipe!PipeInit
  /\ [][sched = "serial" => [Pipe!PipeNext]_(Pipe!pipe)]_vars
=============================================================================
