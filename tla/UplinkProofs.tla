---------------------------- MODULE UplinkProofs ----------------------------
(***************************************************************************)
(* Theorems about Uplink, for blocks and pouches of any length and both    *)
(* schedulings: its types, that SENDING excludes, and that what the cloud  *)
(* receives is a prefix of what the node sent.                             *)
(***************************************************************************)
EXTENDS Uplink, TLAPS

-----------------------------------------------------------------------------
(* The inductive invariant.  Nothing is said of a context once it is freed,*)
(* except of the history of its uploads.                                   *)

Live == ctx # "freed"

(* node->uplink points to an open context, and nothing was written before. *)
NodeInv ==
  /\ node_uplink => ctx = "open"
  /\ ctx = "none" => fed = 0 /\ wblock = NULL /\ queue = <<>> /\ orphans = <<>>

(* Whoever is in the locked part, or waits for the cloud, holds the lock.  *)
LockInv ==
  Live =>
    /\ inflight <= 1
    /\ inflight = 1 => sending
    /\ \A t \in Threads : pc[t] \in Locked => sending /\ inflight = 0
    /\ ~ (pc["bt"] \in Locked /\ pc["client"] \in Locked)

(* The block index counts the uploads, but for a refused one.              *)
IndexInv ==
  (Live /\ \A t \in Threads : pc[t] # "end_local") => block_idx = Len(upload)

(* A holder that has seen a block finds one, and holds the next one.       *)
Sends(t) == pc[t] \in {"send", "skip", "end_local"}

HolderInv ==
  Live => \A t \in Threads :
    /\ pc[t] = "unlink" => queue # <<>>
    /\ Sends(t) => /\ rblock \in Block
                   /\ rblock.off = EndOf(upload)
                   /\ rblock.off + rblock.len <= fed
    /\ pc[t] = "skip" => rblock.len = 0

(* Where the next block that can be reached starts.                        *)
NextOut == IF \E t \in Threads : Sends(t) THEN rblock.off + rblock.len
                                          ELSE EndOf(upload)

(* Where the next block that is submitted starts.                          *)
NextIn == IF wblock = NULL THEN fed ELSE wblock.off

(* The queue runs without a gap from the one to the other, unless blocks   *)
(* were lost from it; then it is empty for good.                           *)
QueueInv ==
  Live =>
    /\ wblock # NULL => wblock.off + wblock.len = fed /\ wblock.len <= BlockSize
    /\ \A i \in 1 .. Len(queue) : queue[i].off + queue[i].len <= fed
    /\ \A i \in 1 .. Len(queue) - 1 :
         queue[i + 1].off = queue[i].off + queue[i].len
    /\ queue # <<>> => queue[1].off = NextOut
    /\ orphans # <<>> => queue = <<>>
    /\ orphans = <<>> =>
         IF queue = <<>> THEN NextOut = NextIn
         ELSE queue[Len(queue)].off + queue[Len(queue)].len = NextIn

IInv ==
  /\ TypeOK /\ NodeInv /\ LockInv /\ IndexInv /\ HolderInv /\ QueueInv
  /\ UploadIsPrefix

-----------------------------------------------------------------------------

(* The initial states satisfy the invariant.                                *)
LEMMA InitInv == Init => IInv
<1> SUFFICES ASSUME Init PROVE IInv
  OBVIOUS
<1>a. /\ pc = [t \in Threads |-> "idle"] /\ wblock = NULL /\ queue = <<>>
      /\ orphans = <<>> /\ upload = <<>> /\ fed = 0 /\ dropped = 0 /\ block_idx = 0
      /\ inflight = 0 /\ ctx = "none" /\ node_uplink = FALSE
  BY DEF Init
<1>b. EndOf(upload) = 0 /\ Len(upload) = 0
  BY <1>a DEF EndOf
<1>1. TypeOK
  <2>1. queue \in Seq(Block) /\ orphans \in Seq(Block) /\ upload \in Seq(Upload)
    BY <1>a
  <2>2. /\ conn = TRUE /\ closed = FALSE /\ sending = FALSE /\ rblock = NULL
        /\ result = "none" /\ ret = [t \in Threads |-> "idle"]
        /\ saw_closed = [t \in Threads |-> FALSE]
        /\ alone = [t \in Threads |-> FALSE] /\ sched \in Scheds
    BY DEF Init
  <2>3. pc \in [Threads -> Labels]
    BY <1>a DEF Labels
  <2>4. QED
    BY <1>a, <2>1, <2>2, <2>3 DEF TypeOK
<1>2. NodeInv
  BY <1>a DEF NodeInv
<1>3. LockInv /\ IndexInv /\ HolderInv
  BY <1>a, <1>b DEF LockInv, IndexInv, HolderInv, Locked, Sends, Threads
<1>4. QueueInv
  BY <1>a, <1>b DEF QueueInv, NextOut, NextIn, Sends
<1>5. UploadIsPrefix
  BY <1>a, <1>b DEF UploadIsPrefix
<1>6. QED
  BY <1>1, <1>2, <1>3, <1>4, <1>5 DEF IInv

(* Blocks and sequences of blocks, in the form that the steps need.         *)
LEMMA NewBlock ==
  \A o, n \in Nat : /\ [off |-> o, len |-> n] \in Block
                    /\ [off |-> o, len |-> n].off = o
                    /\ [off |-> o, len |-> n].len = n
BY DEF Block

(* Block.len is changed by uplink_write only; the offset stays.             *)
LEMMA BlockFields ==
  \A b \in Block : /\ b.off \in Nat /\ b.len \in Nat /\ b # NULL
                   /\ \A n \in Nat : /\ [b EXCEPT !.len = n] \in Block
                                     /\ [b EXCEPT !.len = n].off = b.off
                                     /\ [b EXCEPT !.len = n].len = n
BY UplinkAssumption DEF Block

(* What sys_slist_get leaves: the rest of the list, in order.               *)
LEMMA TailFacts ==
  ASSUME NEW S, NEW q \in Seq(S), q # <<>>
  PROVE  /\ Head(q) \in S /\ Head(q) = q[1]
         /\ Tail(q) \in Seq(S) /\ Len(Tail(q)) = Len(q) - 1
         /\ \A i \in 1 .. Len(q) - 1 : Tail(q)[i] = q[i + 1]
OBVIOUS

(* What sys_slist_append makes: the list, and the block at its end.         *)
LEMMA AppendFacts ==
  ASSUME NEW S, NEW q \in Seq(S), NEW e \in S
  PROVE  /\ Append(q, e) \in Seq(S) /\ Len(Append(q, e)) = Len(q) + 1
         /\ Append(q, e) # <<>> /\ Append(q, e)[Len(q) + 1] = e
         /\ \A i \in 1 .. Len(q) : Append(q, e)[i] = q[i]
OBVIOUS

(* Joined lists are a list, and the empty list adds nothing.                *)
LEMMA ConcatFacts ==
  ASSUME NEW S, NEW q \in Seq(S), NEW r \in Seq(S)
  PROVE  /\ q \o r \in Seq(S) /\ <<>> \in Seq(S)
         /\ <<>> \o r = r /\ (q = <<>> <=> Len(q) = 0)
OBVIOUS

(* Submitting the block that comes next keeps the queue without a gap.      *)
SubmittedInv(f) ==
  /\ \A i \in 1 .. Len(queue') : queue'[i].off + queue'[i].len <= f
  /\ \A i \in 1 .. Len(queue') - 1 :
       queue'[i + 1].off = queue'[i].off + queue'[i].len
  /\ queue' # <<>> => queue'[1].off = NextOut
  /\ orphans' # <<>> => queue' = <<>>
  /\ orphans' = <<>> =>
       /\ queue' # <<>>
       /\ queue'[Len(queue')].off + queue'[Len(queue')].len = f

(* A block that starts where the queue ends keeps it without a gap.         *)
LEMMA EnqueueFacts ==
  ASSUME IInv, ctx = "open", NEW f \in Nat, f >= fed,
         NEW b \in Block, b.off = NextIn, b.off + b.len = f, Enqueue(b)
  PROVE  /\ queue' \in Seq(Block) /\ orphans' \in Seq(Block)
         /\ queue = <<>> \/ queue' # <<>>
         /\ SubmittedInv(f)
<1> USE DEF Enqueue, IInv, TypeOK
<1>1. CASE orphans = <<>>
  <2>1. queue' = Append(queue, b) /\ orphans' = orphans
    BY <1>1
  <2>2. PICK q \in Seq(Block) : q = queue
    OBVIOUS
  <2>3. /\ Append(q, b) \in Seq(Block) /\ Len(Append(q, b)) = Len(q) + 1
        /\ Append(q, b) # <<>> /\ Append(q, b)[Len(q) + 1] = b
        /\ \A i \in 1 .. Len(q) : Append(q, b)[i] = q[i]
    BY AppendFacts
  <2>4. queue' \in Seq(Block) /\ orphans' \in Seq(Block) /\ queue' # <<>>
    BY <2>1, <2>2, <2>3
  <2>5. \A i \in 1 .. Len(q) : q[i].off + q[i].len <= fed /\ q[i] \in Block
    BY <2>2 DEF QueueInv, Live
  <2>6. \A i \in 1 .. Len(q) + 1 : Append(q, b)[i].off + Append(q, b)[i].len <= f
    BY <2>3, <2>5, BlockFields, SMTT(30)
  <2>7. \A i \in 1 .. Len(q) - 1 : q[i + 1].off = q[i].off + q[i].len
    BY <2>2 DEF QueueInv, Live
  <2>8. q # <<>> => q[Len(q)].off + q[Len(q)].len = b.off /\ q[1].off = NextOut
    BY <1>1, <2>2 DEF QueueInv, Live
  <2>9. q = <<>> => b.off = NextOut
    BY <1>1, <2>2 DEF QueueInv, Live
  <2>10. \A i \in 1 .. Len(q) :
           Append(q, b)[i + 1].off = Append(q, b)[i].off + Append(q, b)[i].len
    BY <2>3, <2>7, <2>8
  <2>11. Append(q, b)[1].off = NextOut
    BY <2>3, <2>8, <2>9
  <2>12. QED
    BY <1>1, <2>1, <2>2, <2>3, <2>4, <2>6, <2>10, <2>11 DEF SubmittedInv
<1>2. CASE orphans # <<>>
  <2>1. orphans' = Append(orphans, b) /\ queue' = queue
    BY <1>2
  <2>2. orphans' \in Seq(Block) /\ orphans' # <<>>
    BY <2>1, AppendFacts
  <2>3. queue = <<>>
    BY <1>2 DEF QueueInv, Live
  <2>4. QED
    BY <2>1, <2>2, <2>3 DEF SubmittedInv
<1>3. QED
  BY <1>1, <1>2

(* The step Open keeps the invariant: nothing was written to the context,   *)
(* so its first block starts at zero.                                       *)
LEMMA OpenInv == IInv /\ Open => IInv'
<1> SUFFICES ASSUME IInv, Open PROVE IInv'
  OBVIOUS
<1>a. PICK ok \in BOOLEAN :
        /\ conn' = ok /\ node_uplink' = ok
        /\ ctx' = IF ok THEN "open" ELSE "none"
        /\ wblock' = IF ok THEN [off |-> 0, len |-> 0] ELSE NULL
  BY DEF Open
<1>b. /\ queue = <<>> /\ orphans = <<>> /\ fed = 0 /\ wblock = NULL
      /\ UNCHANGED <<closed, sending, rblock, queue, orphans, block_idx, fed,
                    dropped, inflight, upload, result, pc>>
      /\ UNCHANGED <<ret, saw_closed, alone, sched>>
  BY DEF Open, IInv, NodeInv, locals
<1>c. ctx # "freed"
  BY DEF Open
<1>1. TypeOK'
  <2>1. wblock' \in Block \cup {NULL}
    BY <1>a, NewBlock
  <2>2. QED
    BY <2>1, <1>a, <1>b DEF IInv, TypeOK
<1>2. NodeInv'
  BY <1>a, <1>b DEF NodeInv
<1>3. LockInv'
  BY <1>a, <1>b, <1>c DEF IInv, TypeOK, LockInv, Locked, Live, Threads
<1>4. IndexInv'
  BY <1>a, <1>b, <1>c DEF IInv, TypeOK, IndexInv, LockInv, Locked, Live,
       Threads
<1>5. HolderInv'
  BY <1>a, <1>b, <1>c DEF IInv, TypeOK, HolderInv, LockInv, Locked, Sends,
       Live, EndOf, Threads
<1>6. QueueInv'
  <2>1. NextOut = 0
    BY <1>b, <1>c DEF IInv, QueueInv, NextIn, Live
  <2>2. NextOut' = NextOut
    BY <1>b DEF NextOut, Sends, EndOf
  <2>3. wblock' # NULL => wblock'.off = 0 /\ wblock'.len = 0
    BY <1>a, NewBlock
  <2>4. QED
    BY <1>b, <2>1, <2>2, <2>3, UplinkAssumption DEF QueueInv, NextIn
<1>7. UploadIsPrefix'
  BY <1>a, <1>b, <1>c DEF IInv, TypeOK, UploadIsPrefix, EndOf
<1>8. QED
  BY <1>1, <1>2, <1>3, <1>4, <1>5, <1>6, <1>7 DEF IInv

(* The step Forget keeps the invariant: it only clears the node's pointer.  *)
LEMMA ForgetInv == IInv /\ Forget => IInv'
<1> SUFFICES ASSUME IInv, Forget PROVE IInv'
  OBVIOUS
<1> USE DEF Forget, locals
<1>1. TypeOK'
  BY DEF IInv, TypeOK, Goto, Return, Threads, Labels, Upload
<1>2. NodeInv'
  BY DEF IInv, TypeOK, NodeInv, Touches
<1>3. LockInv'
  BY DEF IInv, TypeOK, LockInv, Locked, Live, At, Touches, Goto, Return,
       Threads, Runs
<1>4. IndexInv'
  BY DEF IInv, TypeOK, IndexInv, LockInv, Locked, Live, At, Touches, Goto,
       Return, Threads
<1>5. HolderInv'
  BY DEF IInv, TypeOK, HolderInv, LockInv, Locked, Sends, Live, EndOf, At,
       Touches, Goto, Return, Threads
<1>6. QueueInv'
  BY DEF IInv, TypeOK, QueueInv, HolderInv, LockInv, Locked, Sends, Live,
       EndOf, NextOut, NextIn, At, Touches, Goto, Return, Threads
<1>7. UploadIsPrefix'
  BY DEF IInv, TypeOK, UploadIsPrefix, EndOf
<1>8. QED
  BY <1>1, <1>2, <1>3, <1>4, <1>5, <1>6, <1>7 DEF IInv

(* The step Disconnect keeps the invariant: it only moves the host thread   *)
(* to the close.                                                            *)
LEMMA DisconnectInv == IInv /\ Disconnect => IInv'
<1> SUFFICES ASSUME IInv, Disconnect PROVE IInv'
  OBVIOUS
<1> USE DEF Disconnect, locals
<1>1. TypeOK'
  BY DEF IInv, TypeOK, Goto, Return, Threads, Labels, Upload
<1>2. NodeInv'
  BY DEF IInv, TypeOK, NodeInv, Touches
<1>3. LockInv'
  BY DEF IInv, TypeOK, LockInv, Locked, Live, At, Touches, Goto, Return,
       Threads, Runs
<1>4. IndexInv'
  BY DEF IInv, TypeOK, IndexInv, LockInv, Locked, Live, At, Touches, Goto,
       Return, Threads
<1>5. HolderInv'
  BY DEF IInv, TypeOK, HolderInv, LockInv, Locked, Sends, Live, EndOf, At,
       Touches, Goto, Return, Threads
<1>6. QueueInv'
  BY DEF IInv, TypeOK, QueueInv, HolderInv, LockInv, Locked, Sends, Live,
       EndOf, NextOut, NextIn, At, Touches, Goto, Return, Threads
<1>7. UploadIsPrefix'
  BY DEF IInv, TypeOK, UploadIsPrefix, EndOf
<1>8. QED
  BY <1>1, <1>2, <1>3, <1>4, <1>5, <1>6, <1>7 DEF IInv

(* The step Close keeps the invariant: the open block joins the queue where *)
(* the bytes fed so far end.                                                *)
LEMMA CloseInv == IInv /\ Close => IInv'
<1> SUFFICES ASSUME IInv, Close PROVE IInv'
  OBVIOUS
<1>a. /\ ctx = "open" /\ pc["bt"] = "close"
      /\ pc' = [pc EXCEPT !["bt"] = "test"]
      /\ ret' = [ret EXCEPT !["bt"] = "forget"]
      /\ closed' = TRUE
      /\ UNCHANGED <<conn, node_uplink, ctx, sending, rblock, block_idx, fed, dropped,
                    inflight, upload, result, saw_closed, alone, sched>>
  BY DEF Close, Touches, At, Goto
<1>b. \/ wblock # NULL /\ wblock' = NULL /\ Enqueue(wblock)
      \/ UNCHANGED <<queue, orphans, wblock>>
  BY DEF Close, SubmitRest
<1>c. wblock # NULL /\ Enqueue(wblock) =>
        /\ queue' \in Seq(Block) /\ orphans' \in Seq(Block)
        /\ queue = <<>> \/ queue' # <<>>
        /\ SubmittedInv(fed)
  <2>1. SUFFICES ASSUME wblock # NULL, Enqueue(wblock)
                 PROVE  /\ queue' \in Seq(Block) /\ orphans' \in Seq(Block)
                        /\ queue = <<>> \/ queue' # <<>>
                        /\ SubmittedInv(fed)
    OBVIOUS
  <2>2. wblock \in Block /\ wblock.off = NextIn /\ wblock.off + wblock.len = fed
    BY <1>a, <2>1 DEF IInv, TypeOK, QueueInv, Live, NextIn
  <2>3. fed \in Nat /\ fed >= fed
    BY DEF IInv, TypeOK
  <2>4. QED
    BY <1>a, <2>1, <2>2, <2>3, EnqueueFacts
<1>1. TypeOK'
  BY <1>a, <1>b, <1>c DEF IInv, TypeOK, Goto, Return, Threads, Labels,
       Upload
<1>2. NodeInv'
  BY <1>a, <1>b, <1>c DEF IInv, TypeOK, NodeInv, Touches
<1>3. LockInv'
  BY <1>a, <1>b, <1>c DEF IInv, TypeOK, LockInv, Locked, Live, Threads
<1>4. IndexInv'
  BY <1>a, <1>b, <1>c DEF IInv, TypeOK, IndexInv, LockInv, Locked, Live,
       Threads
<1>5. HolderInv'
  BY <1>a, <1>b, <1>c DEF IInv, TypeOK, HolderInv, LockInv, Locked, Sends,
       Live, EndOf, Threads
<1>6. QueueInv'
  <2>1. NextOut' = NextOut
    BY <1>a DEF IInv, TypeOK, NextOut, Sends, EndOf, Threads
  <2>2. CASE wblock # NULL /\ wblock' = NULL /\ Enqueue(wblock)
    BY <1>a, <1>c, <2>1, <2>2 DEF SubmittedInv, QueueInv, NextIn
  <2>3. CASE UNCHANGED <<queue, orphans, wblock>>
    BY <1>a, <2>1, <2>3 DEF IInv, QueueInv, NextIn, Live
  <2>4. QED
    BY <1>b, <2>2, <2>3
<1>7. UploadIsPrefix'
  BY <1>a, <1>b, <1>c DEF IInv, TypeOK, UploadIsPrefix, EndOf
<1>8. QED
  BY <1>1, <1>2, <1>3, <1>4, <1>5, <1>6, <1>7 DEF IInv

(* The step Callback keeps the invariant: while an upload is in flight no   *)
(* thread is in the locked part.                                            *)
LEMMA CallbackInv == IInv /\ Callback => IInv'
<1> SUFFICES ASSUME IInv, Callback PROVE IInv'
  OBVIOUS
<1>a. /\ ctx = "open" /\ pc["client"] = "idle"
      /\ pc' = pc \/ pc' = [pc EXCEPT !["client"] = "cb_ok"]
                  \/ pc' = [pc EXCEPT !["client"] = "cb_err"]
      /\ ret' = [ret EXCEPT !["client"] = "idle"]
      /\ inflight > 0 /\ inflight' = inflight - 1
      /\ UNCHANGED <<conn, node_uplink, ctx, closed, wblock, rblock, queue,
                    orphans, block_idx, fed, dropped, upload, result, saw_closed, alone, sched>>
  BY DEF Callback, Touches, At, Goto
<1>b. sending' = FALSE
  BY DEF Callback
<1>1. TypeOK'
  <2>1. pc' \in [Threads -> Labels]
    BY <1>a DEF IInv, TypeOK, Threads, Labels
  <2>2. inflight' \in Nat
    BY <1>a DEF IInv, TypeOK
  <2>3. ret' \in [Threads -> {"idle", "close", "forget"}]
    BY <1>a DEF IInv, TypeOK, Threads
  <2>4. QED
    BY <1>a, <1>b, <2>1, <2>2, <2>3 DEF IInv, TypeOK
<1>2. NodeInv'
  BY <1>a DEF IInv, NodeInv
<1>3. LockInv'
  BY <1>a DEF IInv, TypeOK, LockInv, Locked, Live, Threads
<1>4. IndexInv'
  BY <1>a DEF IInv, TypeOK, IndexInv, LockInv, Locked, Live, Threads
<1>5. HolderInv'
  BY <1>a DEF IInv, TypeOK, HolderInv, LockInv, Locked, Sends, Live, EndOf,
       Threads
<1>6. QueueInv'
  BY <1>a DEF IInv, TypeOK, QueueInv, HolderInv, LockInv, Locked, Sends,
       Live, EndOf, NextOut, NextIn, Threads
<1>7. UploadIsPrefix'
  BY <1>a DEF IInv, TypeOK, UploadIsPrefix, EndOf
<1>8. QED
  BY <1>1, <1>2, <1>3, <1>4, <1>5, <1>6, <1>7 DEF IInv

(* The step CallbackOk keeps the invariant: no thread sends a block when    *)
(* rblock is freed.                                                         *)
LEMMA CallbackOkInv == IInv /\ CallbackOk => IInv'
<1> SUFFICES ASSUME IInv, CallbackOk PROVE IInv'
  OBVIOUS
<1> USE DEF CallbackOk, locals
<1>a. \A t \in Threads : ~Sends(t) /\ ~Sends(t)'
  BY DEF Touches, At, Runs, Goto, Sends, Threads, IInv, TypeOK
<1>1. TypeOK'
  BY DEF IInv, TypeOK, Goto, Return, Threads, Labels, Upload
<1>2. NodeInv'
  BY DEF IInv, TypeOK, NodeInv, Touches
<1>3. LockInv'
  BY DEF IInv, TypeOK, LockInv, Locked, Live, At, Touches, Goto, Return,
       Threads, Runs
<1>4. IndexInv'
  BY DEF IInv, TypeOK, IndexInv, LockInv, Locked, Live, At, Touches, Goto,
       Return, Threads
<1>5. HolderInv'
  BY <1>a DEF IInv, TypeOK, HolderInv, LockInv, Live, Sends, Goto, Threads
<1>6. QueueInv'
  <2>1. NextOut' = NextOut
    BY <1>a DEF NextOut, EndOf
  <2>2. QED
    BY <2>1 DEF IInv, QueueInv, Live, NextIn
<1>7. UploadIsPrefix'
  BY DEF IInv, TypeOK, UploadIsPrefix, EndOf
<1>8. QED
  BY <1>1, <1>2, <1>3, <1>4, <1>5, <1>6, <1>7 DEF IInv

(* The step TestAndSet keeps the invariant: the lock is free or is refused. *)
LEMMA TestAndSetInv == \A t \in Threads : IInv /\ TestAndSet(t) => IInv'
<1> SUFFICES ASSUME NEW t \in Threads, IInv, TestAndSet(t) PROVE IInv'
  OBVIOUS
<1> USE DEF TestAndSet, Enter, locals
<1>1. TypeOK'
  BY DEF IInv, TypeOK, Goto, Return, Threads, Labels, Upload
<1>2. NodeInv'
  BY DEF IInv, TypeOK, NodeInv, Touches
<1>3. LockInv'
  BY DEF IInv, TypeOK, LockInv, Locked, Live, At, Touches, Goto, Return,
       Threads, Runs
<1>4. IndexInv'
  BY DEF IInv, TypeOK, IndexInv, LockInv, Locked, Live, At, Touches, Goto,
       Return, Threads
<1>5. HolderInv'
  BY DEF IInv, TypeOK, HolderInv, LockInv, Locked, Sends, Live, EndOf, At,
       Touches, Goto, Return, Threads
<1>6. QueueInv'
  BY DEF IInv, TypeOK, QueueInv, HolderInv, LockInv, Locked, Sends, Live,
       EndOf, NextOut, NextIn, At, Touches, Goto, Return, Threads
<1>7. UploadIsPrefix'
  BY DEF IInv, TypeOK, UploadIsPrefix, EndOf
<1>8. QED
  BY <1>1, <1>2, <1>3, <1>4, <1>5, <1>6, <1>7 DEF IInv

(* The step ReadClosed keeps the invariant: it writes a local only.         *)
LEMMA ReadClosedInv == \A t \in Threads : IInv /\ ReadClosed(t) => IInv'
<1> SUFFICES ASSUME NEW t \in Threads, IInv, ReadClosed(t) PROVE IInv'
  OBVIOUS
<1> USE DEF ReadClosed, locals, state
<1>1. TypeOK'
  BY DEF IInv, TypeOK, Goto, Return, Threads, Labels, Upload
<1>2. NodeInv'
  BY DEF IInv, TypeOK, NodeInv, Touches
<1>3. LockInv'
  BY DEF IInv, TypeOK, LockInv, Locked, Live, At, Touches, Goto, Return,
       Threads, Runs
<1>4. IndexInv'
  BY DEF IInv, TypeOK, IndexInv, LockInv, Locked, Live, At, Touches, Goto,
       Return, Threads
<1>5. HolderInv'
  BY DEF IInv, TypeOK, HolderInv, LockInv, Locked, Sends, Live, EndOf, At,
       Touches, Goto, Return, Threads
<1>6. QueueInv'
  BY DEF IInv, TypeOK, QueueInv, HolderInv, LockInv, Locked, Sends, Live,
       EndOf, NextOut, NextIn, At, Touches, Goto, Return, Threads
<1>7. UploadIsPrefix'
  BY DEF IInv, TypeOK, UploadIsPrefix, EndOf
<1>8. QED
  BY <1>1, <1>2, <1>3, <1>4, <1>5, <1>6, <1>7 DEF IInv

(* The step ReadHead keeps the invariant: whoever goes on to unlink has     *)
(* seen a block.                                                            *)
LEMMA ReadHeadInv == \A t \in Threads : IInv /\ ReadHead(t) => IInv'
<1> SUFFICES ASSUME NEW t \in Threads, IInv, ReadHead(t) PROVE IInv'
  OBVIOUS
<1> USE DEF ReadHead, locals, state
<1>1. TypeOK'
  BY DEF IInv, TypeOK, Goto, Return, Threads, Labels, Upload
<1>2. NodeInv'
  BY DEF IInv, TypeOK, NodeInv, Touches
<1>3. LockInv'
  BY DEF IInv, TypeOK, LockInv, Locked, Live, At, Touches, Goto, Return,
       Threads, Runs
<1>4. IndexInv'
  BY DEF IInv, TypeOK, IndexInv, LockInv, Locked, Live, At, Touches, Goto,
       Return, Threads
<1>5. HolderInv'
  BY DEF IInv, TypeOK, HolderInv, LockInv, Locked, Sends, Live, EndOf, At,
       Touches, Goto, Return, Threads
<1>6. QueueInv'
  BY DEF IInv, TypeOK, QueueInv, HolderInv, LockInv, Locked, Sends, Live,
       EndOf, NextOut, NextIn, At, Touches, Goto, Return, Threads
<1>7. UploadIsPrefix'
  BY DEF IInv, TypeOK, UploadIsPrefix, EndOf
<1>8. QED
  BY <1>1, <1>2, <1>3, <1>4, <1>5, <1>6, <1>7 DEF IInv

(* The step Unlink keeps the invariant: the next block leaves the queue,    *)
(* and the rest of it stays or is lost as a whole.                          *)
LEMMA UnlinkInv == \A t \in Threads : IInv /\ Unlink(t) => IInv'
<1> SUFFICES ASSUME NEW t \in Threads, IInv, Unlink(t) PROVE IInv'
  OBVIOUS
<1>a. /\ ctx = "open" /\ pc[t] = "unlink"
      /\ pc' = [pc EXCEPT ![t] = IF Head(queue).len = 0 THEN "skip" ELSE "send"]
      /\ rblock' = Head(queue)
      /\ UNCHANGED <<conn, node_uplink, ctx, closed, sending, wblock, block_idx,
                    fed, dropped, inflight, upload, result>>
      /\ UNCHANGED <<ret, saw_closed, alone, sched>>
  BY DEF Unlink, Touches, At, Goto, locals
<1>b. PICK q \in Seq(Block) : q = queue
  BY DEF IInv, TypeOK
<1>c. q # <<>> /\ orphans = <<>>
  BY <1>a, <1>b DEF IInv, HolderInv, QueueInv, Live
<1>d. /\ Head(q) \in Block /\ Head(q) = q[1]
      /\ Tail(q) \in Seq(Block) /\ Len(Tail(q)) = Len(q) - 1
      /\ \A i \in 1 .. Len(q) - 1 : Tail(q)[i] = q[i + 1]
  BY <1>c, TailFacts
<1>e. /\ Head(q).off = EndOf(upload)
      /\ Head(q).off + Head(q).len <= fed
      /\ Head(q).off \in Nat /\ Head(q).len \in Nat
  <2>1. NextOut = EndOf(upload)
    BY <1>a DEF IInv, TypeOK, LockInv, Locked, Live, NextOut, Sends, Threads
  <2>2. Len(q) \in Nat /\ Len(q) >= 1
    BY <1>c, ConcatFacts
  <2>3. QED
    BY <1>a, <1>b, <1>c, <1>d, <2>1, <2>2, BlockFields DEF IInv, QueueInv, Live
<1>f. \/ queue' = Tail(q) /\ orphans' = <<>>
      \/ queue' = <<>> /\ orphans' = Tail(q)
  BY <1>b, <1>c, <1>d, ConcatFacts DEF Unlink
<1>1. TypeOK'
  <2>1. rblock' \in Block /\ queue' \in Seq(Block) /\ orphans' \in Seq(Block)
    BY <1>a, <1>b, <1>d, <1>f, ConcatFacts
  <2>2. pc' \in [Threads -> Labels]
    BY <1>a DEF IInv, TypeOK, Labels
  <2>3. QED
    BY <1>a, <2>1, <2>2 DEF IInv, TypeOK
<1>2. NodeInv'
  BY <1>a DEF IInv, NodeInv
<1>3. LockInv'
  BY <1>a DEF IInv, TypeOK, LockInv, Locked, Live, Threads
<1>4. IndexInv'
  BY <1>a DEF IInv, TypeOK, IndexInv, LockInv, Locked, Live, Threads
<1>5. HolderInv'
  <2>1. \A u \in Threads \ {t} : pc'[u] \notin Locked
    BY <1>a DEF IInv, TypeOK, LockInv, Locked, Live, Threads
  <2>2. rblock' = Head(q) /\ EndOf(upload') = EndOf(upload) /\ fed' = fed
    BY <1>a, <1>b DEF EndOf
  <2>3. pc'[t] = "skip" => Head(q).len = 0
    BY <1>a, <1>b DEF IInv, TypeOK
  <2>4. pc'[t] # "unlink"
    BY <1>a DEF IInv, TypeOK
  <2>5. QED
    BY <1>d, <1>e, <2>1, <2>2, <2>3, <2>4 DEF HolderInv, Sends, Locked
<1>6. QueueInv'
  <2>1. NextOut' = Head(q).off + Head(q).len
    BY <1>a, <1>b DEF IInv, TypeOK, NextOut, Sends
  <2>2. NextIn' = NextIn /\ UNCHANGED <<wblock, fed>>
    BY <1>a DEF NextIn
  <2>3. /\ wblock # NULL => wblock.off + wblock.len = fed /\ wblock.len <= BlockSize
        /\ \A i \in 1 .. Len(q) : q[i].off + q[i].len <= fed
        /\ \A i \in 1 .. Len(q) - 1 : q[i + 1].off = q[i].off + q[i].len
        /\ q[Len(q)].off + q[Len(q)].len = NextIn
    BY <1>a, <1>b, <1>c DEF IInv, QueueInv, Live
  <2>4. Len(q) \in Nat /\ Len(q) >= 1 /\ (Tail(q) = <<>> <=> Len(q) = 1)
    BY <1>c, <1>d, ConcatFacts, SMTT(30)
  <2>5. CASE queue' = Tail(q) /\ orphans' = <<>>
    <3>1. \A i \in 1 .. Len(Tail(q)) : Tail(q)[i].off + Tail(q)[i].len <= fed
      BY <1>d, <2>3, <2>4
    <3>2. \A i \in 1 .. Len(Tail(q)) - 1 :
            Tail(q)[i + 1].off = Tail(q)[i].off + Tail(q)[i].len
      BY <1>d, <2>3, <2>4
    <3>3. Tail(q) # <<>> => /\ Tail(q)[1].off = Head(q).off + Head(q).len
                            /\ Tail(q)[Len(Tail(q))] = q[Len(q)]
      BY <1>d, <2>3, <2>4
    <3>4. Tail(q) = <<>> => Head(q).off + Head(q).len = NextIn
      BY <1>d, <2>3, <2>4
    <3>5. QED
      BY <2>1, <2>2, <2>3, <2>5, <3>1, <3>2, <3>3, <3>4 DEF QueueInv
  <2>6. CASE queue' = <<>> /\ orphans' = Tail(q)
    <3>1. Tail(q) = <<>> => Head(q).off + Head(q).len = NextIn
      BY <1>d, <2>3, <2>4
    <3>2. QED
      BY <2>1, <2>2, <2>3, <2>6, <3>1 DEF QueueInv
  <2>7. QED
    BY <1>f, <2>5, <2>6
<1>7. UploadIsPrefix'
  BY <1>a DEF IInv, TypeOK, UploadIsPrefix, EndOf
<1>8. QED
  BY <1>1, <1>2, <1>3, <1>4, <1>5, <1>6, <1>7 DEF IInv

(* The step Skip keeps the invariant: a block without bytes leaves no gap.  *)
LEMMA SkipInv == \A t \in Threads : IInv /\ Skip(t) => IInv'
<1> SUFFICES ASSUME NEW t \in Threads, IInv, Skip(t) PROVE IInv'
  OBVIOUS
<1> USE DEF Skip, locals
<1>a. rblock.len = 0 /\ rblock.off = EndOf(upload) /\ rblock \in Block
  BY DEF IInv, HolderInv, Sends, Live, Touches, At
<1>b. \A u \in Threads : ~Sends(u)'
  BY DEF IInv, TypeOK, LockInv, Locked, Live, Touches, At, Return, Goto, Sends,
         Threads
<1>1. TypeOK'
  BY DEF IInv, TypeOK, Goto, Return, Threads, Labels, Upload
<1>2. NodeInv'
  BY DEF IInv, TypeOK, NodeInv, Touches
<1>3. LockInv'
  BY DEF IInv, TypeOK, LockInv, Locked, Live, At, Touches, Goto, Return,
       Threads, Runs
<1>4. IndexInv'
  BY DEF IInv, TypeOK, IndexInv, LockInv, Locked, Live, At, Touches, Goto,
       Return, Threads
<1>5. HolderInv'
  BY DEF IInv, TypeOK, HolderInv, LockInv, Locked, Sends, Live, EndOf, At,
       Touches, Goto, Return, Threads
<1>6. QueueInv'
  <2>1. NextOut = EndOf(upload)
    BY <1>a, BlockFields DEF NextOut
  <2>2. NextOut' = NextOut
    BY <1>b, <2>1 DEF NextOut, EndOf
  <2>3. QED
    BY <2>2 DEF IInv, QueueInv, Live, Touches, NextIn
<1>7. UploadIsPrefix'
  BY DEF IInv, TypeOK, UploadIsPrefix, EndOf
<1>8. QED
  BY <1>1, <1>2, <1>3, <1>4, <1>5, <1>6, <1>7 DEF IInv

(* The step Send keeps the invariant: the block that is uploaded is the     *)
(* next one.                                                                *)
LEMMA SendInv == \A t \in Threads : IInv /\ Send(t) => IInv'
<1> SUFFICES ASSUME NEW t \in Threads, IInv, Send(t) PROVE IInv'
  OBVIOUS
<1>a. /\ ctx = "open" /\ pc[t] = "send" /\ block_idx' = block_idx + 1
      /\ UNCHANGED <<conn, node_uplink, ctx, closed, sending, wblock, rblock,
                    queue, orphans, fed, dropped, result>>
      /\ UNCHANGED <<ret, saw_closed, alone, sched>>
  BY DEF Send, Touches, At, locals
<1>b. \/ /\ pc' = [pc EXCEPT ![t] = ret[t]]
         /\ inflight' = inflight + 1
         /\ \E l \in BOOLEAN :
              upload' = Append(upload, [idx |-> block_idx, off |-> rblock.off,
                                        len |-> rblock.len, last |-> l])
      \/ /\ pc' = [pc EXCEPT ![t] = "end_local"]
         /\ UNCHANGED <<upload, inflight>>
  <2>1. IsLast(t) \in BOOLEAN
    BY DEF IsLast
  <2>2. QED
    BY <2>1 DEF Send, Return, Goto
<1>c. /\ rblock \in Block /\ rblock.off \in Nat /\ rblock.len \in Nat
      /\ rblock.off = EndOf(upload) /\ rblock.off + rblock.len <= fed
  BY <1>a, BlockFields DEF IInv, HolderInv, Sends, Live
<1>d. /\ block_idx = Len(upload) /\ inflight = 0 /\ sending
      /\ \A u \in Threads \ {t} : pc[u] \notin Locked
  BY <1>a DEF IInv, TypeOK, IndexInv, LockInv, Locked, Live, Threads
<1>e. PICK up \in Seq(Upload) : up = upload
  BY DEF IInv, TypeOK
<1>f. \/ /\ pc' = [pc EXCEPT ![t] = ret[t]]
         /\ inflight' = 1
         /\ \E b \in Upload : /\ b.idx = Len(up) /\ b.off = EndOf(up)
                              /\ b.len = rblock.len
                              /\ upload' = Append(up, b)
      \/ /\ pc' = [pc EXCEPT ![t] = "end_local"]
         /\ UNCHANGED <<upload, inflight>>
  <2>1. \A l \in BOOLEAN, i, o, n \in Nat :
          LET b == [idx |-> i, off |-> o, len |-> n, last |-> l]
          IN  b \in Upload /\ b.idx = i /\ b.off = o /\ b.len = n
    BY DEF Upload
  <2>2. Len(up) \in Nat /\ block_idx = Len(up) /\ EndOf(up) = rblock.off
    BY <1>c, <1>d, <1>e
  <2>3. ASSUME NEW l \in BOOLEAN,
               upload' = Append(upload, [idx |-> block_idx, off |-> rblock.off,
                                         len |-> rblock.len, last |-> l])
        PROVE  \E b \in Upload : /\ b.idx = Len(up) /\ b.off = EndOf(up)
                                /\ b.len = rblock.len /\ upload' = Append(up, b)
    <3> DEFINE b == [idx |-> block_idx, off |-> rblock.off,
                     len |-> rblock.len, last |-> l]
    <3>1. b \in Upload /\ b.idx = Len(up) /\ b.off = EndOf(up) /\ b.len = rblock.len
      BY <1>c, <2>1, <2>2
    <3>2. upload' = Append(up, b)
      BY <1>e, <2>3
    <3> HIDE DEF b
    <3>3. QED
      BY <3>1, <3>2
  <2>4. inflight + 1 = 1
    BY <1>d
  <2>5. QED
    BY <1>b, <2>3, <2>4
<1>g. ret[t] \in {"idle", "close", "forget"} /\ EndOf(upload) = EndOf(up)
  BY <1>e DEF IInv, TypeOK
<1>1. TypeOK'
  <2>1. pc' \in [Threads -> Labels]
    BY <1>f, <1>g DEF IInv, TypeOK, Labels
  <2>2. upload' \in Seq(Upload)
    BY <1>e, <1>f, AppendFacts, SMTT(30)
  <2>3. inflight' \in Nat /\ block_idx' \in Nat
    BY <1>a, <1>f DEF IInv, TypeOK
  <2>4. QED
    BY <1>a, <2>1, <2>2, <2>3 DEF IInv, TypeOK
<1>2. NodeInv'
  BY <1>a DEF IInv, NodeInv
<1>3. LockInv'
  BY <1>a, <1>d, <1>f, <1>g DEF IInv, TypeOK, LockInv, Live, Locked, Threads
<1>4. IndexInv'
  <2>1. CASE upload' = upload /\ pc' = [pc EXCEPT ![t] = "end_local"]
    BY <2>1 DEF IInv, TypeOK, IndexInv
  <2>2. CASE \E b \in Upload : upload' = Append(up, b)
    <3>1. Len(upload') = Len(up) + 1
      BY <2>2, AppendFacts
    <3>2. QED
      BY <1>a, <1>d, <1>e, <3>1 DEF IndexInv
  <2>3. QED
    BY <1>f, <2>1, <2>2
<1>5. HolderInv'
  <2>1. \A u \in Threads \ {t} : pc'[u] \notin Locked
    BY <1>d, <1>f DEF IInv, TypeOK
  <2>2. CASE upload' = upload /\ pc' = [pc EXCEPT ![t] = "end_local"]
    BY <1>a, <1>c, <2>1, <2>2 DEF HolderInv, Sends, Locked, IInv, TypeOK, EndOf
  <2>3. CASE pc' = [pc EXCEPT ![t] = ret[t]]
    BY <1>g, <2>1, <2>3 DEF HolderInv, Sends, Locked, IInv, TypeOK
  <2>4. QED
    BY <1>f, <2>2, <2>3
<1>6. QueueInv'
  <2>1. NextOut = rblock.off + rblock.len
    BY <1>a DEF NextOut, Sends
  <2>2. NextOut' = NextOut
    <3>1. CASE pc' = [pc EXCEPT ![t] = "end_local"]
      BY <1>a, <2>1, <3>1 DEF NextOut, Sends, IInv, TypeOK
    <3>2. CASE /\ pc' = [pc EXCEPT ![t] = ret[t]]
               /\ \E b \in Upload : /\ b.off = EndOf(up) /\ b.len = rblock.len
                                    /\ upload' = Append(up, b)
      <4>1. \A u \in Threads : ~Sends(u)'
        BY <1>d, <1>g, <3>2 DEF Sends, Locked, IInv, TypeOK
      <4>2. EndOf(upload') = EndOf(up) + rblock.len
        BY <3>2, AppendFacts DEF EndOf
      <4>3. QED
        BY <1>c, <1>g, <2>1, <4>1, <4>2 DEF NextOut
    <3>3. QED
      BY <1>f, <3>1, <3>2
  <2>3. QED
    BY <1>a, <2>2 DEF IInv, QueueInv, Live, NextIn
<1>7. UploadIsPrefix'
  <2>1. CASE upload' = upload
    BY <1>a, <2>1 DEF IInv, UploadIsPrefix, EndOf
  <2>2. CASE \E b \in Upload : /\ b.idx = Len(up) /\ b.off = EndOf(up)
                              /\ b.len = rblock.len /\ upload' = Append(up, b)
    <3>1. PICK b \in Upload : /\ b.idx = Len(up) /\ b.off = EndOf(up)
                              /\ b.len = rblock.len /\ upload' = Append(up, b)
      BY <2>2
    <3>2. /\ Len(upload') = Len(up) + 1 /\ upload'[Len(up) + 1] = b
          /\ upload' # <<>>
          /\ \A i \in 1 .. Len(up) : upload'[i] = up[i]
      BY <3>1, AppendFacts
    <3>3. EndOf(upload') <= fed'
      BY <1>a, <1>c, <1>g, <3>1, <3>2 DEF EndOf
    <3>4. \A i \in 1 .. Len(up) :
            /\ up[i].idx = i - 1
            /\ up[i].off = IF i = 1 THEN 0 ELSE up[i - 1].off + up[i - 1].len
      BY <1>e DEF IInv, UploadIsPrefix
    <3>5. b.off = IF Len(up) + 1 = 1 THEN 0 ELSE up[Len(up)].off + up[Len(up)].len
      BY <3>1 DEF EndOf
    <3>6. Len(up) \in Nat
      OBVIOUS
    <3>7. QED
      BY <3>1, <3>2, <3>3, <3>4, <3>5, <3>6 DEF UploadIsPrefix
  <2>3. QED
    BY <1>f, <2>1, <2>2
<1>8. QED
  BY <1>1, <1>2, <1>3, <1>4, <1>5, <1>6, <1>7 DEF IInv

(* The step Clear keeps the invariant: the lock is released by its holder.  *)
LEMMA ClearInv == \A t \in Threads : IInv /\ Clear(t) => IInv'
<1> SUFFICES ASSUME NEW t \in Threads, IInv, Clear(t) PROVE IInv'
  OBVIOUS
<1> USE DEF Clear, locals
<1>1. TypeOK'
  BY DEF IInv, TypeOK, Goto, Return, Threads, Labels, Upload
<1>2. NodeInv'
  BY DEF IInv, TypeOK, NodeInv, Touches
<1>3. LockInv'
  BY DEF IInv, TypeOK, LockInv, Locked, Live, At, Touches, Goto, Return,
       Threads, Runs
<1>4. IndexInv'
  BY DEF IInv, TypeOK, IndexInv, LockInv, Locked, Live, At, Touches, Goto,
       Return, Threads
<1>5. HolderInv'
  BY DEF IInv, TypeOK, HolderInv, LockInv, Locked, Sends, Live, EndOf, At,
       Touches, Goto, Return, Threads
<1>6. QueueInv'
  BY DEF IInv, TypeOK, QueueInv, HolderInv, LockInv, Locked, Sends, Live,
       EndOf, NextOut, NextIn, At, Touches, Goto, Return, Threads
<1>7. UploadIsPrefix'
  BY DEF IInv, TypeOK, UploadIsPrefix, EndOf
<1>8. QED
  BY <1>1, <1>2, <1>3, <1>4, <1>5, <1>6, <1>7 DEF IInv

(* Each end of the uplink keeps the invariant: it leaves no live context.   *)
LEMMA EndInv == 
  \A t \in Threads, res \in {"success", "local", "cloud"}, l \in Labels :
    IInv /\ EndWith(t, res, l) => IInv'
<1> SUFFICES ASSUME NEW t \in Threads,
                    NEW res \in {"success", "local", "cloud"},
                    NEW l \in Labels, IInv, EndWith(t, res, l)
             PROVE IInv'
  OBVIOUS
<1>a. /\ ctx = "open" /\ pc[t] = l /\ pc' = [pc EXCEPT ![t] = ret[t]]
      /\ result' = res /\ node_uplink' = FALSE /\ ctx' = "freed"
      /\ wblock' = NULL /\ rblock' = NULL /\ queue' = <<>>
      /\ UNCHANGED <<conn, closed, sending, orphans, block_idx, fed, dropped, inflight,
                    upload>>
      /\ UNCHANGED <<ret, saw_closed, alone, sched>>
  BY DEF EndWith, UplinkEndCb, Touches, At, Return, Goto, locals
<1>1. TypeOK'
  <2>1. pc' \in [Threads -> Labels]
    BY <1>a DEF IInv, TypeOK, Labels
  <2>2. queue' \in Seq(Block)
    BY <1>a, ConcatFacts DEF IInv, TypeOK
  <2>3. result' \in {"none", "success", "local", "cloud"}
    BY <1>a
  <2>4. QED
    BY <1>a, <2>1, <2>2, <2>3 DEF IInv, TypeOK
<1>2. NodeInv'
  BY <1>a DEF NodeInv
<1>3. LockInv'
  BY <1>a DEF LockInv, Live
<1>4. IndexInv'
  BY <1>a DEF IndexInv, Live
<1>5. HolderInv'
  BY <1>a DEF HolderInv, Live
<1>6. QueueInv'
  BY <1>a DEF QueueInv, Live
<1>7. UploadIsPrefix'
  BY <1>a DEF IInv, UploadIsPrefix, EndOf
<1>8. QED
  BY <1>1, <1>2, <1>3, <1>4, <1>5, <1>6, <1>7 DEF IInv

(***************************************************************************)
(* A fragment of n bytes: FillBlock tops the block up, FillNext submits it *)
(* and starts the next one, FillFails submits it and finds no memory.      *)
(***************************************************************************)
LEMMA SubmitFullFacts ==
  ASSUME IInv, ctx = "open", SubmitFull
  PROVE  /\ queue' \in Seq(Block) /\ orphans' \in Seq(Block)
         /\ queue = <<>> \/ queue' # <<>>
         /\ Room \in Nat /\ fed \in Nat
         /\ \/ SubmittedInv(fed + Room)
            \/ wblock = NULL /\ UNCHANGED <<queue, orphans>>
<1>1. CASE wblock = NULL
  BY <1>1 DEF SubmitFull, Room, IInv, TypeOK
<1>2. CASE wblock # NULL
  <2>1. wblock \in Block /\ wblock.off + wblock.len = fed /\ wblock.len <= BlockSize
    BY <1>2 DEF IInv, TypeOK, QueueInv, Live
  <2>2. /\ Room = BlockSize - wblock.len /\ Room \in Nat /\ fed \in Nat
        /\ BlockSize \in Nat
    BY <1>2, <2>1, BlockFields, UplinkAssumption DEF Room, IInv, TypeOK
  <2>3. PICK b \in Block : b = [wblock EXCEPT !.len = BlockSize]
    BY <2>1, <2>2, BlockFields
  <2>4. b.off = wblock.off /\ b.len = BlockSize
    BY <2>1, <2>2, <2>3, BlockFields
  <2>5. b.off = NextIn /\ b.off + b.len = fed + Room /\ fed + Room >= fed
    BY <1>2, <2>1, <2>2, <2>4, BlockFields DEF NextIn
  <2>6. Enqueue(b)
    BY <1>2, <2>3 DEF SubmitFull
  <2>7. fed + Room \in Nat
    BY <2>2
  <2>8. QED
    BY <2>2, <2>5, <2>6, <2>7, EnqueueFacts
<1>3. QED
  BY <1>1, <1>2

(* What a fragment does to the blocks, however it ends.                    *)
Filled ==
  /\ wblock' \in Block \cup {NULL} /\ queue' \in Seq(Block)
  /\ orphans' \in Seq(Block) /\ fed' \in Nat /\ fed' >= fed
  /\ dropped' = dropped \/ dropped' \in 1 .. MaxWrite
  /\ queue = <<>> \/ queue' # <<>>
  /\ wblock' # NULL => wblock'.off + wblock'.len = fed' /\ wblock'.len <= BlockSize
  /\ LET in == IF wblock' = NULL THEN fed' ELSE wblock'.off
     IN  \/ SubmittedInv(in)
         \/ UNCHANGED <<queue, orphans>> /\ in = NextIn

(* However the copy loop ends, the blocks meet without a gap.               *)
LEMMA FillFacts ==
  ASSUME IInv, ctx = "open", NEW n \in 0 .. MaxWrite,
         FillBlock(n) \/ FillNext(n) \/ FillFails(n)
  PROVE  Filled
<1>1. /\ n \in Nat /\ fed \in Nat /\ BlockSize \in Nat /\ n <= BlockSize
      /\ queue \in Seq(Block) /\ orphans \in Seq(Block)
  BY UplinkAssumption DEF IInv, TypeOK
<1>2. wblock # NULL => /\ wblock \in Block /\ wblock.off \in Nat /\ wblock.len \in Nat
                       /\ wblock.off + wblock.len = fed /\ wblock.len <= BlockSize
                       /\ Room = BlockSize - wblock.len
  BY BlockFields DEF IInv, TypeOK, QueueInv, Live, Room
<1>3. wblock = NULL => Room = 0
  BY DEF Room
<1>4. Room \in Nat
  BY <1>1, <1>2, <1>3
<1>5. CASE FillBlock(n)
  <2>1. UNCHANGED <<queue, orphans>> /\ fed' = fed + n
    BY <1>5 DEF FillBlock
  <2>2. CASE n = 0
    <3>1. wblock' = wblock /\ fed' = fed
      BY <1>1, <1>5, <2>2 DEF FillBlock
    <3>2. QED
      BY <1>1, <1>2, <1>5, <2>1, <3>1 DEF Filled, FillBlock, NextIn
  <2>3. CASE n # 0
    <3>1. wblock # NULL /\ n <= Room
      BY <1>1, <1>3, <1>5, <2>3 DEF FillBlock
    <3>2. wblock' = [wblock EXCEPT !.len = wblock.len + n]
      BY <1>5, <2>3 DEF FillBlock
    <3>3. wblock.len + n \in Nat
      BY <1>1, <1>2, <3>1
    <3>4. wblock' \in Block /\ wblock'.off = wblock.off /\ wblock'.len = wblock.len + n
      BY <1>2, <3>1, <3>2, <3>3, BlockFields
    <3>5. wblock' # NULL
      BY <3>4, BlockFields
    <3>6. wblock'.off + wblock'.len = fed' /\ wblock'.len <= BlockSize /\ fed' \in Nat /\ fed' >= fed
      BY <1>1, <1>2, <2>1, <3>1, <3>4
    <3>7. QED
      BY <1>1, <1>5, <2>1, <3>1, <3>4, <3>5, <3>6 DEF Filled, FillBlock, NextIn
  <2>4. QED
    BY <2>2, <2>3
<1>6. CASE FillNext(n)
  <2>1. SubmitFull /\ n > Room /\ fed' = fed + n
    BY <1>6 DEF FillNext
  <2>2. wblock' = [off |-> fed + Room, len |-> n - Room]
    BY <1>6 DEF FillNext
  <2>3. fed + Room \in Nat /\ n - Room \in Nat
    BY <1>1, <1>4, <2>1
  <2>4. wblock' \in Block /\ wblock'.off = fed + Room /\ wblock'.len = n - Room
    BY <2>2, <2>3, NewBlock
  <2>5. wblock' # NULL /\ wblock'.off + wblock'.len = fed' /\ wblock'.len <= BlockSize
    BY <1>1, <1>4, <2>1, <2>4, BlockFields
  <2>6. /\ queue' \in Seq(Block) /\ orphans' \in Seq(Block)
        /\ queue = <<>> \/ queue' # <<>>
        /\ \/ SubmittedInv(fed + Room)
           \/ wblock = NULL /\ UNCHANGED <<queue, orphans>>
    BY <2>1, SubmitFullFacts
  <2>7. fed' \in Nat /\ fed' >= fed
    BY <1>1, <2>1
  <2>8. wblock = NULL => fed + Room = NextIn
    BY <1>1, <1>3 DEF NextIn
  <2>9. QED
    BY <1>6, <2>4, <2>5, <2>6, <2>7, <2>8 DEF Filled, FillNext
<1>7. CASE FillFails(n)
  <2>1. SubmitFull /\ wblock' = NULL /\ fed' = fed + Room
    BY <1>7 DEF FillFails
  <2>2. /\ queue' \in Seq(Block) /\ orphans' \in Seq(Block)
        /\ queue = <<>> \/ queue' # <<>>
        /\ \/ SubmittedInv(fed + Room)
           \/ wblock = NULL /\ UNCHANGED <<queue, orphans>>
    BY <2>1, SubmitFullFacts
  <2>3. fed' \in Nat /\ fed' >= fed
    BY <1>1, <1>4, <2>1
  <2>4. wblock = NULL => fed + Room = NextIn
    BY <1>1, <1>3 DEF NextIn
  <2>5. dropped' \in 1 .. MaxWrite
    BY <1>1, <1>4, <1>7, UplinkAssumption DEF FillFails
  <2>6. QED
    BY <2>1, <2>2, <2>3, <2>4, <2>5 DEF Filled
<1>8. QED
  BY <1>5, <1>6, <1>7

(* The step DataReceived keeps the invariant, by what the copy loop does.   *)
LEMMA DataReceivedInv ==
  \A n \in 0 .. MaxWrite, last \in BOOLEAN :
    IInv /\ DataReceived(n, last) => IInv'
<1> SUFFICES ASSUME NEW n \in 0 .. MaxWrite, NEW last \in BOOLEAN,
                    IInv, DataReceived(n, last)
             PROVE  IInv'
  OBVIOUS
<1>a. /\ UNCHANGED <<conn, node_uplink, ctx, closed, sending, rblock, block_idx,
                    inflight, upload, result, saw_closed, alone, sched>>
      /\ pc["bt"] = "idle"
      /\ pc' = [pc EXCEPT !["bt"] = "test"] \/ pc' = [pc EXCEPT !["bt"] = "close"]
      /\ ret' = ret \/ ret' = [ret EXCEPT !["bt"] = "close"]
                    \/ ret' = [ret EXCEPT !["bt"] = "idle"]
  BY DEF DataReceived, At, Goto
<1>b. ctx = "open"
  BY DEF DataReceived, IInv, NodeInv
<1>c. Filled
  BY <1>b, FillFacts DEF DataReceived
<1>1. TypeOK'
  <2>1. pc' \in [Threads -> Labels]
    BY <1>a DEF IInv, TypeOK, Threads, Labels
  <2>2. ret' \in [Threads -> {"idle", "close", "forget"}]
    BY <1>a DEF IInv, TypeOK, Threads
  <2>3. dropped' \in Nat
    BY <1>c, UplinkAssumption DEF IInv, TypeOK, Filled
  <2>4. QED
    BY <1>a, <1>c, <2>1, <2>2, <2>3 DEF IInv, TypeOK, Filled
<1>2. NodeInv'
  BY <1>a, <1>b DEF IInv, NodeInv
<1>3. LockInv'
  BY <1>a DEF IInv, TypeOK, LockInv, Locked, Live, Threads
<1>4. IndexInv'
  BY <1>a DEF IInv, TypeOK, IndexInv, Live, Threads
<1>5. HolderInv'
  BY <1>a, <1>b, <1>c, BlockFields
     DEF IInv, TypeOK, HolderInv, Filled, Live, Sends, EndOf, Threads
<1>6. QueueInv'
  <2>1. NextOut' = NextOut
    BY <1>a DEF IInv, TypeOK, NextOut, Sends, EndOf, Threads
  <2>2. NextIn' = IF wblock' = NULL THEN fed' ELSE wblock'.off
    BY DEF NextIn
  <2>3. CASE SubmittedInv(NextIn')
    <3>1. NextIn' <= fed'
      BY <1>c, <2>2, BlockFields DEF Filled
    <3>2. \A i \in 1 .. Len(queue') : queue'[i].off + queue'[i].len <= fed'
      BY <1>c, <2>2, <2>3, <3>1, BlockFields, SMTT(30) DEF SubmittedInv, Filled
    <3>3. QED
      BY <1>c, <2>1, <2>3, <3>2 DEF SubmittedInv, QueueInv, Filled
  <2>4. CASE UNCHANGED <<queue, orphans>> /\ NextIn' = NextIn
    <3>1. \A i \in 1 .. Len(queue') : queue'[i].off + queue'[i].len <= fed'
      BY <1>b, <1>c, <2>4, BlockFields, SMTT(30)
         DEF IInv, TypeOK, QueueInv, Live, Filled
    <3>2. QED
      BY <1>b, <1>c, <2>1, <2>4, <3>1 DEF IInv, QueueInv, Live, Filled
  <2>5. QED
    BY <1>c, <2>2, <2>3, <2>4 DEF Filled
<1>7. UploadIsPrefix'
  <2>1. EndOf(upload') = EndOf(upload) /\ upload' = upload
    BY <1>a DEF EndOf
  <2>2. EndOf(upload) \in Nat
    <3>1. PICK up \in Seq(Upload) : up = upload
      BY DEF IInv, TypeOK
    <3>2. up # <<>> => up[Len(up)] \in Upload
      OBVIOUS
    <3>3. QED
      BY <3>1, <3>2 DEF EndOf, Upload
  <2>3. EndOf(upload) <= fed /\ fed \in Nat /\ fed' \in Nat /\ fed' >= fed
    BY <1>c DEF IInv, TypeOK, UploadIsPrefix, Filled
  <2>4. EndOf(upload') <= fed'
    BY <2>1, <2>2, <2>3
  <2>5. QED
    BY <2>1, <2>4 DEF IInv, UploadIsPrefix
<1>8. QED
  BY <1>1, <1>2, <1>3, <1>4, <1>5, <1>6, <1>7 DEF IInv

-----------------------------------------------------------------------------
(* A step that changes nothing keeps the invariant.                         *)
LEMMA StutterInv == IInv /\ UNCHANGED vars => IInv'
<1> SUFFICES ASSUME IInv, UNCHANGED vars PROVE IInv'
  OBVIOUS
<1>1. /\ UNCHANGED <<conn, node_uplink, ctx, closed, sending, wblock, rblock,
                    queue, orphans, block_idx, fed, dropped, inflight, upload, result>>
      /\ UNCHANGED <<pc, ret, saw_closed, alone, sched>>
  BY DEF vars, state, locals
<1>2. QED
  BY <1>1 DEF IInv, TypeOK, NodeInv, LockInv, IndexInv, HolderInv, QueueInv,
              UploadIsPrefix, Live, Sends, NextOut, NextIn, EndOf

(* Every step of process_uplink keeps the invariant.                        *)
LEMMA ProcessUplinkInv ==
  \A t \in Threads : IInv /\ ProcessUplink(t) => IInv'
BY TestAndSetInv, ReadClosedInv, ReadHeadInv, UnlinkInv, SkipInv, SendInv,
   ClearInv, EndInv DEF ProcessUplink, EndSuccess, EndLocal, Labels

(* Every step keeps the invariant.                                          *)
LEMMA NextInv == IInv /\ [Next]_vars => IInv'
<1> SUFFICES ASSUME IInv, [Next]_vars PROVE IInv'
  OBVIOUS
<1>1. CASE Open \/ Disconnect \/ Callback
  BY <1>1, OpenInv, DisconnectInv, CallbackInv
<1>2. CASE \E n \in 0 .. MaxWrite, last \in BOOLEAN : DataReceived(n, last)
  BY <1>2, DataReceivedInv
<1>3. CASE BtSteps
  BY <1>3, CloseInv, ForgetInv, ProcessUplinkInv DEF BtSteps, Threads
<1>4. CASE ClientSteps
  BY <1>4, CallbackOkInv, EndInv, ProcessUplinkInv
     DEF ClientSteps, EndCloud, Threads, Labels
<1>5. CASE UNCHANGED vars
  BY <1>5, StutterInv
<1>6. QED
  BY <1>1, <1>2, <1>3, <1>4, <1>5 DEF Next

(* The inductive invariant holds in every state the code can reach.        *)
THEOREM Inductive == Spec => []IInv
BY InitInv, NextInv, PTL DEF Spec

(***************************************************************************)
(* Every variable keeps its type: no block is read through a NULL rblock,  *)
(* no block is unlinked from an empty list, no block grows past its array. *)
(***************************************************************************)
THEOREM TypeCorrect == Spec => []TypeOK
<1>1. IInv => TypeOK
  BY DEF IInv
<1>2. QED
  BY <1>1, Inductive, PTL

(* POUCH_UPLINK_SENDING excludes: one block is in flight, or one thread is *)
(* in the locked part of process_uplink, and never both.                   *)
THEOREM MutualExclusion == Spec => []OneInFlight
<1>1. IInv => OneInFlight
  <2>1. SUFFICES ASSUME IInv, ctx = "open" PROVE OneInFlight
    BY DEF OneInFlight
  <2>2. QED
    BY <2>1 DEF IInv, LockInv, Live, OneInFlight, Threads
<1>2. QED
  BY <1>1, Inductive, PTL

(* The cloud receives a prefix of the pouch, whatever the sizes, and even  *)
(* though the list of blocks is shared without a lock.                     *)
THEOREM PrefixUploaded == Spec => []UploadIsPrefix
<1>1. IInv => UploadIsPrefix
  BY DEF IInv
<1>2. QED
  BY <1>1, Inductive, PTL
=============================================================================
