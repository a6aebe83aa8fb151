------------------------- MODULE UplinkSerialProofs -------------------------
(***************************************************************************)
(* More theorems about Uplink, on top of the invariant of UplinkProofs.    *)
(* For both schedulings: that the last flag is the last word.  For handlers*)
(* that run to completion (Serial): that nothing is used after it is freed,*)
(* that what is uploaded is whole, and that the uplink implements BytePipe.*)
(***************************************************************************)
EXTENDS UplinkProofs

-----------------------------------------------------------------------------
(* The close is the host thread's last write: what it closes has no block  *)
(* being filled, and it goes on to drop the node's pointer.                *)
Sealed ==
  /\ \A t \in Threads : saw_closed[t] => closed
  /\ closed => wblock = NULL /\ ctx # "none"
  /\ closed /\ node_uplink =>
       /\ pc["bt"] \in Locked \cup {"test", "forget"}
       /\ pc["bt"] # "forget" => ret["bt"] = "forget"

(* The last flag was sent. *)
Finished == \E i \in 1 .. Len(upload) : upload[i].last

(* After the last flag no thread is about to send another block. *)
NoMore == Live /\ Finished => \A t \in Threads : pc[t] \notin {"unlink", "send"}

(* Only one write runs out of memory, and nothing but the close follows it.*)
LastWrite ==
  /\ dropped <= MaxWrite
  /\ dropped > 0 => closed \/ pc["bt"] = "close"

(* The invariant for both schedulings. *)
LastInv == IInv /\ Sealed /\ LastWrite /\ NoMore /\ LastIsFinal

(* Every step keeps a closed context sealed. *)
LEMMA SealedStep == IInv /\ Sealed /\ [Next]_vars => Sealed'
<1> SUFFICES ASSUME IInv, Sealed, [Next]_vars PROVE Sealed'
  OBVIOUS
<1> USE DEF Threads, locals, state
<1>1. CASE Open
  BY <1>1 DEF Open, Sealed, At
<1>2. ASSUME NEW n \in 0 .. MaxWrite, NEW last \in BOOLEAN, DataReceived(n, last)
      PROVE  Sealed'
  BY <1>2 DEF DataReceived, Sealed, At, Locked
<1>3. CASE Disconnect
  BY <1>3 DEF Disconnect, Sealed, At, Locked
<1>4. CASE Callback
  BY <1>4 DEF Callback, Sealed, Touches, At, Goto, IInv, TypeOK
<1>5. CASE Close
  BY <1>5 DEF Close, SubmitRest, Sealed, Touches, At, Goto, IInv, TypeOK
<1>6. CASE Forget
  BY <1>6 DEF Forget, Sealed
<1>7. CASE CallbackOk
  BY <1>7 DEF CallbackOk, Sealed, Goto, IInv, TypeOK
<1>8. ASSUME NEW t \in Threads, NEW res, NEW l, EndWith(t, res, l)
      PROVE  Sealed'
  BY <1>8 DEF EndWith, UplinkEndCb, Sealed
<1>9. ASSUME NEW t \in Threads, TestAndSet(t) PROVE Sealed'
  BY <1>9 DEF TestAndSet, Enter, Sealed, Touches, At, Goto, Return, IInv, TypeOK, Locked
<1>10. ASSUME NEW t \in Threads, ReadClosed(t) \/ ReadHead(t) PROVE Sealed'
  BY <1>10 DEF ReadClosed, ReadHead, Sealed, Touches, At, Goto, IInv, TypeOK, Locked
<1>11. ASSUME NEW t \in Threads, Unlink(t) PROVE Sealed'
  BY <1>11 DEF Unlink, Sealed, Touches, At, Goto, Return, IInv, TypeOK, Locked
<1>12. ASSUME NEW t \in Threads, Send(t) PROVE Sealed'
  BY <1>12 DEF Send, Sealed, Touches, At, Goto, Return, IInv, TypeOK, Locked
<1>13. ASSUME NEW t \in Threads, Skip(t) \/ Clear(t) PROVE Sealed'
  BY <1>13 DEF Skip, Clear, Sealed, Touches, At, Goto, Return, IInv, TypeOK, Locked
<1>14. CASE UNCHANGED vars
  BY <1>14 DEF vars, Sealed
<1>15. QED
  BY <1>1, <1>2, <1>3, <1>4, <1>5, <1>6, <1>7, <1>8, <1>9, <1>10, <1>11, <1>12,
     <1>13, <1>14
     DEF Next, BtSteps, ClientSteps, ProcessUplink, EndSuccess, EndLocal, EndCloud

(* Whoever writes to the context, or closes it, finds it open and not      *)
(* closed: node->uplink is dropped by the close, and the host thread does  *)
(* not interrupt itself.                                                   *)
LEMMA WritesOpen ==
  ASSUME IInv, Sealed
  PROVE  /\ \A n, last : DataReceived(n, last) => ~closed /\ ctx = "open"
         /\ Close => ~closed /\ ctx = "open"
BY DEF IInv, NodeInv, Sealed, DataReceived, Close, Touches, At, Locked

(* Every step keeps a failed write the last one. *)
LEMMA LastWriteStep == IInv /\ Sealed /\ LastWrite /\ [Next]_vars => LastWrite'
<1> SUFFICES ASSUME IInv, Sealed, LastWrite, [Next]_vars PROVE LastWrite'
  OBVIOUS
<1> USE DEF Threads, locals, state
<1>0. ASSUME UNCHANGED <<dropped, closed>>, pc["bt"] = "close" => pc'["bt"] = "close"
      PROVE  LastWrite'
  BY <1>0 DEF LastWrite
<1>1. ASSUME NEW n \in 0 .. MaxWrite, NEW last \in BOOLEAN, DataReceived(n, last)
      PROVE  LastWrite'
  <2>1. ~closed /\ ctx = "open" /\ pc["bt"] = "idle" /\ MaxWrite \in Nat
    BY <1>1, WritesOpen, UplinkAssumption DEF DataReceived, At
  <2>2. dropped = 0
    BY <2>1 DEF LastWrite, IInv, TypeOK
  <2>3. CASE FillBlock(n) \/ FillNext(n)
    BY <2>1, <2>2, <2>3 DEF LastWrite, FillBlock, FillNext
  <2>4. CASE FillFails(n) /\ Goto("bt", "close")
    <3>1. Filled
      BY <2>1, <2>4, FillFacts
    <3>2. QED
      BY <2>1, <2>2, <2>4, <3>1 DEF LastWrite, Filled, Goto, IInv, TypeOK
  <2>5. QED
    BY <1>1, <2>3, <2>4 DEF DataReceived
<1>2. CASE Close
  BY <1>2 DEF Close, LastWrite
<1>3. CASE Disconnect \/ Callback \/ Forget \/ CallbackOk
  BY <1>0, <1>3 DEF Disconnect, Callback, Forget, CallbackOk, Touches, At, Goto,
                    IInv, TypeOK
<1>4. ASSUME NEW t \in Threads, NEW res, NEW l, l # "close", EndWith(t, res, l)
      PROVE  LastWrite'
  BY <1>0, <1>4 DEF EndWith, Touches, At, Goto, Return, IInv, TypeOK
<1>5. ASSUME NEW t \in Threads,
             \/ TestAndSet(t) \/ ReadClosed(t) \/ ReadHead(t) \/ Unlink(t)
             \/ Skip(t) \/ Send(t) \/ Clear(t)
      PROVE  LastWrite'
  BY <1>0, <1>5
     DEF TestAndSet, Enter, ReadClosed, ReadHead, Unlink, Skip, Send, Clear,
         Touches, At, Goto, Return, IInv, TypeOK
<1>6. CASE Open \/ UNCHANGED vars
  BY <1>0, <1>6 DEF Open, vars
<1>7. QED
  BY <1>1, <1>2, <1>3, <1>4, <1>5, <1>6
     DEF Next, BtSteps, ClientSteps, ProcessUplink, EndSuccess, EndLocal, EndCloud

(* Every step keeps the last flag final: only Send raises it, with an      *)
(* empty list that nobody can append to any more.                          *)
LEMMA LastStep == LastInv /\ [Next]_vars => NoMore' /\ LastIsFinal'
<1> SUFFICES ASSUME LastInv, [Next]_vars PROVE NoMore' /\ LastIsFinal'
  OBVIOUS
<1> USE DEF Threads, locals, state
<1>a. IInv /\ Sealed /\ NoMore /\ LastIsFinal
  BY DEF LastInv
<1>0. ASSUME UNCHANGED <<upload, closed, queue, wblock, ctx>>,
             \A t \in Threads : pc'[t] \in {"unlink", "send"} =>
                                  pc[t] = pc'[t] \/ queue # <<>>
      PROVE  NoMore' /\ LastIsFinal'
  BY <1>a, <1>0 DEF NoMore, LastIsFinal, Finished, Live
<1>1. CASE Open
  <2>1. upload = <<>> \/ ~Finished
    BY <1>a, <1>1 DEF Open, LastIsFinal, Finished, Sealed
  <2>2. QED
    BY <1>a, <1>1, <2>1 DEF Open, NoMore, LastIsFinal, Finished
<1>2. ASSUME NEW n \in 0 .. MaxWrite, NEW last \in BOOLEAN, DataReceived(n, last)
      PROVE  NoMore' /\ LastIsFinal'
  <2>1. ~Finished /\ upload' = upload
    BY <1>a, <1>2, WritesOpen DEF DataReceived, LastIsFinal, Finished
  <2>2. QED
    BY <2>1 DEF NoMore, LastIsFinal, Finished
<1>3. CASE Close
  <2>1. ~Finished /\ upload' = upload
    BY <1>a, <1>3, WritesOpen DEF Close, LastIsFinal, Finished
  <2>2. QED
    BY <2>1 DEF NoMore, LastIsFinal, Finished
<1>4. CASE Disconnect
  BY <1>a, <1>0, <1>4 DEF Disconnect, Goto, IInv, TypeOK
<1>5. CASE Callback
  BY <1>a, <1>0, <1>5 DEF Callback, Goto, IInv, TypeOK
<1>6. CASE Forget
  BY <1>a, <1>0, <1>6 DEF Forget, Goto, IInv, TypeOK
<1>7. CASE CallbackOk
  BY <1>a, <1>0, <1>7 DEF CallbackOk, Goto, IInv, TypeOK
<1>8. ASSUME NEW t \in Threads, NEW res, NEW l, EndWith(t, res, l)
      PROVE  NoMore' /\ LastIsFinal'
  BY <1>a, <1>8 DEF EndWith, NoMore, LastIsFinal, Finished, Live
<1>9. ASSUME NEW t \in Threads, TestAndSet(t)
      PROVE  NoMore' /\ LastIsFinal'
  BY <1>a, <1>0, <1>9 DEF TestAndSet, Enter, Goto, Return, IInv, TypeOK
<1>10. ASSUME NEW t \in Threads, ReadClosed(t) \/ ReadHead(t)
       PROVE  NoMore' /\ LastIsFinal'
  BY <1>a, <1>0, <1>10 DEF ReadClosed, ReadHead, Goto, IInv, TypeOK
<1>11. ASSUME NEW t \in Threads, Skip(t) \/ Clear(t)
       PROVE  NoMore' /\ LastIsFinal'
  BY <1>a, <1>0, <1>11 DEF Skip, Clear, Goto, Return, IInv, TypeOK
<1>12. ASSUME NEW t \in Threads, Unlink(t) PROVE NoMore' /\ LastIsFinal'
  <2>1. ~Finished /\ upload' = upload
    BY <1>a, <1>12 DEF Unlink, Touches, At, NoMore, Live
  <2>2. QED
    BY <2>1 DEF NoMore, LastIsFinal, Finished
<1>13. ASSUME NEW t \in Threads, Send(t) PROVE NoMore' /\ LastIsFinal'
  <2>1. ~Finished /\ ctx' = "open" /\ UNCHANGED <<closed, queue, wblock>>
    BY <1>a, <1>13 DEF Send, Touches, At, NoMore, Live
  <2>2. CASE upload' = upload
    BY <2>1, <2>2 DEF NoMore, LastIsFinal, Finished
  <2>3. CASE upload' # upload
    <3>1. pc' = [pc EXCEPT ![t] = ret[t]]
      BY <1>13, <2>3 DEF Send, Return, Goto
    <3> DEFINE b == [idx |-> block_idx, off |-> rblock.off, len |-> rblock.len,
                     last |-> IsLast(t)]
    <3>2. upload' = Append(upload, b) /\ (b.last => queue = <<>> /\ saw_closed[t])
      BY <1>13, <2>3 DEF Send, IsLast
    <3>3. PICK up \in Seq(Upload) : up = upload
      BY <1>a DEF IInv, TypeOK
    <3>4. b \in Upload
      BY <1>a, <1>13, BlockFields
         DEF Upload, IsLast, IInv, TypeOK, HolderInv, Sends, Live, Send, Touches, At
    <3> HIDE DEF b
    <3>5. /\ Len(upload') = Len(up) + 1 /\ upload'[Len(up) + 1] = b
          /\ \A i \in 1 .. Len(up) : upload'[i] = up[i]
      BY <3>2, <3>3, <3>4, AppendFacts
    <3>6. \A i \in 1 .. Len(up) : ~up[i].last
      BY <2>1, <3>3 DEF Finished
    <3>7. LastIsFinal'
      BY <1>a, <2>1, <3>2, <3>5, <3>6 DEF LastIsFinal, Sealed
    <3>8. \A u \in Threads : pc'[u] \notin {"unlink", "send"}
      BY <1>a, <1>13, <3>1
         DEF IInv, TypeOK, LockInv, Locked, Live, Send, Touches, At
    <3>9. QED
      BY <3>7, <3>8 DEF NoMore
  <2>4. QED
    BY <2>2, <2>3
<1>14. CASE UNCHANGED vars
  BY <1>0, <1>14 DEF vars
<1>15. QED
  BY <1>1, <1>2, <1>3, <1>4, <1>5, <1>6, <1>7, <1>8, <1>9, <1>10, <1>11, <1>12,
     <1>13, <1>14
     DEF Next, BtSteps, ClientSteps, ProcessUplink, EndSuccess, EndLocal, EndCloud

(* The initial states satisfy the invariant for both schedulings. *)
LEMMA LastInit == Init => LastInv
<1> SUFFICES ASSUME Init PROVE LastInv
  OBVIOUS
<1>1. upload = <<>>
  BY DEF Init
<1>2. QED
  BY <1>1, InitInv, UplinkAssumption
     DEF Init, LastInv, Sealed, LastWrite, NoMore, Finished, LastIsFinal, Threads

(* Every step keeps the invariant for both schedulings. *)
LEMMA LastNext == LastInv /\ [Next]_vars => LastInv'
BY NextInv, SealedStep, LastWriteStep, LastStep DEF LastInv

(* The last flag goes out with the last block: nothing is queued, being    *)
(* filled or sent after it, even when the list loses blocks.               *)
THEOREM LastFlagFinal == Spec => []LastIsFinal
<1>1. LastInv => LastIsFinal
  BY DEF LastInv
<1>2. QED
  BY <1>1, LastInit, LastNext, PTL DEF Spec

-----------------------------------------------------------------------------
(* One handler at a time: a callback of the cloud client finds the lock    *)
(* free and nothing in flight, and nobody is left in a freed context.      *)
Turns ==
  /\ ~ (pc["bt"] # "idle" /\ pc["client"] # "idle")
  /\ ret["client"] = "idle"
  /\ pc["client"] \in {"cb_ok", "cb_err", "test"} => inflight = 0 /\ ~sending
  /\ ctx = "freed" => /\ inflight = 0 /\ pc["client"] = "idle"
                      /\ pc["bt"] \in {"idle", "close", "forget"}

(* What a thread has read of the list and of the CLOSED bit is still true  *)
(* when it acts on it.                                                     *)
Seen ==
  /\ orphans = <<>>
  /\ \A t \in Threads :
       /\ pc[t] \in Locked \ {"flag"} => saw_closed[t] = closed
       /\ pc[t] = "unlink" => alone[t] = (Len(queue) = 1)
       /\ pc[t] = "end_success" => queue = <<>> /\ closed

(* The block in flight is the one that rblock points to. *)
Held ==
  Live /\ inflight = 1 =>
    rblock \in Block /\ rblock.off + rblock.len = EndOf(upload)

(* Until it is closed the context has a block to fill, which is not empty  *)
(* once bytes came; only a write that ran out of memory leaves none, and   *)
(* it goes to the close with the full block in the queue.                  *)
Writer ==
  ctx = "open" /\ ~closed =>
    IF wblock = NULL THEN pc["bt"] = "close" /\ queue # <<>>
                     ELSE fed > 0 => wblock.len > 0

(* The length of the pouch's last block. *)
Rest(len) == closed /\ len <= BlockSize /\ (fed > 0 => len > 0)

(* Every block is full, but for the last one of a closed uplink. *)
Sizes ==
  Live =>
    /\ \A i \in 1 .. Len(queue) :
         queue[i].len = BlockSize \/ (i = Len(queue) /\ Rest(queue[i].len))
    /\ \A t \in Threads : Sends(t) =>
         rblock.len = BlockSize \/ (queue = <<>> /\ Rest(rblock.len))
    /\ \A t \in Threads : pc[t] = "send" => rblock.len > 0

(* The cloud has the last flag, if there was anything to upload. *)
Flagged == fed > 0 => upload # <<>> /\ upload[Len(upload)].last

(* Once a closed uplink has nothing left, the cloud was told. *)
Told ==
  /\ Live => result = "none"
  /\ Live /\ closed /\ queue = <<>> /\ (\A t \in Threads : ~Sends(t)) => Flagged

(* Handlers do not interleave. *)
Serial == sched = "serial"

(* The inductive invariant. *)
SerialInv ==
  /\ LastInv
  /\ Serial => /\ Turns /\ Seen /\ Held /\ Writer /\ Sizes /\ Told
               /\ FullBlocks /\ SuccessLacksOneWrite

(* The scheduling is chosen once. *)
LEMMA SchedStays == [Next]_vars => Serial' = Serial
BY DEF Next, Open, DataReceived, Disconnect, Callback, BtSteps, Close, Forget,
       ClientSteps, CallbackOk, EndCloud, ProcessUplink, TestAndSet, ReadClosed,
       ReadHead, Unlink, Skip, Send, Clear, EndSuccess, EndLocal, EndWith,
       locals, vars, Serial

(* Every step leaves at most one handler running. *)
LEMMA TurnsStep == SerialInv /\ Serial /\ [Next]_vars => Turns'
<1> SUFFICES ASSUME SerialInv, Serial, [Next]_vars PROVE Turns'
  OBVIOUS
<1> USE DEF Threads, locals, state, Runs, At
<1>a. IInv /\ Sealed /\ Turns
  BY DEF SerialInv, LastInv
<1>b. Serial
  OBVIOUS
<1>1. CASE Open
  BY <1>a, <1>1 DEF Open, Turns
<1>2. ASSUME NEW n \in 0 .. MaxWrite, NEW last \in BOOLEAN, DataReceived(n, last)
      PROVE  Turns'
  BY <1>a, <1>b, <1>2, WritesOpen DEF DataReceived, Turns, Goto, IInv, TypeOK, Serial
<1>3. CASE Disconnect
  BY <1>a, <1>b, <1>3 DEF Disconnect, Turns, Goto, IInv, TypeOK, NodeInv, Serial
<1>4. CASE Callback
  BY <1>a, <1>b, <1>4
     DEF Callback, Turns, Touches, Goto, IInv, TypeOK, LockInv, Live, Serial
<1>5. CASE Close
  BY <1>a, <1>b, <1>5 DEF Close, Turns, Touches, Goto, IInv, TypeOK, Serial
<1>6. CASE Forget
  BY <1>a, <1>b, <1>6 DEF Forget, Turns, Goto, IInv, TypeOK, Serial
<1>7. CASE CallbackOk
  BY <1>a, <1>b, <1>7 DEF CallbackOk, Turns, Touches, Goto, IInv, TypeOK, Serial
<1>8. ASSUME NEW t \in Threads, NEW res, NEW l, EndWith(t, res, l), inflight = 0
      PROVE  Turns'
  BY <1>a, <1>b, <1>8
     DEF EndWith, Turns, Touches, Goto, Return, IInv, TypeOK, Serial
<1>8a. ASSUME NEW t \in Threads, EndSuccess(t) \/ EndLocal(t) PROVE Turns'
  <2>1. inflight = 0
    BY <1>a, <1>8a DEF EndSuccess, EndLocal, EndWith, Touches, IInv, LockInv,
                       Live, Locked
  <2>2. QED
    BY <1>8, <1>8a, <2>1 DEF EndSuccess, EndLocal
<1>8b. CASE EndCloud
  <2>1. inflight = 0
    BY <1>a, <1>8b DEF EndCloud, EndWith, Touches, Turns
  <2>2. QED
    BY <1>8, <1>8b, <2>1 DEF EndCloud
<1>9. ASSUME NEW t \in Threads, TestAndSet(t) PROVE Turns'
  BY <1>a, <1>b, <1>9
     DEF TestAndSet, Enter, Turns, Touches, Goto, Return, IInv, TypeOK, Serial
<1>10. ASSUME NEW t \in Threads, ReadClosed(t) \/ ReadHead(t) PROVE Turns'
  BY <1>a, <1>b, <1>10
     DEF ReadClosed, ReadHead, Turns, Touches, Goto, IInv, TypeOK, Serial
<1>11. ASSUME NEW t \in Threads, Unlink(t) PROVE Turns'
  BY <1>a, <1>b, <1>11 DEF Unlink, Turns, Touches, Goto, IInv, TypeOK, Serial
<1>12. ASSUME NEW t \in Threads, Send(t) PROVE Turns'
  BY <1>a, <1>b, <1>12 DEF Send, Turns, Touches, Goto, Return, IInv, TypeOK, Serial
<1>13. ASSUME NEW t \in Threads, Skip(t) \/ Clear(t) PROVE Turns'
  BY <1>a, <1>b, <1>13 DEF Skip, Clear, Turns, Touches, Goto, Return, IInv, TypeOK, Serial
<1>14. CASE UNCHANGED vars
  BY <1>a, <1>14 DEF vars, Turns
<1>15. QED
  BY <1>1, <1>2, <1>3, <1>4, <1>5, <1>6, <1>7, <1>8a, <1>8b, <1>9, <1>10,
     <1>11, <1>12, <1>13, <1>14 DEF Next, BtSteps, ClientSteps, ProcessUplink

-----------------------------------------------------------------------------
(* A fragment submits at most one block, which is full, and leaves a block *)
(* with bytes, or none and the close next.                                 *)
LEMMA SerialWrite ==
  ASSUME SerialInv, Serial, NEW n \in 0 .. MaxWrite, NEW last, DataReceived(n, last)
  PROVE  /\ orphans' = <<>>
         /\ \/ queue' = queue
            \/ \E b \in Block : b.len = BlockSize /\ queue' = Append(queue, b)
         /\ IF wblock' = NULL THEN pc'["bt"] = "close" /\ queue' # <<>>
                              ELSE fed' > 0 => wblock'.len > 0
<1>a. /\ ctx = "open" /\ ~closed /\ pc["bt"] = "idle" /\ orphans = <<>>
      /\ queue \in Seq(Block)
  BY WritesOpen DEF SerialInv, LastInv, DataReceived, At, Seen, IInv, TypeOK
<1>b. /\ wblock \in Block /\ wblock.off \in Nat /\ wblock.len \in Nat
      /\ wblock # NULL /\ wblock.len <= BlockSize /\ wblock.off + wblock.len = fed
      /\ fed > 0 => wblock.len > 0
  BY <1>a, BlockFields DEF SerialInv, LastInv, IInv, TypeOK, QueueInv, Live, Writer
<1>c. /\ BlockSize \in Nat \ {0} /\ n \in Nat /\ fed \in Nat
      /\ Room = BlockSize - wblock.len /\ Room \in Nat
  BY <1>b, UplinkAssumption DEF SerialInv, LastInv, IInv, TypeOK, Room
<1>d. SubmitFull =>
        /\ orphans' = <<>> /\ queue' # <<>>
        /\ \E b \in Block : b.len = BlockSize /\ queue' = Append(queue, b)
  <2>1. PICK b \in Block : /\ b = [wblock EXCEPT !.len = BlockSize]
                           /\ b.len = BlockSize
    BY <1>b, <1>c, BlockFields
  <2>2. SubmitFull => queue' = Append(queue, b) /\ orphans' = <<>>
    BY <1>a, <1>b, <2>1 DEF SubmitFull, Enqueue
  <2>3. Append(queue, b) # <<>>
    BY <1>a, AppendFacts
  <2>4. QED
    BY <2>1, <2>2, <2>3
<1>1. CASE FillBlock(n)
  <2>1. n = 0 => wblock' = wblock /\ fed' = fed
    BY <1>1, <1>c DEF FillBlock
  <2>2. n > 0 => wblock' \in Block /\ wblock'.len > 0
    <3>1. wblock.len + n \in Nat
      BY <1>b, <1>c
    <3>2. QED
      BY <1>1, <1>b, <1>c, <3>1, BlockFields DEF FillBlock
  <2>3. QED
    BY <1>1, <1>a, <1>b, <1>c, <2>1, <2>2, BlockFields DEF FillBlock
<1>2. CASE FillNext(n)
  <2>1. fed + Room \in Nat /\ n - Room \in Nat /\ n - Room > 0
    BY <1>2, <1>c DEF FillNext
  <2>2. wblock' \in Block /\ wblock'.len > 0
    BY <1>2, <2>1, NewBlock DEF FillNext
  <2>3. QED
    BY <1>2, <1>d, <2>2, BlockFields DEF FillNext
<1>3. CASE FillFails(n) /\ Goto("bt", "close")
  BY <1>3, <1>d DEF FillFails, Goto, SerialInv, LastInv, IInv, TypeOK, Threads
<1>4. QED
  BY <1>1, <1>2, <1>3 DEF DataReceived

(* The close leaves something in the queue, so there is a block to carry   *)
(* the last flag.                                                          *)
LEMMA SerialClose ==
  ASSUME SerialInv, Serial, Close
  PROVE  /\ orphans' = <<>> /\ queue' # <<>> /\ wblock' = NULL
         /\ \/ wblock = NULL /\ queue' = queue
            \/ wblock \in Block /\ queue' = Append(queue, wblock)
<1>1. /\ ctx = "open" /\ ~closed /\ orphans = <<>> /\ queue \in Seq(Block)
      /\ wblock = NULL => queue # <<>>
      /\ wblock # NULL => wblock \in Block
  BY WritesOpen DEF SerialInv, LastInv, Seen, Writer, IInv, TypeOK
<1>2. QED
  BY <1>1, AppendFacts DEF Close, SubmitRest, Enqueue

(* sys_slist_get takes the head, and loses nothing. *)
LEMMA SerialUnlink ==
  ASSUME SerialInv, Serial, NEW t \in Threads, Unlink(t)
  PROVE  /\ queue \in Seq(Block) /\ queue # <<>> /\ orphans' = <<>>
         /\ rblock' = queue[1] /\ queue[1] \in Block
         /\ queue' = Tail(queue) /\ Len(queue') = Len(queue) - 1
         /\ \A i \in 1 .. Len(queue') : queue'[i] = queue[i + 1]
         /\ pc' = [pc EXCEPT ![t] = IF queue[1].len = 0 THEN "skip" ELSE "send"]
<1>1. /\ queue \in Seq(Block) /\ queue # <<>> /\ orphans = <<>>
      /\ alone[t] = (Len(queue) = 1)
  BY DEF SerialInv, LastInv, IInv, TypeOK, HolderInv, Live, Seen, Unlink, Touches, At
<1>2. PICK q \in Seq(Block) : q = queue
  BY <1>1
<1>3. /\ Head(q) \in Block /\ Head(q) = q[1]
      /\ Tail(q) \in Seq(Block) /\ Len(Tail(q)) = Len(q) - 1
      /\ \A i \in 1 .. Len(q) - 1 : Tail(q)[i] = q[i + 1]
  BY <1>1, <1>2, TailFacts
<1>4. Tail(q) = <<>> <=> Len(q) = 1
  BY <1>3, ConcatFacts
<1>5. queue' = Tail(q) /\ orphans' = <<>>
  BY <1>1, <1>2, <1>3, <1>4, ConcatFacts DEF Unlink
<1>6. QED
  BY <1>1, <1>2, <1>3, <1>5 DEF Unlink, Goto

(* Every step keeps the locals of process_uplink true. *)
LEMMA SeenStep == SerialInv /\ Serial /\ [Next]_vars => Seen'
<1> SUFFICES ASSUME SerialInv, Serial, [Next]_vars PROVE Seen'
  OBVIOUS
<1> USE DEF Threads, locals, state, Runs, At
<1>a. IInv /\ Sealed /\ Turns /\ Seen /\ Serial
  BY DEF SerialInv, LastInv
<1>1. CASE Open
  BY <1>a, <1>1 DEF Open, Seen
<1>2. ASSUME NEW n \in 0 .. MaxWrite, NEW last \in BOOLEAN, DataReceived(n, last)
      PROVE  Seen'
  BY <1>a, <1>2, SerialWrite
     DEF DataReceived, Turns, Seen, Goto, IInv, TypeOK, Serial, Locked
<1>3. CASE Disconnect
  BY <1>a, <1>3 DEF Disconnect, Seen, Goto, IInv, TypeOK, Locked
<1>4. CASE Callback
  BY <1>a, <1>4 DEF Callback, Seen, Goto, IInv, TypeOK, Locked
<1>5. CASE Close
  BY <1>a, <1>5, SerialClose
     DEF Close, Turns, Seen, Touches, Goto, IInv, TypeOK, Serial, Locked
<1>6. CASE Forget
  BY <1>a, <1>6 DEF Forget, Seen, Goto, IInv, TypeOK, Locked
<1>7. CASE CallbackOk
  BY <1>a, <1>7 DEF CallbackOk, Seen, Goto, IInv, TypeOK, Locked
<1>8. ASSUME NEW t \in Threads, NEW res, NEW l, EndWith(t, res, l)
      PROVE  Seen'
  BY <1>a, <1>8 DEF EndWith, Seen, Touches, Goto, Return, IInv, TypeOK, Serial, Locked
<1>9. ASSUME NEW t \in Threads, TestAndSet(t) PROVE Seen'
  BY <1>a, <1>9 DEF TestAndSet, Enter, Seen, Goto, Return, IInv, TypeOK, Locked
<1>10. ASSUME NEW t \in Threads, ReadClosed(t) PROVE Seen'
  BY <1>a, <1>10
     DEF ReadClosed, Seen, Touches, Goto, IInv, TypeOK, Serial, Locked
<1>11. ASSUME NEW t \in Threads, ReadHead(t) PROVE Seen'
  BY <1>a, <1>11
     DEF ReadHead, Seen, Touches, Goto, IInv, TypeOK, Serial, Locked, Sealed
<1>12. ASSUME NEW t \in Threads, Unlink(t) PROVE Seen'
  <2>1. pc' = [pc EXCEPT ![t] = "skip"] \/ pc' = [pc EXCEPT ![t] = "send"]
    BY <1>12, SerialUnlink
  <2>2. QED
    BY <1>a, <1>12, <2>1, SerialUnlink
       DEF Unlink, Seen, Touches, IInv, TypeOK, Serial, Locked
<1>13. ASSUME NEW t \in Threads, Send(t) PROVE Seen'
  BY <1>a, <1>13 DEF Send, Seen, Touches, Goto, Return, IInv, TypeOK, Serial, Locked
<1>14. ASSUME NEW t \in Threads, Skip(t) \/ Clear(t) PROVE Seen'
  BY <1>a, <1>14 DEF Skip, Clear, Seen, Goto, Return, IInv, TypeOK, Locked
<1>15. CASE UNCHANGED vars
  BY <1>a, <1>15 DEF vars, Seen
<1>16. QED
  BY <1>1, <1>2, <1>3, <1>4, <1>5, <1>6, <1>7, <1>8, <1>9, <1>10, <1>11, <1>12,
     <1>13, <1>14, <1>15
     DEF Next, BtSteps, ClientSteps, ProcessUplink, EndSuccess, EndLocal, EndCloud

(* Every step keeps the block in flight. *)
LEMMA HeldStep == SerialInv /\ Serial /\ [Next]_vars => Held'
<1> SUFFICES ASSUME SerialInv, Serial, [Next]_vars PROVE Held'
  OBVIOUS
<1> USE DEF Threads, locals, state, Runs, At
<1>a. IInv /\ Turns /\ Held
  BY DEF SerialInv, LastInv
<1>0. ASSUME UNCHANGED <<rblock, upload, inflight>>, Live' => Live PROVE Held'
  BY <1>a, <1>0 DEF Held, EndOf
<1>1. CASE Open
  BY <1>0, <1>1 DEF Open, Live
<1>2. ASSUME NEW n \in 0 .. MaxWrite, NEW last \in BOOLEAN, DataReceived(n, last)
      PROVE  Held'
  BY <1>0, <1>2 DEF DataReceived, Live
<1>3. CASE Disconnect \/ Close \/ Forget
  BY <1>0, <1>3 DEF Disconnect, Close, Forget, Live
<1>4. CASE Callback
  BY <1>a, <1>4 DEF Callback, Held, Touches, IInv, TypeOK, LockInv, Live
<1>5. CASE CallbackOk
  BY <1>a, <1>5 DEF CallbackOk, Touches, Turns, Held
<1>6. ASSUME NEW t \in Threads, NEW res, NEW l, EndWith(t, res, l)
      PROVE  Held'
  BY <1>6 DEF EndWith, Held, Live
<1>7. ASSUME NEW t \in Threads, TestAndSet(t) \/ ReadClosed(t) \/ ReadHead(t) \/ Clear(t)
      PROVE  Held'
  BY <1>0, <1>7 DEF TestAndSet, ReadClosed, ReadHead, Clear, Live
<1>8. ASSUME NEW t \in Threads, Unlink(t) \/ Skip(t) PROVE Held'
  BY <1>a, <1>8 DEF Unlink, Skip, Touches, Held, IInv, LockInv, Live, Locked
<1>9. ASSUME NEW t \in Threads, Send(t) PROVE Held'
  <2>1. rblock \in Block /\ rblock.off = EndOf(upload) /\ inflight = 0
    BY <1>a, <1>9 DEF Send, Touches, IInv, LockInv, HolderInv, Sends, Live, Locked
  <2>2. CASE UNCHANGED <<upload, inflight>>
    BY <1>0, <1>9, <2>2 DEF Send, Live
  <2>3. CASE inflight' # inflight
    <3> DEFINE b == [idx |-> block_idx, off |-> rblock.off, len |-> rblock.len,
                     last |-> IsLast(t)]
    <3>1. upload' = Append(upload, b) /\ rblock' = rblock
      BY <1>9, <2>3 DEF Send
    <3>2. b \in Upload /\ b.off = rblock.off /\ b.len = rblock.len /\ upload \in Seq(Upload)
      BY <1>a, <2>1, BlockFields DEF Upload, IsLast, IInv, TypeOK
    <3> HIDE DEF b
    <3>3. EndOf(upload') = b.off + b.len
      BY <3>1, <3>2, AppendFacts DEF EndOf
    <3>4. QED
      BY <2>1, <3>1, <3>2, <3>3 DEF Held
  <2>4. QED
    BY <1>9, <2>1, <2>2, <2>3 DEF Send
<1>10. CASE UNCHANGED vars
  BY <1>0, <1>10 DEF vars, Live
<1>11. QED
  BY <1>1, <1>2, <1>3, <1>4, <1>5, <1>6, <1>7, <1>8, <1>9, <1>10
     DEF Next, BtSteps, ClientSteps, ProcessUplink, EndSuccess, EndLocal, EndCloud

(* Every step leaves the writer a block. *)
LEMMA WriterStep == SerialInv /\ Serial /\ [Next]_vars => Writer'
<1> SUFFICES ASSUME SerialInv, Serial, [Next]_vars PROVE Writer'
  OBVIOUS
<1> USE DEF Threads, locals, state, Runs, At
<1>a. IInv /\ Writer /\ Serial
  BY DEF SerialInv, LastInv
<1>0. ASSUME UNCHANGED <<ctx, closed, wblock, fed>>, pc["bt"] # "close" \/ UNCHANGED <<pc, queue>>
      PROVE  Writer'
  BY <1>a, <1>0 DEF Writer
<1>1. CASE Open
  BY <1>a, <1>1, NewBlock, BlockFields DEF Open, Writer, IInv, NodeInv
<1>2. ASSUME NEW n \in 0 .. MaxWrite, NEW last \in BOOLEAN, DataReceived(n, last)
      PROVE  Writer'
  BY <1>2, SerialWrite DEF Writer
<1>3. CASE Disconnect \/ Forget
  BY <1>0, <1>3 DEF Disconnect, Forget
<1>4. CASE Callback \/ CallbackOk
  BY <1>0, <1>4 DEF Callback, CallbackOk, Touches
<1>5. CASE Close
  BY <1>5 DEF Close, Writer
<1>6. ASSUME NEW t \in Threads, NEW res, NEW l, EndWith(t, res, l)
      PROVE  Writer'
  BY <1>6 DEF EndWith, Writer
<1>7. ASSUME NEW t \in Threads, TestAndSet(t) \/ ReadClosed(t) \/ ReadHead(t)
      PROVE  Writer'
  BY <1>0, <1>7 DEF TestAndSet, ReadClosed, ReadHead, Touches
<1>8. ASSUME NEW t \in Threads, Clear(t) \/ Unlink(t) \/ Skip(t) \/ Send(t)
      PROVE  Writer'
  BY <1>0, <1>8 DEF Clear, Unlink, Skip, Send, Touches
<1>9. CASE UNCHANGED vars
  BY <1>0, <1>9 DEF vars
<1>10. QED
  BY <1>1, <1>2, <1>3, <1>4, <1>5, <1>6, <1>7, <1>8, <1>9
     DEF Next, BtSteps, ClientSteps, ProcessUplink, EndSuccess, EndLocal, EndCloud

(* Every step keeps the blocks full. *)
LEMMA SizesStep == SerialInv /\ Serial /\ [Next]_vars => Sizes'
<1> SUFFICES ASSUME SerialInv, Serial, [Next]_vars PROVE Sizes'
  OBVIOUS
<1> USE DEF Threads, locals, state, Runs, At
<1>a. IInv /\ Sealed /\ Turns /\ Seen /\ Writer /\ Sizes /\ Serial
  BY DEF SerialInv, LastInv
<1>b. queue \in Seq(Block) /\ fed \in Nat /\ BlockSize \in Nat \ {0}
  BY <1>a, UplinkAssumption DEF IInv, TypeOK
<1>0. ASSUME UNCHANGED <<queue, closed, fed, rblock>>, Live' => Live,
             \A t \in Threads : /\ Sends(t)' => Sends(t)
                                /\ pc'[t] = "send" => pc[t] = "send"
      PROVE  Sizes'
  BY <1>a, <1>0 DEF Sizes, Rest
<1>1. CASE Open
  BY <1>0, <1>1 DEF Open, Live, Sends
<1>2. ASSUME NEW n \in 0 .. MaxWrite, NEW last \in BOOLEAN, DataReceived(n, last)
      PROVE  Sizes'
  <2>1. ~closed /\ Live
    BY <1>a, <1>2, WritesOpen DEF Live
  <2>2. \A i \in 1 .. Len(queue) : queue[i].len = BlockSize
    BY <1>a, <2>1 DEF Sizes, Rest
  <2>3. \A i \in 1 .. Len(queue') : queue'[i].len = BlockSize
    <3>1. CASE queue' = queue
      BY <2>2, <3>1
    <3>2. ASSUME NEW b \in Block, b.len = BlockSize, queue' = Append(queue, b)
          PROVE  \A i \in 1 .. Len(queue') : queue'[i].len = BlockSize
      BY <1>b, <2>2, <3>2, AppendFacts
    <3>3. QED
      BY <1>2, <3>1, <3>2, SerialWrite
  <2>4. \A t \in Threads : ~Sends(t)'
    BY <1>a, <1>2 DEF DataReceived, Goto, Sends, Serial, IInv, TypeOK
  <2>5. QED
    BY <2>3, <2>4 DEF Sizes, Sends
<1>3. CASE Disconnect \/ Forget
  BY <1>a, <1>0, <1>3 DEF Disconnect, Forget, Live, Sends, Goto, IInv, TypeOK
<1>4. CASE Callback
  BY <1>a, <1>0, <1>4 DEF Callback, Live, Sends, Goto, IInv, TypeOK
<1>5. CASE CallbackOk
  <2>1. \A t \in Threads : ~Sends(t)'
    BY <1>a, <1>5 DEF CallbackOk, Touches, Goto, Sends, Serial, IInv, TypeOK
  <2>2. QED
    BY <1>a, <1>5, <2>1 DEF CallbackOk, Sizes, Rest, Live, Touches, Sends
<1>6. CASE Close
  <2>1. ~closed /\ Live /\ closed' /\ fed' = fed
    BY <1>a, <1>6, WritesOpen DEF Live, Close
  <2>2. \A i \in 1 .. Len(queue) : queue[i].len = BlockSize
    BY <1>a, <2>1 DEF Sizes, Rest
  <2>3. \A i \in 1 .. Len(queue') :
          \/ queue'[i].len = BlockSize
          \/ /\ i = Len(queue') /\ closed' /\ queue'[i].len <= BlockSize
             /\ fed' > 0 => queue'[i].len > 0
    <3>1. CASE queue' = queue
      BY <2>2, <3>1
    <3>2. CASE wblock \in Block /\ queue' = Append(queue, wblock)
      <4>1. wblock.len <= BlockSize /\ (fed > 0 => wblock.len > 0)
        BY <1>a, <1>6, <2>1, <3>2, BlockFields, WritesOpen
           DEF IInv, QueueInv, Writer
      <4>2. QED
        BY <1>b, <2>1, <2>2, <3>2, <4>1, AppendFacts DEF Rest
    <3>3. QED
      BY <1>6, <3>1, <3>2, SerialClose
  <2>4. \A t \in Threads : ~Sends(t)'
    BY <1>a, <1>6 DEF Close, Touches, Goto, Sends, Serial, IInv, TypeOK
  <2>5. QED
    BY <2>3, <2>4 DEF Sizes, Rest, Sends
<1>7. ASSUME NEW t \in Threads, NEW res, NEW l, EndWith(t, res, l)
      PROVE  Sizes'
  BY <1>7 DEF EndWith, Sizes, Live
<1>8. ASSUME NEW t \in Threads, TestAndSet(t) PROVE Sizes'
  BY <1>a, <1>0, <1>8
     DEF TestAndSet, Enter, Live, Touches, Sends, Goto, Return, IInv, TypeOK
<1>9. ASSUME NEW t \in Threads, ReadClosed(t) \/ ReadHead(t) PROVE Sizes'
  BY <1>a, <1>0, <1>9
     DEF ReadClosed, ReadHead, Live, Sends, Goto, IInv, TypeOK
<1>10. ASSUME NEW t \in Threads, Clear(t) PROVE Sizes'
  BY <1>a, <1>0, <1>10 DEF Clear, Live, Sends, Goto, Return, IInv, TypeOK
<1>11. ASSUME NEW t \in Threads, Unlink(t) PROVE Sizes'
  <2>1. /\ queue # <<>> /\ rblock' = queue[1] /\ queue[1] \in Block
        /\ queue' = Tail(queue) /\ Len(queue') = Len(queue) - 1
        /\ \A i \in 1 .. Len(queue') : queue'[i] = queue[i + 1]
        /\ pc' = [pc EXCEPT ![t] = IF queue[1].len = 0 THEN "skip" ELSE "send"]
    BY <1>11, SerialUnlink
  <2>2. Live /\ closed' = closed /\ fed' = fed
    BY <1>11 DEF Unlink, Touches, Live
  <2>3. Len(queue) \in Nat /\ Len(queue) >= 1 /\ queue' \in Seq(Block)
    BY <1>b, <2>1
  <2>4. \A i \in 1 .. Len(queue) :
          queue[i].len = BlockSize \/ (i = Len(queue) /\ Rest(queue[i].len))
    BY <1>a, <2>2 DEF Sizes
  <2>5. ASSUME NEW i \in 1 .. Len(queue')
        PROVE  \/ queue'[i].len = BlockSize
               \/ /\ i = Len(queue') /\ closed' /\ queue'[i].len <= BlockSize
                  /\ fed' > 0 => queue'[i].len > 0
    <3>1. i + 1 \in 1 .. Len(queue) /\ queue'[i] = queue[i + 1]
      BY <2>1, <2>3
    <3>2. i + 1 = Len(queue) <=> i = Len(queue')
      BY <2>1, <2>3
    <3>3. QED
      BY <2>2, <2>4, <3>1, <3>2 DEF Rest
  <2>6. \/ rblock'.len = BlockSize
        \/ /\ queue' = <<>> /\ closed' /\ rblock'.len <= BlockSize
           /\ fed' > 0 => rblock'.len > 0
    <3>1. 1 \in 1 .. Len(queue) /\ (1 = Len(queue) => queue' = <<>>)
      BY <2>1, <2>3, ConcatFacts
    <3>2. QED
      BY <2>1, <2>2, <2>4, <3>1 DEF Rest
  <2>7. \A u \in Threads : pc'[u] = "send" => rblock'.len > 0
    <3>1. queue[1].len \in Nat
      BY <2>1, BlockFields
    <3>2. QED
      BY <1>a, <1>11, <2>1, <3>1 DEF Unlink, Touches, Serial, IInv, TypeOK
  <2>8. QED
    BY <2>5, <2>6, <2>7 DEF Sizes, Rest
<1>12. ASSUME NEW t \in Threads, Skip(t) PROVE Sizes'
  <2>1. \A u \in Threads : ~Sends(u)'
    BY <1>a, <1>12 DEF Skip, Touches, Goto, Return, Sends, Serial, IInv, TypeOK
  <2>2. QED
    BY <1>a, <1>12, <2>1 DEF Skip, Sizes, Rest, Live, Touches, Sends
<1>13. ASSUME NEW t \in Threads, Send(t) PROVE Sizes'
  <2>1. UNCHANGED <<queue, closed, fed, rblock, ctx>> /\ pc[t] = "send" /\ Live
    BY <1>13 DEF Send, Touches, Live
  <2>2. \A u \in Threads : Sends(u)' => u = t
    BY <1>a, <1>13 DEF Send, Touches, Goto, Return, Sends, Serial, IInv, TypeOK
  <2>3. pc'[t] # "send"
    BY <1>a, <1>13 DEF Send, Goto, Return, IInv, TypeOK
  <2>4. QED
    BY <1>a, <2>1, <2>2, <2>3 DEF Sizes, Rest, Sends
<1>14. CASE UNCHANGED vars
  BY <1>0, <1>14 DEF vars, Live, Sends
<1>15. QED
  BY <1>1, <1>2, <1>3, <1>4, <1>5, <1>6, <1>7, <1>8, <1>9, <1>10, <1>11, <1>12,
     <1>13, <1>14
     DEF Next, BtSteps, ClientSteps, ProcessUplink, EndSuccess, EndLocal, EndCloud

(* The block that Send hands to the cloud client. *)
LEMMA SendFacts ==
  ASSUME SerialInv, Serial, NEW t \in Threads, Send(t), upload' # upload
  PROVE  \E b \in Upload :
           /\ upload' = Append(upload, b) /\ upload \in Seq(Upload)
           /\ b.off = EndOf(upload) /\ b.len = rblock.len
           /\ b.len \in 1 .. BlockSize /\ b.off + b.len <= fed
           /\ b.last <=> queue = <<>> /\ closed
           /\ ~b.last => b.len = BlockSize
<1>a. IInv /\ Turns /\ Seen /\ Sizes /\ pc[t] = "send" /\ Live
  BY DEF SerialInv, LastInv, Send, Touches, At, Live
<1>b. /\ rblock \in Block /\ rblock.off \in Nat /\ rblock.len \in Nat
      /\ rblock.off = EndOf(upload) /\ rblock.off + rblock.len <= fed
      /\ upload \in Seq(Upload) /\ block_idx \in Nat
  BY <1>a, BlockFields DEF IInv, TypeOK, HolderInv, Sends
<1>c. saw_closed[t] = closed /\ closed \in BOOLEAN
  BY <1>a DEF Seen, Locked, IInv, TypeOK
<1>d. /\ rblock.len \in 1 .. BlockSize
      /\ rblock.len = BlockSize \/ (queue = <<>> /\ closed)
  BY <1>a, <1>b, UplinkAssumption DEF Sizes, Rest, Sends
<1> DEFINE b == [idx |-> block_idx, off |-> rblock.off, len |-> rblock.len,
                 last |-> IsLast(t)]
<1>1. upload' = Append(upload, b)
  BY DEF Send
<1>2. /\ b \in Upload /\ b.off = rblock.off /\ b.len = rblock.len
      /\ b.last = (queue = <<>> /\ closed)
  BY <1>b, <1>c DEF Upload, IsLast
<1> HIDE DEF b
<1>3. QED
  BY <1>b, <1>c, <1>d, <1>1, <1>2

(* Every step tells the cloud of the end in time. *)
LEMMA ToldStep == SerialInv /\ Serial /\ [Next]_vars => Told'
<1> SUFFICES ASSUME SerialInv, Serial, [Next]_vars PROVE Told'
  OBVIOUS
<1> USE DEF Threads, locals, state, Runs, At
<1>a. IInv /\ Turns /\ Seen /\ Sizes /\ Told /\ Serial
  BY DEF SerialInv, LastInv
<1>0. ASSUME UNCHANGED <<queue, closed, fed, upload, result>>, Live' => Live,
             \A t \in Threads : Sends(t) => Sends(t)'
      PROVE  Told'
  BY <1>a, <1>0 DEF Told, Flagged
<1>1. CASE Open
  BY <1>0, <1>1 DEF Open, Live, Sends
<1>2. ASSUME NEW n \in 0 .. MaxWrite, NEW last \in BOOLEAN, DataReceived(n, last)
      PROVE  Told'
  <2>1. ~closed /\ Live /\ closed' = closed /\ result' = result
    BY <1>2, WritesOpen DEF Live, DataReceived, SerialInv, LastInv
  <2>2. QED
    BY <1>a, <2>1 DEF Told
<1>3. CASE Disconnect \/ Forget
  BY <1>a, <1>0, <1>3 DEF Disconnect, Forget, Live, Sends, Goto, IInv, TypeOK
<1>4. CASE Callback \/ CallbackOk
  BY <1>a, <1>0, <1>4
     DEF Callback, CallbackOk, Touches, Live, Sends, Goto, IInv, TypeOK
<1>5. CASE Close
  <2>1. queue' # <<>> /\ UNCHANGED <<ctx, result>>
    BY <1>5, SerialClose DEF Close
  <2>2. QED
    BY <1>a, <2>1 DEF Told, Live
<1>6. ASSUME NEW t \in Threads, NEW res, NEW l, EndWith(t, res, l)
      PROVE  Told'
  BY <1>6 DEF EndWith, Told, Live
<1>7. ASSUME NEW t \in Threads, TestAndSet(t) PROVE Told'
  BY <1>a, <1>0, <1>7
     DEF TestAndSet, Enter, Live, Touches, Sends, Goto, Return, IInv, TypeOK
<1>8. ASSUME NEW t \in Threads, ReadClosed(t) \/ ReadHead(t) \/ Clear(t) PROVE Told'
  BY <1>a, <1>0, <1>8
     DEF ReadClosed, ReadHead, Clear, Touches, Live, Sends, Goto, Return, IInv, TypeOK
<1>9. ASSUME NEW t \in Threads, Unlink(t) PROVE Told'
  <2>1. Sends(t)' /\ UNCHANGED <<ctx, result>>
    BY <1>a, <1>9 DEF Unlink, Sends, Goto, IInv, TypeOK
  <2>2. QED
    BY <1>a, <2>1 DEF Told, Live
<1>10. ASSUME NEW t \in Threads, Skip(t) PROVE Told'
  <2>1. fed = 0
    BY <1>a, <1>10, UplinkAssumption
       DEF Skip, Touches, IInv, TypeOK, HolderInv, Sizes, Rest, Sends, Live
  <2>2. QED
    BY <1>a, <1>10, <2>1 DEF Skip, Told, Flagged, Live
<1>11. ASSUME NEW t \in Threads, Send(t) PROVE Told'
  <2>1. UNCHANGED <<ctx, result, queue, closed, fed>> /\ pc[t] = "send"
    BY <1>11 DEF Send, Touches
  <2>2. CASE upload' = upload
    <3>1. pc' = [pc EXCEPT ![t] = "end_local"]
      <4>1. upload \in Seq(Upload) /\ inflight \in Nat
        BY <1>a DEF IInv, TypeOK
      <4>2. \A b : Append(upload, b) # upload
        BY <4>1
      <4>3. QED
        BY <1>11, <2>2, <4>2 DEF Send, Goto
    <3>2. Sends(t)'
      BY <1>a, <3>1 DEF Sends, IInv, TypeOK
    <3>3. QED
      BY <1>a, <2>1, <3>2 DEF Told, Live
  <2>3. CASE upload' # upload
    <3>1. PICK b \in Upload : /\ upload' = Append(upload, b)
                              /\ upload \in Seq(Upload)
                              /\ b.last <=> queue = <<>> /\ closed
      BY <1>11, <2>3, SendFacts
    <3>2. upload' # <<>> /\ upload'[Len(upload')] = b
      BY <3>1, AppendFacts
    <3>3. QED
      BY <1>a, <2>1, <3>1, <3>2 DEF Told, Flagged, Live
  <2>4. QED
    BY <2>2, <2>3
<1>12. CASE UNCHANGED vars
  BY <1>0, <1>12 DEF vars, Live, Sends
<1>13. QED
  BY <1>1, <1>2, <1>3, <1>4, <1>5, <1>6, <1>7, <1>8, <1>9, <1>10, <1>11, <1>12
     DEF Next, BtSteps, ClientSteps, ProcessUplink, EndSuccess, EndLocal, EndCloud

(* Only Send uploads. *)
LEMMA UploadSteps ==
  [Next]_vars => UNCHANGED upload \/ \E t \in Threads : Send(t)
BY DEF Next, Open, DataReceived, Disconnect, Callback, BtSteps, Close, Forget,
       ClientSteps, CallbackOk, EndCloud, ProcessUplink, TestAndSet, ReadClosed,
       ReadHead, Unlink, Skip, Clear, EndSuccess, EndLocal, EndWith,
       state, vars, Threads

(* Every step uploads full blocks, but for the last one. *)
LEMMA FullStep == SerialInv /\ Serial /\ [Next]_vars => FullBlocks'
<1> SUFFICES ASSUME SerialInv, Serial, [Next]_vars PROVE FullBlocks'
  OBVIOUS
<1>a. /\ Serial
      /\ \A i \in 1 .. Len(upload) : /\ upload[i].len \in 1 .. BlockSize
                                     /\ ~upload[i].last => upload[i].len = BlockSize
  BY DEF SerialInv, FullBlocks, Serial
<1>1. CASE upload' = upload
  BY <1>a, <1>1 DEF FullBlocks
<1>2. CASE upload' # upload
  <2>1. PICK t \in Threads : Send(t)
    BY <1>2, UploadSteps
  <2>2. PICK b \in Upload : /\ upload' = Append(upload, b)
                            /\ upload \in Seq(Upload)
                            /\ b.len \in 1 .. BlockSize
                            /\ ~b.last => b.len = BlockSize
    BY <1>2, <2>1, SendFacts
  <2>3. QED
    BY <1>a, <2>2, AppendFacts DEF FullBlocks
<1>3. QED
  BY <1>1, <1>2

(* An uplink that is about to end in success has nothing left. *)
LEMMA AllOut ==
  ASSUME SerialInv, Serial, NEW t \in Threads, EndSuccess(t)
  PROVE  /\ closed /\ queue = <<>> /\ Flagged /\ EndOf(upload) = fed
         /\ UNCHANGED <<upload, fed, dropped, closed>>
<1>a. IInv /\ Sealed /\ Seen /\ Told /\ Live
  BY DEF SerialInv, LastInv, EndSuccess, EndWith, Touches, Live
<1>1. /\ queue = <<>> /\ closed /\ wblock = NULL /\ orphans = <<>>
      /\ pc[t] = "end_success" /\ UNCHANGED <<upload, fed, dropped, closed>>
  BY <1>a DEF EndSuccess, EndWith, Touches, At, Seen, Sealed
<1>2. \A u \in Threads : ~Sends(u)
  BY <1>a, <1>1 DEF IInv, TypeOK, LockInv, Locked, Sends, Threads
<1>3. EndOf(upload) = fed
  BY <1>a, <1>1, <1>2 DEF IInv, QueueInv, NextOut, NextIn
<1>4. Flagged
  BY <1>a, <1>1, <1>2 DEF Told
<1>5. QED
  BY <1>1, <1>3, <1>4

(* Every step keeps successes complete, but for the last write. *)
LEMMA SuccessStep == SerialInv /\ Serial /\ [Next]_vars => SuccessLacksOneWrite'
<1> SUFFICES ASSUME SerialInv, Serial, [Next]_vars PROVE SuccessLacksOneWrite'
  OBVIOUS
<1>a. /\ IInv /\ Sealed /\ LastWrite /\ LastIsFinal /\ Turns /\ Seen /\ Told
      /\ Serial /\ FullBlocks /\ SuccessLacksOneWrite
  BY DEF SerialInv, LastInv
<1>1. ASSUME NEW t \in Threads, EndSuccess(t) PROVE SuccessLacksOneWrite'
  <2>1. /\ queue = <<>> /\ closed /\ Flagged /\ EndOf(upload) = fed
        /\ UNCHANGED <<upload, fed, dropped>>
    BY <1>1, AllOut
  <2>2. PICK up \in Seq(Upload) : up = upload
    BY <1>a DEF IInv, TypeOK
  <2>3. up # <<>> => fed > 0
    <3>1. up # <<>> => Len(up) \in 1 .. Len(up)
      BY <2>2, ConcatFacts
    <3>2. \A i \in 1 .. Len(up) : up[i] \in Upload /\ up[i].len \in 1 .. BlockSize
      BY <1>a, <2>2 DEF FullBlocks, Serial
    <3>3. \A b \in Upload : b.off \in Nat
      BY DEF Upload
    <3>4. QED
      BY <2>1, <2>2, <3>1, <3>2, <3>3, UplinkAssumption DEF EndOf
  <2>4. \A i \in 1 .. Len(up) : up[i].last <=> i = Len(up)
    BY <1>a, <2>1, <2>2, <2>3 DEF LastIsFinal, Flagged
  <2>5. EndOf(upload') = Given' - dropped' /\ dropped' <= MaxWrite
    BY <1>a, <2>1 DEF EndOf, Given, LastWrite, IInv, TypeOK
  <2>6. QED
    BY <2>1, <2>2, <2>4, <2>5 DEF SuccessLacksOneWrite
<1>2. CASE /\ UNCHANGED <<upload, fed, dropped>>
           /\ result' = "success" => result = "success"
  BY <1>a, <1>2 DEF SuccessLacksOneWrite, EndOf, Given, Serial
<1>3. CASE Live /\ UNCHANGED result
  BY <1>a, <1>3 DEF Told, SuccessLacksOneWrite
<1>4. ASSUME NEW n \in 0 .. MaxWrite, NEW last \in BOOLEAN, DataReceived(n, last)
      PROVE  SuccessLacksOneWrite'
  BY <1>a, <1>3, <1>4, WritesOpen DEF DataReceived, Live
<1>5. ASSUME NEW t \in Threads, EndLocal(t) PROVE SuccessLacksOneWrite'
  BY <1>2, <1>5 DEF EndLocal, EndWith
<1>6. CASE EndCloud
  BY <1>2, <1>6 DEF EndCloud, EndWith
<1>7. ASSUME NEW t \in Threads, Send(t) PROVE SuccessLacksOneWrite'
  BY <1>3, <1>7 DEF Send, Touches, Live
<1>8. ASSUME NEW t \in Threads,
             \/ TestAndSet(t) \/ ReadClosed(t) \/ ReadHead(t) \/ Unlink(t)
             \/ Skip(t) \/ Clear(t)
      PROVE  SuccessLacksOneWrite'
  BY <1>2, <1>8 DEF TestAndSet, ReadClosed, ReadHead, Unlink, Skip, Clear, state
<1>9. CASE Open \/ Disconnect \/ Callback \/ Close \/ Forget \/ CallbackOk \/ UNCHANGED vars
  BY <1>2, <1>9 DEF Open, Disconnect, Callback, Close, Forget, CallbackOk, vars, state
<1>10. QED
  BY <1>1, <1>4, <1>5, <1>6, <1>7, <1>8, <1>9
     DEF Next, BtSteps, ClientSteps, ProcessUplink, Threads

-----------------------------------------------------------------------------
(* The invariant holds in every state the code can reach. *)
THEOREM SerialInductive == Spec => []SerialInv
<1>1. Init => SerialInv
  <2>1. SUFFICES ASSUME Init PROVE SerialInv
    OBVIOUS
  <2>2. LastInv
    BY <2>1, LastInit
  <2>3. /\ ctx = "none" /\ wblock = NULL /\ queue = <<>> /\ orphans = <<>>
        /\ fed = 0 /\ inflight = 0 /\ upload = <<>> /\ result = "none"
        /\ ~closed /\ ret["client"] = "idle" /\ \A t \in Threads : pc[t] = "idle"
    BY <2>1 DEF Init, Threads
  <2>4. Turns /\ Seen
    BY <2>3 DEF Turns, Seen, Locked, Threads
  <2>5. Held /\ Writer /\ Told
    BY <2>3 DEF Held, Writer, Told
  <2>6. Sizes /\ FullBlocks /\ SuccessLacksOneWrite
    BY <2>3 DEF Sizes, Sends, FullBlocks, SuccessLacksOneWrite
  <2>7. QED
    BY <2>2, <2>4, <2>5, <2>6 DEF SerialInv
<1>2. SerialInv /\ [Next]_vars => SerialInv'
  BY LastNext, SchedStays, TurnsStep, SeenStep, HeldStep, WriterStep, SizesStep,
     ToldStep, FullStep, SuccessStep DEF SerialInv
<1>3. QED
  BY <1>1, <1>2, PTL DEF Spec

(* cleanup_uplink runs only when no callback is due and no handler is      *)
(* inside the context.                                                     *)
THEOREM NoneAfterFree == Spec => []NoUseAfterFree
<1>1. SerialInv => NoUseAfterFree
  BY DEF SerialInv, Turns, NoUseAfterFree, Serial
<1>2. QED
  BY <1>1, SerialInductive, PTL

(* block_upload_callback frees no block but the one that was answered. *)
THEOREM BlockHeld == Spec => []InFlightIsHeld
<1>1. SerialInv => InFlightIsHeld
  BY BlockFields DEF SerialInv, Held, InFlightIsHeld, Serial, Live
<1>2. QED
  BY <1>1, SerialInductive, PTL

(* Every uploaded block is full, but for the one with the last flag, for   *)
(* every block size.                                                       *)
THEOREM BlocksFull == Spec => []FullBlocks
<1>1. SerialInv => FullBlocks
  BY DEF SerialInv, FullBlocks, Serial
<1>2. QED
  BY <1>1, SerialInductive, PTL

(* An uplink that reports success has uploaded every byte that write was   *)
(* given, but for the end of one fragment, the last, that a write had no   *)
(* memory for; and it has flagged the last block alone.                    *)
THEOREM SuccessAccounted == Spec => []SuccessLacksOneWrite
<1>1. SerialInv => SuccessLacksOneWrite
  BY DEF SerialInv, SuccessLacksOneWrite, Serial
<1>2. QED
  BY <1>1, SerialInductive, PTL

-----------------------------------------------------------------------------
(* The uploads end at a byte. *)
LEMMA EndOfNat == IInv => EndOf(upload) \in Nat
<1> SUFFICES ASSUME IInv PROVE EndOf(upload) \in Nat
  OBVIOUS
<1>1. PICK up \in Seq(Upload) : up = upload
  BY DEF IInv, TypeOK
<1>2. up # <<>> => up[Len(up)] \in Upload
  OBVIOUS
<1>3. QED
  BY <1>1, <1>2 DEF EndOf, Upload

(* What is given grows by what is copied and by what is dropped. *)
LEMMA GivenGrows ==
  ASSUME fed \in Nat, dropped \in Nat,
         NEW f \in Nat, fed' = f, f >= fed,
         NEW d \in Nat, dropped' = d, d >= dropped,
         f > fed \/ d > dropped
  PROVE  Given' \in Nat /\ Given' > Given
<1>1. Given = fed + dropped /\ Given' = f + d
  BY DEF Given
<1>2. f + d \in Nat /\ f + d > fed + dropped
  OBVIOUS
<1>3. QED
  BY <1>1, <1>2

(* Every step of the uplink is a step of the pipe, or none of it. *)
LEMMA PipeStep == SerialInv /\ Serial /\ [Next]_vars => [Pipe!PipeNext]_(Pipe!pipe)
<1> SUFFICES ASSUME SerialInv, Serial, [Next]_vars
             PROVE  [Pipe!PipeNext]_(Pipe!pipe)
  OBVIOUS
<1> USE DEF Threads, locals, state, Pipe!pipe, Pipe!PipeNext
<1>a. IInv /\ Sealed /\ LastWrite /\ Serial
  BY DEF SerialInv, LastInv
<1>b. /\ fed \in Nat /\ dropped \in Nat /\ MaxWrite \in Nat
      /\ EndOf(upload) \in Nat /\ EndOf(upload) <= fed
  BY <1>a, EndOfNat, UplinkAssumption DEF IInv, TypeOK, UploadIsPrefix
<1>0. ASSUME UNCHANGED <<ctx, closed, result, fed, dropped, upload>>
      PROVE  UNCHANGED Pipe!pipe
  BY <1>0 DEF UplinkMode, EndOf, Given
<1>1. CASE Open
  <2>1. UNCHANGED <<upload, fed, dropped>> /\ UplinkMode = "shut" /\ dropped = 0
    BY <1>a, <1>b, <1>1 DEF Open, UplinkMode, Sealed, LastWrite, At
  <2>2. ~closed' /\ ctx' \in {"none", "open"}
    BY <1>a, <1>1 DEF Open, Sealed
  <2>3. UplinkMode' \in {"shut", "open"}
    BY <2>1, <2>2 DEF UplinkMode
  <2>4. QED
    BY <2>1, <2>3 DEF EndOf, Given, Pipe!Start
<1>2. ASSUME NEW n \in 0 .. MaxWrite, NEW last \in BOOLEAN, DataReceived(n, last)
      PROVE  [Pipe!PipeNext]_(Pipe!pipe)
  <2>1. /\ ctx = "open" /\ ~closed /\ UNCHANGED <<ctx, closed, result, upload>>
        /\ fed' \in Nat /\ fed' >= fed /\ dropped = 0
        /\ dropped' = dropped \/ dropped' \in 1 .. MaxWrite
    <3>1. Filled
      BY <1>a, <1>2, FillFacts, WritesOpen DEF DataReceived
    <3>2. dropped = 0
      BY <1>a, <1>b, <1>2, WritesOpen DEF DataReceived, LastWrite, At
    <3>3. QED
      BY <1>a, <1>2, <3>1, <3>2, WritesOpen DEF DataReceived, Filled
  <2>2. UplinkMode = "open" /\ EndOf(upload') = EndOf(upload)
    BY <2>1 DEF UplinkMode, EndOf
  <2>3. CASE fed' = fed /\ dropped' = dropped
    BY <1>0, <2>1, <2>3
  <2>4. CASE fed' > fed /\ dropped' = dropped
    <3>1. UplinkMode' = "open"
      BY <2>1, <2>4 DEF UplinkMode
    <3>2. Given' \in Nat /\ Given' > Given
      <4>1. /\ fed' \in Nat /\ dropped' \in Nat /\ dropped = 0
            /\ fed' > fed /\ dropped' = 0
        BY <1>b, <2>1, <2>4
      <4>2. QED
        BY <1>b, <4>1, GivenGrows
    <3>3. QED
      BY <2>2, <3>1, <3>2 DEF Pipe!Put, EndOf
  <2>5. CASE dropped' \in 1 .. MaxWrite
    <3>1. UplinkMode' = "cut"
      BY <1>b, <2>1, <2>5 DEF UplinkMode
    <3>2. Given' \in Nat /\ Given' > Given
      <4>1. /\ fed' \in Nat /\ dropped' \in Nat /\ dropped = 0
            /\ fed' >= fed /\ dropped' > 0
        BY <1>b, <2>1, <2>5
      <4>2. QED
        BY <1>b, <4>1, GivenGrows
    <3>3. QED
      BY <2>2, <3>1, <3>2 DEF Pipe!Cut, EndOf
  <2>6. QED
    BY <1>b, <2>1, <2>3, <2>4, <2>5
<1>3. CASE Close
  <2>1. /\ ~closed /\ closed' /\ ctx = "open"
        /\ UNCHANGED <<ctx, fed, dropped, upload, result>>
    BY <1>a, <1>3, WritesOpen DEF Close
  <2>2. UNCHANGED <<Given, EndOf(upload)>>
    BY <2>1 DEF Given, EndOf
  <2>3. QED
    BY <2>1, <2>2 DEF UplinkMode, Pipe!Shut
<1>4. ASSUME NEW t \in Threads, Send(t) PROVE [Pipe!PipeNext]_(Pipe!pipe)
  <2>1. UNCHANGED <<ctx, closed, result, fed, dropped>> /\ ctx = "open"
    BY <1>4 DEF Send, Touches
  <2>2. CASE upload' = upload
    BY <1>0, <2>1, <2>2
  <2>3. CASE upload' # upload
    <3>1. PICK b \in Upload : /\ upload' = Append(upload, b)
                              /\ upload \in Seq(Upload)
                              /\ b.off = EndOf(upload)
                              /\ b.len \in 1 .. BlockSize
                              /\ b.off + b.len <= fed
      BY <1>4, <2>3, SendFacts
    <3>2. EndOf(upload') = EndOf(upload) + b.len
      BY <3>1, AppendFacts DEF EndOf
    <3>3. EndOf(upload') \in EndOf(upload) + 1 .. fed
      BY <1>b, <3>1, <3>2, UplinkAssumption
    <3>4. EndOf(upload)' = EndOf(upload') /\ UplinkMode' = UplinkMode /\ Given' = Given
      BY <2>1 DEF EndOf, UplinkMode, Given
    <3>5. CASE dropped = 0
      <4>1. UplinkMode \in {"open", "closed"} /\ Given = fed
        BY <1>b, <2>1, <3>5 DEF UplinkMode, Given
      <4>2. QED
        BY <3>3, <3>4, <4>1 DEF Pipe!Get
    <3>6. CASE dropped > 0
      <4>1. UplinkMode = "cut" /\ fed <= Given - 1
        BY <1>b, <2>1, <3>6 DEF UplinkMode, Given
      <4>2. EndOf(upload') \in EndOf(upload) + 1 .. Given - 1
        BY <1>b, <3>3, <4>1 DEF Given
      <4>3. QED
        BY <3>4, <4>1, <4>2 DEF Pipe!GetCut
    <3>7. QED
      BY <1>b, <3>5, <3>6
  <2>4. QED
    BY <2>2, <2>3
<1>5. ASSUME NEW t \in Threads, EndSuccess(t) PROVE [Pipe!PipeNext]_(Pipe!pipe)
  <2>1. closed /\ EndOf(upload) = fed /\ UNCHANGED <<upload, fed, dropped>>
    BY <1>5, AllOut
  <2>2. ctx = "open" /\ ctx' = "freed" /\ result' = "success"
    BY <1>5 DEF EndSuccess, EndWith, Touches
  <2>3. UNCHANGED <<Given, EndOf(upload)>>
    BY <2>1 DEF Given, EndOf
  <2>4. CASE dropped = 0
    <3>1. UplinkMode = "closed" /\ UplinkMode' = "done" /\ Given = EndOf(upload)
      BY <1>b, <2>1, <2>2, <2>4 DEF UplinkMode, Given
    <3>2. QED
      BY <2>3, <3>1 DEF Pipe!Finish
  <2>5. CASE dropped > 0
    <3>1. UplinkMode = "cut" /\ UplinkMode' = "short" /\ EndOf(upload) < Given
      BY <1>b, <2>1, <2>2, <2>5 DEF UplinkMode, Given
    <3>2. QED
      BY <2>3, <3>1 DEF Pipe!FinishShort
  <2>6. QED
    BY <1>b, <2>4, <2>5
<1>6. ASSUME NEW t \in Threads, NEW res \in {"local", "cloud"}, NEW l, EndWith(t, res, l)
      PROVE  [Pipe!PipeNext]_(Pipe!pipe)
  <2>1. UplinkMode \in {"open", "closed", "cut"} /\ UplinkMode' = "failed"
    BY <1>6 DEF EndWith, Touches, UplinkMode
  <2>2. QED
    BY <1>6, <2>1 DEF EndWith, Pipe!GiveUp, EndOf, Given
<1>7. CASE Disconnect \/ Callback \/ Forget \/ CallbackOk \/ UNCHANGED vars
  BY <1>0, <1>7 DEF Disconnect, Callback, Forget, CallbackOk, vars
<1>8. ASSUME NEW t \in Threads,
             \/ TestAndSet(t) \/ ReadClosed(t) \/ ReadHead(t) \/ Unlink(t)
             \/ Skip(t) \/ Clear(t)
      PROVE  [Pipe!PipeNext]_(Pipe!pipe)
  BY <1>0, <1>8 DEF TestAndSet, ReadClosed, ReadHead, Unlink, Skip, Clear
<1>9. QED
  BY <1>1, <1>2, <1>3, <1>4, <1>5, <1>6, <1>7, <1>8
     DEF Next, BtSteps, ClientSteps, ProcessUplink, EndLocal, EndCloud

(* The uplink implements BytePipe, whatever the sizes: bytes come out in   *)
(* order and once, and success means that all of them did, or that a write *)
(* ran out of memory and the pipe was cut there.                           *)
THEOREM PipeImplemented == Spec => ForwardsAll
<1>1. Init => Pipe!PipeInit
  BY DEF Init, Pipe!PipeInit, UplinkMode, EndOf, Given
<1>2. SerialInv /\ [Next]_vars => (sched = "serial" => [Pipe!PipeNext]_(Pipe!pipe))
  BY PipeStep DEF Serial
<1>3. QED
  BY <1>1, <1>2, SerialInductive, PTL DEF Spec, ForwardsAll
=============================================================================
