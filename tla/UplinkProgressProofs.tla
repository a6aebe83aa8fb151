------------------------ MODULE UplinkProgressProofs ------------------------
(***************************************************************************)
(* Why an uplink ends, for handlers that run to completion (Serial): the   *)
(* safety that ClosedEnds rests on.  A closed uplink with data always has  *)
(* a step due, each step brings the end nearer, and the only context that  *)
(* can be left behind is the one of a node that sent nothing.              *)
(***************************************************************************)
EXTENDS UplinkSerialProofs

-----------------------------------------------------------------------------
(* Who has taken the SENDING bit is in the locked part, or a block is with *)
(* the cloud: nobody leaves with it.                                       *)
Holder == sending /\ Live => inflight = 1 \/ \E t \in Threads : pc[t] \in Locked

(* Nothing happens to a context before it is opened. *)
NoneYet == ctx = "none" => inflight = 0 /\ ~sending

(* Who gives the lock back without a block found nothing to send. *)
Empty == Live => \A t \in Threads : pc[t] = "clear" => queue = <<>> /\ ~closed

(* Only the close forgets the context, and the loss of the connection goes *)
(* straight to the close.                                                  *)
Gone ==
  ctx = "open" /\ ~closed =>
    /\ node_uplink /\ pc["bt"] # "forget"
    /\ pc["bt"] \in Locked \cup {"test"} => ret["bt"] # "forget"
    /\ ~conn => pc["bt"] = "close"

(* Each thread is in code of its own, and a closed uplink is not closed a  *)
(* second time.                                                            *)
Places ==
  /\ pc["client"] \notin {"close", "forget"} /\ pc["bt"] \notin {"cb_ok", "cb_err"}
  /\ ctx = "open" /\ closed =>
       /\ pc["bt"] # "close"
       /\ pc["bt"] \in Locked \cup {"test"} => ret["bt"] = "forget"

(* An open context that nobody works for: no handler is in the middle of   *)
(* it, and no answer is to come.                                           *)
AtRest ==
  /\ ctx = "open" /\ inflight = 0
  /\ \A t \in Threads : pc[t] \in {"idle", "forget"}

(* Nothing is left lying: the lock is free, no block is queued, and a      *)
(* closed uplink is an empty one.                                          *)
Rested == AtRest => ~sending /\ queue = <<>> /\ (closed => fed = 0)

(* The inductive invariant. *)
RestInv == Serial => Holder /\ NoneYet /\ Empty /\ Gone /\ Places /\ Rested

(* Every step leaves the lock with somebody. *)
LEMMA HolderStep == SerialInv /\ RestInv /\ Serial /\ [Next]_vars => Holder'
<1> SUFFICES ASSUME SerialInv, RestInv, Serial, [Next]_vars PROVE Holder'
  OBVIOUS
<1> USE DEF Threads, locals, state, Runs, At
<1>a. IInv /\ Turns /\ Holder /\ Serial
  BY DEF SerialInv, LastInv, RestInv
<1>1. CASE Open
  BY <1>a, <1>1 DEF Open, Holder, Live
<1>2. ASSUME NEW n \in 0 .. MaxWrite, NEW last \in BOOLEAN, DataReceived(n, last)
      PROVE  Holder'
  <2>1. UNCHANGED <<sending, ctx, inflight>> /\ pc["client"] = "idle" /\ pc["bt"] = "idle"
    BY <1>a, <1>2 DEF DataReceived, Serial
  <2>2. QED
    BY <1>a, <2>1 DEF Holder, Live, Locked
<1>3. CASE Disconnect
  BY <1>a, <1>3 DEF Disconnect, Holder, Live, Locked, Goto, IInv, TypeOK
<1>4. CASE Callback
  BY <1>a, <1>4 DEF Callback, Holder
<1>5. CASE Close
  BY <1>a, <1>5 DEF Close, Touches, Holder, Live, Locked, Goto, IInv, TypeOK, Serial
<1>6. CASE Forget
  BY <1>a, <1>6 DEF Forget, Holder, Live, Locked, Goto, IInv, TypeOK
<1>7. CASE CallbackOk
  BY <1>a, <1>7 DEF CallbackOk, Touches, Holder, Live, Locked, Goto, IInv, TypeOK
<1>8. ASSUME NEW t \in Threads, NEW res, NEW l, EndWith(t, res, l) PROVE Holder'
  BY <1>8 DEF EndWith, Holder, Live
<1>9. ASSUME NEW t \in Threads, TestAndSet(t) PROVE Holder'
  BY <1>a, <1>9
     DEF TestAndSet, Enter, Touches, Goto, Return, Holder, Live, Locked, IInv, TypeOK,
         Serial
<1>10. ASSUME NEW t \in Threads, ReadClosed(t) \/ ReadHead(t) PROVE Holder'
  BY <1>a, <1>10
     DEF ReadClosed, ReadHead, Touches, Goto, Holder, Live, Locked, IInv, TypeOK
<1>11. ASSUME NEW t \in Threads, Unlink(t) PROVE Holder'
  BY <1>a, <1>11 DEF Unlink, Touches, Goto, Holder, Live, Locked, IInv, TypeOK
<1>12. ASSUME NEW t \in Threads, Skip(t) \/ Clear(t) PROVE Holder'
  BY <1>12 DEF Skip, Clear, Holder
<1>13. ASSUME NEW t \in Threads, Send(t) PROVE Holder'
  <2>1. inflight = 0
    BY <1>a, <1>13 DEF Send, Touches, IInv, LockInv, Live, Locked
  <2>2. inflight' = 1 \/ pc' = [pc EXCEPT ![t] = "end_local"]
    BY <1>13, <2>1 DEF Send, Goto
  <2>3. QED
    BY <1>a, <2>2 DEF Holder, Locked, IInv, TypeOK
<1>14. CASE UNCHANGED vars
  BY <1>a, <1>14 DEF vars, Holder, Live
<1>15. QED
  BY <1>1, <1>2, <1>3, <1>4, <1>5, <1>6, <1>7, <1>8, <1>9, <1>10, <1>11, <1>12,
     <1>13, <1>14
     DEF Next, BtSteps, ClientSteps, ProcessUplink, EndSuccess, EndLocal, EndCloud

(* Every step keeps the rest of what is known of the threads. *)
LEMMA GoneStep ==
  SerialInv /\ RestInv /\ Serial /\ [Next]_vars => NoneYet' /\ Empty' /\ Gone'
<1> SUFFICES ASSUME SerialInv, RestInv, Serial, [Next]_vars
             PROVE  NoneYet' /\ Empty' /\ Gone'
  OBVIOUS
<1> USE DEF Threads, locals, state, Runs, At
<1>a. IInv /\ Sealed /\ Turns /\ Seen /\ NoneYet /\ Empty /\ Gone /\ Serial
  BY DEF SerialInv, LastInv, RestInv
<1>1. CASE Open
  BY <1>a, <1>1 DEF Open, NoneYet, Empty, Gone, Serial, Locked, Sealed
<1>2. ASSUME NEW n \in 0 .. MaxWrite, NEW last \in BOOLEAN, DataReceived(n, last)
      PROVE  NoneYet' /\ Empty' /\ Gone'
  <2>1. ctx = "open" /\ ~closed
    BY <1>a, <1>2, WritesOpen
  <2>2. QED
    BY <1>a, <1>2, <2>1
       DEF DataReceived, NoneYet, Empty, Gone, Goto, Serial, Locked, IInv, TypeOK
<1>3. CASE Disconnect
  BY <1>a, <1>3 DEF Disconnect, NoneYet, Empty, Gone, Goto, Serial, Locked, IInv, TypeOK
<1>4. CASE Callback
  BY <1>a, <1>4 DEF Callback, Touches, NoneYet, Empty, Gone, Goto, Serial, IInv, TypeOK
<1>5. CASE Close
  BY <1>a, <1>5 DEF Close, Touches, NoneYet, Empty, Gone, Goto, Serial, IInv, TypeOK
<1>6. CASE Forget
  BY <1>a, <1>6 DEF Forget, NoneYet, Empty, Gone, Goto, Serial, IInv, TypeOK, Live
<1>7. CASE CallbackOk
  BY <1>a, <1>7 DEF CallbackOk, Touches, NoneYet, Empty, Gone, Goto, Serial, IInv, TypeOK
<1>8. ASSUME NEW t \in Threads, NEW res, NEW l, EndWith(t, res, l)
      PROVE  NoneYet' /\ Empty' /\ Gone'
  BY <1>8 DEF EndWith, NoneYet, Empty, Gone, Live
<1>9. ASSUME NEW t \in Threads, TestAndSet(t) PROVE NoneYet' /\ Empty' /\ Gone'
  BY <1>a, <1>9
     DEF TestAndSet, Enter, Touches, Goto, Return, NoneYet, Empty, Gone, Serial,
         Locked, IInv, TypeOK
<1>10. ASSUME NEW t \in Threads, ReadClosed(t) PROVE NoneYet' /\ Empty' /\ Gone'
  BY <1>a, <1>10
     DEF ReadClosed, Touches, Goto, NoneYet, Empty, Gone, Serial, Locked, IInv, TypeOK
<1>11. ASSUME NEW t \in Threads, ReadHead(t) PROVE NoneYet' /\ Empty' /\ Gone'
  BY <1>a, <1>11
     DEF ReadHead, Touches, Goto, NoneYet, Empty, Gone, Serial, Seen, Locked, IInv, TypeOK
<1>12. ASSUME NEW t \in Threads, Unlink(t) PROVE NoneYet' /\ Empty' /\ Gone'
  BY <1>a, <1>12
     DEF Unlink, Touches, Goto, NoneYet, Empty, Gone, Serial, Locked, IInv, TypeOK
<1>13. ASSUME NEW t \in Threads, Skip(t) \/ Clear(t) PROVE NoneYet' /\ Empty' /\ Gone'
  BY <1>a, <1>13
     DEF Skip, Clear, Touches, Goto, Return, NoneYet, Empty, Gone, Serial, Locked,
         IInv, TypeOK
<1>14. ASSUME NEW t \in Threads, Send(t) PROVE NoneYet' /\ Empty' /\ Gone'
  BY <1>a, <1>14
     DEF Send, Touches, Goto, Return, NoneYet, Empty, Gone, Serial, Locked, IInv, TypeOK
<1>15. CASE UNCHANGED vars
  BY <1>a, <1>15 DEF vars, NoneYet, Empty, Gone, Live
<1>16. QED
  BY <1>1, <1>2, <1>3, <1>4, <1>5, <1>6, <1>7, <1>8, <1>9, <1>10, <1>11, <1>12,
     <1>13, <1>14, <1>15
     DEF Next, BtSteps, ClientSteps, ProcessUplink, EndSuccess, EndLocal, EndCloud

(* Every step leaves each thread in code of its own. *)
LEMMA PlacesStep == SerialInv /\ RestInv /\ Serial /\ [Next]_vars => Places'
<1> SUFFICES ASSUME SerialInv, RestInv, Serial, [Next]_vars PROVE Places'
  OBVIOUS
<1> USE DEF Threads, locals, state, Runs, At
<1>a. IInv /\ Sealed /\ Turns /\ Places /\ Serial
  BY DEF SerialInv, LastInv, RestInv
<1>b. /\ pc \in [Threads -> Labels] /\ ret \in [Threads -> {"idle", "close", "forget"}]
      /\ ret["client"] = "idle"
  BY <1>a DEF IInv, TypeOK, Turns
<1>1. CASE Open
  BY <1>a, <1>1 DEF Open, Places, Sealed, Locked
<1>2. ASSUME NEW n \in 0 .. MaxWrite, NEW last \in BOOLEAN, DataReceived(n, last)
      PROVE  Places'
  <2>1. ~closed'
    BY <1>a, <1>2, WritesOpen DEF DataReceived
  <2>2. QED
    BY <1>a, <1>b, <1>2, <2>1 DEF DataReceived, Places, Goto
<1>3. CASE Disconnect
  BY <1>a, <1>b, <1>3 DEF Disconnect, Places, Sealed, Goto, Locked
<1>4. CASE Callback
  BY <1>a, <1>b, <1>4 DEF Callback, Touches, Places, Goto, Serial
<1>5. CASE Close
  BY <1>a, <1>b, <1>5 DEF Close, Touches, Places, Goto, Locked
<1>6. CASE Forget
  BY <1>a, <1>b, <1>6 DEF Forget, Places, Goto, Locked
<1>7. CASE CallbackOk
  BY <1>a, <1>b, <1>7 DEF CallbackOk, Touches, Places, Goto
<1>8. ASSUME NEW t \in Threads, NEW res, NEW l \in Locked \cup {"cb_err"}, EndWith(t, res, l)
      PROVE  Places'
  <2>1. ctx' = "freed" /\ pc' = [pc EXCEPT ![t] = ret[t]]
    BY <1>8 DEF EndWith, Return, Goto
  <2>2. QED
    BY <1>a, <1>b, <2>1 DEF Places
<1>9. ASSUME NEW t \in Threads, TestAndSet(t) \/ Skip(t) \/ Send(t) \/ Clear(t)
      PROVE  Places'
  <2>1. /\ UNCHANGED <<ctx, closed, ret>> /\ pc[t] \in Locked \cup {"test"} /\ ctx = "open"
        /\ \/ \E l \in Locked : pc' = [pc EXCEPT ![t] = l]
           \/ pc' = [pc EXCEPT ![t] = ret[t]]
    BY <1>9 DEF TestAndSet, Enter, Skip, Send, Clear, Touches, Goto, Return, Locked
  <2>2. QED
    BY <1>a, <1>b, <2>1 DEF Places, Locked
<1>10. ASSUME NEW t \in Threads, ReadClosed(t) \/ ReadHead(t) \/ Unlink(t)
       PROVE  Places'
  <2>1. /\ UNCHANGED <<ctx, closed, ret>> /\ pc[t] \in Locked
        /\ \E l \in Locked : pc' = [pc EXCEPT ![t] = l]
    BY <1>10 DEF ReadClosed, ReadHead, Unlink, Touches, Goto, Locked
  <2>2. QED
    BY <1>a, <1>b, <2>1 DEF Places, Locked
<1>11. CASE UNCHANGED vars
  BY <1>a, <1>11 DEF vars, Places
<1>12. QED
  BY <1>1, <1>2, <1>3, <1>4, <1>5, <1>6, <1>7, <1>8, <1>9, <1>10, <1>11
     DEF Next, BtSteps, ClientSteps, ProcessUplink, EndSuccess, EndLocal, EndCloud, Locked

(* A handler leaves the context at rest only when it found nothing to do:  *)
(* process_uplink gave the lock back with an empty list, or there was an   *)
(* empty block, the only one of the pouch.                                 *)
LEMMA RestedStep ==
  SerialInv /\ RestInv /\ Serial /\ [Next]_vars => Rested'
<1> SUFFICES ASSUME SerialInv, RestInv, Serial, [Next]_vars PROVE Rested'
  OBVIOUS
<1> USE DEF Threads, locals, state, Runs, At
<1>a. IInv /\ Sealed /\ Turns /\ Sizes /\ Empty /\ Holder /\ NoneYet /\ Gone /\ Rested /\ Serial
  BY DEF SerialInv, LastInv, RestInv
<1>0. ASSUME NEW t \in Threads, pc'[t] \notin {"idle", "forget"} PROVE Rested'
  BY <1>0 DEF Rested, AtRest
<1>1. CASE Open
  BY <1>a, <1>1 DEF Open, Rested, IInv, NodeInv, NoneYet, Sealed
<1>2. ASSUME NEW n \in 0 .. MaxWrite, NEW last \in BOOLEAN, DataReceived(n, last)
      PROVE  Rested'
  BY <1>a, <1>0, <1>2 DEF DataReceived, Goto, IInv, TypeOK
<1>3. CASE Disconnect
  BY <1>a, <1>3 DEF Disconnect, Rested, AtRest, Goto, IInv, TypeOK
<1>4. CASE Callback
  BY <1>a, <1>0, <1>4 DEF Callback, Touches, Goto, IInv, TypeOK, LockInv, Live
<1>5. CASE Close
  BY <1>a, <1>0, <1>5 DEF Close, Goto, IInv, TypeOK
<1>6. CASE Forget
  BY <1>a, <1>6 DEF Forget, Rested, AtRest, Goto, IInv, TypeOK
<1>7. CASE CallbackOk
  BY <1>a, <1>0, <1>7 DEF CallbackOk, Goto, IInv, TypeOK
<1>8. ASSUME NEW t \in Threads, NEW res, NEW l, EndWith(t, res, l) PROVE Rested'
  BY <1>8 DEF EndWith, Rested, AtRest
<1>9. ASSUME NEW t \in Threads, TestAndSet(t) PROVE Rested'
  <2>1. CASE sending
    <3>1. inflight = 1
      BY <1>a, <1>9, <2>1 DEF Holder, TestAndSet, Touches, Live, Locked, Turns, Serial
    <3>2. QED
      BY <1>9, <3>1 DEF TestAndSet, Rested, AtRest
  <2>2. CASE ~sending
    BY <1>a, <1>0, <1>9, <2>2 DEF TestAndSet, Enter, Goto, IInv, TypeOK
  <2>3. QED
    BY <2>1, <2>2
<1>10. ASSUME NEW t \in Threads, ReadClosed(t) \/ ReadHead(t) PROVE Rested'
  BY <1>a, <1>0, <1>10 DEF ReadClosed, ReadHead, Goto, IInv, TypeOK
<1>11. ASSUME NEW t \in Threads, Unlink(t) PROVE Rested'
  BY <1>a, <1>0, <1>11 DEF Unlink, Goto, IInv, TypeOK
<1>12. ASSUME NEW t \in Threads, Clear(t) PROVE Rested'
  BY <1>a, <1>12 DEF Clear, Touches, Rested, Empty, Live
<1>13. ASSUME NEW t \in Threads, Skip(t) PROVE Rested'
  <2>1. /\ Live /\ Sends(t) /\ rblock.len = 0
        /\ UNCHANGED <<queue, closed, fed>> /\ sending' = FALSE
    BY <1>a, <1>13 DEF Skip, Touches, Live, Sends, IInv, HolderInv
  <2>2. queue = <<>> /\ ~ (fed > 0) /\ fed \in Nat
    BY <1>a, <2>1, UplinkAssumption DEF Sizes, Rest, IInv, TypeOK
  <2>3. QED
    BY <2>1, <2>2 DEF Rested
<1>14. ASSUME NEW t \in Threads, Send(t) PROVE Rested'
  <2>1. inflight = 0
    BY <1>a, <1>14 DEF Send, Touches, IInv, LockInv, Live, Locked
  <2>2. inflight' = 1 \/ pc' = [pc EXCEPT ![t] = "end_local"]
    BY <1>14, <2>1 DEF Send, Goto
  <2>3. QED
    BY <1>a, <1>0, <2>2 DEF Rested, AtRest, IInv, TypeOK
<1>15. CASE UNCHANGED vars
  BY <1>a, <1>15 DEF vars, Rested, AtRest
<1>16. QED
  BY <1>1, <1>2, <1>3, <1>4, <1>5, <1>6, <1>7, <1>8, <1>9, <1>10, <1>11, <1>12,
     <1>13, <1>14, <1>15
     DEF Next, BtSteps, ClientSteps, ProcessUplink, EndSuccess, EndLocal, EndCloud

(* The invariant holds in every state. *)
LEMMA RestInductive == Spec => []RestInv
<1>1. Init => RestInv
  BY DEF Init, RestInv, Holder, NoneYet, Empty, Gone, Places, Rested, AtRest, Threads
<1>2. SerialInv /\ RestInv /\ [Next]_vars => RestInv'
  BY HolderStep, GoneStep, PlacesStep, RestedStep, SchedStays DEF RestInv
<1>3. QED
  BY <1>1, <1>2, SerialInductive, PTL DEF Spec

(* Nothing waits without somebody to see to it: when no handler runs and   *)
(* no answer is to come, the SENDING bit is clear, the queue is empty, and *)
(* the uplink is not a closed one with data.  A block that is queued while *)
(* another is in flight is found when that one is answered.                *)
NothingWaits == Serial => Rested

THEOREM NothingWaitsAlone == Spec => []NothingWaits
<1>1. RestInv => NothingWaits
  BY DEF RestInv, NothingWaits
<1>2. QED
  BY <1>1, RestInductive, PTL

-----------------------------------------------------------------------------
(* A step that the threads or the cloud client owe: the guard of one of the*)
(* steps that FairSpec is fair to.                                         *)
Due ==
  \/ Touches("client", "idle") /\ inflight > 0
  \/ \E t \in Threads : \E l \in Locked \cup {"test"} : Touches(t, l)
  \/ \E l \in {"cb_ok", "cb_err"} : Touches("client", l)
  \/ Touches("bt", "close") /\ node_uplink
  \/ At("bt", "forget")

(* A closed uplink with data, and one whose connection is lost with data   *)
(* in it, has a step due until its context is freed.                       *)
EndIsDue ==
  Serial /\ ctx = "open" /\ fed > 0 /\ (closed \/ ~conn) => Due

(* Every handler that is in the middle of an open context can go on, and a *)
(* context at rest is neither closed nor disconnected once it has data.    *)
THEOREM ClosedHasStepDue == Spec => []EndIsDue
<1>1. SerialInv /\ RestInv => EndIsDue
  <2> SUFFICES ASSUME SerialInv, RestInv, Serial, ctx = "open", fed > 0, closed \/ ~conn
               PROVE  Due
    BY DEF EndIsDue
  <2> USE DEF Threads
  <2>1. IInv /\ Turns /\ Gone /\ Places /\ Rested
    BY DEF SerialInv, LastInv, RestInv
  <2>2. /\ pc["bt"] \in Labels /\ pc["client"] \in Labels /\ inflight \in Nat
        /\ sched = "serial" /\ (pc["bt"] = "idle" \/ pc["client"] = "idle")
    BY <2>1 DEF IInv, TypeOK, Turns, Serial
  <2>3. CASE \E t \in Threads : pc[t] \in Locked \cup {"test"}
    <3>1. PICK t \in Threads, l \in Locked \cup {"test"} : pc[t] = l
      BY <2>3
    <3>2. Touches(t, l)
      BY <2>2, <3>1 DEF Touches, At, Runs, Locked
    <3>3. QED
      BY <3>1, <3>2 DEF Due
  <2>4. CASE pc["client"] \in {"cb_ok", "cb_err"}
    BY <2>2, <2>4 DEF Due, Touches, At, Runs
  <2>5. CASE pc["bt"] = "close"
    BY <2>1, <2>2, <2>5 DEF Gone, Places, Due, Touches, At, Runs
  <2>6. CASE pc["bt"] = "forget"
    BY <2>2, <2>6 DEF Due, At, Runs
  <2>7. CASE pc["bt"] = "idle" /\ pc["client"] = "idle"
    <3>1. inflight > 0
      BY <2>1, <2>2, <2>7 DEF Rested, AtRest, Gone
    <3>2. QED
      BY <2>2, <2>7, <3>1 DEF Due, Touches, At, Runs
  <2>8. pc["client"] \notin {"close", "forget"} /\ pc["bt"] \notin {"cb_ok", "cb_err"}
    BY <2>1 DEF Places
  <2>9. QED
    BY <2>2, <2>3, <2>4, <2>5, <2>6, <2>7, <2>8 DEF Labels, Locked
<1>2. QED
  BY <1>1, SerialInductive, RestInductive, PTL

-----------------------------------------------------------------------------
(* How far a closed uplink is from its end: ten steps for each block in the*)
(* queue, seven for the block with the cloud, and those of the threads.    *)
Weight(l) ==
  CASE l = "send" -> 9
    [] l \in {"cb_ok", "cb_err"} -> 6
    [] l = "test" -> 5
    [] l = "flag" -> 4
    [] l = "get" -> 3
    [] l \in {"unlink", "skip", "clear", "end_success", "end_local"} -> 2
    [] l = "forget" -> 1
    [] OTHER -> 0

StepsLeft ==
  10 * Len(queue) + 7 * inflight + Weight(pc["bt"]) + Weight(pc["client"])

(* After the close every step is one nearer to the end, whatever the cloud *)
(* answers, but for the disconnection, which costs nothing.                *)
EndComesNearer ==
  [][Serial /\ closed /\ ctx = "open" /\ ctx' = "open" =>
       IF conn' = conn THEN StepsLeft' \in 0 .. StepsLeft - 1
                       ELSE StepsLeft' = StepsLeft]_vars

(* The weights as numbers. *)
LEMMA Weights ==
  /\ \A l : Weight(l) \in 0 .. 9
  /\ Weight("idle") = 0 /\ Weight("forget") = 1 /\ Weight("close") = 0
  /\ Weight("send") = 9 /\ Weight("test") = 5 /\ Weight("flag") = 4 /\ Weight("get") = 3
  /\ \A l \in {"cb_ok", "cb_err"} : Weight(l) = 6
  /\ \A l \in {"unlink", "skip", "clear", "end_success", "end_local"} : Weight(l) = 2
BY DEF Weight

(* What a step of one thread from label k to label l does to the number of *)
(* steps left.                                                             *)
LEMMA StepCosts ==
  ASSUME IInv, NEW t \in Threads, NEW l \in Labels, pc' = [pc EXCEPT ![t] = l],
         NEW q \in Nat, NEW i \in Nat, Len(queue') = q, inflight' = i
  PROVE  /\ StepsLeft \in Nat /\ StepsLeft' \in Nat
         /\ StepsLeft' = StepsLeft + 10 * (q - Len(queue)) + 7 * (i - inflight)
                           + (Weight(l) - Weight(pc[t]))
<1>1. /\ pc \in [Threads -> Labels] /\ inflight \in Nat /\ Len(queue) \in Nat
  BY DEF IInv, TypeOK
<1>2. /\ pc'[t] = l /\ \A u \in Threads \ {t} : pc'[u] = pc[u]
  BY <1>1
<1> DEFINE a == Weight(pc["bt"])  b == Weight(pc["client"])  c == Weight(l)
           n == Len(queue)
<1>3. a \in Nat /\ b \in Nat /\ c \in Nat /\ n \in Nat
  BY <1>1, Weights
<1>4. StepsLeft = 10 * n + 7 * inflight + a + b
  BY DEF StepsLeft
<1>5. CASE t = "bt"
  <2>1. StepsLeft' = 10 * q + 7 * i + c + b
    BY <1>2, <1>5 DEF StepsLeft, Threads
  <2>2. Weight(pc[t]) = a
    BY <1>5
  <2> HIDE DEF a, b, c, n
  <2>3. QED
    BY <1>1, <1>3, <1>4, <2>1, <2>2 DEF n, c
<1>6. CASE t = "client"
  <2>1. StepsLeft' = 10 * q + 7 * i + a + c
    BY <1>2, <1>6 DEF StepsLeft, Threads
  <2>2. Weight(pc[t]) = b
    BY <1>6
  <2> HIDE DEF a, b, c, n
  <2>3. QED
    BY <1>1, <1>3, <1>4, <2>1, <2>2 DEF n, c
<1>7. QED
  BY <1>5, <1>6 DEF Threads

(* A thread that goes to a cheaper label, and does nothing else, is nearer *)
(* to the end.                                                             *)
LEMMA Cheaper ==
  ASSUME IInv, NEW t \in Threads, NEW l \in Labels, pc' = [pc EXCEPT ![t] = l],
         queue' = queue, inflight' = inflight, Weight(l) < Weight(pc[t])
  PROVE  StepsLeft' < StepsLeft
<1>1. inflight \in Nat /\ Len(queue) \in Nat
  BY DEF IInv, TypeOK
<1>2. PICK q \in Nat, i \in Nat : /\ q = Len(queue) /\ Len(queue') = q
                                /\ i = inflight /\ inflight' = i
  BY <1>1
<1>3. /\ StepsLeft \in Nat /\ StepsLeft' \in Nat
      /\ StepsLeft' = StepsLeft + 10 * (q - Len(queue)) + 7 * (i - inflight)
                        + (Weight(l) - Weight(pc[t]))
  BY <1>2, StepCosts
<1>4. Weight(l) \in Nat /\ Weight(pc[t]) \in Nat
  BY Weights
<1>5. QED
  BY <1>2, <1>3, <1>4

(* Every step of a closed uplink costs something. *)
LEMMA NearerStep ==
  ASSUME SerialInv, RestInv, Serial, [Next]_vars, vars' # vars,
         closed, ctx = "open", ctx' = "open"
  PROVE  IF conn' = conn THEN StepsLeft' < StepsLeft ELSE StepsLeft' = StepsLeft
<1> USE DEF Threads, locals, state
<1>a. /\ IInv /\ Sealed /\ Turns /\ Seen
      /\ pc \in [Threads -> Labels] /\ ret \in [Threads -> {"idle", "close", "forget"}]
      /\ inflight \in Nat /\ Len(queue) \in Nat /\ conn \in BOOLEAN
  BY DEF SerialInv, LastInv, IInv, TypeOK
<1>e. IInv /\ inflight \in Nat
  BY <1>a
<1>b. \A n, last : ~Open /\ ~DataReceived(n, last) /\ ~Close
  BY <1>a, WritesOpen DEF Open
<1>c. ASSUME NEW t, NEW res, NEW l PROVE ~EndWith(t, res, l)
  BY DEF EndWith
<1>d. \A t \in Threads : ret[t] \in Labels /\ Weight(ret[t]) \in {0, 1}
  <2>1. \A l \in {"idle", "close", "forget"} : l \in Labels /\ Weight(l) \in {0, 1}
    BY Weights DEF Labels
  <2>2. QED
    BY <1>a, <2>1
<1>1. CASE Disconnect
  <2>1. conn' # conn /\ pc' = pc /\ UNCHANGED <<queue, inflight>>
    BY <1>a, <1>1 DEF Disconnect, At, Sealed, Goto, Locked
  <2>2. QED
    BY <2>1 DEF StepsLeft
<1>2. CASE Callback
  <2>1. inflight = 1 /\ sending /\ pc["client"] = "idle"
    BY <1>a, <1>2 DEF Callback, Touches, At, IInv, LockInv, Live
  <2>2. PICK l \in {"cb_ok", "cb_err"} : pc' = [pc EXCEPT !["client"] = l]
    BY <1>2, <2>1 DEF Callback, Goto
  <2>3. UNCHANGED <<conn, queue>> /\ inflight' = 0 /\ l \in Labels
    BY <1>2, <2>1 DEF Callback, Labels
  <2>4. Weight(l) = 6 /\ Weight(pc["client"]) = 0
    BY <2>1, Weights
  <2>5. /\ StepsLeft \in Nat /\ StepsLeft' \in Nat
        /\ StepsLeft' = StepsLeft + 10 * (Len(queue) - Len(queue))
                          + 7 * (0 - inflight) + (Weight(l) - Weight(pc["client"]))
    BY <1>a, <2>2, <2>3, StepCosts
  <2>6. QED
    BY <1>a, <2>1, <2>3, <2>4, <2>5
<1>3. CASE Forget
  <2>1. /\ pc["bt"] = "forget" /\ pc' = [pc EXCEPT !["bt"] = "idle"]
        /\ UNCHANGED <<conn, queue, inflight>> /\ "idle" \in Labels
    BY <1>3 DEF Forget, At, Goto, Labels
  <2>2. Weight("idle") < Weight(pc["bt"])
    BY <2>1, Weights
  <2>3. QED
    BY <1>a, Cheaper, <2>1, <2>2
<1>4. CASE CallbackOk
  <2>1. /\ pc["client"] = "cb_ok" /\ pc' = [pc EXCEPT !["client"] = "test"]
        /\ UNCHANGED <<conn, queue, inflight>> /\ "test" \in Labels
    BY <1>4 DEF CallbackOk, Touches, At, Goto, Labels
  <2>2. Weight("test") < Weight(pc["client"])
    BY <2>1, Weights
  <2>3. QED
    BY <1>a, Cheaper, <2>1, <2>2
<1>5. ASSUME NEW t \in Threads, TestAndSet(t)
      PROVE  conn' = conn /\ StepsLeft' < StepsLeft
  <2>1. /\ pc[t] = "test" /\ UNCHANGED <<conn, queue, inflight>> /\ "flag" \in Labels
        /\ pc' = [pc EXCEPT ![t] = "flag"] \/ pc' = [pc EXCEPT ![t] = ret[t]]
    BY <1>5 DEF TestAndSet, Enter, Touches, At, Goto, Return, Labels
  <2>2. Weight("flag") < Weight(pc[t]) /\ Weight(ret[t]) < Weight(pc[t])
    BY <1>d, <2>1, Weights
  <2>3. QED
    BY <1>d, <1>a, Cheaper, <2>1, <2>2
<1>6. ASSUME NEW t \in Threads, ReadClosed(t)
      PROVE  conn' = conn /\ StepsLeft' < StepsLeft
  <2>1. /\ pc[t] = "flag" /\ UNCHANGED <<conn, queue, inflight>> /\ "get" \in Labels
        /\ pc' = [pc EXCEPT ![t] = "get"]
    BY <1>6 DEF ReadClosed, Touches, At, Goto, Labels
  <2>2. Weight("get") < Weight(pc[t])
    BY <2>1, Weights
  <2>3. QED
    BY <1>a, Cheaper, <2>1, <2>2
<1>7. ASSUME NEW t \in Threads, ReadHead(t)
      PROVE  conn' = conn /\ StepsLeft' < StepsLeft
  <2>1. /\ pc[t] = "get" /\ UNCHANGED <<conn, queue, inflight>>
        /\ \E l \in {"unlink", "end_success", "clear"} :
             l \in Labels /\ pc' = [pc EXCEPT ![t] = l]
    BY <1>7 DEF ReadHead, Touches, At, Goto, Labels
  <2>2. \A l \in {"unlink", "end_success", "clear"} : Weight(l) < Weight(pc[t])
    BY <2>1, Weights
  <2>3. QED
    BY <1>a, Cheaper, <2>1, <2>2
<1>8. ASSUME NEW t \in Threads, Unlink(t)
      PROVE  conn' = conn /\ StepsLeft' < StepsLeft
  <2>1. /\ queue # <<>> /\ Len(queue') = Len(queue) - 1 /\ queue \in Seq(Block)
        /\ \E l \in {"skip", "send"} : pc' = [pc EXCEPT ![t] = l]
    BY <1>8, SerialUnlink
  <2>2. PICK l \in {"skip", "send"} : pc' = [pc EXCEPT ![t] = l]
    BY <2>1
  <2>3. /\ pc[t] = "unlink" /\ UNCHANGED <<conn, inflight>> /\ l \in Labels
    BY <1>8 DEF Unlink, Touches, At, Labels
  <2>4. PICK q \in Nat : q = Len(queue) - 1 /\ Len(queue') = q
    BY <1>a, <2>1
  <2>5. Weight(l) \in 0 .. 9 /\ Weight(pc[t]) = 2
    BY <2>3, Weights
  <2>6. /\ StepsLeft \in Nat /\ StepsLeft' \in Nat
        /\ StepsLeft' = StepsLeft + 10 * (q - Len(queue))
                          + 7 * (inflight - inflight) + (Weight(l) - Weight(pc[t]))
    <3>1. inflight' = inflight /\ Len(queue') = q /\ l \in Labels /\ q \in Nat
      BY <2>3, <2>4
    <3>2. QED
      BY <1>e, <2>2, <3>1, StepCosts
  <2>7. QED
    BY <1>a, <2>3, <2>4, <2>5, <2>6
<1>9. ASSUME NEW t \in Threads, Skip(t) \/ Clear(t)
      PROVE  conn' = conn /\ StepsLeft' < StepsLeft
  <2>1. /\ pc[t] \in {"skip", "clear"} /\ UNCHANGED <<conn, queue, inflight>>
        /\ pc' = [pc EXCEPT ![t] = ret[t]]
    BY <1>9 DEF Skip, Clear, Touches, At, Goto, Return
  <2>2. Weight(ret[t]) < Weight(pc[t])
    BY <1>d, <2>1, Weights
  <2>3. QED
    BY <1>d, <1>a, Cheaper, <2>1, <2>2
<1>10. ASSUME NEW t \in Threads, Send(t)
       PROVE  conn' = conn /\ StepsLeft' < StepsLeft
  <2>1. /\ pc[t] = "send" /\ UNCHANGED <<conn, queue>> /\ Weight(pc[t]) = 9
    BY <1>10, Weights DEF Send, Touches, At
  <2>2. CASE inflight' = inflight /\ pc' = [pc EXCEPT ![t] = "end_local"]
    <3>1. "end_local" \in Labels /\ Weight("end_local") < Weight(pc[t])
      BY <2>1, Weights DEF Labels
    <3>2. QED
      BY <1>a, Cheaper, <2>1, <2>2, <3>1
  <2>3. CASE inflight' = inflight + 1 /\ pc' = [pc EXCEPT ![t] = ret[t]]
    <3>1. PICK i \in Nat : i = inflight + 1 /\ inflight' = i
      BY <1>a, <2>3
    <3>2. PICK q \in Nat, k \in Labels : q = Len(queue) /\ k = ret[t]
      BY <1>a, <1>d
    <3>3. Len(queue') = q /\ pc' = [pc EXCEPT ![t] = k]
      BY <2>1, <2>3, <3>2
    <3>4. /\ StepsLeft \in Nat /\ StepsLeft' \in Nat
          /\ StepsLeft' = StepsLeft + 10 * (q - Len(queue))
                            + 7 * (i - inflight) + (Weight(k) - Weight(pc[t]))
      <4>1. inflight' = i /\ Len(queue') = q /\ k \in Labels /\ q \in Nat /\ i \in Nat
        BY <3>1, <3>2, <3>3
      <4>2. pc' = [pc EXCEPT ![t] = k]
        BY <3>3
      <4>3. QED
        BY <1>e, <4>1, <4>2, StepCosts
    <3>5. /\ StepsLeft \in Nat /\ StepsLeft' \in Nat
          /\ StepsLeft' = StepsLeft + 10 * (Len(queue) - Len(queue))
                            + 7 * (i - inflight) + (Weight(ret[t]) - Weight(pc[t]))
      BY <3>2, <3>4
    <3>6. Weight(ret[t]) \in {0, 1}
      BY <1>d
    <3>7. QED
      BY <1>a, <2>1, <3>1, <3>5, <3>6
  <2>4. QED
    BY <1>10, <2>2, <2>3 DEF Send, Goto, Return
<1>11. QED
  BY <1>b, <1>c, <1>1, <1>2, <1>3, <1>4, <1>5, <1>6, <1>7, <1>8, <1>9, <1>10
     DEF Next, BtSteps, ClientSteps, ProcessUplink, EndSuccess, EndLocal, EndCloud, vars

(* A closed uplink does not run for ever: each step takes one from a number*)
(* that is fixed by what is queued, and with ClosedHasStepDue there is one *)
(* to take until the context is freed.                                     *)
THEOREM ClosedComesToEnd == Spec => EndComesNearer
<1>1. ASSUME IInv PROVE StepsLeft \in Nat
  <2>1. Len(queue) \in Nat /\ inflight \in Nat
    BY <1>1 DEF IInv, TypeOK
  <2>2. Weight(pc["bt"]) \in Nat /\ Weight(pc["client"]) \in Nat
    BY Weights
  <2>3. QED
    BY <2>1, <2>2 DEF StepsLeft
<1>2. IInv /\ SerialInv /\ RestInv /\ [Next]_vars
        => [Serial /\ closed /\ ctx = "open" /\ ctx' = "open" =>
              IF conn' = conn THEN StepsLeft' \in 0 .. StepsLeft - 1
                              ELSE StepsLeft' = StepsLeft]_vars
  <2> SUFFICES ASSUME IInv, SerialInv, RestInv, [Next]_vars, vars' # vars,
                      Serial, closed, ctx = "open", ctx' = "open"
               PROVE  IF conn' = conn THEN StepsLeft' \in 0 .. StepsLeft - 1
                                      ELSE StepsLeft' = StepsLeft
    OBVIOUS
  <2>1. StepsLeft \in Nat
    BY <1>1
  <2>2. StepsLeft' \in Nat
    <3>1. Len(queue)' \in Nat /\ inflight' \in Nat
      BY NextInv DEF IInv, TypeOK
    <3>2. Weight(pc'["bt"]) \in Nat /\ Weight(pc'["client"]) \in Nat
      BY Weights
    <3>3. QED
      BY <3>1, <3>2 DEF StepsLeft
  <2>3. IF conn' = conn THEN StepsLeft' < StepsLeft ELSE StepsLeft' = StepsLeft
    BY NearerStep
  <2>4. QED
    BY <2>1, <2>2, <2>3
<1>3. QED
  BY <1>2, Inductive, SerialInductive, RestInductive, PTL DEF Spec, EndComesNearer

-----------------------------------------------------------------------------
(* Where a block lands: a receiver of a blockwise transfer writes block idx*)
(* at idx * BlockSize, which is where it was in the pouch.                 *)
BlocksLand ==
  Serial => \A i \in 1 .. Len(upload) : upload[i].off = upload[i].idx * BlockSize

(* Every block carries a byte, so there are no more blocks than bytes.     *)
Counted == Serial => Len(upload) <= EndOf(upload)

(* The inductive invariant of the two. *)
LandInv == Serial => /\ \A i \in 1 .. Len(upload) : upload[i].off = (i - 1) * BlockSize
                     /\ Len(upload) <= EndOf(upload)

(* A block that is sent follows full ones only. *)
LEMMA LandStep == SerialInv /\ LandInv /\ [Next]_vars => LandInv'
<1> SUFFICES ASSUME SerialInv, LandInv, [Next]_vars, Serial PROVE LandInv'
  BY SchedStays DEF LandInv
<1>a. /\ IInv /\ NoMore /\ FullBlocks /\ BlockSize \in Nat \ {0}
      /\ \A i \in 1 .. Len(upload) : upload[i].off = (i - 1) * BlockSize
      /\ Len(upload) <= EndOf(upload)
  BY UplinkAssumption DEF SerialInv, LastInv, LandInv
<1>1. CASE upload' = upload
  BY <1>a, <1>1 DEF LandInv, EndOf
<1>2. CASE upload' # upload
  <2>1. PICK t \in Threads : Send(t)
    BY <1>2, UploadSteps
  <2>2. PICK b \in Upload : /\ upload' = Append(upload, b) /\ upload \in Seq(Upload)
                            /\ b.off = EndOf(upload) /\ b.len \in 1 .. BlockSize
    BY <1>2, <2>1, SendFacts
  <2>3. PICK up \in Seq(Upload) : up = upload
    BY <2>2
  <2>4. /\ Len(upload') = Len(up) + 1 /\ upload'[Len(up) + 1] = b /\ upload' # <<>>
        /\ \A i \in 1 .. Len(up) : upload'[i] = up[i]
    BY <2>2, <2>3, AppendFacts
  <2>5. /\ b.off \in Nat /\ b.len \in Nat /\ b.len >= 1 /\ Len(up) \in Nat
        /\ Len(up) <= b.off
    BY <1>a, <2>2, <2>3 DEF Upload
  <2>6. b.off = Len(up) * BlockSize
    <3>1. CASE up = <<>>
      BY <1>a, <2>2, <2>3, <3>1 DEF EndOf
    <3>2. CASE up # <<>>
      <4>1. Len(up) \in 1 .. Len(up) /\ up[Len(up)] \in Upload
        BY <2>3, <3>2
      <4>2. ~up[Len(up)].last
        BY <1>a, <2>1, <2>3, <4>1 DEF NoMore, Finished, Send, Touches, At, Live
      <4>3. up[Len(up)].len = BlockSize /\ up[Len(up)].off = (Len(up) - 1) * BlockSize
        BY <1>a, <2>3, <4>1, <4>2 DEF FullBlocks, Serial
      <4>4. b.off = (Len(up) - 1) * BlockSize + BlockSize
        BY <2>2, <2>3, <3>2, <4>3 DEF EndOf
      <4>5. \A n \in Nat : (n - 1) * BlockSize + BlockSize = n * BlockSize
        BY <1>a
      <4>6. QED
        BY <2>5, <4>4, <4>5
    <3>3. QED
      BY <3>1, <3>2
  <2>7. \A i \in 1 .. Len(upload') : upload'[i].off = (i - 1) * BlockSize
    <3>1. ASSUME NEW i \in 1 .. Len(up) PROVE upload'[i].off = (i - 1) * BlockSize
      BY <1>a, <2>3, <2>4
    <3>2. Len(up) + 1 - 1 = Len(up)
      BY <2>5
    <3>3. upload'[Len(up) + 1].off = (Len(up) + 1 - 1) * BlockSize
      BY <2>4, <2>6, <3>2
    <3>4. \A i \in 1 .. Len(up) + 1 : i \in 1 .. Len(up) \/ i = Len(up) + 1
      BY <2>5
    <3>5. QED
      BY <2>4, <3>1, <3>3, <3>4
  <2>8. EndOf(upload') = b.off + b.len
    BY <2>4, <2>5 DEF EndOf
  <2>9. Len(upload') <= EndOf(upload')
    BY <2>4, <2>5, <2>8
  <2>10. QED
    BY <2>7, <2>9 DEF LandInv
<1>3. QED
  BY <1>1, <1>2

(* The invariant holds in every state. *)
LEMMA LandInductive == Spec => []LandInv
<1>1. Init => LandInv
  BY DEF Init, LandInv, EndOf
<1>2. QED
  BY <1>1, LandStep, SerialInductive, PTL DEF Spec

(* The cloud puts the pouch together as the node sent it.                  *)
THEOREM BlocksLandInPlace == Spec => []BlocksLand
<1>1. IInv /\ LandInv => BlocksLand
  <2> SUFFICES ASSUME IInv, LandInv, Serial, NEW i \in 1 .. Len(upload)
               PROVE  upload[i].off = upload[i].idx * BlockSize
    BY DEF BlocksLand
  <2>1. upload[i].off = (i - 1) * BlockSize /\ upload[i].idx = i - 1
    BY DEF LandInv, IInv, UploadIsPrefix
  <2>2. QED
    BY <2>1
<1>2. QED
  BY <1>1, Inductive, LandInductive, PTL

(* The cloud client is given no more blocks than the pouch has bytes, so   *)
(* it owes no more answers than that.                                      *)
THEOREM BlocksCounted == Spec => []Counted
<1>1. LandInv => Counted
  BY DEF LandInv, Counted
<1>2. QED
  BY <1>1, LandInductive, PTL

(* The context that DisconnectFrees finds left behind is that of a node    *)
(* that sent nothing: no byte came, and the cloud was given no block.      *)
LeakIsEmpty ==
  Serial /\ AtRest /\ ~conn => closed /\ fed = 0 /\ upload = <<>>

(* A lost connection leaves nothing behind but an uplink without data.     *)
THEOREM OnlyEmptyLeaks == Spec => []LeakIsEmpty
<1>1. SerialInv /\ RestInv /\ LandInv => LeakIsEmpty
  <2> SUFFICES ASSUME SerialInv, RestInv, LandInv, Serial, AtRest, ~conn
               PROVE  closed /\ fed = 0 /\ upload = <<>>
    BY DEF LeakIsEmpty
  <2>1. closed /\ fed = 0
    BY DEF RestInv, Gone, Rested, AtRest, Threads
  <2>2. PICK up \in Seq(Upload) : up = upload
    BY DEF SerialInv, LastInv, IInv, TypeOK
  <2>3. Len(up) <= EndOf(upload) /\ EndOf(upload) <= fed /\ EndOf(upload) \in Nat
    BY <2>2, EndOfNat DEF SerialInv, LastInv, IInv, UploadIsPrefix, LandInv
  <2>4. Len(up) = 0
    BY <2>1, <2>2, <2>3
  <2>5. QED
    BY <2>1, <2>2, <2>4
<1>2. QED
  BY <1>1, SerialInductive, RestInductive, LandInductive, PTL

(* Such a context is left behind for good: nothing can happen to it.       *)
LeftForGood ==
  [][~(Serial /\ AtRest /\ pc["bt"] = "idle" /\ ~conn)]_vars

(* No handler of the node or of the cloud client runs for it again.        *)
THEOREM LeakIsForGood == Spec => LeftForGood
<1>1. SerialInv /\ RestInv /\ [Next]_vars
        => [~(Serial /\ AtRest /\ pc["bt"] = "idle" /\ ~conn)]_vars
  <2> SUFFICES ASSUME SerialInv, RestInv, Next, Serial, AtRest, pc["bt"] = "idle", ~conn
               PROVE  FALSE
    OBVIOUS
  <2> USE DEF Threads, At, Touches
  <2>1. /\ pc["client"] = "idle" /\ inflight = 0
        /\ \A t \in Threads : pc[t] = "idle"
    BY DEF RestInv, Places, AtRest
  <2>2. \A t \in Threads : ~ProcessUplink(t)
    BY <2>1 DEF ProcessUplink, TestAndSet, ReadClosed, ReadHead, Unlink, Skip, Send,
                Clear, EndSuccess, EndLocal, EndWith
  <2>3. ~BtSteps /\ ~ClientSteps
    BY <2>1, <2>2 DEF BtSteps, Close, Forget, ClientSteps, CallbackOk, EndCloud, EndWith
  <2>4. ~Open /\ ~Disconnect /\ ~Callback /\ \A n, last : ~DataReceived(n, last)
    BY <2>1 DEF Open, Disconnect, Callback, DataReceived
  <2>5. QED
    BY <2>3, <2>4 DEF Next
<1>2. QED
  BY <1>1, SerialInductive, RestInductive, PTL DEF Spec, LeftForGood
=============================================================================
