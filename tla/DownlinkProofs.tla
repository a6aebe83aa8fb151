--------------------------- MODULE DownlinkProofs ---------------------------
(***************************************************************************)
(* Proofs about Downlink, for every pool, block, packet and window size    *)
(* and both schedulings.  IInv is inductive; every safety property of      *)
(* Downlink follows from it, and every step maps to one of BytePipe.  Each *)
(* part of IInv has a lemma that every step preserves it, with one step of *)
(* the proof for each action that needs an argument of its own and one for *)
(* each group of actions that do not disturb it.  Then why a delivery ends:*)
(* a step is always due (DueInv), and each is one nearer to the end.       *)
(***************************************************************************)
EXTENDS Downlink, TLAPS

(* The Boolean part of TypeOK. *)
Bits ==
  /\ conn \in BOOLEAN /\ node_ctx \in BOOLEAN /\ node_sender \in BOOLEAN
  /\ complete \in BOOLEAN /\ aborted \in BOOLEAN
  /\ waiting \in BOOLEAN /\ coap_error \in BOOLEAN
  /\ started \in BOOLEAN /\ final \in BOOLEAN

(* The part of TypeOK about states, counters and the arriving block. *)
Values ==
  /\ sub \in {"no", "yes", "stopping", "gone", "failed"}
  /\ ctx \in {"none", "open", "freed"}
  /\ cloud \in {"none", "quiet", "blocks", "failing", "last", "ended", "failed"}
  /\ pc \in [Threads -> {"idle", "alloc", "put", "peek", "wake", "kick",
                         "nudge", "error", "send", "fill"}]
  /\ arriving \in Block \cup {NULL} /\ taken \in Nat
  /\ unacked \in 0 .. Window /\ sched \in Scheds

(* The part of TypeOK about the data. That no count exceeds the pool       *)
(* follows from PoolConserved.                                             *)
Data ==
  /\ cur \in Block \cup {NULL} /\ offset \in Nat
  /\ fifo \in Seq(Block)
  /\ room \in 0 .. PacketSize /\ out \in Nat
  /\ pool \in Nat /\ others \in Nat

(* Thread t runs the sender. *)
InSender(t) == pc[t] \in {"send", "fill"}

(* The node's pointer to the context, and what an abort has cleared.       *)
(* Nothing has happened to a context that was not started.                 *)
Links ==
  /\ node_ctx => ctx = "open" /\ node_sender
  /\ aborted => ~node_sender /\ ctx # "none"
  /\ ctx = "open" => node_ctx \/ aborted
  /\ ctx = "none" => /\ sub = "no" /\ cloud = "quiet" /\ ~node_sender
                     /\ \A t \in Threads : pc[t] = "idle"
                     /\ cur = NULL /\ offset = 0 /\ fifo = <<>>
                     /\ out = 0 /\ taken = 0 /\ ~started /\ ~final

(* The sender runs in one thread at a time, under its lock; the host thread*)
(* is either idle or in the sender.                                        *)
Turns ==
  /\ pc["bt"] \in {"idle", "send", "fill"}
  /\ ~(InSender("bt") /\ InSender("client"))
  /\ \A t \in Threads : pc[t] = "fill" => started /\ ~final /\ unacked < Window

(* The block that block_cb holds is the next one of the download, and an   *)
(* error is recorded only after the download failed.                       *)
Arrives ==
  /\ pc["client"] \in {"alloc", "put"} =>
       /\ arriving \in Block /\ arriving.off = taken
       /\ arriving.len > 0 \/ arriving.last
       /\ cloud = "blocks"
  /\ coap_error \/ pc["client"] = "error" => cloud = "failed"

(* The offset of the byte that follows the current block. *)
NextOff == IF cur = NULL THEN out ELSE cur.off + cur.len

(* InOrder, written as a recurrence over the queue: each block starts where*)
(* the one before it ends, up to what was taken.                           *)
Chain ==
  ctx # "freed" =>
    /\ IF cur = NULL THEN offset = 0
                     ELSE offset <= cur.len /\ cur.off + offset = out
    /\ \A i \in 1 .. Len(fifo) - 1 : fifo[i + 1].off = fifo[i].off + fifo[i].len
    /\ IF fifo = <<>> THEN NextOff = taken
       ELSE /\ fifo[1].off = NextOff
            /\ fifo[Len(fifo)].off + fifo[Len(fifo)].len = taken

(* No block reaches past what was taken. It follows from Chain by an       *)
(* induction over the queue, so it is an invariant of its own.             *)
Bounded == \A i \in 1 .. Len(fifo) : fifo[i].off + fifo[i].len <= taken

(* A last block is the last one there is, and the download is over. *)
LastBlocks ==
  /\ cur # NULL /\ cur.last => fifo = <<>> /\ cloud \in {"last", "ended"}
  /\ \A i \in 1 .. Len(fifo) :
       fifo[i].last => i = Len(fifo) /\ cloud \in {"last", "ended"}

(* The context is complete exactly when the final packet was sent; then    *)
(* everything was copied, and until the acknowledgement that frees the     *)
(* context, that packet is unacknowledged.                                 *)
Ends ==
  /\ final = complete
  /\ final => out = taken /\ Over
  /\ final /\ ctx = "open" => unacked > 0

(* A subscription, or one that failed, whose sender is gone. *)
Orphaned == sub \in {"yes", "failed"} /\ ~node_sender

(* No kick is under way then, and the sender of a subscription that has    *)
(* started is there.                                                       *)
Woken ==
  /\ Orphaned => pc["client"] = "idle"
  /\ sub = "yes" /\ started => node_sender

(* A sender that could send, and that nobody runs. *)
Asleep ==
  /\ ctx = "open" /\ sub = "yes" /\ started /\ ~final /\ unacked < Window
  /\ \A t \in Threads : ~InSender(t)

(* Such a sender found the queue empty: the transport is marked as waiting *)
(* or is being kicked. What came since makes the client thread look.       *)
Wakes ==
  Asleep => /\ cur = NULL
            /\ waiting \/ pc["client"] \in {"kick", "nudge"}
            /\ fifo # <<>> \/ coap_error =>
                 pc["client"] \in {"peek", "wake", "kick", "nudge"}

(* What the serial scheduling adds: handlers do not interleave, a context  *)
(* that is freed has had its last callback, and a sender that was seen is  *)
(* still there.                                                            *)
SerialFree ==
  sched = "serial" =>
    /\ pc["bt"] # "idle" => pc["client"] \in {"idle", "alloc"}
    /\ ctx = "freed" => Over /\ pc["client"] = "idle"
    /\ pc["client"] = "nudge" => node_sender

(* The inductive invariant. *)
IInv ==
  /\ TypeOK /\ Links /\ Turns /\ Arrives /\ PoolConserved /\ Chain /\ Bounded
  /\ LastBlocks /\ Ends /\ Woken /\ Wakes /\ SerialFree

-----------------------------------------------------------------------------
(* A sequence is empty when its length is zero. *)
LEMMA EmptyLen ==
  ASSUME NEW S, NEW q \in Seq(S)
  PROVE  q = <<>> <=> Len(q) = 0
OBVIOUS

(* What the head and the tail of a queue are. *)
LEMMA TailFacts ==
  ASSUME NEW S, NEW q \in Seq(S), q # <<>>
  PROVE  /\ Head(q) \in S /\ Head(q) = q[1] /\ Len(q) \in Nat /\ Len(q) >= 1
         /\ Tail(q) \in Seq(S) /\ Len(Tail(q)) = Len(q) - 1
         /\ Tail(q) = <<>> <=> Len(q) = 1
         /\ \A i \in 1 .. Len(q) - 1 : Tail(q)[i] = q[i + 1]
<1>1. /\ Head(q) \in S /\ Head(q) = q[1] /\ Len(q) \in Nat /\ Len(q) >= 1
      /\ Tail(q) \in Seq(S) /\ Len(Tail(q)) = Len(q) - 1
      /\ \A i \in 1 .. Len(q) - 1 : Tail(q)[i] = q[i + 1]
  OBVIOUS
<1>2. Tail(q) = <<>> <=> Len(Tail(q)) = 0
  BY <1>1, EmptyLen
<1>3. QED
  BY <1>1, <1>2

(* block_cb makes a block. *)
LEMMA NewBlock ==
  ASSUME NEW o \in Nat, NEW n \in Nat, NEW l \in BOOLEAN
  PROVE  [off |-> o, len |-> n, last |-> l] \in Block
BY DEF Block

(* The fields of a block and the ranges of the constants. *)
LEMMA BlockFields ==
  /\ \A b \in Block : /\ b.off \in Nat /\ b.len \in Nat /\ b.last \in BOOLEAN
                     /\ b # NULL
  /\ NumBlocks \in Nat /\ PacketSize \in Nat \ {0} /\ Window \in Nat \ {0}
BY DownlinkAssumption DEF Block

(* The smaller of two sizes. *)
LEMMA MinFacts ==
  ASSUME NEW a \in Nat, NEW b \in Nat
  PROVE  /\ Min({a, b}) \in Nat /\ Min({a, b}) <= a /\ Min({a, b}) <= b
         /\ Min({a, b}) = a \/ Min({a, b}) = b
BY DEF Min

(* What pouch_gateway_downlink_close does to the pool. *)
LEMMA HeldFacts ==
  ASSUME TypeOK
  PROVE  /\ Held \in Nat /\ Len(fifo) \in Nat /\ pool \in Nat /\ others \in Nat
         /\ CloseContext => /\ pool' = pool + Held /\ pool' \in Nat /\ Held' = 0
                            /\ cur' = NULL /\ fifo' = <<>>
                            /\ fifo' \in Seq(Block)
                            /\ UNCHANGED <<offset, others>>
<1>1. /\ Len(fifo) \in Nat /\ pool \in Nat /\ others \in Nat
      /\ <<>> \in Seq(Block) /\ Len(<<>>) = 0
  BY DownlinkAssumption DEF TypeOK
<1>2. Held \in Nat
  BY <1>1 DEF Held
<1>3. ASSUME CloseContext
      PROVE  /\ pool' = pool + Held /\ pool' \in Nat /\ Held' = 0
             /\ cur' = NULL /\ fifo' = <<>> /\ fifo' \in Seq(Block)
             /\ UNCHANGED <<offset, others>>
  <2>1. pool' = pool + Held /\ cur' = NULL /\ fifo' = <<>> /\ UNCHANGED <<offset, others>>
    BY <1>3 DEF CloseContext
  <2>2. Held' = 0
    BY <1>1, <2>1 DEF Held
  <2>3. QED
    BY <1>1, <1>2, <2>1, <2>2
<1>4. QED
  BY <1>1, <1>2, <1>3

(* One turn of the loop of get_data: n bytes of block b are copied, and    *)
(* rest is the queue behind b.                                             *)
Copied(t, b, rest, n) ==
  /\ Touches(t, "fill") /\ node_sender
  /\ UNCHANGED <<link, ctx, aborted, waiting, coap_error, others, source,
                 started, sched>>
  /\ b \in Block /\ rest \in Seq(Block) /\ n \in Nat
  /\ Held = Len(rest) + 1
  /\ n <= room /\ offset + n <= b.len /\ b.off + offset = out
  /\ out' = out + n /\ room' = room - n
  /\ \A i \in 1 .. Len(rest) - 1 : rest[i + 1].off = rest[i].off + rest[i].len
  /\ IF rest = <<>> THEN b.off + b.len = taken
     ELSE /\ rest[1].off = b.off + b.len
          /\ rest[Len(rest)].off + rest[Len(rest)].len = taken
  /\ b.last => rest = <<>> /\ cloud \in {"last", "ended"}
  /\ \A i \in 1 .. Len(rest) :
       rest[i].last => i = Len(rest) /\ cloud \in {"last", "ended"}
  /\ b.off + b.len <= taken
  /\ \A i \in 1 .. Len(rest) : rest[i].off + rest[i].len <= taken
  /\ \/ /\ offset + n = b.len /\ offset' = 0 /\ pool' = pool + 1
        /\ cur' = HeadOrNull(rest) /\ fifo' = TailOrEmpty(rest)
        /\ complete' = (complete \/ b.last)
        /\ IF room = n \/ b.last THEN SendPacket(t, b.last)
                                 ELSE UNCHANGED <<unacked, final, pc>>
     \/ /\ cur' = b /\ fifo' = rest /\ offset' = offset + n
        /\ UNCHANGED <<pool, complete>>
        /\ IF room = n THEN SendPacket(t, FALSE) ELSE UNCHANGED <<unacked, final, pc>>

(* CopyFromBlock is a turn of the loop as Copied describes it. *)
LEMMA CopyFacts ==
  ASSUME IInv, NEW t \in Threads, CopyFromBlock(t)
  PROVE  \E b, rest, n : Copied(t, b, rest, n)
<1> DEFINE b    == IF cur = NULL THEN Head(fifo) ELSE cur
           rest == IF cur = NULL THEN Tail(fifo) ELSE fifo
           n    == Min({room, b.len - offset})
<1>a. /\ ctx = "open"
      /\ cur # NULL \/ fifo # <<>>
      /\ cur \in Block \cup {NULL} /\ fifo \in Seq(Block)
      /\ offset \in Nat /\ room \in Nat /\ complete \in BOOLEAN
  BY BlockFields DEF CopyFromBlock, Touches, Available, IInv, TypeOK
<1>b. PICK q \in Seq(Block) : q = fifo
  BY <1>a
<1>c. /\ \A i \in 1 .. Len(q) - 1 : q[i + 1].off = q[i].off + q[i].len
      /\ IF cur = NULL THEN offset = 0 ELSE offset <= cur.len /\ cur.off + offset = out
      /\ IF q = <<>> THEN NextOff = taken
         ELSE q[1].off = NextOff /\ q[Len(q)].off + q[Len(q)].len = taken
  <2>1. \A i \in 1 .. Len(fifo) - 1 : fifo[i + 1].off = fifo[i].off + fifo[i].len
    BY <1>a DEF IInv, Chain
  <2>2. /\ IF cur = NULL THEN offset = 0 ELSE offset <= cur.len /\ cur.off + offset = out
        /\ IF fifo = <<>> THEN NextOff = taken
           ELSE fifo[1].off = NextOff /\ fifo[Len(fifo)].off + fifo[Len(fifo)].len = taken
    BY <1>a DEF IInv, Chain
  <2>3. QED
    BY <1>b, <2>1, <2>2
<1>e. /\ \A i \in 1 .. Len(q) : q[i].last => i = Len(q) /\ cloud \in {"last", "ended"}
      /\ cur # NULL /\ cur.last => q = <<>> /\ cloud \in {"last", "ended"}
  BY <1>b DEF IInv, LastBlocks
<1>d. q # <<>> => /\ Head(q) \in Block /\ Head(q) = q[1]
                  /\ Len(q) \in Nat /\ Len(q) >= 1
                  /\ Tail(q) \in Seq(Block) /\ Len(Tail(q)) = Len(q) - 1
                  /\ Tail(q) = <<>> <=> Len(q) = 1
                  /\ \A i \in 1 .. Len(q) - 1 : Tail(q)[i] = q[i + 1]
  BY TailFacts
<1>1. b \in Block /\ rest \in Seq(Block) /\ Held = Len(rest) + 1
  <2>1. Len(q) \in Nat
    OBVIOUS
  <2>2. QED
    BY <1>a, <1>b, <1>d, <2>1 DEF Held
<1>2. offset <= b.len /\ b.off + offset = out
  BY <1>a, <1>b, <1>c, <1>d, BlockFields DEF NextOff, IInv, TypeOK
<1>3. n \in Nat /\ n <= room /\ offset + n <= b.len
  <2>1. b.len - offset \in Nat /\ b.len \in Nat
    BY <1>a, <1>1, <1>2, BlockFields
  <2> HIDE DEF b
  <2>2. QED
    BY <1>a, <2>1, MinFacts
<1>4. /\ \A i \in 1 .. Len(rest) - 1 : rest[i + 1].off = rest[i].off + rest[i].len
      /\ IF rest = <<>> THEN b.off + b.len = taken
         ELSE /\ rest[1].off = b.off + b.len
              /\ rest[Len(rest)].off + rest[Len(rest)].len = taken
      /\ b.last => rest = <<>> /\ cloud \in {"last", "ended"}
      /\ \A i \in 1 .. Len(rest) :
           rest[i].last => i = Len(rest) /\ cloud \in {"last", "ended"}
  <2>1. CASE cur = NULL
    <3>1. q # <<>> /\ b = q[1] /\ rest = Tail(q)
      BY <1>a, <1>b, <1>d, <2>1
    <3> HIDE DEF b, rest
    <3>2. \A i \in 1 .. Len(rest) : i + 1 \in 1 .. Len(q) /\ rest[i] = q[i + 1]
      BY <1>d, <3>1
    <3>3. QED
      BY <1>c, <1>d, <1>e, <3>1, <3>2
  <2>2. CASE cur # NULL
    BY <1>b, <1>c, <1>e, <2>2 DEF NextOff
  <2>3. QED
    BY <2>1, <2>2
<1>5. /\ out' = out + n /\ room' = room - n
      /\ \/ /\ offset + n = b.len /\ offset' = 0 /\ pool' = pool + 1
            /\ cur' = HeadOrNull(rest) /\ fifo' = TailOrEmpty(rest)
            /\ complete' = (complete \/ b.last)
            /\ IF room = n \/ b.last THEN SendPacket(t, b.last)
                                     ELSE UNCHANGED <<unacked, final, pc>>
         \/ /\ cur' = b /\ fifo' = rest /\ offset' = offset + n
            /\ UNCHANGED <<pool, complete>>
            /\ IF room = n THEN SendPacket(t, FALSE)
                           ELSE UNCHANGED <<unacked, final, pc>>
  <2>1. b.last \in BOOLEAN
    BY <1>1, BlockFields
  <2> HIDE DEF b, rest, n
  <2>2. b = IF cur = NULL THEN Head(fifo) ELSE cur
    BY DEF b
  <2>3. rest = IF cur = NULL THEN Tail(fifo) ELSE fifo
    BY DEF rest
  <2>4. n = Min({room, b.len - offset})
    BY DEF n
  <2>5. CASE offset + n = b.len
    BY <1>a, <2>1, <2>2, <2>3, <2>4, <2>5
       DEF CopyFromBlock, BlockIsLast, BlockFree, SendPacket
  <2>6. CASE offset + n # b.len
    BY <1>a, <2>2, <2>3, <2>4, <2>6
       DEF CopyFromBlock, BlockIsLast, BlockFree, SendPacket
  <2>7. QED
    BY <2>5, <2>6
<1>g. /\ b.off + b.len <= taken
      /\ \A i \in 1 .. Len(rest) : rest[i].off + rest[i].len <= taken
  <2>0. /\ \A i \in 1 .. Len(q) : q[i].off + q[i].len <= taken
        /\ taken \in Nat /\ Len(q) \in Nat /\ (q = <<>> <=> Len(q) = 0)
    BY <1>b, EmptyLen DEF IInv, Bounded, TypeOK
  <2>1. CASE cur = NULL
    <3>1. q # <<>> /\ b = q[1] /\ rest = Tail(q)
      BY <1>a, <1>b, <1>d, <2>1
    <3> HIDE DEF b, rest
    <3>2. \A i \in 1 .. Len(rest) : i + 1 \in 1 .. Len(q) /\ rest[i] = q[i + 1]
      BY <1>d, <3>1
    <3>3. QED
      BY <1>d, <2>0, <3>1, <3>2
  <2>2. CASE cur # NULL
    <3>1. b = cur /\ rest = q
      BY <1>b, <2>2
    <3> HIDE DEF b, rest
    <3>2. CASE q = <<>>
      BY <1>c, <2>0, <2>2, <3>1, <3>2 DEF NextOff
    <3>3. CASE q # <<>>
      <4>1. q[1] \in Block /\ 1 \in 1 .. Len(q)
        BY <2>0, <3>3
      <4>2. PICK o \in Nat, l \in Nat : o = q[1].off /\ l = q[1].len
        BY <4>1, BlockFields
      <4>3. o + l <= taken
        BY <2>0, <4>1, <4>2
      <4>4. o <= taken
        BY <2>0, <4>3
      <4>5. QED
        BY <1>c, <2>0, <2>2, <3>1, <3>3, <4>2, <4>4 DEF NextOff
    <3>4. QED
      BY <3>2, <3>3
  <2>3. QED
    BY <2>1, <2>2
<1> HIDE DEF b, rest, n
<1>f. /\ Touches(t, "fill") /\ node_sender
      /\ UNCHANGED <<link, ctx, aborted, waiting, coap_error, others, source,
                     started, sched>>
  BY DEF CopyFromBlock
<1>6. Copied(t, b, rest, n)
  BY <1>f, <1>1, <1>2, <1>3, <1>4, <1>5, <1>g DEF Copied
<1>7. QED
  BY <1>6

(* What appending a block to the queue does. *)
LEMMA AppendFacts ==
  ASSUME NEW S, NEW q \in Seq(S), NEW e \in S
  PROVE  /\ Append(q, e) \in Seq(S) /\ Len(q) \in Nat /\ Len(Append(q, e)) = Len(q) + 1
         /\ Append(q, e) # <<>> /\ (q = <<>> <=> Len(q) = 0)
         /\ Append(q, e)[Len(q) + 1] = e
         /\ \A i \in 1 .. Len(q) : Append(q, e)[i] = q[i]
OBVIOUS

(* A turn of the loop returns a block to the pool when it drained it. *)
LEMMA CopiedHeld ==
  ASSUME NEW t, NEW b, NEW rest, NEW n, Copied(t, b, rest, n)
  PROVE  /\ cur' \in Block \cup {NULL} /\ fifo' \in Seq(Block)
         /\ Held' \in Nat
         /\ \/ pool' = pool /\ Held' = Held
            \/ pool' = pool + 1 /\ Held' = Held - 1
<1>1. /\ b \in Block /\ b # NULL /\ rest \in Seq(Block) /\ Len(rest) \in Nat
      /\ Held = Len(rest) + 1
  BY BlockFields DEF Copied
<1>2. CASE cur' = b /\ fifo' = rest /\ pool' = pool
  BY <1>1, <1>2 DEF Held
<1>3. CASE rest = <<>> /\ cur' = NULL /\ fifo' = <<>> /\ pool' = pool + 1
  BY <1>1, <1>3 DEF Held
<1>4. CASE rest # <<>> /\ cur' = Head(rest) /\ fifo' = Tail(rest) /\ pool' = pool + 1
  <2>1. cur' \in Block /\ cur' # NULL /\ fifo' \in Seq(Block) /\ Len(fifo') = Len(rest) - 1
    BY <1>1, <1>4, TailFacts, BlockFields
  <2>2. QED
    BY <1>1, <1>4, <2>1 DEF Held
<1>5. QED
  BY <1>2, <1>3, <1>4 DEF Copied, HeadOrNull, TailOrEmpty

(* A turn of the loop keeps the queue in order. *)
LEMMA CopiedQueue ==
  ASSUME IInv, NEW t, NEW b, NEW rest, NEW n, Copied(t, b, rest, n)
  PROVE  Chain' /\ LastBlocks' /\ Bounded'
<1>1. /\ b \in Block /\ b # NULL /\ rest \in Seq(Block) /\ n \in Nat
      /\ b.off \in Nat /\ b.len \in Nat /\ offset \in Nat /\ out \in Nat
      /\ taken' = taken /\ cloud' = cloud /\ out' = out + n
      /\ offset + n <= b.len /\ b.off + offset = out
  BY BlockFields DEF Copied, IInv, TypeOK, source
<1>2. /\ \A i \in 1 .. Len(rest) - 1 : rest[i + 1].off = rest[i].off + rest[i].len
      /\ IF rest = <<>> THEN b.off + b.len = taken
         ELSE /\ rest[1].off = b.off + b.len
              /\ rest[Len(rest)].off + rest[Len(rest)].len = taken
      /\ b.last => rest = <<>> /\ cloud \in {"last", "ended"}
      /\ \A i \in 1 .. Len(rest) :
           rest[i].last => i = Len(rest) /\ cloud \in {"last", "ended"}
      /\ \A i \in 1 .. Len(rest) : rest[i].off + rest[i].len <= taken
  BY DEF Copied
<1>3. CASE cur' = b /\ fifo' = rest /\ offset' = offset + n
  <2>1. offset' <= b.len /\ b.off + offset' = out'
    BY <1>1, <1>3
  <2>2. NextOff' = b.off + b.len
    BY <1>1, <1>3 DEF NextOff
  <2>3. QED
    BY <1>1, <1>2, <1>3, <2>1, <2>2 DEF Chain, LastBlocks, Bounded
<1>4. CASE /\ rest = <<>> /\ cur' = NULL /\ fifo' = <<>> /\ offset' = 0
           /\ offset + n = b.len
  <2>1. NextOff' = taken'
    BY <1>1, <1>2, <1>4 DEF NextOff
  <2>2. Len(fifo') = 0
    BY <1>4
  <2>3. QED
    BY <1>4, <2>1, <2>2 DEF Chain, LastBlocks, Bounded
<1>5. CASE /\ rest # <<>> /\ cur' = Head(rest) /\ fifo' = Tail(rest) /\ offset' = 0
           /\ offset + n = b.len
  <2>1. PICK r \in Seq(Block), q \in Seq(Block) : r = rest /\ q = Tail(rest)
    BY <1>1, <1>5, TailFacts
  <2>2. /\ Len(r) \in Nat /\ Len(r) >= 1 /\ Len(q) = Len(r) - 1
        /\ q = <<>> <=> Len(r) = 1
        /\ cur' = r[1] /\ cur' \in Block /\ cur' # NULL /\ fifo' = q
        /\ \A i \in 1 .. Len(r) - 1 : q[i] = r[i + 1]
    BY <1>1, <1>5, <2>1, TailFacts, BlockFields
  <2>3. /\ \A i \in 1 .. Len(r) - 1 : r[i + 1].off = r[i].off + r[i].len
        /\ r[1].off = b.off + b.len /\ r[Len(r)].off + r[Len(r)].len = taken
        /\ \A i \in 1 .. Len(r) :
             r[i].last => i = Len(r) /\ cloud \in {"last", "ended"}
    BY <1>2, <1>5, <2>1
  <2>4. \A i \in 1 .. Len(q) : i + 1 \in 1 .. Len(r) /\ q[i] = r[i + 1]
    BY <2>2
  <2>5. LastBlocks'
    <3>1. \A i \in 1 .. Len(q) :
            q[i].last => i = Len(q) /\ cloud \in {"last", "ended"}
      <4>1. SUFFICES ASSUME NEW i \in 1 .. Len(q), q[i].last
                     PROVE  i = Len(q) /\ cloud \in {"last", "ended"}
        OBVIOUS
      <4>2. i + 1 \in 1 .. Len(r) /\ r[i + 1].last
        BY <2>4, <4>1
      <4>3. i + 1 = Len(r) /\ cloud \in {"last", "ended"}
        BY <2>3, <4>2
      <4>4. QED
        BY <2>2, <4>3
    <3>2. r[1].last => q = <<>> /\ cloud \in {"last", "ended"}
      BY <2>2, <2>3
    <3>3. QED
      BY <1>1, <2>2, <3>1, <3>2 DEF LastBlocks
  <2>6. offset' <= cur'.len /\ cur'.off + offset' = out'
    <3>1. PICK o \in Nat, len \in Nat : o = r[1].off /\ len = r[1].len
      BY <2>2, BlockFields
    <3>2. PICK p \in Nat, m \in Nat, e \in Nat, x \in Nat, k \in Nat :
            p = b.off /\ m = b.len /\ e = offset /\ x = out /\ k = n
      BY <1>1
    <3>3. p + e = x /\ e + k = m /\ o = p + m
      BY <1>1, <1>5, <2>3, <3>1, <3>2
    <3>4. x + k = o
      BY <3>3
    <3>5. out' = o
      BY <1>1, <3>2, <3>4
    <3>6. offset' = 0 /\ cur'.off = o /\ cur'.len = len
      BY <1>5, <2>2, <3>1
    <3>7. QED
      BY <3>5, <3>6
  <2>7. \A i \in 1 .. Len(q) - 1 : q[i + 1].off = q[i].off + q[i].len
    BY <2>2, <2>3, <2>4
  <2>8. NextOff' = r[1].off + r[1].len
    BY <2>2 DEF NextOff
  <2>9. IF q = <<>> THEN NextOff' = taken
        ELSE q[1].off = NextOff' /\ q[Len(q)].off + q[Len(q)].len = taken
    BY <2>2, <2>3, <2>4, <2>8
  <2>10. \A i \in 1 .. Len(q) : q[i].off + q[i].len <= taken
    BY <1>2, <2>1, <2>4
  <2>11. QED
    BY <1>1, <2>2, <2>5, <2>6, <2>7, <2>9, <2>10 DEF Chain, Bounded
<1>6. QED
  BY <1>3, <1>4, <1>5 DEF Copied, HeadOrNull, TailOrEmpty

(* A turn of the loop sends the final packet only with the last byte of the*)
(* last block.                                                             *)
LEMMA CopiedEnds ==
  ASSUME IInv, NEW t \in Threads, NEW b, NEW rest, NEW n, Copied(t, b, rest, n)
  PROVE  Ends'
<1>1. /\ b.last \in BOOLEAN /\ b.off \in Nat /\ b.len \in Nat /\ n \in Nat
      /\ offset \in Nat /\ out \in Nat /\ unacked \in Nat
      /\ taken' = taken /\ cloud' = cloud /\ ctx' = ctx /\ out' = out + n
      /\ b.off + offset = out /\ ~final /\ ~complete
  BY BlockFields DEF Copied, IInv, TypeOK, source, Touches, At, Turns, Ends
<1>2. CASE complete' = TRUE /\ final' = TRUE /\ unacked' = unacked + 1
           /\ b.last /\ offset + n = b.len
  <2>1. b.off + b.len = taken /\ cloud \in {"last", "ended"}
    BY <1>2 DEF Copied
  <2>2. out' = taken' /\ Over'
    BY <1>1, <1>2, <2>1 DEF Over
  <2>3. unacked' > 0
    BY <1>1, <1>2
  <2>4. QED
    BY <1>2, <2>2, <2>3 DEF Ends
<1>3. CASE complete' = FALSE /\ final' = FALSE
  BY <1>3 DEF Ends
<1>4. QED
  BY <1>1, <1>2, <1>3 DEF Copied, SendPacket, IInv, TypeOK, Ends

(* Every flag stays a Boolean. *)
LEMMA BitsStep == IInv /\ [Next]_vars => Bits'
<1> SUFFICES ASSUME IInv, [Next]_vars PROVE Bits'
  OBVIOUS
<1> USE DEF At, Touches, Goto, Runs, CleanupDownlink, FreesOnAbort,
           CloseContext, KeepContext, BlockFree, SendPacket, link, flags, data,
           source, sender, Threads
<1>a. IInv
  OBVIOUS
<1>t. Bits
  BY DEF IInv, TypeOK, Bits
<1>1. CASE EndOk
  BY <1>t, <1>1 DEF EndOk, Bits
<1>2. CASE Peek
  BY <1>t, <1>2 DEF Peek, Bits
<1>3. CASE Wake
  BY <1>t, <1>3 DEF Wake, Bits
<1>4. CASE SetError
  BY <1>t, <1>4 DEF SetError, Bits
<1>5. CASE SeesSubscription \/ WakeSender
  BY <1>t, <1>5 DEF SeesSubscription, WakeSender, Bits
<1>6. CASE Nack
  BY <1>t, <1>6 DEF Nack, Bits
<1>7. CASE UNCHANGED vars
  BY <1>t, <1>7 DEF vars, Bits
<1>8. CASE Alloc \/ OthersTake \/ OthersReturn
  BY <1>t, <1>8 DEF Alloc, OthersTake, OthersReturn, Bits
<1>9. CASE Subscribe
  BY <1>t, <1>9 DEF Subscribe, Bits
<1>10. CASE SubscribeFails
  BY <1>t, <1>10 DEF SubscribeFails, Bits
<1>11. CASE SubscriptionEnds
  BY <1>t, <1>11 DEF SubscriptionEnds, Bits
<1>12. CASE Disconnect
  BY <1>t, <1>12 DEF Disconnect, Bits
<1>13. ASSUME NEW t \in Threads, BeginPacket(t)
      PROVE  Bits'
  BY <1>t, <1>13 DEF BeginPacket, Bits
<1>14. ASSUME NEW t \in Threads, StopSending(t)
      PROVE  Bits'
  BY <1>t, <1>14 DEF StopSending, Bits
<1>15. ASSUME NEW t \in Threads, ShortPacket(t)
      PROVE  Bits'
  BY <1>t, <1>15 DEF ShortPacket, Bits
<1>16. ASSUME NEW t \in Threads, AwaitData(t)
      PROVE  Bits'
  BY <1>t, <1>16 DEF AwaitData, Bits
<1>17. ASSUME NEW t \in Threads, EndAfterError(t)
      PROVE  Bits'
  BY <1>t, <1>17 DEF EndAfterError, Bits
<1>18. CASE Start
  BY <1>t, <1>18 DEF Start, Bits
<1>19. ASSUME NEW n \in 0 .. MaxBlock, NEW last \in BOOLEAN,
              BlockArrives(n, last)
      PROVE  Bits'
  BY <1>t, <1>19 DEF BlockArrives, Bits
<1>20. CASE EndError
  BY <1>t, <1>20 DEF EndError, Bits
<1>21. CASE PutBlock
  BY <1>t, <1>21 DEF PutBlock, Bits
<1>22. ASSUME NEW t \in Threads, CopyFromBlock(t)
      PROVE  Bits'
  BY <1>t, <1>22 DEF CopyFromBlock, Bits
<1>23. ASSUME NEW k \in 0 .. Window, Ack(k)
      PROVE  Bits'
  BY <1>t, <1>23 DEF Ack, Bits
<1>24. QED
  BY <1>1, <1>2, <1>3, <1>4, <1>5, <1>6, <1>7, <1>8, <1>9, <1>10, <1>11, <1>12,
     <1>13, <1>14, <1>15, <1>16, <1>17, <1>18, <1>19, <1>20, <1>21, <1>22,
     <1>23 DEF Next, Receive, ClientSteps, Sending, Acks

(* The states, the counters and the arriving block keep their types. A     *)
(* packet is sent only by a sender that found room in the window.          *)
LEMMA ValuesStep == IInv /\ [Next]_vars => Values'
<1> SUFFICES ASSUME IInv, [Next]_vars PROVE Values'
  OBVIOUS
<1> USE DEF At, Touches, Goto, Runs, CleanupDownlink, FreesOnAbort,
           CloseContext, KeepContext, BlockFree, SendPacket, link, flags, data,
           source, sender, Threads
<1>a. IInv
  OBVIOUS
<1>t. Values
  BY DEF IInv, TypeOK, Values
<1>b. /\ unacked + 0 \in 0 .. Window
      /\ \A t \in Threads : pc[t] = "fill" => unacked + 1 \in 0 .. Window
      /\ \A k \in 0 .. Window : k <= unacked => unacked - k \in 0 .. Window
  BY <1>a, BlockFields DEF IInv, TypeOK, Turns
<1>1. CASE \/ EndOk \/ Peek \/ Wake \/ SetError \/ SeesSubscription
           \/ WakeSender \/ Nack \/ UNCHANGED vars
  BY <1>t, <1>1 DEF EndOk, Peek, Wake, SetError, SeesSubscription, WakeSender,
     Nack, vars, Values
<1>2. CASE Alloc \/ OthersTake \/ OthersReturn
  BY <1>t, <1>2 DEF Alloc, OthersTake, OthersReturn, Values
<1>3. CASE Subscribe \/ SubscribeFails \/ SubscriptionEnds \/ Disconnect
  BY <1>t, <1>3 DEF Subscribe, SubscribeFails, SubscriptionEnds, Disconnect,
     Values
<1>4. ASSUME NEW t \in Threads, BeginPacket(t) \/ StopSending(t) \/
               AwaitData(t)
      PROVE  Values'
  BY <1>t, <1>4 DEF BeginPacket, StopSending, AwaitData, Values
<1>5. ASSUME NEW t \in Threads, ShortPacket(t)
      PROVE  Values'
  BY <1>a, <1>b, <1>5 DEF ShortPacket, IInv, TypeOK, Values
<1>6. ASSUME NEW t \in Threads, EndAfterError(t)
      PROVE  Values'
  BY <1>a, <1>b, <1>6 DEF EndAfterError, IInv, TypeOK, Values
<1>7. CASE Start
  BY <1>t, <1>7 DEF Start, Values
<1>8. ASSUME NEW n \in 0 .. MaxBlock, NEW last \in BOOLEAN,
             BlockArrives(n, last)
      PROVE  Values'
  BY <1>a, <1>8 DEF BlockArrives, IInv, Values, TypeOK, Turns, Arrives, Block
<1>9. CASE EndError
  BY <1>t, <1>9 DEF EndError, Values
<1>10. CASE PutBlock
  BY <1>a, <1>10 DEF PutBlock, IInv, Values, TypeOK, Turns, Arrives, Block
<1>11. ASSUME NEW t \in Threads, CopyFromBlock(t)
      PROVE  Values'
  <2>1. PICK b, rest, n : Copied(t, b, rest, n)
    BY <1>a, <1>11, CopyFacts
  <2>2. unacked' \in 0 .. Window /\ (pc' = pc \/ pc' = [pc EXCEPT ![t] = "send"])
    BY <1>a, <1>b, <2>1 DEF Copied, IInv, TypeOK
  <2>3. UNCHANGED <<sub, ctx, cloud, arriving, taken, sched>>
    BY <2>1 DEF Copied
  <2>4. QED
    BY <1>a, <2>2, <2>3 DEF IInv, TypeOK, Values
<1>12. ASSUME NEW k \in 0 .. Window, Ack(k)
      PROVE  Values'
  <2>1. unacked' \in 0 .. Window
    BY <1>b, <1>12 DEF Ack
  <2>2. QED
    BY <1>a, <1>12, <2>1 DEF Ack, IInv, TypeOK, Values
<1>13. QED
  BY <1>1, <1>2, <1>3, <1>4, <1>5, <1>6, <1>7, <1>8, <1>9, <1>10, <1>11, <1>12
     DEF Next, Receive, ClientSteps, Sending, Acks

(* The queue, the current block and the offsets keep their types. *)
LEMMA DataStep == IInv /\ [Next]_vars => Data'
<1> SUFFICES ASSUME IInv, [Next]_vars PROVE Data'
  OBVIOUS
<1> USE DEF At, Touches, Goto, CleanupDownlink, KeepContext, BlockFree,
           SendPacket, link, flags, data, source, sender, Threads
<1>a. IInv
  OBVIOUS
<1>t. Data
  BY DEF IInv, TypeOK, Data
<1>b. Held \in Nat /\ pool \in Nat /\ others \in Nat /\ PacketSize \in Nat
  BY HeldFacts, BlockFields DEF IInv
<1>c. CloseContext => /\ cur' = NULL /\ fifo' \in Seq(Block) /\ pool' \in Nat
                      /\ UNCHANGED <<offset, others>>
  BY HeldFacts DEF IInv
<1>1. CASE \/ EndOk \/ Peek \/ Wake \/ SetError \/ SeesSubscription
           \/ WakeSender \/ Nack \/ UNCHANGED vars
  BY <1>t, <1>1 DEF EndOk, Peek, Wake, SetError, SeesSubscription, WakeSender,
     Nack, vars, Data
<1>2. CASE Alloc \/ OthersTake \/ OthersReturn
  BY <1>t, <1>2 DEF Alloc, OthersTake, OthersReturn, Data
<1>3. CASE Subscribe
  BY <1>t, <1>3 DEF Subscribe, Data
<1>4. CASE SubscribeFails
  BY <1>a, <1>b, <1>c, <1>4 DEF SubscribeFails, IInv, TypeOK, Data
<1>5. CASE SubscriptionEnds
  BY <1>a, <1>b, <1>c, <1>5 DEF SubscriptionEnds, IInv, TypeOK, Data
<1>6. CASE Disconnect
  BY <1>a, <1>b, <1>c, <1>6 DEF Disconnect, IInv, TypeOK, Data
<1>7. ASSUME NEW t \in Threads, BeginPacket(t)
      PROVE  Data'
  BY <1>a, <1>b, <1>c, <1>7 DEF BeginPacket, IInv, TypeOK, Data
<1>8. ASSUME NEW t \in Threads, StopSending(t) \/ ShortPacket(t) \/
               AwaitData(t) \/ EndAfterError(t)
      PROVE  Data'
  BY <1>t, <1>8 DEF StopSending, ShortPacket, AwaitData, EndAfterError, Data
<1>9. CASE Start
  BY <1>t, <1>9 DEF Start, Data
<1>10. ASSUME NEW n \in 0 .. MaxBlock, NEW last \in BOOLEAN,
              BlockArrives(n, last)
      PROVE  Data'
  BY <1>t, <1>10 DEF BlockArrives, Data
<1>11. CASE EndError
  BY <1>a, <1>b, <1>c, <1>11 DEF EndError, IInv, TypeOK, Data
<1>12. CASE PutBlock
  BY <1>a, <1>12 DEF PutBlock, IInv, Data, TypeOK, Turns, Arrives, Block, Held
<1>13. ASSUME NEW t \in Threads, CopyFromBlock(t)
      PROVE  Data'
  <2>1. PICK b, rest, n : Copied(t, b, rest, n)
    BY <1>a, <1>13, CopyFacts
  <2>2. cur' \in Block \cup {NULL} /\ fifo' \in Seq(Block) /\ pool' \in Nat
    BY <1>b, <2>1, CopiedHeld
  <2>3. /\ n \in Nat /\ offset \in Nat /\ room \in 0 .. PacketSize /\ n <= room
        /\ out \in Nat /\ out' = out + n /\ room' = room - n
        /\ offset' = 0 \/ offset' = offset + n
        /\ others' = others
    BY <1>a, <2>1 DEF Copied, IInv, TypeOK
  <2>4. room' \in 0 .. PacketSize
    BY <1>b, <2>3
  <2>5. QED
    BY <1>b, <2>2, <2>3, <2>4 DEF Data
<1>14. ASSUME NEW k \in 0 .. Window, Ack(k)
      PROVE  Data'
  BY <1>a, <1>b, <1>c, <1>14 DEF Ack, IInv, TypeOK, Data
<1>15. QED
  BY <1>1, <1>2, <1>3, <1>4, <1>5, <1>6, <1>7, <1>8, <1>9, <1>10, <1>11, <1>12,
     <1>13, <1>14 DEF Next, Receive, ClientSteps, Sending, Acks

(* cleanup_downlink and pouch_gateway_downlink_start keep the pointers of  *)
(* the node in agreement with the context.                                 *)
LEMMA LinksStep == IInv /\ [Next]_vars => Links'
<1> SUFFICES ASSUME IInv, [Next]_vars PROVE Links'
  OBVIOUS
<1> USE DEF At, Touches, Goto, Runs, CleanupDownlink, FreesOnAbort,
           CloseContext, KeepContext, BlockFree, SendPacket, link, flags, data,
           source, sender, Threads
<1>a. IInv
  OBVIOUS
<1>1. CASE \/ EndOk \/ Peek \/ Wake \/ SetError \/ SeesSubscription
           \/ WakeSender \/ Nack \/ UNCHANGED vars
  BY <1>a, <1>1 DEF EndOk, Peek, Wake, SetError, SeesSubscription, WakeSender,
     Nack, vars, IInv, TypeOK, Links
<1>2. CASE Alloc \/ OthersTake \/ OthersReturn
  BY <1>a, <1>2 DEF Alloc, OthersTake, OthersReturn, IInv, TypeOK, Links
<1>3. CASE Subscribe \/ SubscribeFails \/ SubscriptionEnds \/ Disconnect
  BY <1>a, <1>3 DEF Subscribe, SubscribeFails, SubscriptionEnds, Disconnect,
     IInv, TypeOK, Links
<1>4. ASSUME NEW t \in Threads, BeginPacket(t) \/ StopSending(t) \/
               ShortPacket(t) \/ AwaitData(t) \/ EndAfterError(t)
      PROVE  Links'
  BY <1>a, <1>4 DEF BeginPacket, StopSending, ShortPacket, AwaitData,
     EndAfterError, IInv, TypeOK, Links
<1>5. CASE Start
  <2>1. PICK ok \in BOOLEAN : /\ node_ctx' = ok /\ node_sender' = ok /\ aborted' = ~ok
                             /\ ctx' = "open"
    BY <1>5 DEF Start
  <2>2. CASE ok
    BY <2>1, <2>2 DEF Links
  <2>3. CASE ~ok
    BY <2>1, <2>3 DEF Links
  <2>4. QED
    BY <2>2, <2>3
<1>6. ASSUME NEW n \in 0 .. MaxBlock, NEW last \in BOOLEAN,
             BlockArrives(n, last)
      PROVE  Links'
  BY <1>a, <1>6 DEF BlockArrives, IInv, TypeOK, Links
<1>7. CASE EndError
  BY <1>a, <1>7 DEF EndError, IInv, TypeOK, Links
<1>8. CASE PutBlock
  BY <1>a, <1>8 DEF PutBlock, IInv, TypeOK, Links
<1>9. ASSUME NEW t \in Threads, CopyFromBlock(t)
      PROVE  Links'
  BY <1>a, <1>9 DEF CopyFromBlock, IInv, TypeOK, Links
<1>10. ASSUME NEW k \in 0 .. Window, Ack(k)
      PROVE  Links'
  BY <1>a, <1>10 DEF Ack, IInv, TypeOK, Links
<1>11. QED
  BY <1>1, <1>2, <1>3, <1>4, <1>5, <1>6, <1>7, <1>8, <1>9, <1>10 DEF Next,
     Receive, ClientSteps, Sending, Acks

(* The two threads never run the sender at once, and a packet is being     *)
(* filled only while it may be sent.                                       *)
LEMMA TurnsStep == IInv /\ [Next]_vars => Turns'
<1> SUFFICES ASSUME IInv, [Next]_vars PROVE Turns'
  OBVIOUS
<1> USE DEF At, Touches, Goto, Runs, CleanupDownlink, FreesOnAbort,
           CloseContext, KeepContext, BlockFree, SendPacket, link, flags, data,
           source, sender, Threads
<1>a. IInv
  OBVIOUS
<1>1. CASE \/ EndOk \/ Peek \/ Wake \/ SetError \/ SeesSubscription
           \/ WakeSender \/ Nack \/ UNCHANGED vars
  BY <1>a, <1>1 DEF EndOk, Peek, Wake, SetError, SeesSubscription, WakeSender,
     Nack, vars, IInv, TypeOK, Turns, InSender
<1>2. CASE Alloc \/ OthersTake \/ OthersReturn
  BY <1>a, <1>2 DEF Alloc, OthersTake, OthersReturn, IInv, TypeOK, Turns,
     InSender
<1>3. CASE Subscribe \/ SubscribeFails \/ SubscriptionEnds \/ Disconnect
  BY <1>a, <1>3 DEF Subscribe, SubscribeFails, SubscriptionEnds, Disconnect,
     IInv, TypeOK, Turns, InSender
<1>4. ASSUME NEW t \in Threads, BeginPacket(t) \/ StopSending(t) \/
               ShortPacket(t) \/ AwaitData(t) \/ EndAfterError(t)
      PROVE  Turns'
  BY <1>a, <1>4 DEF BeginPacket, StopSending, ShortPacket, AwaitData,
     EndAfterError, IInv, TypeOK, Links, Turns, InSender, MaySend
<1>5. CASE Start
  BY <1>a, <1>5 DEF Start, IInv, TypeOK, Turns, InSender
<1>6. ASSUME NEW n \in 0 .. MaxBlock, NEW last \in BOOLEAN,
             BlockArrives(n, last)
      PROVE  Turns'
  BY <1>a, <1>6 DEF BlockArrives, IInv, TypeOK, Turns, InSender
<1>7. CASE EndError
  BY <1>a, <1>7 DEF EndError, IInv, TypeOK, Turns, InSender
<1>8. CASE PutBlock
  BY <1>a, <1>8 DEF PutBlock, IInv, TypeOK, Turns, InSender
<1>9. ASSUME NEW t \in Threads, CopyFromBlock(t)
      PROVE  Turns'
  BY <1>a, <1>9 DEF CopyFromBlock, IInv, TypeOK, Turns, InSender
<1>10. ASSUME NEW k \in 0 .. Window, Ack(k)
      PROVE  Turns'
  <2>1. pc["bt"] = "idle" /\ ~InSender("client")
    BY <1>10 DEF Ack, SenderFree, InSender
  <2>2. pc' = pc \/ pc' = [pc EXCEPT !["bt"] = "send"]
    BY <1>10 DEF Ack
  <2>3. QED
    BY <1>a, <2>1, <2>2 DEF IInv, TypeOK, Turns, InSender
<1>11. QED
  BY <1>1, <1>2, <1>3, <1>4, <1>5, <1>6, <1>7, <1>8, <1>9, <1>10 DEF Next,
     Receive, ClientSteps, Sending, Acks

(* block_cb holds the block that comes next, and an error ends the         *)
(* download.                                                               *)
LEMMA ArrivesStep == IInv /\ [Next]_vars => Arrives'
<1> SUFFICES ASSUME IInv, [Next]_vars PROVE Arrives'
  OBVIOUS
<1> USE DEF At, Touches, Goto, Runs, CleanupDownlink, FreesOnAbort,
           CloseContext, KeepContext, BlockFree, SendPacket, link, flags, data,
           source, sender, Threads
<1>a. IInv
  OBVIOUS
<1>1. CASE \/ EndOk \/ Peek \/ Wake \/ SetError \/ SeesSubscription
           \/ WakeSender \/ Nack \/ UNCHANGED vars
  BY <1>a, <1>1 DEF EndOk, Peek, Wake, SetError, SeesSubscription, WakeSender,
     Nack, vars, IInv, TypeOK, Arrives
<1>2. CASE Alloc \/ OthersTake \/ OthersReturn
  BY <1>a, <1>2 DEF Alloc, OthersTake, OthersReturn, IInv, TypeOK, Arrives
<1>3. CASE Subscribe \/ SubscribeFails \/ SubscriptionEnds \/ Disconnect
  BY <1>a, <1>3 DEF Subscribe, SubscribeFails, SubscriptionEnds, Disconnect,
     IInv, TypeOK, Arrives
<1>4. ASSUME NEW t \in Threads, BeginPacket(t) \/ StopSending(t) \/
               ShortPacket(t) \/ AwaitData(t) \/ EndAfterError(t)
      PROVE  Arrives'
  BY <1>a, <1>4 DEF BeginPacket, StopSending, ShortPacket, AwaitData,
     EndAfterError, IInv, TypeOK, Arrives
<1>5. CASE Start
  BY <1>a, <1>5 DEF Start, IInv, TypeOK, Links, Arrives
<1>6. ASSUME NEW n \in 0 .. MaxBlock, NEW last \in BOOLEAN,
             BlockArrives(n, last)
      PROVE  Arrives'
  <2>1. taken \in Nat /\ n \in Nat
    BY <1>a, DownlinkAssumption DEF IInv, TypeOK
  <2>0. n > 0 \/ last
    BY <1>6 DEF BlockArrives
  <2>2. CASE aborted
    BY <1>a, <1>6, <2>2 DEF BlockArrives, IInv, TypeOK, Links, Arrives
  <2>3. CASE ~aborted
    <3>1. arriving' = [off |-> taken, len |-> n, last |-> last]
      BY <1>6, <2>3 DEF BlockArrives
    <3>2. arriving' \in Block /\ arriving'.off = taken /\ arriving'.len = n
      <4>1. arriving'.off = taken /\ arriving'.len = n
        BY <3>1
      <4>2. [off |-> taken, len |-> n, last |-> last] \in Block
        BY <2>1, NewBlock
      <4>3. QED
        BY <3>1, <4>1, <4>2
    <3>3. last => arriving'.last
      BY <3>1, Zenon
    <3>4. QED
      BY <1>a, <1>6, <2>0, <2>3, <3>2, <3>3 DEF BlockArrives, IInv, TypeOK,
         Arrives
  <2>4. QED
    BY <2>2, <2>3
<1>7. CASE EndError
  BY <1>a, <1>7 DEF EndError, IInv, TypeOK, Arrives
<1>8. CASE PutBlock
  BY <1>a, <1>8 DEF PutBlock, IInv, TypeOK, Arrives
<1>9. ASSUME NEW t \in Threads, CopyFromBlock(t)
      PROVE  Arrives'
  BY <1>a, <1>9 DEF CopyFromBlock, IInv, TypeOK, Arrives
<1>10. ASSUME NEW k \in 0 .. Window, Ack(k)
      PROVE  Arrives'
  BY <1>a, <1>10 DEF Ack, IInv, TypeOK, Arrives
<1>11. QED
  BY <1>1, <1>2, <1>3, <1>4, <1>5, <1>6, <1>7, <1>8, <1>9, <1>10 DEF Next,
     Receive, ClientSteps, Sending, Acks

(* Every step moves blocks between the pool, the queue, the current block, *)
(* block_cb and the others, and loses none.                                *)
LEMMA PoolConservedStep == IInv /\ [Next]_vars => PoolConserved'
<1> SUFFICES ASSUME IInv, [Next]_vars PROVE PoolConserved'
  OBVIOUS
<1> USE DEF At, Touches, Goto, CleanupDownlink, KeepContext, BlockFree,
           SendPacket, link, flags, data, source, sender, Threads
<1>a. IInv
  OBVIOUS
<1>b. Held \in Nat /\ Len(fifo) \in Nat /\ pool \in Nat /\ others \in Nat /\ NumBlocks \in Nat
  BY HeldFacts, BlockFields DEF IInv
<1>c. CloseContext => pool' = pool + Held /\ Held' = 0 /\ others' = others
  BY HeldFacts DEF IInv
<1>d. UNCHANGED <<cur, fifo>> => Held' = Held
  BY DEF Held
<1>f. ASSUME others' = others, pool' \in Nat, Held' \in Nat, pool' + Held' = pool + Held,
             pc["client"]' = "put" <=> pc["client"] = "put"
      PROVE  PoolConserved'
  <2>1. PoolConserved
    BY <1>a DEF IInv
  <2>2. pool + others + Held = pool' + others' + Held'
    <3>1. PICK p \in Nat, h \in Nat : p = pool' /\ h = Held'
      BY <1>f
    <3>2. PICK q \in Nat, o \in Nat, g \in Nat : q = pool /\ o = others /\ g = Held
      BY <1>b
    <3>3. p + h = q + g
      BY <1>f, <3>1, <3>2
    <3>4. q + o + g = p + o + h
      BY <3>3
    <3>5. QED
      BY <1>f, <3>1, <3>2, <3>4
  <2>3. PoolConserved' <=>
          pool' + others' + Held' + (IF pc["client"]' = "put" THEN 1 ELSE 0)
            = NumBlocks
    BY DEF PoolConserved
  <2>4. QED
    BY <1>f, <2>1, <2>2, <2>3 DEF PoolConserved
<1>1. CASE \/ EndOk \/ Peek \/ Wake \/ SetError \/ SeesSubscription
           \/ WakeSender \/ Nack \/ UNCHANGED vars
  BY <1>a, <1>1 DEF EndOk, Peek, Wake, SetError, SeesSubscription, WakeSender,
     Nack, vars, IInv, TypeOK, PoolConserved, Held
<1>2. CASE Alloc
  BY <1>a, <1>b, <1>c, <1>d, <1>2 DEF Alloc, IInv, TypeOK, PoolConserved
<1>3. CASE OthersTake
  BY <1>a, <1>b, <1>c, <1>d, <1>3 DEF OthersTake, IInv, TypeOK, PoolConserved
<1>4. CASE OthersReturn
  BY <1>a, <1>b, <1>c, <1>d, <1>4 DEF OthersReturn, IInv, TypeOK, PoolConserved
<1>5. CASE Subscribe
  BY <1>a, <1>5 DEF Subscribe, IInv, TypeOK, PoolConserved, Held
<1>6. CASE SubscribeFails
  <2>1. CASE CloseContext
    <3>1. pool' \in Nat /\ Held' \in Nat /\ pool' + Held' = pool + Held
      BY <1>b, <1>c, <2>1
    <3>2. QED
      BY <1>a, <1>c, <1>f, <1>6, <2>1, <3>1 DEF SubscribeFails, IInv, TypeOK
  <2>2. CASE UNCHANGED data
    BY <1>a, <1>b, <1>d, <1>f, <1>6, <2>2 DEF SubscribeFails, IInv, TypeOK
  <2>3. QED
    BY <1>6, <2>1, <2>2 DEF SubscribeFails
<1>7. CASE SubscriptionEnds
  <2>1. CASE CloseContext
    <3>1. pool' \in Nat /\ Held' \in Nat /\ pool' + Held' = pool + Held
      BY <1>b, <1>c, <2>1
    <3>2. QED
      BY <1>a, <1>c, <1>f, <1>7, <2>1, <3>1 DEF SubscriptionEnds, IInv, TypeOK
  <2>2. CASE UNCHANGED data
    BY <1>a, <1>b, <1>d, <1>f, <1>7, <2>2 DEF SubscriptionEnds, IInv, TypeOK
  <2>3. QED
    BY <1>7, <2>1, <2>2 DEF SubscriptionEnds
<1>8. CASE Disconnect
  <2>1. CASE CloseContext
    <3>1. pool' \in Nat /\ Held' \in Nat /\ pool' + Held' = pool + Held
      BY <1>b, <1>c, <2>1
    <3>2. QED
      BY <1>a, <1>c, <1>f, <1>8, <2>1, <3>1 DEF Disconnect, IInv, TypeOK
  <2>2. CASE UNCHANGED data
    BY <1>a, <1>b, <1>d, <1>f, <1>8, <2>2 DEF Disconnect, IInv, TypeOK
  <2>3. QED
    BY <1>8, <2>1, <2>2 DEF Disconnect
<1>9. ASSUME NEW t \in Threads, BeginPacket(t) \/ StopSending(t) \/
               ShortPacket(t) \/ AwaitData(t) \/ EndAfterError(t)
      PROVE  PoolConserved'
  BY <1>a, <1>9 DEF BeginPacket, StopSending, ShortPacket, AwaitData,
     EndAfterError, IInv, TypeOK, PoolConserved, Held
<1>10. CASE Start
  BY <1>a, <1>10 DEF Start, IInv, TypeOK, PoolConserved, Held
<1>11. ASSUME NEW n \in 0 .. MaxBlock, NEW last \in BOOLEAN,
              BlockArrives(n, last)
      PROVE  PoolConserved'
  BY <1>a, <1>11 DEF BlockArrives, IInv, TypeOK, PoolConserved, Held
<1>12. CASE EndError
  BY <1>a, <1>b, <1>c, <1>d, <1>12 DEF EndError, IInv, TypeOK, PoolConserved
<1>13. CASE PutBlock
  <2>1. Len(fifo') = Len(fifo) + 1 /\ cur' = cur
    BY <1>a, <1>13, AppendFacts DEF PutBlock, IInv, TypeOK, Arrives
  <2>2. Held' = Held + 1
    BY <2>1, <1>b DEF Held
  <2>3. QED
    BY <1>a, <1>b, <1>13, <2>2 DEF PutBlock, IInv, TypeOK, PoolConserved
<1>14. ASSUME NEW t \in Threads, CopyFromBlock(t)
      PROVE  PoolConserved'
  <2>1. PICK b, rest, n : Copied(t, b, rest, n)
    BY <1>a, <1>14, CopyFacts
  <2>2. /\ Held' \in Nat
        /\ \/ pool' = pool /\ Held' = Held
           \/ pool' = pool + 1 /\ Held' = Held - 1
    BY <2>1, CopiedHeld
  <2>3. QED
    <3>1. pc[t] = "fill" /\ others' = others /\ (pc' = pc \/ pc' = [pc EXCEPT ![t] = "send"])
      BY <2>1 DEF Copied
    <3>2. pc["client"]' = "put" <=> pc["client"] = "put"
      BY <1>a, <3>1 DEF IInv, TypeOK
    <3>3. pool' \in Nat /\ Held' \in Nat /\ pool' + Held' = pool + Held
      BY <1>b, <2>2
    <3>4. QED
      BY <1>f, <3>1, <3>2, <3>3
<1>15. ASSUME NEW k \in 0 .. Window, Ack(k)
      PROVE  PoolConserved'
  <2>1. others' = others
    BY <1>15, <1>c DEF Ack
  <2>2. pc["client"]' = "put" <=> pc["client"] = "put"
    BY <1>a, <1>15 DEF Ack, IInv, TypeOK
  <2>3. pool' \in Nat /\ Held' \in Nat /\ pool' + Held' = pool + Held
    BY <1>15, <1>b, <1>c, <1>d DEF Ack
  <2>4. QED
    BY <1>f, <2>1, <2>2, <2>3
<1>16. QED
  BY <1>1, <1>2, <1>3, <1>4, <1>5, <1>6, <1>7, <1>8, <1>9, <1>10, <1>11, <1>12,
     <1>13, <1>14, <1>15 DEF Next, Receive, ClientSteps, Sending, Acks

(* Appending a block and draining one keep the chain of offsets. *)
LEMMA ChainStep == IInv /\ [Next]_vars => Chain'
<1> SUFFICES ASSUME IInv, [Next]_vars PROVE Chain'
  OBVIOUS
<1> USE DEF At, Touches, Goto, Runs, CleanupDownlink, FreesOnAbort,
           CloseContext, KeepContext, BlockFree, SendPacket, link, flags, data,
           source, sender, Threads
<1>a. IInv
  OBVIOUS
<1>1. CASE \/ EndOk \/ Peek \/ Wake \/ SetError \/ SeesSubscription
           \/ WakeSender \/ Nack \/ UNCHANGED vars
  BY <1>a, <1>1 DEF EndOk, Peek, Wake, SetError, SeesSubscription, WakeSender,
     Nack, vars, IInv, TypeOK, Chain, NextOff
<1>2. CASE Alloc \/ OthersTake \/ OthersReturn
  BY <1>a, <1>2 DEF Alloc, OthersTake, OthersReturn, IInv, TypeOK, Chain,
     NextOff
<1>3. CASE Subscribe \/ SubscribeFails \/ SubscriptionEnds \/ Disconnect
  BY <1>a, <1>3 DEF Subscribe, SubscribeFails, SubscriptionEnds, Disconnect,
     IInv, TypeOK, Chain, NextOff
<1>4. ASSUME NEW t \in Threads, BeginPacket(t) \/ StopSending(t) \/
               ShortPacket(t) \/ AwaitData(t) \/ EndAfterError(t)
      PROVE  Chain'
  BY <1>a, <1>4 DEF BeginPacket, StopSending, ShortPacket, AwaitData,
     EndAfterError, IInv, TypeOK, Chain, NextOff
<1>5. CASE Start
  BY <1>a, <1>5 DEF Start, IInv, TypeOK, Chain, NextOff
<1>6. ASSUME NEW n \in 0 .. MaxBlock, NEW last \in BOOLEAN,
             BlockArrives(n, last)
      PROVE  Chain'
  BY <1>a, <1>6 DEF BlockArrives, IInv, TypeOK, Chain, NextOff
<1>7. CASE EndError
  BY <1>a, <1>7 DEF EndError, IInv, TypeOK, Chain, NextOff
<1>8. CASE PutBlock
  BY <1>a, <1>8 DEF PutBlock, IInv, TypeOK, Links, Arrives, Chain, NextOff
<1>9. ASSUME NEW t \in Threads, CopyFromBlock(t)
      PROVE  Chain'
  BY <1>a, <1>9, CopyFacts, CopiedQueue
<1>10. ASSUME NEW k \in 0 .. Window, Ack(k)
      PROVE  Chain'
  BY <1>a, <1>10 DEF Ack, IInv, TypeOK, Chain, NextOff
<1>11. QED
  BY <1>1, <1>2, <1>3, <1>4, <1>5, <1>6, <1>7, <1>8, <1>9, <1>10 DEF Next,
     Receive, ClientSteps, Sending, Acks

(* No queued block reaches past what was put. *)
LEMMA BoundedStep == IInv /\ [Next]_vars => Bounded'
<1> SUFFICES ASSUME IInv, [Next]_vars PROVE Bounded'
  OBVIOUS
<1> USE DEF At, Touches, Goto, Runs, CleanupDownlink, FreesOnAbort,
           CloseContext, KeepContext, BlockFree, SendPacket, link, flags, data,
           source, sender, Threads
<1>a. IInv
  OBVIOUS
<1>1. CASE \/ EndOk \/ Peek \/ Wake \/ SetError \/ SeesSubscription
           \/ WakeSender \/ Nack \/ UNCHANGED vars
  BY <1>a, <1>1 DEF EndOk, Peek, Wake, SetError, SeesSubscription, WakeSender,
     Nack, vars, IInv, TypeOK, Bounded
<1>2. CASE Alloc \/ OthersTake \/ OthersReturn
  BY <1>a, <1>2 DEF Alloc, OthersTake, OthersReturn, IInv, TypeOK, Bounded
<1>3. CASE Subscribe \/ SubscribeFails \/ SubscriptionEnds \/ Disconnect
  BY <1>a, <1>3 DEF Subscribe, SubscribeFails, SubscriptionEnds, Disconnect,
     IInv, TypeOK, Bounded
<1>4. ASSUME NEW t \in Threads, BeginPacket(t) \/ StopSending(t) \/
               ShortPacket(t) \/ AwaitData(t) \/ EndAfterError(t)
      PROVE  Bounded'
  BY <1>a, <1>4 DEF BeginPacket, StopSending, ShortPacket, AwaitData,
     EndAfterError, IInv, TypeOK, Bounded
<1>5. CASE Start
  BY <1>a, <1>5 DEF Start, IInv, TypeOK, Bounded
<1>6. ASSUME NEW n \in 0 .. MaxBlock, NEW last \in BOOLEAN,
             BlockArrives(n, last)
      PROVE  Bounded'
  BY <1>a, <1>6 DEF BlockArrives, IInv, TypeOK, Bounded
<1>7. CASE EndError
  BY <1>a, <1>7 DEF EndError, IInv, TypeOK, Bounded
<1>8. CASE PutBlock
  <2>1. PICK q \in Seq(Block), e \in Block : q = fifo /\ e = arriving
    BY <1>a, <1>8 DEF PutBlock, IInv, TypeOK, Arrives
  <2>2. PICK m \in Nat, l \in Nat, o \in Nat : m = taken /\ l = e.len /\ o = e.off
    BY <1>a, BlockFields DEF IInv, TypeOK
  <2>3. /\ fifo' = Append(q, e) /\ Len(fifo') = Len(q) + 1 /\ Len(q) \in Nat
        /\ fifo'[Len(q) + 1] = e /\ \A i \in 1 .. Len(q) : fifo'[i] = q[i]
    BY <1>8, <2>1, AppendFacts DEF PutBlock
  <2>4. taken' = m + l /\ o = m
    BY <1>a, <1>8, <2>1, <2>2 DEF PutBlock, IInv, Arrives
  <2>5. \A i \in 1 .. Len(q) : q[i].off + q[i].len <= m + l
    <3>1. SUFFICES ASSUME NEW i \in 1 .. Len(q) PROVE q[i].off + q[i].len <= m + l
      OBVIOUS
    <3>2. q[i].off + q[i].len <= m /\ q[i] \in Block
      BY <1>a, <2>1, <2>2 DEF IInv, Bounded
    <3>3. q[i].off + q[i].len \in Nat
      BY <3>2, BlockFields
    <3>4. QED
      BY <3>2, <3>3
  <2>6. fifo'[Len(q) + 1].off + fifo'[Len(q) + 1].len <= taken'
    BY <2>1, <2>2, <2>3, <2>4
  <2>7. \A i \in 1 .. Len(fifo') : i \in 1 .. Len(q) \/ i = Len(q) + 1
    BY <2>3
  <2>8. QED
    BY <2>3, <2>4, <2>5, <2>6, <2>7 DEF Bounded
<1>9. ASSUME NEW t \in Threads, CopyFromBlock(t)
      PROVE  Bounded'
  BY <1>a, <1>9, CopyFacts, CopiedQueue
<1>10. ASSUME NEW k \in 0 .. Window, Ack(k)
      PROVE  Bounded'
  BY <1>a, <1>10 DEF Ack, IInv, TypeOK, Bounded
<1>11. QED
  BY <1>1, <1>2, <1>3, <1>4, <1>5, <1>6, <1>7, <1>8, <1>9, <1>10 DEF Next,
     Receive, ClientSteps, Sending, Acks

(* The last block stays the last one of the queue. *)
LEMMA LastBlocksStep == IInv /\ [Next]_vars => LastBlocks'
<1> SUFFICES ASSUME IInv, [Next]_vars PROVE LastBlocks'
  OBVIOUS
<1> USE DEF At, Touches, Goto, Runs, CleanupDownlink, FreesOnAbort,
           CloseContext, KeepContext, BlockFree, SendPacket, link, flags, data,
           source, sender, Threads
<1>a. IInv
  OBVIOUS
<1>1. CASE \/ EndOk \/ Peek \/ Wake \/ SetError \/ SeesSubscription
           \/ WakeSender \/ Nack \/ UNCHANGED vars
  BY <1>a, <1>1 DEF EndOk, Peek, Wake, SetError, SeesSubscription, WakeSender,
     Nack, vars, IInv, TypeOK, LastBlocks
<1>2. CASE Alloc \/ OthersTake \/ OthersReturn
  BY <1>a, <1>2 DEF Alloc, OthersTake, OthersReturn, IInv, TypeOK, Links,
     Arrives, LastBlocks
<1>3. CASE Subscribe \/ SubscribeFails \/ SubscriptionEnds \/ Disconnect
  BY <1>a, <1>3 DEF Subscribe, SubscribeFails, SubscriptionEnds, Disconnect,
     IInv, TypeOK, LastBlocks
<1>4. ASSUME NEW t \in Threads, BeginPacket(t) \/ StopSending(t) \/
               ShortPacket(t) \/ AwaitData(t) \/ EndAfterError(t)
      PROVE  LastBlocks'
  BY <1>a, <1>4 DEF BeginPacket, StopSending, ShortPacket, AwaitData,
     EndAfterError, IInv, TypeOK, LastBlocks
<1>5. CASE Start
  BY <1>a, <1>5 DEF Start, IInv, TypeOK, Links, Arrives, LastBlocks
<1>6. ASSUME NEW n \in 0 .. MaxBlock, NEW last \in BOOLEAN,
             BlockArrives(n, last)
      PROVE  LastBlocks'
  BY <1>a, <1>6 DEF BlockArrives, IInv, TypeOK, LastBlocks
<1>7. CASE EndError
  BY <1>a, <1>7 DEF EndError, IInv, TypeOK, LastBlocks
<1>8. CASE PutBlock
  BY <1>a, <1>8 DEF PutBlock, IInv, TypeOK, Links, Arrives, LastBlocks
<1>9. ASSUME NEW t \in Threads, CopyFromBlock(t)
      PROVE  LastBlocks'
  BY <1>a, <1>9, CopyFacts, CopiedQueue
<1>10. ASSUME NEW k \in 0 .. Window, Ack(k)
      PROVE  LastBlocks'
  BY <1>a, <1>10 DEF Ack, IInv, TypeOK, LastBlocks
<1>11. QED
  BY <1>1, <1>2, <1>3, <1>4, <1>5, <1>6, <1>7, <1>8, <1>9, <1>10 DEF Next,
     Receive, ClientSteps, Sending, Acks

(* A final packet is sent only after the last byte. *)
LEMMA EndsStep == IInv /\ [Next]_vars => Ends'
<1> SUFFICES ASSUME IInv, [Next]_vars PROVE Ends'
  OBVIOUS
<1> USE DEF At, Touches, Goto, Runs, CleanupDownlink, FreesOnAbort,
           CloseContext, KeepContext, BlockFree, SendPacket, link, flags, data,
           source, sender, Threads
<1>a. IInv
  OBVIOUS
<1>1. CASE \/ EndOk \/ Peek \/ Wake \/ SetError \/ SeesSubscription
           \/ WakeSender \/ Nack \/ UNCHANGED vars
  BY <1>a, <1>1 DEF EndOk, Peek, Wake, SetError, SeesSubscription, WakeSender,
     Nack, vars, IInv, TypeOK, Ends, Over
<1>2. CASE Alloc \/ OthersTake \/ OthersReturn
  BY <1>a, <1>2 DEF Alloc, OthersTake, OthersReturn, IInv, TypeOK, Links,
     Turns, Arrives, Ends, Over, InSender, Chain, NextOff, LastBlocks
<1>3. CASE Subscribe \/ SubscribeFails \/ SubscriptionEnds \/ Disconnect
  BY <1>a, <1>3 DEF Subscribe, SubscribeFails, SubscriptionEnds, Disconnect,
     IInv, TypeOK, Ends, Over
<1>4. ASSUME NEW t \in Threads, BeginPacket(t)
      PROVE  Ends'
  BY <1>a, <1>4 DEF BeginPacket, IInv, TypeOK, Ends, Over
<1>5. ASSUME NEW t \in Threads, StopSending(t)
      PROVE  Ends'
  BY <1>a, <1>5 DEF StopSending, IInv, TypeOK, Ends, Over
<1>6. ASSUME NEW t \in Threads, ShortPacket(t)
      PROVE  Ends'
  BY <1>a, <1>6 DEF ShortPacket, IInv, TypeOK, Links, Turns, Arrives, Ends,
     Over, InSender, Chain, NextOff, LastBlocks
<1>7. ASSUME NEW t \in Threads, AwaitData(t)
      PROVE  Ends'
  BY <1>a, <1>7 DEF AwaitData, IInv, TypeOK, Ends, Over
<1>8. ASSUME NEW t \in Threads, EndAfterError(t)
      PROVE  Ends'
  <2>1. /\ final' = TRUE /\ complete' = TRUE /\ unacked' = unacked + 1
        /\ UNCHANGED <<ctx, cloud, out, taken>>
    BY <1>8 DEF EndAfterError
  <2>2. cloud = "failed" /\ out = taken /\ unacked \in Nat
    BY <1>a, <1>8, BlockFields DEF EndAfterError, Available, IInv, TypeOK,
       Arrives, Chain, NextOff
  <2>3. unacked' > 0
    BY <2>1, <2>2
  <2>4. QED
    BY <2>1, <2>2, <2>3 DEF Ends, Over
<1>9. CASE Start
  BY <1>a, <1>9 DEF Start, IInv, TypeOK, Links, Turns, Arrives, Ends, Over,
     InSender, Chain, NextOff, LastBlocks
<1>10. ASSUME NEW n \in 0 .. MaxBlock, NEW last \in BOOLEAN,
              BlockArrives(n, last)
      PROVE  Ends'
  BY <1>a, <1>10 DEF BlockArrives, IInv, TypeOK, Ends, Over
<1>11. CASE EndError
  BY <1>a, <1>11 DEF EndError, IInv, TypeOK, Ends, Over
<1>12. CASE PutBlock
  BY <1>a, <1>12 DEF PutBlock, IInv, TypeOK, Links, Turns, Arrives, Ends, Over,
     InSender, Chain, NextOff, LastBlocks
<1>13. ASSUME NEW t \in Threads, CopyFromBlock(t)
      PROVE  Ends'
  <2>1. PICK b, rest, n : Copied(t, b, rest, n)
    BY <1>a, <1>13, CopyFacts
  <2>2. QED
    BY <1>a, <2>1, CopiedEnds
<1>14. ASSUME NEW k \in 0 .. Window, Ack(k)
      PROVE  Ends'
  BY <1>a, <1>14 DEF Ack, IInv, TypeOK, Ends, Over
<1>15. QED
  BY <1>1, <1>2, <1>3, <1>4, <1>5, <1>6, <1>7, <1>8, <1>9, <1>10, <1>11, <1>12,
     <1>13, <1>14 DEF Next, Receive, ClientSteps, Sending, Acks

(* A subscription without a sender is never kicked. *)
LEMMA WokenStep == IInv /\ [Next]_vars => Woken'
<1> SUFFICES ASSUME IInv, [Next]_vars PROVE Woken'
  OBVIOUS
<1> USE DEF At, Touches, Goto, Runs, CleanupDownlink, FreesOnAbort,
           CloseContext, KeepContext, BlockFree, SendPacket, link, flags, data,
           source, sender, Threads
<1>a. IInv
  OBVIOUS
<1>1. CASE \/ EndOk \/ Peek \/ Wake \/ SetError \/ SeesSubscription
           \/ WakeSender \/ Nack \/ UNCHANGED vars
  BY <1>a, <1>1 DEF EndOk, Peek, Wake, SetError, SeesSubscription, WakeSender,
     Nack, vars, IInv, TypeOK, Woken, Orphaned
<1>2. CASE Alloc \/ OthersTake \/ OthersReturn
  BY <1>a, <1>2 DEF Alloc, OthersTake, OthersReturn, IInv, TypeOK, Woken,
     Orphaned
<1>3. CASE Subscribe \/ SubscribeFails \/ SubscriptionEnds \/ Disconnect
  BY <1>a, <1>3 DEF Subscribe, SubscribeFails, SubscriptionEnds, Disconnect,
     IInv, TypeOK, Woken, Orphaned
<1>4. ASSUME NEW t \in Threads, BeginPacket(t) \/ StopSending(t) \/
               ShortPacket(t) \/ AwaitData(t) \/ EndAfterError(t)
      PROVE  Woken'
  BY <1>a, <1>4 DEF BeginPacket, StopSending, ShortPacket, AwaitData,
     EndAfterError, IInv, TypeOK, Woken, Orphaned
<1>5. CASE Start
  BY <1>a, <1>5 DEF Start, IInv, TypeOK, Links, Turns, Woken, Orphaned,
     InSender, ValueIsZero
<1>6. ASSUME NEW n \in 0 .. MaxBlock, NEW last \in BOOLEAN,
             BlockArrives(n, last)
      PROVE  Woken'
  BY <1>a, <1>6 DEF BlockArrives, IInv, TypeOK, Links, Turns, Woken, Orphaned,
     InSender, ValueIsZero
<1>7. CASE EndError
  BY <1>a, <1>7 DEF EndError, IInv, TypeOK, Links, Turns, Woken, Orphaned,
     InSender, ValueIsZero
<1>8. CASE PutBlock
  BY <1>a, <1>8 DEF PutBlock, IInv, TypeOK, Woken, Orphaned
<1>9. ASSUME NEW t \in Threads, CopyFromBlock(t)
      PROVE  Woken'
  BY <1>a, <1>9 DEF CopyFromBlock, IInv, TypeOK, Woken, Orphaned
<1>10. ASSUME NEW k \in 0 .. Window, Ack(k)
      PROVE  Woken'
  BY <1>a, <1>10 DEF Ack, IInv, TypeOK, Woken, Orphaned
<1>11. QED
  BY <1>1, <1>2, <1>3, <1>4, <1>5, <1>6, <1>7, <1>8, <1>9, <1>10 DEF Next,
     Receive, ClientSteps, Sending, Acks

(* A sender that stops leaves the waiting flag behind, or the client thread*)
(* is on its way to look at it.                                            *)
LEMMA WakesStep == IInv /\ [Next]_vars => Wakes'
<1> SUFFICES ASSUME IInv, [Next]_vars PROVE Wakes'
  OBVIOUS
<1> USE DEF At, Touches, Goto, Runs, CleanupDownlink, FreesOnAbort,
           CloseContext, KeepContext, BlockFree, SendPacket, link, flags, data,
           source, sender, Threads
<1>a. IInv
  OBVIOUS
<1>1. CASE \/ EndOk \/ Peek \/ Wake \/ SetError \/ SeesSubscription
           \/ WakeSender \/ Nack \/ UNCHANGED vars
  BY <1>a, <1>1 DEF EndOk, Peek, Wake, SetError, SeesSubscription, WakeSender,
     Nack, vars, IInv, TypeOK, Wakes, Asleep, InSender
<1>2. CASE Alloc \/ OthersTake \/ OthersReturn
  BY <1>a, <1>2 DEF Alloc, OthersTake, OthersReturn, IInv, TypeOK, Wakes,
     Asleep, InSender
<1>3. CASE Subscribe \/ SubscribeFails \/ SubscriptionEnds \/ Disconnect
  BY <1>a, <1>3 DEF Subscribe, SubscribeFails, SubscriptionEnds, Disconnect,
     IInv, TypeOK, Wakes, Asleep, InSender
<1>4. ASSUME NEW t \in Threads, BeginPacket(t) \/ StopSending(t) \/
               ShortPacket(t) \/ AwaitData(t) \/ EndAfterError(t)
      PROVE  Wakes'
  BY <1>a, <1>4 DEF BeginPacket, StopSending, ShortPacket, AwaitData,
     EndAfterError, IInv, TypeOK, Wakes, Asleep, InSender, Links, Turns, Woken,
     Orphaned, ValueIsZero, MaySend, Available, Ends
<1>5. CASE Start
  BY <1>a, <1>5 DEF Start, IInv, TypeOK, Links, Turns, Woken, Orphaned, Wakes,
     Asleep, InSender, ValueIsZero, MaySend, Available, Ends
<1>6. ASSUME NEW n \in 0 .. MaxBlock, NEW last \in BOOLEAN,
             BlockArrives(n, last)
      PROVE  Wakes'
  BY <1>a, <1>6 DEF BlockArrives, IInv, TypeOK, Wakes, Asleep, InSender
<1>7. CASE EndError
  BY <1>a, <1>7 DEF EndError, IInv, TypeOK, Wakes, Asleep, InSender
<1>8. CASE PutBlock
  BY <1>a, <1>8 DEF PutBlock, IInv, TypeOK, Wakes, Asleep, InSender
<1>9. ASSUME NEW t \in Threads, CopyFromBlock(t)
      PROVE  Wakes'
  BY <1>a, <1>9 DEF CopyFromBlock, IInv, TypeOK, Wakes, Asleep, InSender
<1>10. ASSUME NEW k \in 0 .. Window, Ack(k)
      PROVE  Wakes'
  BY <1>a, <1>10 DEF Ack, IInv, TypeOK, Wakes, Asleep, InSender
<1>11. QED
  BY <1>1, <1>2, <1>3, <1>4, <1>5, <1>6, <1>7, <1>8, <1>9, <1>10 DEF Next,
     Receive, ClientSteps, Sending, Acks

(* A context is freed only between callbacks, when handlers do not         *)
(* interleave.                                                             *)
LEMMA SerialFreeStep == IInv /\ [Next]_vars => SerialFree'
<1> SUFFICES ASSUME IInv, [Next]_vars PROVE SerialFree'
  OBVIOUS
<1> USE DEF At, Touches, Goto, Runs, CleanupDownlink, FreesOnAbort,
           CloseContext, KeepContext, BlockFree, SendPacket, link, flags, data,
           source, sender, Threads
<1>a. IInv
  OBVIOUS
<1>1. CASE \/ EndOk \/ Peek \/ Wake \/ SetError \/ SeesSubscription
           \/ WakeSender \/ Nack \/ UNCHANGED vars
  BY <1>a, <1>1 DEF EndOk, Peek, Wake, SetError, SeesSubscription, WakeSender,
     Nack, vars, IInv, TypeOK, SerialFree, Over, Woken, Orphaned, ValueIsZero
<1>2. CASE Alloc \/ OthersTake \/ OthersReturn
  BY <1>a, <1>2 DEF Alloc, OthersTake, OthersReturn, IInv, TypeOK, SerialFree,
     Over
<1>3. CASE Subscribe \/ SubscribeFails \/ SubscriptionEnds \/ Disconnect
  BY <1>a, <1>3 DEF Subscribe, SubscribeFails, SubscriptionEnds, Disconnect,
     IInv, TypeOK, SerialFree, Over, Links, Turns, Arrives, Ends, InSender
<1>4. ASSUME NEW t \in Threads, BeginPacket(t) \/ StopSending(t) \/
               ShortPacket(t) \/ AwaitData(t) \/ EndAfterError(t)
      PROVE  SerialFree'
  BY <1>a, <1>4 DEF BeginPacket, StopSending, ShortPacket, AwaitData,
     EndAfterError, IInv, TypeOK, SerialFree, Over
<1>5. CASE Start
  BY <1>a, <1>5 DEF Start, IInv, TypeOK, SerialFree, Over
<1>6. ASSUME NEW n \in 0 .. MaxBlock, NEW last \in BOOLEAN,
             BlockArrives(n, last)
      PROVE  SerialFree'
  BY <1>a, <1>6 DEF BlockArrives, IInv, TypeOK, SerialFree, Over
<1>7. CASE EndError
  BY <1>a, <1>7 DEF EndError, IInv, TypeOK, SerialFree, Over
<1>8. CASE PutBlock
  BY <1>a, <1>8 DEF PutBlock, IInv, TypeOK, SerialFree, Over
<1>9. ASSUME NEW t \in Threads, CopyFromBlock(t)
      PROVE  SerialFree'
  BY <1>a, <1>9 DEF CopyFromBlock, IInv, TypeOK, SerialFree, Over
<1>10. ASSUME NEW k \in 0 .. Window, Ack(k)
      PROVE  SerialFree'
  BY <1>a, <1>10 DEF Ack, IInv, TypeOK, Links, Turns, Arrives, Ends, Over,
     SerialFree, InSender
<1>11. QED
  BY <1>1, <1>2, <1>3, <1>4, <1>5, <1>6, <1>7, <1>8, <1>9, <1>10 DEF Next,
     Receive, ClientSteps, Sending, Acks

-----------------------------------------------------------------------------
(* The invariant holds before the downlink is started. *)
LEMMA InitInv == Init => IInv
<1> SUFFICES ASSUME Init PROVE IInv
  OBVIOUS
<1>1. /\ NumBlocks \in Nat \ {0} /\ PacketSize \in Nat \ {0}
      /\ Window \in Nat \ {0} /\ <<>> \in Seq(Block) /\ Len(<<>>) = 0
  BY DownlinkAssumption
<1>2. TypeOK
  <2>1. Bits
    BY DEF Init, Bits
  <2>2. Values
    BY <1>1 DEF Init, Values, Threads
  <2>3. Data /\ pool \in 0 .. NumBlocks /\ others \in 0 .. NumBlocks
    BY <1>1 DEF Init, Data
  <2>4. QED
    BY <2>1, <2>2, <2>3 DEF Bits, Values, Data, TypeOK
<1>3. Links /\ Turns /\ Arrives /\ Woken /\ Wakes /\ SerialFree
  BY DEF Init, Links, Turns, Arrives, Woken, Orphaned, Wakes, Asleep,
     SerialFree, InSender, Threads
<1>4. PoolConserved
  BY <1>1 DEF Init, PoolConserved, Held, Threads
<1>5. Chain /\ Bounded /\ LastBlocks
  <2>1. \A i : i \notin 1 .. 0 /\ i \notin 1 .. 0 - 1
    OBVIOUS
  <2>2. cur = NULL /\ offset = 0 /\ fifo = <<>> /\ Len(fifo) = 0 /\ out = 0 /\ taken = 0
    BY <1>1 DEF Init
  <2>3. QED
    BY <2>1, <2>2 DEF Chain, Bounded, LastBlocks, NextOff
<1>6. Ends
  BY DEF Init, Ends
<1>7. QED
  BY <1>2, <1>3, <1>4, <1>5, <1>6 DEF IInv

(* The types follow from their three parts and the conservation of blocks. *)
LEMMA TypeStep == IInv /\ [Next]_vars => TypeOK'
<1> SUFFICES ASSUME IInv, [Next]_vars PROVE TypeOK'
  OBVIOUS
<1>1. Bits' /\ Values' /\ Data' /\ PoolConserved'
  BY BitsStep, ValuesStep, DataStep, PoolConservedStep
<1>2. PICK p \in Nat, o \in Nat, h \in Nat :
        p = pool' /\ o = others' /\ h = Held'
  <2>1. Held' \in Nat
    <3>1. Len(fifo') \in Nat
      BY <1>1 DEF Data
    <3>2. QED
      BY <3>1 DEF Held
  <2>2. QED
    BY <1>1, <2>1 DEF Data
<1>3. PICK c \in {0, 1} : p + o + h + c = NumBlocks
  <2>1. PICK c \in {0, 1} : c = IF pc'["client"] = "put" THEN 1 ELSE 0
    OBVIOUS
  <2>2. QED
    BY <1>1, <1>2, <2>1 DEF PoolConserved
<1>4. p \in 0 .. NumBlocks /\ o \in 0 .. NumBlocks
  BY <1>3, BlockFields
<1>5. QED
  BY <1>1, <1>2, <1>4 DEF Bits, Values, Data, TypeOK

(* Every step preserves the invariant. *)
LEMMA NextInv == IInv /\ [Next]_vars => IInv'
BY TypeStep, LinksStep, TurnsStep, ArrivesStep, PoolConservedStep, ChainStep,
   BoundedStep, LastBlocksStep, EndsStep, WokenStep, WakesStep, SerialFreeStep
   DEF IInv

(* The invariant holds in every state the code can reach. *)
THEOREM Inductive == Spec => []IInv
BY InitInv, NextInv, PTL DEF Spec

(* The variables keep their types, and no count of blocks exceeds the pool. *)
THEOREM TypeCorrect == Spec => []TypeOK
<1>1. IInv => TypeOK
  BY DEF IInv
<1>2. QED
  BY <1>1, Inductive, PTL

(* No block of block_slab is lost or freed twice, however the two threads  *)
(* interleave and whatever the pool's size.                                *)
THEOREM BlocksConserved == Spec => []PoolConserved
<1>1. IInv => PoolConserved
  BY DEF IInv
<1>2. QED
  BY <1>1, Inductive, PTL

(* The node is told that the download is over only when it has all of it. *)
THEOREM EndIsEnd == Spec => []FinalIsEnd
<1>1. IInv => FinalIsEnd
  BY DEF IInv, Ends, FinalIsEnd
<1>2. QED
  BY <1>1, Inductive, PTL

(* A subscription that downlink_data_available sees has its sender, and    *)
(* when handlers do not interleave the sender is there when it is woken.   *)
THEOREM SenderThere == Spec => []KickFindsSender
<1>1. IInv => KickFindsSender
  BY DEF IInv, TypeOK, Woken, Orphaned, SerialFree, KickFindsSender, ValueIsZero
<1>2. QED
  BY <1>1, Inductive, PTL

(* No wakeup between pouch_gateway_downlink_block_cb and                   *)
(* pouch_gateway_downlink_get_data is lost, in any interleaving.           *)
THEOREM AlwaysWoken == Spec => []NoLostWakeup
<1>1. ASSUME IInv PROVE NoLostWakeup
  <2>1. SUFFICES ASSUME Idle, ctx = "open", sub = "yes", started, unacked = 0
                 PROVE  ~Available /\ ~coap_error /\ waiting
    BY DEF NoLostWakeup
  <2>2. unacked < Window
    BY <2>1, BlockFields
  <2>3. ~final
    BY <1>1, <2>1 DEF IInv, Ends
  <2>4. Asleep /\ pc["client"] \in {"idle", "alloc"}
    BY <2>1, <2>2, <2>3 DEF Asleep, Idle, InSender, Threads
  <2>5. QED
    BY <1>1, <2>4 DEF IInv, Wakes, Available
<1>2. QED
  BY <1>1, Inductive, PTL

(* No callback and no handler has a freed context, when handlers do not    *)
(* interleave.                                                             *)
THEOREM NoneAfterFree == Spec => []NoUseAfterFree
<1>1. IInv => NoUseAfterFree
  BY DEF IInv, Links, SerialFree, NoUseAfterFree
<1>2. QED
  BY <1>1, Inductive, PTL

(* The current block followed by the queue. *)
LEMMA PendingFacts ==
  ASSUME TypeOK
  PROVE  /\ cur = NULL => Pending = fifo
         /\ cur # NULL => /\ Pending # <<>> /\ Len(Pending) = Len(fifo) + 1
                          /\ Pending[1] = cur /\ Head(Pending) = cur
                          /\ \A i \in 1 .. Len(fifo) : Pending[i + 1] = fifo[i]
<1>1. \A q \in Seq(Block) : <<>> \o q = q
  OBVIOUS
<1>2. \A q \in Seq(Block), c \in Block :
        LET p == <<c>> \o q IN
          /\ p \in Seq(Block) /\ p # <<>> /\ Len(p) = Len(q) + 1 /\ p[1] = c
          /\ Head(p) = c
          /\ \A i \in 1 .. Len(q) : p[i + 1] = q[i]
  OBVIOUS
<1>3. cur \in Block \cup {NULL} /\ fifo \in Seq(Block)
  BY DEF TypeOK
<1>4. CASE cur = NULL
  BY <1>1, <1>3, <1>4 DEF Pending
<1>5. CASE cur # NULL
  BY <1>2, <1>3, <1>5 DEF Pending
<1>6. QED
  BY <1>4, <1>5

(* get_data hands out the bytes in order, for every block and packet size. *)
THEOREM BytesInOrder == Spec => []InOrder
<1>1. ASSUME IInv PROVE InOrder
  <2>1. SUFFICES ASSUME ctx = "open"
                 PROVE  /\ IF cur = NULL THEN offset = 0 ELSE offset <= cur.len
                        /\ Pending # <<>> => Head(Pending).off + offset = out
                        /\ \A i \in 1 .. Len(Pending) :
                             Pending[i].off + Pending[i].len
                               = IF i = Len(Pending) THEN taken ELSE Pending[i + 1].off
                        /\ Pending = <<>> => out = taken
    BY DEF InOrder
  <2>2. PICK q \in Seq(Block) : q = fifo
    BY <1>1 DEF IInv, TypeOK
  <2>3. /\ \A i \in 1 .. Len(q) - 1 : q[i + 1].off = q[i].off + q[i].len
        /\ IF cur = NULL THEN offset = 0 ELSE offset <= cur.len /\ cur.off + offset = out
        /\ IF q = <<>> THEN NextOff = taken
           ELSE q[1].off = NextOff /\ q[Len(q)].off + q[Len(q)].len = taken
    BY <1>1, <2>1, <2>2 DEF IInv, Chain
  <2>4. /\ Len(q) \in Nat /\ (q = <<>> <=> Len(q) = 0) /\ out \in Nat
        /\ \A i \in 1 .. Len(q) : q[i] \in Block
        /\ q # <<>> => Head(q) = q[1] /\ q[1] \in Block
    BY <1>1, EmptyLen, TailFacts DEF IInv, TypeOK
  <2>5. CASE cur = NULL
    <3>1. Pending = q /\ offset = 0 /\ NextOff = out
      BY <1>1, <2>2, <2>3, <2>5, PendingFacts DEF IInv, NextOff
    <3>2. \A i \in 1 .. Len(q) :
            q[i].off + q[i].len = IF i = Len(q) THEN taken ELSE q[i + 1].off
      BY <2>3, <2>4
    <3>3. q # <<>> => Head(q).off + offset = out
      BY <2>3, <2>4, <3>1, BlockFields
    <3>4. QED
      BY <2>3, <2>5, <3>1, <3>2, <3>3
  <2>6. CASE cur # NULL
    <3>1. PICK p : p = Pending
      OBVIOUS
    <3>2. /\ p # <<>> /\ Len(p) = Len(q) + 1 /\ p[1] = cur /\ Head(p) = cur
          /\ \A i \in 1 .. Len(q) : p[i + 1] = q[i]
          /\ NextOff = cur.off + cur.len
      BY <1>1, <2>2, <2>6, <3>1, PendingFacts DEF IInv, NextOff
    <3>3. p[1].off + p[1].len = IF 1 = Len(p) THEN taken ELSE p[2].off
      BY <2>3, <2>4, <3>2
    <3>4. ASSUME NEW i \in 1 .. Len(q)
          PROVE  p[i + 1].off + p[i + 1].len
                   = IF i + 1 = Len(p) THEN taken ELSE p[i + 2].off
      <4>1. CASE i = Len(q)
        BY <2>3, <2>4, <3>2, <3>4, <4>1
      <4>2. CASE i # Len(q)
        <5>1. i + 1 \in 1 .. Len(q) /\ i \in 1 .. Len(q) - 1
          BY <2>4, <4>2
        <5>2. p[i + 2] = q[i + 1] /\ p[i + 1] = q[i]
          BY <3>2, <5>1
        <5>3. QED
          BY <2>3, <2>4, <3>2, <4>2, <5>1, <5>2
      <4>3. QED
        BY <4>1, <4>2
    <3>5. \A i \in 1 .. Len(p) :
            p[i].off + p[i].len = IF i = Len(p) THEN taken ELSE p[i + 1].off
      <4>1. SUFFICES ASSUME NEW i \in 1 .. Len(p)
                     PROVE  p[i].off + p[i].len
                              = IF i = Len(p) THEN taken ELSE p[i + 1].off
        OBVIOUS
      <4>2. CASE i = 1
        BY <3>3, <4>2
      <4>3. CASE i # 1
        <5>1. PICK j \in 1 .. Len(q) : i = j + 1
          BY <2>4, <3>2, <4>3
        <5>2. QED
          BY <3>4, <5>1
      <4>4. QED
        BY <4>2, <4>3
    <3>6. QED
      BY <2>3, <2>6, <3>1, <3>2, <3>5
  <2>7. QED
    BY <2>5, <2>6
<1>2. QED
  BY <1>1, Inductive, PTL
-----------------------------------------------------------------------------
(* cleanup_downlink gives the pipe up, or changes nothing of it. *)
LEMMA CleanupFails ==
  ASSUME IInv, ctx # "none", CleanupDownlink, UNCHANGED <<cloud, taken, out>>
  PROVE  [Pipe!PipeNext]_(Pipe!pipe)
<1>1. CASE node_ctx
  <2>1. ctx = "open" /\ ~aborted
    BY <1>1 DEF IInv, Links
  <2>2. aborted' /\ ctx' # "none"
    BY <1>1, <2>1 DEF CleanupDownlink, CloseContext, KeepContext
  <2>3. DownlinkMode \in {"open", "closed"} /\ DownlinkMode' = "failed"
    BY <2>1, <2>2 DEF DownlinkMode
  <2>4. QED
    BY <2>3 DEF Pipe!PipeNext, Pipe!GiveUp, Pipe!pipe
<1>2. CASE ~node_ctx
  <2>1. UNCHANGED <<ctx, aborted>>
    BY <1>2 DEF CleanupDownlink, FreesOnAbort, KeepContext, IInv, TypeOK
  <2>2. QED
    BY <2>1 DEF DownlinkMode, Pipe!pipe
<1>3. QED
  BY <1>1, <1>2

(* Every step of the downlink is a step of the pipe, or none of it. *)
LEMMA PipeStep == IInv /\ [Next]_vars => [Pipe!PipeNext]_(Pipe!pipe)
<1> SUFFICES ASSUME IInv, [Next]_vars PROVE [Pipe!PipeNext]_(Pipe!pipe)
  OBVIOUS
<1> USE DEF At, Touches, link, flags, data, source, sender, Pipe!pipe, Pipe!PipeNext
<1>a. IInv /\ IInv'
  BY NextInv
<1>0. ASSUME UNCHANGED <<ctx, aborted, cloud, taken, out>>
      PROVE  UNCHANGED Pipe!pipe
  BY <1>0 DEF DownlinkMode
<1>1. CASE Start
  <2>1. /\ ctx = "none" /\ ctx' = "open" /\ cloud = "quiet" /\ UNCHANGED <<taken, out>>
        /\ aborted' \/ cloud' = cloud
    BY <1>a, <1>1 DEF Start, IInv, Links
  <2>2. DownlinkMode = "shut" /\ DownlinkMode' \in {"open", "failed"}
    BY <2>1 DEF DownlinkMode
  <2>3. QED
    BY <2>1, <2>2 DEF Pipe!Start, Pipe!GiveUp
<1>2. ASSUME NEW n \in 0 .. MaxBlock, NEW last \in BOOLEAN,
             BlockArrives(n, last)
      PROVE  [Pipe!PipeNext]_(Pipe!pipe)
  BY <1>2 DEF BlockArrives, DownlinkMode
<1>3. CASE EndOk
  BY <1>3 DEF EndOk, DownlinkMode
<1>4. CASE Alloc
  BY <1>a, <1>4 DEF Alloc, DownlinkMode, IInv, Arrives, Links
<1>5. CASE EndError
  <2>1. /\ ctx = "open" /\ cloud \notin {"last", "ended"} /\ cloud' = "failed"
        /\ ctx' = (IF aborted THEN "freed" ELSE "open") /\ UNCHANGED <<aborted, taken, out>>
    BY <1>5 DEF EndError, CloseContext, KeepContext
  <2>2. QED
    BY <2>1 DEF DownlinkMode
<1>6. CASE PutBlock
  <2>1. PICK l \in Nat, m \in Nat : l = arriving.len /\ m = taken
    BY <1>a, <1>6, BlockFields DEF PutBlock, IInv, TypeOK, Arrives
  <2>2. /\ ctx = "open" /\ ctx' = "open" /\ UNCHANGED <<aborted, out>> /\ taken' = m + l
        /\ cloud = "blocks" /\ (l > 0 \/ arriving.last)
        /\ cloud' = (IF arriving.last THEN "last" ELSE "blocks")
    BY <1>a, <1>6, <2>1 DEF PutBlock, IInv, Arrives
  <2>3. CASE l = 0
    <3>1. UNCHANGED taken /\ cloud' = "last"
      BY <2>1, <2>2, <2>3
    <3>2. QED
      BY <2>2, <3>1 DEF DownlinkMode, Pipe!Shut
  <2>4. CASE l > 0
    <3>1. taken' \in Nat /\ taken' > taken
      BY <2>1, <2>2, <2>4
    <3>2. \/ DownlinkMode = "open" /\ DownlinkMode' \in {"open", "closed"}
          \/ DownlinkMode = "failed" /\ DownlinkMode' = "failed"
      <4>1. /\ ctx = "open" /\ ctx' = "open" /\ cloud = "blocks"
            /\ cloud' \in {"last", "blocks"} /\ aborted' = aborted
        BY <2>2
      <4>2. QED
        BY <4>1 DEF DownlinkMode
    <3>3. QED
      BY <2>2, <3>1, <3>2 DEF Pipe!Put
  <2>5. QED
    BY <2>1, <2>3, <2>4
<1>7. ASSUME NEW t \in Threads, CopyFromBlock(t)
      PROVE  [Pipe!PipeNext]_(Pipe!pipe)
  <2>1. PICK b, rest, n : Copied(t, b, rest, n)
    BY <1>a, <1>7, CopyFacts
  <2>2. /\ ctx = "open" /\ ~aborted /\ UNCHANGED <<ctx, aborted, cloud, taken>>
    BY <1>a, <2>1 DEF Copied, IInv, Links
  <2>3. DownlinkMode \in {"open", "closed"} /\ DownlinkMode' = DownlinkMode
    BY <2>2 DEF DownlinkMode
  <2>4. /\ n \in Nat /\ out \in Nat /\ taken \in Nat /\ offset \in Nat
        /\ b.off \in Nat /\ b.len \in Nat /\ b.off + offset = out
        /\ out' = out + n
        /\ offset + n <= b.len /\ b.off + b.len <= taken
    BY <1>a, <2>1, BlockFields DEF Copied, IInv, TypeOK
  <2>5. out' = out \/ out' \in out + 1 .. taken
    BY <2>4
  <2>6. QED
    BY <2>2, <2>3, <2>5 DEF Pipe!Get
<1>8. ASSUME NEW k \in 0 .. Window, Ack(k)
      PROVE  [Pipe!PipeNext]_(Pipe!pipe)
  <2>1. UNCHANGED <<aborted, cloud, taken, out>> /\ node_sender /\ ~aborted
    BY <1>a, <1>8 DEF Ack, IInv, Links
  <2>2. CASE UNCHANGED ctx
    BY <1>0, <2>1, <2>2
  <2>3. CASE final /\ ctx = "open" /\ ctx' = "freed"
    <3>1. out = taken /\ cloud \in {"last", "ended", "failed"}
      BY <1>a, <2>3 DEF IInv, Ends, Over
    <3>2. \/ DownlinkMode = "closed" /\ DownlinkMode' = "done"
          \/ DownlinkMode = "open" /\ DownlinkMode' = "failed"
      BY <2>1, <2>3, <3>1 DEF DownlinkMode
    <3>3. QED
      BY <2>1, <3>1, <3>2 DEF Pipe!Finish, Pipe!GiveUp
  <2>4. QED
    BY <1>8, <2>2, <2>3 DEF Ack, CloseContext, KeepContext
<1>9. CASE SubscribeFails \/ SubscriptionEnds
  <2>1. ctx # "none"
    BY <1>a, <1>9 DEF SubscribeFails, SubscriptionEnds, IInv, Links, Threads
  <2>2. QED
    BY <1>a, <1>9, <2>1, CleanupFails DEF SubscribeFails, SubscriptionEnds
<1>10. CASE Disconnect
  BY <1>0, <1>a, <1>10, CleanupFails DEF Disconnect, KeepContext
<1>11. ASSUME NEW t \in Threads,
              \/ BeginPacket(t) \/ StopSending(t) \/ EndAfterError(t)
              \/ ShortPacket(t) \/ AwaitData(t)
       PROVE  [Pipe!PipeNext]_(Pipe!pipe)
  BY <1>0, <1>11 DEF BeginPacket, StopSending, EndAfterError, ShortPacket,
     AwaitData, SendPacket
<1>12. CASE \/ Peek \/ Wake \/ SetError \/ Subscribe \/ SeesSubscription
            \/ WakeSender \/ Nack \/ OthersTake \/ OthersReturn \/ UNCHANGED vars
  BY <1>0, <1>12 DEF Peek, Wake, SetError, Subscribe, SeesSubscription,
     WakeSender, Nack, OthersTake, OthersReturn, vars
<1>13. QED
  BY <1>1, <1>2, <1>3, <1>4, <1>5, <1>6, <1>7, <1>8, <1>9, <1>10, <1>11, <1>12
     DEF Next, Receive, ClientSteps, Sending, Acks, Threads

(* The downlink implements BytePipe, whatever the sizes and however the    *)
(* threads interleave: the node gets the bytes in order and once, and a    *)
(* downlink that is done delivered all of them.                            *)
THEOREM PipeImplemented == Spec => DeliversAll
<1>1. Init => Pipe!PipeInit
  BY DEF Init, Pipe!PipeInit, DownlinkMode
<1>2. IInv /\ [Next]_vars => [Pipe!PipeNext]_(Pipe!pipe)
  BY PipeStep
<1>3. QED
  BY <1>1, <1>2, Inductive, PTL DEF Spec, DeliversAll, Pipe!PipeSpec

-----------------------------------------------------------------------------
(* Why a downlink ends: the safety that Delivered rests on.                *)

(* A download that nobody has subscribed to is waiting for its first block,*)
(* or the client thread is on its way to kick it. A subscription that ended*)
(* or failed has aborted the context.                                      *)
Unasked ==
  /\ ctx = "open" /\ sub = "no" /\ ~aborted =>
       /\ cur = NULL
       /\ waiting \/ pc["client"] = "kick"
       /\ fifo # <<>> \/ coap_error => pc["client"] \in {"peek", "wake", "kick"}
       /\ pc["client"] # "nudge"
  /\ ctx = "open" /\ sub \in {"gone", "failed"} => aborted
  /\ sub = "no" => ~started /\ ~final

(* The last block stays in the queue until the final packet is made of it. *)
LastKept ==
  ctx = "open" /\ cloud \in {"last", "ended"} /\ ~complete =>
    IF fifo # <<>> THEN fifo[Len(fifo)].last ELSE cur # NULL /\ cur.last

(* A download that failed has told the context so, or is about to; one that*)
(* was never asked for has no context but an aborted one.                  *)
FailureTold ==
  ctx = "open" /\ ~aborted =>
    /\ cloud = "failed" => coap_error \/ pc["client"] = "error"
    /\ cloud # "none"

DueInv == Unasked /\ LastKept /\ FailureTold

(* Every step keeps an unasked download waiting. *)
LEMMA UnaskedStep == IInv /\ DueInv /\ [Next]_vars => Unasked'
<1> SUFFICES ASSUME IInv, DueInv, [Next]_vars PROVE Unasked'
  OBVIOUS
<1> USE DEF At, Touches, Goto, Runs, CleanupDownlink, FreesOnAbort,
           CloseContext, KeepContext, BlockFree, SendPacket, link, flags, data,
           source, sender, Threads
<1>a. IInv /\ Unasked
  BY DEF DueInv
<1>1. CASE \/ EndOk \/ Peek \/ Wake \/ SetError \/ SeesSubscription
           \/ WakeSender \/ Nack \/ UNCHANGED vars
  BY <1>a, <1>1 DEF EndOk, Peek, Wake, SetError, SeesSubscription, WakeSender,
     Nack, vars, IInv, TypeOK, Unasked, ValueIsZero
<1>2. CASE Alloc \/ OthersTake \/ OthersReturn
  BY <1>a, <1>2 DEF Alloc, OthersTake, OthersReturn, IInv, TypeOK, Unasked
<1>3. CASE Subscribe \/ SubscribeFails \/ SubscriptionEnds \/ Disconnect
  BY <1>a, <1>3 DEF Subscribe, SubscribeFails, SubscriptionEnds, Disconnect,
     IInv, TypeOK, Links, Unasked
<1>4. ASSUME NEW t \in Threads, BeginPacket(t) \/ StopSending(t) \/
               ShortPacket(t) \/ AwaitData(t) \/ EndAfterError(t)
      PROVE  Unasked'
  BY <1>a, <1>4 DEF BeginPacket, StopSending, ShortPacket, AwaitData,
     EndAfterError, IInv, TypeOK, Turns, Unasked
<1>5. CASE Start
  BY <1>a, <1>5 DEF Start, IInv, TypeOK, Links, Arrives, Unasked
<1>6. ASSUME NEW n \in 0 .. MaxBlock, NEW last \in BOOLEAN,
             BlockArrives(n, last)
      PROVE  Unasked'
  BY <1>a, <1>6 DEF BlockArrives, IInv, TypeOK, Unasked
<1>7. CASE EndError
  BY <1>a, <1>7 DEF EndError, IInv, TypeOK, Unasked
<1>8. CASE PutBlock
  BY <1>a, <1>8 DEF PutBlock, IInv, TypeOK, Unasked
<1>9. ASSUME NEW t \in Threads, CopyFromBlock(t)
      PROVE  Unasked'
  BY <1>a, <1>9 DEF CopyFromBlock, IInv, TypeOK, Turns, Unasked
<1>10. ASSUME NEW k \in 0 .. Window, Ack(k)
      PROVE  Unasked'
  BY <1>a, <1>10 DEF Ack, IInv, TypeOK, Unasked
<1>11. QED
  BY <1>1, <1>2, <1>3, <1>4, <1>5, <1>6, <1>7, <1>8, <1>9, <1>10 DEF Next,
     Receive, ClientSteps, Sending, Acks

(* Every step tells of a failure. *)
LEMMA FailureToldStep == IInv /\ DueInv /\ [Next]_vars => FailureTold'
<1> SUFFICES ASSUME IInv, DueInv, [Next]_vars PROVE FailureTold'
  OBVIOUS
<1> USE DEF At, Touches, Goto, Runs, CleanupDownlink, FreesOnAbort,
           CloseContext, KeepContext, BlockFree, SendPacket, link, flags, data,
           source, sender, Threads
<1>a. IInv /\ FailureTold
  BY DEF DueInv
<1>1. CASE \/ EndOk \/ Peek \/ Wake \/ SetError \/ SeesSubscription
           \/ WakeSender \/ Nack \/ UNCHANGED vars
  BY <1>a, <1>1 DEF EndOk, Peek, Wake, SetError, SeesSubscription, WakeSender,
     Nack, vars, IInv, TypeOK, FailureTold
<1>2. CASE Alloc \/ OthersTake \/ OthersReturn
  BY <1>a, <1>2 DEF Alloc, OthersTake, OthersReturn, IInv, TypeOK, FailureTold
<1>3. CASE Subscribe \/ SubscribeFails \/ SubscriptionEnds \/ Disconnect
  BY <1>a, <1>3 DEF Subscribe, SubscribeFails, SubscriptionEnds, Disconnect,
     IInv, TypeOK, FailureTold
<1>4. ASSUME NEW t \in Threads, BeginPacket(t) \/ StopSending(t) \/
               ShortPacket(t) \/ AwaitData(t) \/ EndAfterError(t)
      PROVE  FailureTold'
  BY <1>a, <1>4 DEF BeginPacket, StopSending, ShortPacket, AwaitData,
     EndAfterError, IInv, TypeOK, Turns, InSender, FailureTold
<1>5. CASE Start
  BY <1>a, <1>5 DEF Start, IInv, TypeOK, Links, FailureTold
<1>6. ASSUME NEW n \in 0 .. MaxBlock, NEW last \in BOOLEAN,
             BlockArrives(n, last)
      PROVE  FailureTold'
  BY <1>a, <1>6 DEF BlockArrives, IInv, TypeOK, FailureTold
<1>7. CASE EndError
  BY <1>a, <1>7 DEF EndError, IInv, TypeOK, FailureTold
<1>8. CASE PutBlock
  BY <1>a, <1>8 DEF PutBlock, IInv, TypeOK, FailureTold
<1>9. ASSUME NEW t \in Threads, CopyFromBlock(t)
      PROVE  FailureTold'
  BY <1>a, <1>9 DEF CopyFromBlock, IInv, TypeOK, FailureTold
<1>10. ASSUME NEW k \in 0 .. Window, Ack(k)
      PROVE  FailureTold'
  BY <1>a, <1>10 DEF Ack, IInv, TypeOK, FailureTold
<1>11. QED
  BY <1>1, <1>2, <1>3, <1>4, <1>5, <1>6, <1>7, <1>8, <1>9, <1>10 DEF Next,
     Receive, ClientSteps, Sending, Acks

(* A turn of the loop of get_data drains the last block last. *)
LEMMA CopyKeepsLast ==
  ASSUME IInv, LastKept, NEW t \in Threads, CopyFromBlock(t)
  PROVE  LastKept'
<1> SUFFICES ASSUME ctx = "open", cloud \in {"last", "ended"}, ~complete'
             PROVE  IF fifo' # <<>> THEN fifo'[Len(fifo')].last
                                    ELSE cur' # NULL /\ cur'.last
  BY DEF CopyFromBlock, LastKept, link, source
<1> DEFINE b    == IF cur = NULL THEN Head(fifo) ELSE cur
           rest == IF cur = NULL THEN Tail(fifo) ELSE fifo
           n    == Min({room, b.len - offset})
           done == offset + n = b.len
           end  == done /\ b.last
<1>1. PICK q \in Seq(Block) : q = fifo
  BY DEF IInv, TypeOK
<1>2. /\ cur \in Block \cup {NULL} /\ (cur # NULL \/ q # <<>>)
      /\ complete \in BOOLEAN /\ complete' = (complete \/ end)
  BY <1>1 DEF CopyFromBlock, Available, BlockIsLast, IInv, TypeOK
<1>3. IF q # <<>> THEN q[Len(q)].last ELSE cur # NULL /\ cur.last
  BY <1>1, <1>2 DEF LastKept
<1>4. PICK r \in Seq(Block) : r = rest
  BY <1>1, <1>2, TailFacts
<1>5. b \in Block /\ b # NULL
  BY <1>1, <1>2, TailFacts, BlockFields
<1>6. IF r # <<>> THEN r[Len(r)].last ELSE b.last
  <2>1. CASE cur = NULL
    <3>1. /\ q # <<>> /\ b = q[1] /\ r = Tail(q) /\ Len(r) = Len(q) - 1
          /\ r = <<>> <=> Len(q) = 1
          /\ \A i \in 1 .. Len(q) - 1 : r[i] = q[i + 1]
          /\ Len(q) \in Nat /\ Len(q) >= 1
      BY <1>1, <1>2, <1>4, <2>1, TailFacts
    <3>2. CASE Len(q) = 1
      BY <1>3, <3>1, <3>2
    <3>3. CASE Len(q) > 1
      <4>1. Len(r) \in 1 .. Len(q) - 1 /\ Len(r) + 1 = Len(q)
        BY <3>1, <3>3
      <4>2. r[Len(r)] = q[Len(q)]
        BY <3>1, <4>1
      <4>3. QED
        BY <1>3, <3>1, <3>3, <4>2
    <3>4. QED
      BY <3>1, <3>2, <3>3
  <2>2. CASE cur # NULL
    BY <1>1, <1>3, <1>4, <2>2
  <2>3. QED
    BY <2>1, <2>2
<1>7. \/ cur' = b /\ fifo' = r
      \/ done /\ cur' = HeadOrNull(r) /\ fifo' = TailOrEmpty(r)
  BY <1>4 DEF CopyFromBlock
<1>8. CASE cur' = b /\ fifo' = r
  BY <1>5, <1>6, <1>8
<1>9. CASE done /\ cur' = HeadOrNull(r) /\ fifo' = TailOrEmpty(r)
  <2>1. r # <<>> /\ r[Len(r)].last
    BY <1>2, <1>6, <1>9
  <2>2. PICK s \in Seq(Block) : s = Tail(r)
    BY <2>1, TailFacts
  <2>3. /\ cur' = r[1] /\ fifo' = s /\ cur' \in Block /\ cur' # NULL
        /\ Len(s) = Len(r) - 1 /\ Len(r) \in Nat /\ Len(r) >= 1
        /\ s = <<>> <=> Len(r) = 1
        /\ \A i \in 1 .. Len(r) - 1 : s[i] = r[i + 1]
    BY <1>9, <2>1, <2>2, TailFacts, BlockFields DEF HeadOrNull, TailOrEmpty
  <2>4. CASE Len(r) = 1
    BY <2>1, <2>3, <2>4
  <2>5. CASE Len(r) > 1
    <3>1. Len(s) \in 1 .. Len(r) - 1 /\ Len(s) + 1 = Len(r)
      BY <2>3, <2>5
    <3>2. s[Len(s)] = r[Len(r)]
      BY <2>3, <3>1
    <3>3. QED
      BY <2>1, <2>3, <2>5, <3>2
  <2>6. QED
    BY <2>3, <2>4, <2>5
<1>10. QED
  BY <1>7, <1>8, <1>9

(* Every step keeps the last block. *)
LEMMA LastKeptStep == IInv /\ DueInv /\ [Next]_vars => LastKept'
<1> SUFFICES ASSUME IInv, DueInv, [Next]_vars PROVE LastKept'
  OBVIOUS
<1> USE DEF At, Touches, Goto, Runs, CleanupDownlink, FreesOnAbort,
           CloseContext, KeepContext, BlockFree, SendPacket, link, flags, data,
           source, sender, Threads
<1>a. IInv /\ LastKept
  BY DEF DueInv
<1>1. CASE \/ EndOk \/ Peek \/ Wake \/ SetError \/ SeesSubscription
           \/ WakeSender \/ Nack \/ UNCHANGED vars
  BY <1>a, <1>1 DEF EndOk, Peek, Wake, SetError, SeesSubscription, WakeSender,
     Nack, vars, LastKept
<1>2. CASE Alloc \/ OthersTake \/ OthersReturn
  BY <1>a, <1>2 DEF Alloc, OthersTake, OthersReturn, LastKept
<1>3. CASE Subscribe \/ SubscribeFails \/ SubscriptionEnds \/ Disconnect
  BY <1>a, <1>3 DEF Subscribe, SubscribeFails, SubscriptionEnds, Disconnect, LastKept
<1>4. ASSUME NEW t \in Threads, BeginPacket(t) \/ StopSending(t) \/
               ShortPacket(t) \/ AwaitData(t) \/ EndAfterError(t)
      PROVE  LastKept'
  BY <1>a, <1>4 DEF BeginPacket, StopSending, ShortPacket, AwaitData,
     EndAfterError, LastKept
<1>5. CASE Start
  BY <1>a, <1>5 DEF Start, IInv, Links, LastKept
<1>6. ASSUME NEW n \in 0 .. MaxBlock, NEW last \in BOOLEAN,
             BlockArrives(n, last)
      PROVE  LastKept'
  BY <1>6 DEF BlockArrives, LastKept
<1>7. CASE EndError
  BY <1>7 DEF EndError, LastKept
<1>8. CASE PutBlock
  <2>1. arriving \in Block /\ fifo \in Seq(Block)
    BY <1>a, <1>8 DEF PutBlock, IInv, TypeOK, Arrives
  <2>2. PICK q \in Seq(Block) : q = Append(fifo, arriving)
    BY <2>1, AppendFacts
  <2>3. /\ Len(q) = Len(fifo) + 1 /\ q # <<>>
        /\ q[Len(fifo) + 1] = arriving
    BY <2>1, <2>2, AppendFacts
  <2>4. fifo' = q /\ (cloud' \in {"last", "ended"} => arriving.last)
    BY <1>8, <2>2 DEF PutBlock
  <2>5. QED
    BY <2>3, <2>4 DEF LastKept
<1>9. ASSUME NEW t \in Threads, CopyFromBlock(t)
      PROVE  LastKept'
  BY <1>a, <1>9, CopyKeepsLast
<1>10. ASSUME NEW k \in 0 .. Window, Ack(k)
      PROVE  LastKept'
  BY <1>a, <1>10 DEF Ack, LastKept
<1>11. QED
  BY <1>1, <1>2, <1>3, <1>4, <1>5, <1>6, <1>7, <1>8, <1>9, <1>10 DEF Next,
     Receive, ClientSteps, Sending, Acks

(* The invariant holds in every state. *)
LEMMA DueInductive == Spec => []DueInv
<1>1. Init => DueInv
  BY DEF Init, DueInv, Unasked, LastKept, FailureTold
<1>2. IInv /\ DueInv /\ [Next]_vars => DueInv'
  BY UnaskedStep, LastKeptStep, FailureToldStep DEF DueInv
<1>3. QED
  BY <1>1, <1>2, Inductive, PTL DEF Spec

(* A step that somebody owes the download: one thread is in the middle of  *)
(* it and can go on, the cloud has more to say, or the node has something  *)
(* to acknowledge. These are the guards of the steps that FairSpec is fair *)
(* to.                                                                     *)
Due ==
  \/ \E t \in Threads : \/ Touches(t, "send") /\ (node_sender \/ ~MaySend)
                        \/ Touches(t, "fill") /\ node_sender
  \/ At("client", "alloc")
  \/ \E l \in {"put", "peek", "wake", "error"} : Touches("client", l)
  \/ At("client", "kick")
  \/ At("client", "nudge") /\ node_sender
  \/ Touches("client", "idle") /\ cloud \in {"blocks", "failing", "last"}
  \/ /\ At("bt", "idle") /\ conn /\ sub = "yes" /\ node_sender /\ SenderFree
     /\ ~started \/ unacked > 0

(* A download that has begun is never stuck. *)
DeliveryIsDue ==
  ctx = "open" /\ ~aborted /\ conn /\ sub # "stopping" /\ cloud # "quiet" => Due

(* Until the context is freed or given up, a download that has begun has a *)
(* step due. When the cloud is done and both threads are idle, the node has*)
(* subscribed and owes an acknowledgement.                                 *)
THEOREM DeliveryHasStepDue == Spec => []DeliveryIsDue
<1>1. IInv /\ DueInv => DeliveryIsDue
  <2> SUFFICES ASSUME IInv, DueInv, ctx = "open", ~aborted, conn,
                      sub # "stopping", cloud # "quiet"
               PROVE  Due
    BY DEF DeliveryIsDue
  <2>1. /\ node_sender /\ pc["bt"] \in {"idle", "send", "fill"}
        /\ pc["client"] \in {"idle", "alloc", "put", "peek", "wake", "kick",
                             "nudge", "error", "send", "fill"}
        /\ unacked \in 0 .. Window /\ 0 < Window
    BY BlockFields DEF IInv, TypeOK, Links, Turns, Threads
  <2>2. CASE pc["bt"] # "idle"
    <3>1. Touches("bt", "send") \/ Touches("bt", "fill")
      BY <2>1, <2>2 DEF Touches, At, Runs
    <3>2. QED
      BY <2>1, <3>1 DEF Due, Threads
  <2>3. CASE pc["bt"] = "idle" /\ pc["client"] # "idle"
    BY <2>1, <2>3 DEF Due, Touches, At, Runs, Threads
  <2>4. CASE pc["bt"] = "idle" /\ pc["client"] = "idle"
    <3>1. CASE cloud \in {"blocks", "failing", "last"}
      BY <2>4, <3>1 DEF Due, Touches, At, Runs
    <3>2. CASE cloud \notin {"blocks", "failing", "last"}
      <4>1. cloud \in {"ended", "failed"}
        BY <3>2 DEF DueInv, FailureTold, IInv, TypeOK
      <4>2. cloud = "failed" => coap_error
        BY <2>4 DEF DueInv, FailureTold
      <4>3. final = complete /\ (final => unacked > 0)
        BY DEF IInv, Ends
      <4>4. cloud = "ended" /\ ~final => cur # NULL \/ fifo # <<>>
        BY <4>3 DEF DueInv, LastKept
      <4>5. sub = "yes"
        <5>1. sub \in {"no", "yes", "gone", "failed"}
          BY DEF IInv, TypeOK
        <5>2. sub \notin {"gone", "failed"}
          BY DEF DueInv, Unasked
        <5>3. sub # "no"
          <6>1. SUFFICES ASSUME sub = "no" PROVE FALSE
            OBVIOUS
          <6>2. cur = NULL /\ fifo = <<>> /\ ~coap_error
            BY <2>4, <6>1 DEF DueInv, Unasked
          <6>3. final
            BY <4>1, <4>2, <4>4, <6>2
          <6>4. QED
            BY <6>1, <6>3 DEF DueInv, Unasked
        <5>4. QED
          BY <5>1, <5>2, <5>3
      <4>6. ~started \/ unacked > 0
        <5>1. SUFFICES ASSUME started, unacked = 0 PROVE FALSE
          BY <2>1
        <5>2. Asleep
          BY <2>1, <2>4, <4>3, <4>5, <5>1 DEF Asleep, InSender, Threads
        <5>3. cur = NULL /\ fifo = <<>> /\ ~coap_error
          BY <2>4, <5>2 DEF IInv, Wakes
        <5>4. QED
          BY <4>1, <4>2, <4>3, <4>4, <5>1, <5>3
      <4>7. QED
        BY <2>1, <2>4, <4>5, <4>6 DEF Due, At, Runs, SenderFree
    <3>3. QED
      BY <3>1, <3>2
  <2>5. QED
    BY <2>2, <2>3, <2>4
<1>2. QED
  BY <1>1, Inductive, DueInductive, PTL

-----------------------------------------------------------------------------
(* How far a download whose blocks have all come is from its end: steps for*)
(* each byte and block in the queue, for each packet to acknowledge, for   *)
(* what is still to happen once, and those of the threads.                 *)
Weight(l, r) ==
  CASE l = "error" -> 8
    [] l = "peek" -> 7
    [] l = "wake" -> 6
    [] l = "kick" -> 5
    [] l = "nudge" -> 4
    [] l = "send" -> 3
    [] l = "fill" -> IF r = PacketSize THEN 2 ELSE 8
    [] OTHER -> 0

Once == (IF started THEN 0 ELSE 4) + (IF final THEN 0 ELSE 6)
          + (IF cloud = "last" THEN 1 ELSE 0)

StepsLeft ==
  7 * (taken - out + Held) + 4 * unacked + Once
    + Weight(pc["bt"], room) + Weight(pc["client"], room)

(* The download was received or failed, and nobody gives it up. *)
InDelivery ==
  ctx = "open" /\ ~aborted /\ conn /\ sub # "stopping" /\ Over

(* Every step is one nearer to the end, whichever thread takes it and      *)
(* whatever the node acknowledges, but for those of other nodes.           *)
DeliveryComesNearer ==
  [][InDelivery /\ InDelivery' =>
       IF others' = others THEN StepsLeft' \in 0 .. StepsLeft - 1
                           ELSE StepsLeft' = StepsLeft]_vars

(* A packet that is being filled has room for a byte. *)
HasRoom == \A t \in Threads : pc[t] = "fill" => room > 0

(* The steps left are a number. *)
Countable == ctx = "open" => StepsLeft \in Nat

(* A turn of the loop that fills the packet goes on to send it. *)
LEMMA CopiedRoom ==
  ASSUME NEW t, NEW b, NEW rest, NEW n, Copied(t, b, rest, n)
  PROVE  /\ n \in Nat /\ n <= room /\ room' = room - n /\ pc[t] = "fill"
         /\ pc' = [pc EXCEPT ![t] = "send"] \/ (room # n /\ pc' = pc)
<1>1. \/ IF room = n \/ b.last THEN SendPacket(t, b.last) ELSE pc' = pc
      \/ IF room = n THEN SendPacket(t, FALSE) ELSE pc' = pc
  BY DEF Copied
<1>2. pc' = [pc EXCEPT ![t] = "send"] \/ (room # n /\ pc' = pc)
  <2>1. CASE room = n
    BY <1>1, <2>1 DEF SendPacket, Goto
  <2>2. CASE room # n
    BY <1>1, <2>2 DEF SendPacket, Goto
  <2>3. QED
    BY <2>1, <2>2
<1>3. /\ n \in Nat /\ n <= room /\ room' = room - n /\ pc[t] = "fill"
  BY DEF Copied, Touches, At
<1>4. QED
  BY <1>2, <1>3

(* Every step leaves room in a packet that is being filled. *)
LEMMA HasRoomStep == IInv /\ HasRoom /\ [Next]_vars => HasRoom'
<1> SUFFICES ASSUME IInv, HasRoom, [Next]_vars PROVE HasRoom'
  OBVIOUS
<1> USE DEF At, Touches, Goto, Runs, CleanupDownlink, FreesOnAbort,
           CloseContext, KeepContext, BlockFree, SendPacket, link, flags, data,
           source, sender, Threads
<1>a. /\ TypeOK /\ Turns
      /\ room \in Nat /\ PacketSize \in Nat /\ PacketSize > 0
  BY BlockFields DEF IInv, TypeOK
<1>1. CASE \/ EndOk \/ Peek \/ Wake \/ SetError \/ SeesSubscription
           \/ WakeSender \/ Nack \/ UNCHANGED vars
  BY <1>a, <1>1 DEF EndOk, Peek, Wake, SetError, SeesSubscription, WakeSender,
     Nack, vars, TypeOK,
     HasRoom
<1>2. CASE Alloc \/ OthersTake \/ OthersReturn
  BY <1>a, <1>2 DEF Alloc, OthersTake, OthersReturn, TypeOK, HasRoom
<1>3. CASE Subscribe \/ SubscribeFails \/ SubscriptionEnds \/ Disconnect
  BY <1>a, <1>3 DEF Subscribe, SubscribeFails, SubscriptionEnds, Disconnect,
     TypeOK, HasRoom
<1>4. ASSUME NEW t \in Threads, StopSending(t) \/ ShortPacket(t) \/ AwaitData(t)
                                  \/ EndAfterError(t)
      PROVE  HasRoom'
  BY <1>a, <1>4 DEF StopSending, ShortPacket, AwaitData, EndAfterError, TypeOK,
     HasRoom
<1>5. ASSUME NEW t \in Threads, BeginPacket(t) PROVE HasRoom'
  <2>1. room' = PacketSize
    BY <1>5 DEF BeginPacket
  <2>2. QED
    BY <1>a, <2>1 DEF HasRoom
<1>6. CASE Start \/ EndError \/ PutBlock
  BY <1>a, <1>6 DEF Start, EndError, PutBlock, TypeOK, HasRoom
<1>7. ASSUME NEW n \in 0 .. MaxBlock, NEW last \in BOOLEAN,
             BlockArrives(n, last)
      PROVE  HasRoom'
  BY <1>a, <1>7 DEF BlockArrives, TypeOK, HasRoom
<1>8. ASSUME NEW t \in Threads, CopyFromBlock(t)
      PROVE  HasRoom'
  <2>1. PICK b, rest, n : Copied(t, b, rest, n)
    BY <1>8, CopyFacts
  <2>2. /\ n \in Nat /\ n <= room /\ room' = room - n /\ pc[t] = "fill"
        /\ pc' = [pc EXCEPT ![t] = "send"] \/ (room # n /\ pc' = pc)
    BY <2>1, CopiedRoom
  <2>3. \A u \in Threads : pc[u] = "fill" => u = t
    BY <1>a, <2>2 DEF Turns, InSender
  <2>4. pc \in [Threads -> {"idle", "alloc", "put", "peek", "wake", "kick",
                            "nudge", "error", "send", "fill"}]
    BY <1>a DEF TypeOK
  <2>5. CASE pc' = [pc EXCEPT ![t] = "send"]
    BY <2>3, <2>4, <2>5 DEF HasRoom
  <2>6. CASE room # n /\ pc' = pc
    <3>1. room' > 0
      BY <1>a, <2>2, <2>6
    <3>2. QED
      BY <3>1 DEF HasRoom
  <2>7. QED
    BY <2>2, <2>5, <2>6
<1>9. ASSUME NEW k \in 0 .. Window, Ack(k)
      PROVE  HasRoom'
  BY <1>a, <1>9 DEF Ack, TypeOK, HasRoom
<1>10. QED
  BY <1>1, <1>2, <1>3, <1>4, <1>5, <1>6, <1>7, <1>8, <1>9 DEF Next, Receive,
     ClientSteps, Sending, Acks

(* No byte is copied that was not taken. *)
LEMMA OutTaken == IInv /\ ctx = "open" => out <= taken
<1> SUFFICES ASSUME IInv, ctx = "open" PROVE out <= taken
  OBVIOUS
<1>1. /\ out \in Nat /\ taken \in Nat /\ offset \in Nat
      /\ cur \in Block \cup {NULL} /\ fifo \in Seq(Block)
      /\ IF cur = NULL THEN offset = 0 ELSE offset <= cur.len /\ cur.off + offset = out
      /\ IF fifo = <<>> THEN NextOff = taken ELSE fifo[1].off = NextOff
      /\ \A i \in 1 .. Len(fifo) : fifo[i].off + fifo[i].len <= taken
  BY DEF IInv, TypeOK, Chain, Bounded
<1>2. NextOff \in Nat /\ out <= NextOff
  BY <1>1, BlockFields DEF NextOff
<1>3. CASE fifo = <<>>
  BY <1>1, <1>2, <1>3
<1>4. CASE fifo # <<>>
  <2>1. 1 \in 1 .. Len(fifo) /\ fifo[1] \in Block
    BY <1>1, <1>4
  <2>2. QED
    BY <1>1, <1>2, <1>4, <2>1, BlockFields
<1>5. QED
  BY <1>3, <1>4

(* The weights as numbers. *)
LEMMA Weights ==
  /\ \A l, r : Weight(l, r) \in 0 .. 8
  /\ \A r : /\ Weight("idle", r) = 0 /\ Weight("error", r) = 8
            /\ Weight("peek", r) = 7 /\ Weight("wake", r) = 6
            /\ Weight("kick", r) = 5 /\ Weight("nudge", r) = 4
            /\ Weight("send", r) = 3
            /\ Weight("fill", r) = IF r = PacketSize THEN 2 ELSE 8
  /\ \A l, r, s : l # "fill" => Weight(l, r) = Weight(l, s)
BY DEF Weight

(* The terms of the sum as numbers. *)
LEMMA Terms ==
  ASSUME IInv, ctx = "open"
  PROVE  /\ taken \in Nat /\ out \in Nat /\ out <= taken /\ Held \in Nat
         /\ unacked \in Nat /\ Once \in 0 .. 11 /\ StepsLeft \in Nat
<1>1. taken \in Nat /\ out \in Nat /\ out <= taken /\ unacked \in Nat
  BY OutTaken, BlockFields DEF IInv, TypeOK
<1>2. Held \in Nat
  BY HeldFacts DEF IInv
<1>3. Once \in 0 .. 11
  BY DEF Once
<1> DEFINE a == Weight(pc["bt"], room)  b == Weight(pc["client"], room)
<1>4. a \in 0 .. 8 /\ b \in 0 .. 8
  BY Weights
<1>5. StepsLeft = 7 * (taken - out + Held) + 4 * unacked + Once + a + b
  BY DEF StepsLeft
<1> HIDE DEF a, b
<1>6. StepsLeft \in Nat
  BY <1>1, <1>2, <1>3, <1>4, <1>5
<1>7. QED
  BY <1>1, <1>2, <1>3, <1>6

(* What a step of one thread from one label to label l does to the number  *)
(* of steps left.                                                          *)
LEMMA StepCosts ==
  ASSUME IInv, ctx = "open", NEW t \in Threads, NEW l,
         pc' = [pc EXCEPT ![t] = l],
         \A u \in Threads \ {t} : pc[u] # "fill" \/ room' = room,
         out' \in Nat, Held' \in Nat, unacked' \in Nat, Once' \in Nat,
         taken' = taken
  PROVE  StepsLeft' = StepsLeft + 7 * (out - out') + 7 * (Held' - Held)
                        + 4 * (unacked' - unacked) + (Once' - Once)
                        + (Weight(l, room') - Weight(pc[t], room))
<1>o. PICK o \in Nat, h \in Nat, k \in Nat, g \in Nat :
        out' = o /\ Held' = h /\ unacked' = k /\ Once' = g
  OBVIOUS
<1> DEFINE r == room'
<1>1. /\ taken \in Nat /\ out \in Nat /\ Held \in Nat
      /\ unacked \in Nat /\ Once \in Nat
  BY Terms
<1>d. DOMAIN pc = Threads
  BY DEF IInv, TypeOK
<1>2. /\ pc'[t] = l
      /\ \A u \in Threads \ {t} : pc'[u] = pc[u] /\ Weight(pc[u], r) = Weight(pc[u], room)
  BY <1>d, Weights
<1> DEFINE a == Weight(pc["bt"], room)  b == Weight(pc["client"], room)
           c == Weight(l, r)  n == Held  f == Once
<1>3. a \in Nat /\ b \in Nat /\ c \in Nat /\ n \in Nat /\ f \in Nat
  BY <1>1, Weights
<1>4. StepsLeft = 7 * (taken - out + n) + 4 * unacked + f + a + b
  BY DEF StepsLeft
<1>5. CASE t = "bt"
  <2>1. StepsLeft' = 7 * (taken - o + h) + 4 * k + g + c + b
    BY <1>2, <1>5, <1>o DEF StepsLeft, Threads
  <2>2. Weight(pc[t], room) = a
    BY <1>5
  <2> HIDE DEF a, b, c, n, f
  <2>3. QED
    BY <1>1, <1>3, <1>4, <1>o, <2>1, <2>2 DEF n, c, f, r
<1>6. CASE t = "client"
  <2>1. StepsLeft' = 7 * (taken - o + h) + 4 * k + g + a + c
    BY <1>2, <1>6, <1>o DEF StepsLeft, Threads
  <2>2. Weight(pc[t], room) = b
    BY <1>6
  <2> HIDE DEF a, b, c, n, f
  <2>3. QED
    BY <1>1, <1>3, <1>4, <1>o, <2>1, <2>2 DEF n, c, f, r
<1>7. QED
  BY <1>5, <1>6 DEF Threads

(* A thread that goes to a cheaper label, and does nothing else. *)
LEMMA Cheaper ==
  ASSUME IInv, ctx = "open", NEW t \in Threads, NEW l,
         pc' = [pc EXCEPT ![t] = l], UNCHANGED <<sender, source, cur, fifo>>,
         Weight(l, room) < Weight(pc[t], room)
  PROVE  StepsLeft' < StepsLeft
<1>1. /\ StepsLeft \in Nat /\ out \in Nat /\ Held \in Nat /\ unacked \in Nat
      /\ Once \in Nat
  BY Terms
<1>2. Weight(l, room) \in Nat /\ Weight(pc[t], room) \in Nat
  BY Weights
<1>3. Held' = Held /\ Once' = Once /\ room' = room /\ out' = out /\ unacked' = unacked
      /\ taken' = taken
  BY DEF sender, source, Held, Once
<1>4. /\ out' \in Nat /\ Held' \in Nat /\ unacked' \in Nat /\ Once' \in Nat
      /\ \A u \in Threads \ {t} : pc[u] # "fill" \/ room' = room
  BY <1>1, <1>3
<1>5. StepsLeft' = StepsLeft + 7 * (out - out') + 7 * (Held' - Held)
                     + 4 * (unacked' - unacked) + (Once' - Once)
                     + (Weight(l, room') - Weight(pc[t], room))
  BY <1>3, <1>4, StepCosts
<1>6. StepsLeft' = StepsLeft + 7 * (out - out) + 7 * (Held - Held)
                     + 4 * (unacked - unacked) + (Once - Once)
                     + (Weight(l, room) - Weight(pc[t], room))
  BY <1>3, <1>5
<1>7. QED
  BY <1>1, <1>2, <1>6

(* What a turn of the loop of get_data saves. *)
LEMMA CopyNearer ==
  ASSUME IInv, HasRoom, NEW t \in Threads, CopyFromBlock(t)
  PROVE  StepsLeft' < StepsLeft
<1> DEFINE b    == IF cur = NULL THEN Head(fifo) ELSE cur
           rest == IF cur = NULL THEN Tail(fifo) ELSE fifo
           n    == Min({room, b.len - offset})
           done == offset + n = b.len
           end  == done /\ BlockIsLast(b)
<1>1. /\ pc[t] = "fill" /\ ctx = "open" /\ ~final /\ room > 0 /\ room \in Nat
      /\ offset \in Nat /\ cur \in Block \cup {NULL} /\ fifo \in Seq(Block)
      /\ pc \in [Threads -> {"idle", "alloc", "put", "peek", "wake", "kick",
                            "nudge", "error", "send", "fill"}]
  BY BlockFields DEF CopyFromBlock, Touches, At, IInv, TypeOK, Turns, HasRoom
<1>a. \A u \in Threads \ {t} : pc[u] # "fill" \/ room' = room
  BY <1>1 DEF IInv, Turns, InSender, Threads
<1>2. PICK c, q, m : Copied(t, c, q, m)
  BY CopyFacts
<1>3. /\ out' = out + n /\ room' = room - n /\ taken' = taken /\ cloud' = cloud
      /\ started' = started
      /\ IF done THEN pool' = pool + 1 ELSE UNCHANGED pool
      /\ IF room = n \/ end THEN SendPacket(t, end) ELSE UNCHANGED <<unacked, final, pc>>
  BY DEF CopyFromBlock, BlockFree, source
<1>4. b \in Block /\ b.len \in Nat /\ offset <= b.len
  <2>1. IF cur = NULL THEN offset = 0 ELSE offset <= cur.len
    BY <1>1 DEF IInv, Chain
  <2>2. cur = NULL => fifo # <<>>
    BY DEF CopyFromBlock, Available
  <2>3. b \in Block
    BY <1>1, <2>2, TailFacts
  <2>4. b.len \in Nat
    BY <2>3, BlockFields
  <2>5. QED
    BY <1>1, <2>1, <2>3, <2>4
<1> HIDE DEF b
<1>5. n \in Nat /\ n <= room /\ (n = room \/ done)
  <2>1. b.len - offset \in Nat
    BY <1>1, <1>4
  <2>2. n \in Nat /\ n <= room /\ (n = room \/ n = b.len - offset)
    BY <1>1, <2>1, MinFacts
  <2>3. n = b.len - offset => done
    BY <1>1, <1>4
  <2>4. QED
    BY <2>2, <2>3
<1> HIDE DEF n, done
<1>6. PICK h \in Nat : h = Held' /\ IF done THEN h = Held - 1 ELSE h = Held
  <2>1. pool \in Nat
    BY HeldFacts DEF IInv
  <2>2. /\ Held' \in Nat
        /\ \/ pool' = pool /\ Held' = Held
           \/ pool' = pool + 1 /\ Held' = Held - 1
    BY <1>2, CopiedHeld
  <2>3. QED
    BY <1>3, <2>1, <2>2
<1>7. /\ StepsLeft \in Nat /\ out \in Nat /\ Held \in Nat /\ unacked \in Nat
      /\ Once \in Nat
  BY <1>1, Terms
<1>8. PICK o \in Nat, r \in Nat : o = out + n /\ r = room - n
  BY <1>1, <1>5, <1>7
<1>9. CASE room = n \/ end
  <2>1. unacked' = unacked + 1 /\ final' = end /\ pc' = [pc EXCEPT ![t] = "send"]
    BY <1>3, <1>9 DEF SendPacket, Goto
  <2>2. PICK k \in Nat : k = unacked + 1
    BY <1>7
  <2>3. PICK g \in Nat : g = Once' /\ IF end THEN g = Once - 6 ELSE g = Once
    <3>1. final' \in BOOLEAN /\ ~final /\ started' = started /\ cloud' = cloud
      BY <1>1, <1>3, <2>1
    <3>2. CASE end
      <4>1. final' = TRUE
        BY <2>1, <3>2
      <4>2. Once' = Once - 6 /\ Once' \in Nat
        BY <3>1, <4>1 DEF Once
      <4>3. QED
        BY <3>2, <4>2
    <3>3. CASE ~end
      <4>1. ~final'
        BY <2>1, <3>3
      <4>2. Once' = Once
        BY <3>1, <4>1 DEF Once
      <4>3. QED
        BY <1>7, <3>3, <4>2
    <3>4. QED
      BY <3>2, <3>3
  <2>4. StepsLeft' = StepsLeft + 7 * (out - o) + 7 * (h - Held)
                      + 4 * (k - unacked) + (g - Once)
                      + (Weight("send", r) - Weight(pc[t], room))
    <3>1. out' = o /\ room' = r /\ unacked' = k /\ Held' = h /\ Once' = g
      BY <1>3, <1>6, <1>8, <2>1, <2>2, <2>3
    <3>2. out' \in Nat /\ Held' \in Nat /\ unacked' \in Nat /\ Once' \in Nat
      BY <3>1
    <3>3. StepsLeft' = StepsLeft + 7 * (out - out') + 7 * (Held' - Held)
                     + 4 * (unacked' - unacked) + (Once' - Once)
                     + (Weight("send", room') - Weight(pc[t], room))
      BY <1>1, <1>a, <1>3, <2>1, <3>2, StepCosts
    <3>4. QED
      BY <3>1, <3>3
  <2>5. Weight("send", r) = 3 /\ Weight(pc[t], room) \in {2, 8}
    BY <1>1, Weights
  <2>6. end => done
    OBVIOUS
  <2>7. \/ h <= Held /\ g <= Once /\ out - o <= -1
        \/ h = Held - 1 /\ g = Once - 6 /\ out - o <= 0
    <3>1. CASE end
      BY <1>5, <1>6, <1>7, <1>8, <2>3, <2>6, <3>1
    <3>2. CASE ~end
      <4>1. n = room
        BY <1>9, <3>2
      <4>2. QED
        BY <1>1, <1>5, <1>6, <1>7, <1>8, <2>3, <3>2, <4>1
    <3>3. QED
      BY <3>1, <3>2
  <2>8. QED
    BY <1>7, <2>2, <2>4, <2>5, <2>7
<1>10. CASE ~(room = n \/ end)
  <2>1. UNCHANGED <<unacked, final, pc>>
    BY <1>3, <1>10
  <2>2. pc' = [pc EXCEPT ![t] = "fill"] /\ Once' = Once /\ h = Held - 1
    BY <1>1, <1>3, <1>5, <1>6, <1>10, <2>1 DEF Once
  <2>3. StepsLeft' = StepsLeft + 7 * (out - o) + 7 * (h - Held)
                      + 4 * (unacked - unacked) + (Once - Once)
                      + (Weight("fill", r) - Weight(pc[t], room))
    <3>1. /\ out' = o /\ room' = r /\ unacked' = unacked /\ Held' = h
          /\ Once' = Once
      BY <1>3, <1>6, <1>8, <2>1, <2>2
    <3>2. out' \in Nat /\ Held' \in Nat /\ unacked' \in Nat /\ Once' \in Nat
      BY <1>7, <3>1
    <3>3. StepsLeft' = StepsLeft + 7 * (out - out') + 7 * (Held' - Held)
                     + 4 * (unacked' - unacked) + (Once' - Once)
                     + (Weight("fill", room') - Weight(pc[t], room))
      BY <1>1, <1>a, <1>3, <2>2, <3>2, StepCosts
    <3>4. QED
      BY <3>1, <3>3
  <2>4. Weight("fill", r) \in {2, 8} /\ Weight(pc[t], room) \in {2, 8}
    BY <1>1, Weights
  <2>5. QED
    BY <1>5, <1>7, <1>8, <2>2, <2>3, <2>4
<1>11. QED
  BY <1>9, <1>10

(* The other steps of the sender. *)
LEMMA SenderNearer ==
  ASSUME IInv, ctx = "open", NEW t \in Threads,
         \/ BeginPacket(t) \/ StopSending(t) \/ EndAfterError(t)
         \/ ShortPacket(t) \/ AwaitData(t)
  PROVE  StepsLeft' < StepsLeft
<1>1. /\ StepsLeft \in Nat /\ out \in Nat /\ Held \in Nat /\ unacked \in Nat
      /\ Once \in Nat /\ room \in Nat
  BY Terms, BlockFields DEF IInv, TypeOK
<1>2. Held' = Held /\ out' = out /\ taken' = taken
  BY DEF BeginPacket, StopSending, EndAfterError, ShortPacket, AwaitData,
         data, source, sender, Held
<1>3. CASE BeginPacket(t)
  <2>1. /\ pc[t] = "send" /\ pc' = [pc EXCEPT ![t] = "fill"] /\ room' = PacketSize
        /\ unacked' = unacked /\ Once' = Once
    BY <1>3 DEF BeginPacket, Touches, At, Goto, source, Once
  <2>2. \A u \in Threads \ {t} : pc[u] # "fill" \/ room' = room
    BY <2>1 DEF IInv, Turns, InSender, Threads
  <2>3. out' \in Nat /\ Held' \in Nat /\ unacked' \in Nat /\ Once' \in Nat
    BY <1>1, <1>2, <2>1
  <2>4. StepsLeft' = StepsLeft + 7 * (out - out') + 7 * (Held' - Held)
                       + 4 * (unacked' - unacked) + (Once' - Once)
                       + (Weight("fill", room') - Weight(pc[t], room))
    BY <1>2, <2>1, <2>2, <2>3, StepCosts
  <2>5. StepsLeft' = StepsLeft + 7 * (out - out) + 7 * (Held - Held)
                       + 4 * (unacked - unacked) + (Once - Once) + (2 - 3)
    BY <1>2, <2>1, <2>4, Weights
  <2>6. QED
    BY <1>1, <2>5
<1>4. CASE StopSending(t) \/ AwaitData(t)
  <2>1. pc[t] \in {"send", "fill"} /\ pc' = [pc EXCEPT ![t] = "idle"]
        /\ UNCHANGED <<sender, source, cur, fifo>>
    BY <1>4 DEF StopSending, AwaitData, Touches, At, Goto, data
  <2>2. Weight("idle", room) < Weight(pc[t], room)
    BY <2>1, Weights
  <2>3. QED
    BY <2>1, <2>2, Cheaper
<1>5. CASE EndAfterError(t) \/ ShortPacket(t)
  <2>1. /\ pc[t] = "fill" /\ pc' = [pc EXCEPT ![t] = "send"] /\ room' = room
        /\ unacked' = unacked + 1 /\ started' = started /\ cloud' = cloud
        /\ final' = TRUE \/ (final' = FALSE /\ room < PacketSize)
    BY <1>5 DEF EndAfterError, ShortPacket, SendPacket, Touches, At, Goto, source
  <2>2. ~final
    BY <2>1 DEF IInv, Turns
  <2>3. PICK k \in Nat : k = unacked + 1
    BY <1>1
  <2>4. PICK g \in Nat : 
                 /\ g = Once'
                 /\ g = Once - 6 \/ (g = Once /\ room < PacketSize)
    <3>1. CASE final' = TRUE
      <4>1. final' /\ started' = started /\ cloud' = cloud
        BY <2>1, <3>1
      <4>2. Once' = Once - 6 /\ Once' \in Nat
        BY <2>2, <4>1 DEF Once
      <4>3. QED
        BY <4>2
    <3>2. CASE final' = FALSE /\ room < PacketSize
      <4>1. Once' = Once
        BY <2>1, <2>2, <3>2 DEF Once
      <4>2. QED
        BY <1>1, <3>2, <4>1
    <3>3. QED
      BY <2>1, <3>1, <3>2
  <2>5. /\ out' \in Nat /\ Held' \in Nat /\ unacked' \in Nat /\ Once' \in Nat
        /\ \A u \in Threads \ {t} : pc[u] # "fill" \/ room' = room
    <3>1. unacked' = k /\ room' = room
      BY <2>1, <2>3
    <3>2. QED
      BY <1>1, <1>2, <2>4, <3>1
  <2>6. StepsLeft' = StepsLeft + 7 * (out - out') + 7 * (Held' - Held)
                       + 4 * (unacked' - unacked) + (Once' - Once)
                       + (Weight("send", room') - Weight(pc[t], room))
    BY <1>2, <2>1, <2>5, StepCosts
  <2>7. StepsLeft' = StepsLeft + 7 * (out - out) + 7 * (Held - Held)
                       + 4 * (k - unacked) + (g - Once)
                       + (Weight("send", room) - Weight("fill", room))
    <3>1. unacked' = k /\ room' = room /\ Once' = g /\ pc[t] = "fill"
      BY <2>1, <2>3, <2>4
    <3>2. QED
      BY <1>2, <2>6, <3>1
  <2>8. /\ Weight("send", room) = 3 /\ Weight("fill", room) \in {2, 8}
        /\ room < PacketSize => Weight("fill", room) = 8
    BY <1>1, BlockFields, Weights
  <2>9. QED
    BY <1>1, <2>3, <2>4, <2>7, <2>8
<1>6. QED
  BY <1>3, <1>4, <1>5

(* An acknowledgement that does not end the download. *)
LEMMA AckNearer ==
  ASSUME IInv, ctx = "open", ctx' = "open", NEW k \in 0 .. Window, Ack(k)
  PROVE  StepsLeft' < StepsLeft
<1>1. /\ StepsLeft \in Nat /\ out \in Nat /\ Held \in Nat /\ unacked \in Nat
      /\ Once \in Nat /\ k \in Nat
  BY Terms, BlockFields
<1>2. /\ pc["bt"] = "idle" /\ k <= unacked /\ (started => k > 0)
      /\ unacked' = unacked - k /\ started' = TRUE
      /\ pc' = [pc EXCEPT !["bt"] = "send"]
      /\ UNCHANGED <<room, out, cur, fifo, taken, final, cloud>>
  BY DEF Ack, At, Goto, CloseContext, KeepContext, data, source
<1>3. PICK m \in Nat : m = unacked - k /\ unacked' = m
  BY <1>1, <1>2
<1>4. Held' = Held
  BY <1>2 DEF Held
<1>5. PICK g \in Nat : g = Once' /\ IF started THEN g = Once ELSE g = Once - 4
  <2>1. CASE started
    <3>1. Once' = Once
      BY <1>2, <2>1 DEF Once
    <3>2. QED
      BY <1>1, <2>1, <3>1
  <2>2. CASE ~started
    <3>1. Once' = Once - 4 /\ Once' \in Nat
      BY <1>2, <2>2 DEF Once
    <3>2. QED
      BY <2>2, <3>1
  <2>3. QED
    BY <2>1, <2>2
<1>6. /\ out' \in Nat /\ Held' \in Nat /\ unacked' \in Nat /\ Once' \in Nat
      /\ \A u \in Threads \ {"bt"} : pc[u] # "fill" \/ room' = room
      /\ "bt" \in Threads
  BY <1>1, <1>2, <1>3, <1>4, <1>5 DEF Threads
<1>7. StepsLeft' = StepsLeft + 7 * (out - out') + 7 * (Held' - Held)
                     + 4 * (unacked' - unacked) + (Once' - Once)
                     + (Weight("send", room') - Weight(pc["bt"], room))
  BY <1>2, <1>6, StepCosts
<1>8. StepsLeft' = StepsLeft + 7 * (out - out) + 7 * (Held - Held)
                     + 4 * (m - unacked) + (g - Once) + (3 - 0)
  BY <1>2, <1>3, <1>4, <1>5, <1>7, Weights
<1>9. g = Once - 4 \/ (g = Once /\ k > 0)
  <2>1. CASE started
    BY <1>2, <1>5, <2>1
  <2>2. CASE ~started
    BY <1>5, <2>2
  <2>3. QED
    BY <2>1, <2>2
<1>10. QED
  BY <1>1, <1>3, <1>8, <1>9

(* Every step of a delivery costs something. *)
LEMMA NearerStep ==
  ASSUME IInv, DueInv, HasRoom, [Next]_vars, vars' # vars, InDelivery, InDelivery'
  PROVE  IF others' = others THEN StepsLeft' < StepsLeft ELSE StepsLeft' = StepsLeft
<1>a. /\ ctx = "open" /\ ctx' = "open" /\ node_ctx /\ ~aborted /\ ~aborted'
      /\ conn /\ conn' /\ sub # "stopping" /\ sub' # "stopping"
      /\ cloud \in {"last", "ended", "failed"}
      /\ StepsLeft \in Nat
  BY Terms DEF InDelivery, Over, IInv, Links
<1>b. /\ pc \in [Threads -> {"idle", "alloc", "put", "peek", "wake", "kick",
                             "nudge", "error", "send", "fill"}]
      /\ others \in Nat
      /\ pc["client"] \notin {"alloc", "put"}
  BY <1>a, HeldFacts DEF IInv, TypeOK, Arrives
<1>c. "client" \in Threads /\ "bt" \in Threads
  BY DEF Threads
<1>1. ~Start /\ ~EndError /\ ~Alloc /\ ~PutBlock
  BY <1>a, <1>b DEF Start, EndError, Alloc, PutBlock, Touches, At
<1>2. \A n, last : ~BlockArrives(n, last)
  BY <1>a DEF BlockArrives
<1>3. ~SubscribeFails /\ ~Nack /\ ~SubscriptionEnds /\ ~Disconnect
  BY <1>a DEF SubscribeFails, Nack, SubscriptionEnds, Disconnect, CleanupDownlink
<1>4. ASSUME EndOk PROVE others' = others /\ StepsLeft' < StepsLeft
  <2>1. /\ others' = others /\ cloud = "last" /\ cloud' = "ended"
        /\ UNCHANGED <<taken, sender, cur, fifo, pc>>
    BY <1>4 DEF EndOk, At, data
  <2>2. Held' = Held
    BY <2>1 DEF Held
  <2>3. Once \in Nat /\ Once' \in Nat /\ Once' = Once - 1
    BY <2>1 DEF Once, sender
  <2>4. PICK g \in Nat : g = Once' /\ g = Once - 1
    BY <2>3
  <2> DEFINE a == Weight(pc["bt"], room)  b == Weight(pc["client"], room)
             x == 7 * (taken - out + Held) + 4 * unacked
  <2>5. StepsLeft = x + Once + a + b /\ StepsLeft' = x + g + a + b
    BY <2>1, <2>2, <2>4 DEF StepsLeft, sender
  <2>6. x \in Int /\ a \in Nat /\ b \in Nat
    BY <1>a, Terms, Weights
  <2> HIDE DEF a, b, x
  <2>7. QED
    BY <2>1, <2>3, <2>4, <2>5, <2>6
<1>5. ASSUME Peek \/ Wake \/ SetError \/ SeesSubscription \/ WakeSender
      PROVE  others' = others /\ StepsLeft' < StepsLeft
  <2>1. /\ others' = others /\ UNCHANGED <<sender, source, cur, fifo>>
        /\ \E l \in {"wake", "idle", "kick", "nudge", "peek", "send"} :
             /\ pc' = [pc EXCEPT !["client"] = l]
             /\ \/ pc["client"] = "peek" /\ l \in {"wake", "idle"}
                \/ pc["client"] = "wake" /\ l \in {"kick", "idle"}
                \/ pc["client"] = "error" /\ l = "peek"
                \/ pc["client"] = "kick" /\ l = "nudge"
                \/ pc["client"] = "nudge" /\ l = "send"
    BY <1>5 DEF Peek, Wake, SetError, SeesSubscription, WakeSender, Touches, At, Goto, data
  <2>2. PICK l \in {"wake", "idle", "kick", "nudge", "peek", "send"} :
             /\ pc' = [pc EXCEPT !["client"] = l]
             /\ \/ pc["client"] = "peek" /\ l \in {"wake", "idle"}
                \/ pc["client"] = "wake" /\ l \in {"kick", "idle"}
                \/ pc["client"] = "error" /\ l = "peek"
                \/ pc["client"] = "kick" /\ l = "nudge"
                \/ pc["client"] = "nudge" /\ l = "send"
    BY <2>1
  <2>3. Weight(l, room) < Weight(pc["client"], room)
    BY <2>2, Weights
  <2>4. QED
    BY <1>a, <1>c, <2>1, <2>2, <2>3, Cheaper
<1>6. ASSUME Subscribe PROVE others' = others /\ StepsLeft' < StepsLeft
  <2>1. /\ pc["client"] = "kick" /\ pc' = [pc EXCEPT !["client"] = "idle"]
        /\ sub \in {"no", "gone"} /\ started' = FALSE
        /\ UNCHANGED <<unacked, final, room, out, source, cur, fifo, others>>
    BY <1>a, <1>6 DEF Subscribe, ValueIsZero, At, Goto, data
  <2>2. sub = "no" /\ ~started
    BY <1>a, <2>1 DEF DueInv, Unasked
  <2>3. started \in BOOLEAN
    BY DEF IInv, TypeOK
  <2>4. UNCHANGED <<sender, source, cur, fifo>> /\ others' = others
    BY <2>1, <2>2, <2>3 DEF sender
  <2>5. Weight("idle", room) < Weight(pc["client"], room)
    BY <2>1, Weights
  <2>6. QED
    BY <1>a, <1>c, <2>1, <2>4, <2>5, Cheaper
<1>7. ASSUME NEW t \in Threads, Sending(t)
      PROVE  others' = others /\ StepsLeft' < StepsLeft
  <2>1. others' = others
    BY <1>7 DEF Sending, BeginPacket, StopSending, CopyFromBlock, EndAfterError,
       ShortPacket, AwaitData, data
  <2>2. CASE CopyFromBlock(t)
    BY <2>1, <2>2, CopyNearer
  <2>3. CASE ~CopyFromBlock(t)
    BY <1>a, <1>7, <2>1, <2>3, SenderNearer DEF Sending
  <2>4. QED
    BY <2>2, <2>3
<1>8. ASSUME NEW k \in 0 .. Window, Ack(k)
      PROVE  others' = others /\ StepsLeft' < StepsLeft
  <2>1. others' = others
    BY <1>8 DEF Ack, CloseContext, KeepContext, data
  <2>2. QED
    BY <1>a, <1>8, <2>1, AckNearer
<1>9. ASSUME OthersTake \/ OthersReturn
      PROVE  others' # others /\ StepsLeft' = StepsLeft
  <2>1. UNCHANGED <<pc, sender, taken, cloud, cur, fifo>>
    BY <1>9 DEF OthersTake, OthersReturn, source
  <2>2. others' # others
    BY <1>b, <1>9 DEF OthersTake, OthersReturn
  <2>3. StepsLeft' = StepsLeft
    BY <2>1 DEF StepsLeft, Held, Once, sender
  <2>4. QED
    BY <2>2, <2>3
<1>10. QED
  BY <1>c, <1>1, <1>2, <1>3, <1>4, <1>5, <1>6, <1>7, <1>8, <1>9 DEF Next,
     Receive, ClientSteps, Acks

(* A delivery does not run for ever: each step takes one from a number that*)
(* is fixed by what is queued, and with DeliveryHasStepDue there is one to *)
(* take until the context is freed.                                        *)
THEOREM DeliveryComesToEnd == Spec => DeliveryComesNearer
<1>1. IInv => Countable
  BY Terms DEF Countable
<1>2. IInv /\ DueInv /\ HasRoom /\ Countable /\ Countable' /\ [Next]_vars
        => [InDelivery /\ InDelivery' =>
              IF others' = others THEN StepsLeft' \in 0 .. StepsLeft - 1
                                  ELSE StepsLeft' = StepsLeft]_vars
  <2> SUFFICES ASSUME IInv, DueInv, HasRoom, Countable, Countable', [Next]_vars,
                      vars' # vars, InDelivery, InDelivery'
               PROVE  IF others' = others THEN StepsLeft' \in 0 .. StepsLeft - 1
                                          ELSE StepsLeft' = StepsLeft
    OBVIOUS
  <2>1. StepsLeft \in Nat /\ StepsLeft' \in Nat
    BY DEF InDelivery, Countable
  <2>2. IF others' = others THEN StepsLeft' < StepsLeft ELSE StepsLeft' = StepsLeft
    BY NearerStep
  <2>3. QED
    BY <2>1, <2>2
<1>3. Init => HasRoom
  BY DEF Init, HasRoom, Threads
<1>4. QED
  BY <1>1, <1>2, <1>3, HasRoomStep, Inductive, DueInductive, PTL
     DEF Spec, DeliveryComesNearer

-----------------------------------------------------------------------------
(* An aborted download that the cloud has completed, or was never asked    *)
(* for: no callback will come that frees the context.                      *)
Leaked == ctx = "open" /\ aborted /\ cloud \in {"none", "last", "ended", "failed"}

LeakedStays == [][Leaked => Leaked']_vars

(* Such a context stays for good, with the blocks that it holds: only the  *)
(* failure of the request in flight frees what cleanup_downlink aborted.   *)
THEOREM AbortLeaks == Spec => LeakedStays
<1>1. IInv /\ [Next]_vars => [Leaked => Leaked']_vars
  <2> SUFFICES ASSUME IInv, [Next]_vars, Leaked PROVE Leaked'
    OBVIOUS
  <2> USE DEF At, Touches, Goto, CleanupDownlink, FreesOnAbort, KeepContext,
             source, flags
  <2>a. /\ ctx = "open" /\ aborted /\ cloud \in {"none", "last", "ended", "failed"}
        /\ ~node_sender /\ ~node_ctx
    BY DEF Leaked, IInv, Links
  <2>b. pc["client"] # "put"
    BY <2>a DEF IInv, Arrives
  <2>1. CASE \/ EndOk \/ Peek \/ Wake \/ SetError \/ SeesSubscription
             \/ WakeSender \/ Nack \/ UNCHANGED vars
    BY <2>a, <2>1 DEF EndOk, Peek, Wake, SetError, SeesSubscription, WakeSender,
     Nack, vars, Leaked
  <2>2. CASE Alloc \/ OthersTake \/ OthersReturn
    BY <2>a, <2>2 DEF Alloc, OthersTake, OthersReturn, Leaked, IInv, Arrives
  <2>3. CASE Subscribe \/ SubscribeFails \/ SubscriptionEnds \/ Disconnect
    BY <2>a, <2>3 DEF Subscribe, SubscribeFails, SubscriptionEnds, Disconnect, Leaked
  <2>4. ASSUME NEW t \in Threads, Sending(t) PROVE Leaked'
    BY <2>a, <2>4 DEF Sending, BeginPacket, StopSending, CopyFromBlock,
       EndAfterError, ShortPacket, AwaitData, Leaked
  <2>5. ~Start /\ ~EndError /\ ~PutBlock /\ \A k : ~Ack(k)
    BY <2>a, <2>b DEF Start, EndError, PutBlock, Ack
  <2>6. \A n, last : ~BlockArrives(n, last)
    BY <2>a DEF BlockArrives
  <2>7. "bt" \in Threads /\ "client" \in Threads
    BY DEF Threads
  <2>8. QED
    BY <2>1, <2>2, <2>3, <2>4, <2>5, <2>6, <2>7 DEF Next, Receive, ClientSteps, Acks
<1>2. QED
  BY <1>1, Inductive, PTL DEF Spec, LeakedStays
=============================================================================
