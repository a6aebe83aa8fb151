--------------------------- MODULE GatewayProofs ---------------------------
(***************************************************************************)
(* Theorems about Gateway, for any nodes, builds and bounds: its types,    *)
(* that an application does one thing at a time, who gets in through a     *)
(* bonding window, and why it always goes back to scanning.                *)
(***************************************************************************)
EXTENDS Gateway, TLAPS

-----------------------------------------------------------------------------
(***************************************************************************)
(* The inductive invariant.  TypeOK is taken in two parts, as a leaf about *)
(* both flags and numbers is beyond each of the provers.                   *)
(***************************************************************************)

Flags ==
  /\ booted \in BOOLEAN /\ scanning \in BOOLEAN /\ found_bonded \in BOOLEAN
  /\ default_conn \in BOOLEAN /\ work \in BOOLEAN /\ bonding \in BOOLEAN
  /\ forever \in BOOLEAN

Values ==
  /\ config \in Configs /\ reboots \in 0 .. MaxReboots
  /\ found \in Nodes \cup {NULL}
  /\ pc \in {"idle", "create", "disable", "halted"}
  /\ link \in {"none", "initiating", "connected", "secured", "closing"}
  /\ peer \in Nodes \cup {NULL} /\ refs \in 0 .. 1
  /\ pairing \in {"none", "asked", "confirmed"}
  /\ session \in {"none", "running", "failed"}
  /\ counter \in 0 .. 2 /\ starts \in 0 .. 2
  /\ timer \in {"off", "armed", "queued"}
  /\ bonded \in SUBSET Nodes
  /\ windows \in Nat /\ strangers \in Nat
  /\ attempt \in {"none", "bonded", "stranger"}

(* Before the first scan there is nothing.                                 *)
Unbooted ==
  ~booted => ~scanning /\ pc = "idle" /\ link = "none" /\ refs = 0

(* device_found and the connection are about a node.                       *)
NodeKnown ==
  /\ pc = "create" => found \in Nodes
  /\ link # "none" => peer \in Nodes /\ attempt \in {"bonded", "stranger"}

(***************************************************************************)
(* The sample starts its second session only after a call of               *)
(* pouch_gateway_bt_finished, which the counter remembers.                 *)
(***************************************************************************)
StartsCounted ==
  IF config.app = "gateway" THEN ~work
  ELSE link = "secured" =>
         counter <= 1 /\ starts + (IF work THEN 1 ELSE 0) <= counter + 1

(***************************************************************************)
(* A window that is open, or the attempt that took the last one, has no    *)
(* stranger to its account yet; in "disable" the open one has.             *)
(***************************************************************************)
Unspent ==
  IF (pc = "create" /\ ~found_bonded) \/ (bonding /\ pc # "disable")
  THEN 1 ELSE 0

WindowsSpent == strangers + Unspent <= windows

(* Who was taken for bonded still is, until the connection is secured.     *)
BondsKept ==
  config.filter =>
    /\ (pc = "create" /\ found_bonded) => found \in bonded
    /\ (link \in {"initiating", "connected"} /\ attempt = "bonded")
         => peer \in bonded

Safe ==
  /\ Values /\ Unbooted /\ OneThingAtATime /\ NodeKnown /\ StartsCounted
  /\ WindowIsTimed /\ WindowsSpent /\ BondsKept

IInv == Flags /\ Safe

-----------------------------------------------------------------------------
(* The two parts of TypeOK.                                                *)
LEMMA Types == TypeOK <=> Flags /\ Values
BY DEF TypeOK, Flags, Values

(* The invariant holds before main runs.                                   *)
LEMMA InitInv == Init => IInv
<1> USE GatewayAssumption DEF Init
<1>1. Init => Flags
  BY DEF Flags
<1>2. Init => Values /\ Unbooted /\ OneThingAtATime /\ NodeKnown
  BY DEF Values, Unbooted, OneThingAtATime, NodeKnown
<1>3. Init => StartsCounted /\ WindowIsTimed /\ WindowsSpent /\ BondsKept
  BY DEF StartsCounted, WindowIsTimed, WindowsSpent, Unspent, BondsKept
<1> QED
  BY <1>1, <1>2, <1>3 DEF IInv, Safe

(* Every step of an application preserves the invariant.                   *)
LEMMA Step == IInv /\ [Next]_vars => IInv'
<1> SUFFICES ASSUME IInv, [Next]_vars PROVE IInv'
  OBVIOUS
<1> USE GatewayAssumption DEF IInv, Flags, Safe, Values, Unbooted,
   OneThingAtATime, NodeKnown, StartsCounted, WindowIsTimed, WindowsSpent,
   Unspent, BondsKept, system, radio, finder, conn, syncs, window, history,
   Running
<1>1. CASE Boot
  <2>1. Flags'
    BY <1>1 DEF Boot, BondingEnable
  <2>2. Safe'
    BY <1>1 DEF Boot, BondingEnable
  <2> QED
    BY <2>1, <2>2
<1>2. CASE Reboot
  <2>1. Flags'
    BY <1>2 DEF Reboot
  <2>2. Safe'
    BY <1>2 DEF Reboot
  <2> QED
    BY <2>1, <2>2
<1>3. CASE OpenWindow
  <2>1. Flags'
    BY <1>3 DEF OpenWindow, BondingEnable
  <2>2. Safe'
    BY <1>3 DEF OpenWindow, BondingEnable
  <2> QED
    BY <2>1, <2>2
<1>4. CASE ConfirmPasskey
  <2>1. Flags'
    BY <1>4 DEF ConfirmPasskey
  <2>2. Safe'
    BY <1>4 DEF ConfirmPasskey
  <2> QED
    BY <2>1, <2>2
<1>5. CASE TimerExpires
  <2>1. Flags'
    BY <1>5 DEF TimerExpires
  <2>2. Safe'
    BY <1>5 DEF TimerExpires
  <2> QED
    BY <2>1, <2>2
<1>6. CASE BondingTimeout
  <2>1. Flags'
    BY <1>6 DEF BondingTimeout
  <2>2. Safe'
    BY <1>6 DEF BondingTimeout
  <2> QED
    BY <2>1, <2>2
<1>7. ASSUME NEW d \in Nodes, NEW sync \in BOOLEAN,
             DeviceFound(d, sync)
      PROVE IInv'
  <2>1. Flags'
    BY <1>7 DEF DeviceFound, Wanted, Bonded
  <2>2. (Values /\ Unbooted /\ OneThingAtATime /\ NodeKnown)'
    BY <1>7 DEF DeviceFound, Wanted, Bonded
  <2>3. (StartsCounted /\ WindowIsTimed /\ WindowsSpent /\ BondsKept)'
    BY <1>7 DEF DeviceFound, Wanted, Bonded
  <2> QED
    BY <2>1, <2>2, <2>3
<1>8. CASE FatalCompare
  <2>1. Flags'
    BY <1>8 DEF FatalCompare
  <2>2. Safe'
    BY <1>8 DEF FatalCompare
  <2> QED
    BY <2>1, <2>2
<1>9. CASE Create
  <2>1. Flags'
    BY <1>9 DEF Create
  <2>2. Safe'
    BY <1>9 DEF Create
  <2> QED
    BY <2>1, <2>2
<1>10. CASE CreateFails
  <2>1. Flags'
    BY <1>10 DEF CreateFails
  <2>2. Safe'
    BY <1>10 DEF CreateFails
  <2> QED
    BY <2>1, <2>2
<1>11. CASE BondingDisable
  <2>1. Flags'
    BY <1>11 DEF BondingDisable
  <2>2. Safe'
    BY <1>11 DEF BondingDisable
  <2> QED
    BY <2>1, <2>2
<1>12. CASE ConnectFails
  <2>1. Flags'
    BY <1>12 DEF ConnectFails, Unref
  <2>2. Safe'
    BY <1>12 DEF ConnectFails, Unref
  <2> QED
    BY <2>1, <2>2
<1>13. CASE Connected
  <2>1. Flags'
    BY <1>13 DEF Connected
  <2>2. Safe'
    BY <1>13 DEF Connected
  <2> QED
    BY <2>1, <2>2
<1>14. CASE AskPasskey
  <2>1. Flags'
    BY <1>14 DEF AskPasskey
  <2>2. Safe'
    BY <1>14 DEF AskPasskey
  <2> QED
    BY <2>1, <2>2
<1>15. CASE Secured
  <2>1. Flags'
    BY <1>15 DEF Secured
  <2>2. Safe'
    BY <1>15 DEF Secured
  <2> QED
    BY <2>1, <2>2
<1>16. CASE SecurityFails
  <2>1. Flags'
    BY <1>16 DEF SecurityFails
  <2>2. Safe'
    BY <1>16 DEF SecurityFails
  <2> QED
    BY <2>1, <2>2
<1>17. CASE Finished
  <2>1. Flags'
    BY <1>17 DEF Finished, Count
  <2>2. Safe'
    BY <1>17 DEF Finished, Count
  <2> QED
    BY <2>1, <2>2
<1>18. CASE SyncStart
  <2>1. Flags'
    BY <1>18 DEF SyncStart, Count
  <2>2. Safe'
    BY <1>18 DEF SyncStart, Count
  <2> QED
    BY <2>1, <2>2
<1>19. CASE Disconnected
  <2>1. Flags'
    BY <1>19 DEF Disconnected, Count, Unref
  <2>2. Safe'
    BY <1>19 DEF Disconnected, Count, Unref
  <2> QED
    BY <2>1, <2>2
<1>20. CASE UNCHANGED vars
  BY <1>20 DEF vars
<1> QED
  BY <1>1, <1>2, <1>3, <1>4, <1>5, <1>6, <1>7, <1>8, <1>9, <1>10, <1>11,
     <1>12, <1>13, <1>14, <1>15, <1>16, <1>17, <1>18, <1>19, <1>20 DEF Next

(* The invariant holds at all times.                                       *)
LEMMA Inductive == Spec => []IInv
BY InitInv, Step, PTL DEF Spec

-----------------------------------------------------------------------------
(* The variables hold values of their types.                               *)
THEOREM TypeCorrect == Spec => []TypeOK
<1>1. IInv => TypeOK
  BY Types DEF IInv, Safe
<1> QED
  BY <1>1, Inductive, PTL

(***************************************************************************)
(* Once it has booted, an application scans, or connects, or has one       *)
(* connection, and holds a reference exactly if there is one (bt_connected *)
(* and bt_disconnected of main.c).                                         *)
(***************************************************************************)
THEOREM OneAtATime == Spec => []OneThingAtATime
<1>1. IInv => OneThingAtATime
  BY DEF IInv, Safe
<1> QED
  BY <1>1, Inductive, PTL

(* A window that was opened for a time has its timer (lib/bt/bond.c).      *)
THEOREM WindowTimed == Spec => []WindowIsTimed
<1>1. IInv => WindowIsTimed
  BY DEF IInv, Safe
<1> QED
  BY <1>1, Inductive, PTL

(***************************************************************************)
(* There are at most as many connections begun to strangers as there were  *)
(* windows, however many nodes advertise and however many attempts fail.   *)
(***************************************************************************)
THEOREM StrangersBounded == Spec => []OneStrangerPerWindow
<1>1. IInv => OneStrangerPerWindow
  BY DEF IInv, Flags, Safe, Values, WindowsSpent, Unspent, OneStrangerPerWindow
<1> QED
  BY <1>1, Inductive, PTL

(***************************************************************************)
(* When nodes are filtered, a bond is made only in a connection that was   *)
(* begun to a stranger: security_changed gives none to a node that had     *)
(* been taken for bonded.                                                  *)
(***************************************************************************)
THEOREM BondsFromWindow == Spec => NewBondsFromWindow
<1> DEFINE A == config.filter => (bonded' \subseteq bonded \/ attempt = "stranger")
<1>1. IInv /\ [Next]_vars => [A]_vars
  <2> SUFFICES ASSUME IInv, Next PROVE A
    OBVIOUS
  <2>1. CASE Secured
    BY <2>1 DEF IInv, Safe, NodeKnown, BondsKept, Secured
  <2>2. CASE ~Secured
    BY <2>2 DEF Next, Boot, Reboot, OpenWindow, ConfirmPasskey, TimerExpires,
       BondingTimeout, DeviceFound, FatalCompare, Create, CreateFails,
       BondingDisable, ConnectFails, Connected, AskPasskey, SecurityFails,
       Finished, SyncStart, Disconnected
  <2> QED
    BY <2>1, <2>2
<1> QED
  BY <1>1, Inductive, PTL DEF Spec, NewBondsFromWindow

-----------------------------------------------------------------------------
(* Why an application goes back to scanning: the safety that               *)
(* ScanningResumes and SyncsStop rest on.                                  *)

(* A step that leads back to scanning: the application or its host thread  *)
(* has something to run, or the connection is on its way up or down. These *)
(* are the guards of the steps that FairSpec is fair to.                   *)
Due ==
  \/ ~booted /\ timer # "queued"
  \/ timer = "queued"
  \/ pc \in {"create", "disable"}
  \/ pc = "idle" /\ link \in {"initiating", "connected", "closing"}
  \/ link = "secured" /\ (session = "running" \/ work)

(* An application that does not scan is never stuck. *)
ScanIsDue == Running /\ ~scanning => Due

(* What they need of pc and of the sessions. *)
Halts == pc = "halted" => config.app # "gateway" /\ scanning

SecuredIsBusy == link = "secured" => session = "running" \/ work

DueInv ==
  /\ Halts /\ SecuredIsBusy
  /\ pc = "disable" => link = "initiating"
  /\ config.app = "gateway" => counter = 0

LEMMA DueStep == IInv /\ DueInv /\ [Next]_vars => DueInv'
<1> SUFFICES ASSUME IInv, DueInv, [Next]_vars PROVE DueInv'
  OBVIOUS
<1> USE GatewayAssumption DEF IInv, Flags, Safe, Values, Unbooted,
   OneThingAtATime, StartsCounted, DueInv, Halts, SecuredIsBusy, system, radio,
   finder, conn, syncs, window, history, Running
<1>1. CASE Boot \/ Reboot \/ OpenWindow \/ ConfirmPasskey \/ TimerExpires
             \/ BondingTimeout \/ UNCHANGED vars
  BY <1>1 DEF Boot, Reboot, OpenWindow, ConfirmPasskey, TimerExpires,
     BondingTimeout, BondingEnable, vars
<1>2. ASSUME NEW d \in Nodes, NEW sync \in BOOLEAN, DeviceFound(d, sync)
      PROVE  DueInv'
  BY <1>2 DEF DeviceFound
<1>3. CASE FatalCompare \/ Create \/ CreateFails \/ BondingDisable
  BY <1>3 DEF FatalCompare, CompareNull, Create, CreateFails, BondingDisable
<1>4. CASE ConnectFails \/ Connected \/ AskPasskey \/ SecurityFails
  BY <1>4 DEF ConnectFails, Connected, AskPasskey, SecurityFails
<1>5. CASE Secured
  BY <1>5 DEF Secured
<1>6. CASE Finished
  BY <1>6 DEF Finished, Count
<1>7. CASE SyncStart
  BY <1>7 DEF SyncStart, Count
<1>8. CASE Disconnected
  BY <1>8 DEF Disconnected, Count
<1>9. QED
  BY <1>1, <1>2, <1>3, <1>4, <1>5, <1>6, <1>7, <1>8 DEF Next

LEMMA DueInductive == Spec => []DueInv
<1>1. Init => DueInv
  BY DEF Init, DueInv, Halts, SecuredIsBusy
<1>2. QED
  BY <1>1, DueStep, Inductive, PTL DEF Spec

(* In whatever state of its connection, of device_found and of the sample's*)
(* sessions an application does not scan, one of the steps that lead back  *)
(* to scanning can be taken.                                               *)
THEOREM ScanHasStepDue == Spec => []ScanIsDue
<1>1. IInv /\ DueInv => ScanIsDue
  BY DEF IInv, Safe, Values, OneThingAtATime, DueInv, SecuredIsBusy, Running,
     ScanIsDue, Due
<1>2. QED
  BY <1>1, Inductive, DueInductive, PTL

-----------------------------------------------------------------------------
(* How far the sample's sessions are from coming to rest. *)
CounterWeight(c) == 5 * (2 - c)
WorkWeight(w)    == IF w THEN 3 ELSE 0
SessionWeight(s) == CASE s = "running" -> 2 [] s = "failed" -> 1 [] OTHER -> 0

SyncWeight == CounterWeight(counter) + WorkWeight(work) + SessionWeight(session)

(* How far an application is from scanning. *)
LinkWeight(l) ==
  CASE l = "closing" -> 20
    [] l = "secured" -> 40
    [] l = "connected" -> 60
    [] l = "initiating" -> 80
    [] OTHER -> 100

PcWeight(p) == IF p = "disable" THEN 1 ELSE 0

PairingWeight(p) == CASE p = "none" -> 2 [] p = "asked" -> 1 [] OTHER -> 0

Distance ==
  SyncWeight + LinkWeight(link) + PcWeight(pc) + PairingWeight(pairing)

(* Work that is scheduled schedules itself no more than twice: only a      *)
(* connection that is secured sets the count back.                         *)
SyncsRunDown ==
  [][UNCHANGED <<counter, work, session>> \/ Secured \/ SyncWeight' < SyncWeight]_vars

(* Until it scans again, or reboots, every step of the connection, of      *)
(* device_found and of the sessions takes an application nearer to it, and *)
(* those of the bonding window take it no further away.                    *)
ScanComesNearer ==
  [][booted /\ booted' /\ ~scanning /\ ~scanning' =>
       IF UNCHANGED <<finder, conn, syncs>> THEN Distance' = Distance
                                            ELSE Distance' \in 0 .. Distance - 1]_vars

(* The weights as numbers. *)
LEMMA Weights ==
  /\ \A c \in 0 .. 2 : CounterWeight(c) \in 0 .. 10
  /\ CounterWeight(0) = 10 /\ CounterWeight(1) = 5 /\ CounterWeight(2) = 0
  /\ \A w \in BOOLEAN : WorkWeight(w) \in 0 .. 3
  /\ WorkWeight(TRUE) = 3 /\ WorkWeight(FALSE) = 0
  /\ \A s : SessionWeight(s) \in 0 .. 2
  /\ SessionWeight("running") = 2 /\ SessionWeight("failed") = 1
  /\ SessionWeight("none") = 0
  /\ \A l : LinkWeight(l) \in {20, 40, 60, 80, 100}
  /\ LinkWeight("closing") = 20 /\ LinkWeight("secured") = 40
  /\ LinkWeight("connected") = 60 /\ LinkWeight("initiating") = 80
  /\ LinkWeight("none") = 100
  /\ \A p : PcWeight(p) \in 0 .. 1
  /\ PcWeight("create") = 0 /\ PcWeight("idle") = 0 /\ PcWeight("disable") = 1
  /\ \A p : PairingWeight(p) \in 0 .. 2
  /\ PairingWeight("none") = 2 /\ PairingWeight("asked") = 1
  /\ PairingWeight("confirmed") = 0
BY DEF CounterWeight, WorkWeight, SessionWeight, LinkWeight, PcWeight, PairingWeight

LEMMA SyncWeightNat == Flags /\ Values => SyncWeight \in 0 .. 15
<1> SUFFICES ASSUME Flags, Values PROVE SyncWeight \in 0 .. 15
  OBVIOUS
<1> DEFINE a == CounterWeight(counter)  b == WorkWeight(work)  c == SessionWeight(session)
<1>1. a \in 0 .. 10 /\ b \in 0 .. 3 /\ c \in 0 .. 2
  BY Weights DEF Flags, Values
<1>2. SyncWeight = a + b + c
  BY DEF SyncWeight
<1> HIDE DEF a, b, c
<1>3. QED
  BY <1>1, <1>2

(* A count of one is worth more than the work that it schedules. *)
LEMMA CountFacts ==
  ASSUME counter \in 0 .. 2, work \in BOOLEAN, NEW k \in 0 .. 2,
         Count(k, work)
  PROVE  /\ counter' \in 0 .. 2 /\ work' \in BOOLEAN
         /\ \/ counter' = counter /\ work' = work
            \/ CounterWeight(counter') + WorkWeight(work')
                 < CounterWeight(counter) + WorkWeight(work)
<1>1. /\ counter' \in 0 .. 2 /\ work' \in BOOLEAN
      /\ \/ counter' = counter /\ work' = work
         \/ /\ counter = 0 /\ counter' \in {1, 2}
         \/ /\ counter = 1 /\ counter' = 2 /\ work' = work
  BY DEF Count
<1>2. WorkWeight(work') \in 0 .. 3 /\ WorkWeight(work) \in 0 .. 3
  BY <1>1, Weights
<1>3. CASE counter = 0 /\ counter' \in {1, 2}
  <2>1. CounterWeight(counter) = 10 /\ CounterWeight(counter') \in {0, 5}
    BY <1>3, Weights
  <2>2. QED
    BY <1>1, <1>2, <2>1
<1>4. CASE counter = 1 /\ counter' = 2 /\ work' = work
  <2>1. /\ CounterWeight(counter) = 5 /\ CounterWeight(counter') = 0
        /\ WorkWeight(work') = WorkWeight(work)
    BY <1>4, Weights
  <2>2. QED
    BY <1>1, <1>2, <2>1
<1>5. QED
  BY <1>1, <1>3, <1>4

(* Every step but that of security_changed brings the sessions to rest. *)
LEMMA SyncStep ==
  ASSUME IInv, DueInv, [Next]_vars, ~Secured
  PROVE  \/ UNCHANGED <<counter, work, session>>
         \/ SyncWeight' < SyncWeight
<1>a. /\ counter \in 0 .. 2 /\ work \in BOOLEAN
      /\ session \in {"none", "running", "failed"}
      /\ config.app = "gateway" => ~work /\ counter = 0
  BY DEF IInv, Flags, Safe, Values, StartsCounted, DueInv
<1>b. /\ CounterWeight(counter) \in 0 .. 10 /\ WorkWeight(work) \in 0 .. 3
      /\ SessionWeight(session) \in 0 .. 2 /\ SessionWeight(session') \in 0 .. 2
      /\ SyncWeight = CounterWeight(counter) + WorkWeight(work) + SessionWeight(session)
      /\ SyncWeight' = CounterWeight(counter') + WorkWeight(work') + SessionWeight(session')
  BY <1>a, Weights DEF SyncWeight
<1>c. ASSUME UNCHANGED <<counter, work>>,
             session' # session => SessionWeight(session') < SessionWeight(session)
      PROVE  UNCHANGED <<counter, work, session>> \/ SyncWeight' < SyncWeight
  <2>1. CounterWeight(counter') = CounterWeight(counter)
        /\ WorkWeight(work') = WorkWeight(work)
    BY <1>c
  <2>2. CASE session' = session
    BY <1>c, <2>2
  <2>3. CASE session' # session
    BY <1>b, <1>c, <2>1, <2>3
  <2>4. QED
    BY <2>2, <2>3
<1>d. ASSUME NEW k \in 0 .. 2, Count(k, work),
             session' # session => SessionWeight(session') < SessionWeight(session)
      PROVE  UNCHANGED <<counter, work, session>> \/ SyncWeight' < SyncWeight
  <2>1. /\ counter' \in 0 .. 2 /\ work' \in BOOLEAN
        /\ \/ counter' = counter /\ work' = work
           \/ CounterWeight(counter') + WorkWeight(work')
                < CounterWeight(counter) + WorkWeight(work)
    BY <1>a, <1>d, CountFacts
  <2>2. CASE counter' = counter /\ work' = work
    BY <1>c, <1>d, <2>2
  <2>3. CASE CounterWeight(counter') + WorkWeight(work')
               < CounterWeight(counter) + WorkWeight(work)
    <3>1. CounterWeight(counter') \in 0 .. 10 /\ WorkWeight(work') \in 0 .. 3
      BY <2>1, Weights
    <3>2. SessionWeight(session') <= SessionWeight(session)
      <4>1. CASE session' = session
        BY <1>b, <4>1
      <4>2. CASE session' # session
        BY <1>b, <1>d, <4>2
      <4>3. QED
        BY <4>1, <4>2
    <3>3. QED
      BY <1>b, <2>3, <3>1, <3>2
  <2>4. QED
    BY <2>1, <2>2, <2>3
<1>1. CASE Boot \/ OpenWindow \/ ConfirmPasskey \/ TimerExpires \/ BondingTimeout
           \/ FatalCompare \/ Create \/ CreateFails \/ BondingDisable
           \/ ConnectFails \/ Connected \/ AskPasskey \/ SecurityFails
           \/ UNCHANGED vars
  BY <1>1 DEF Boot, OpenWindow, ConfirmPasskey, TimerExpires, BondingTimeout,
     FatalCompare, Create, CreateFails, BondingDisable, ConnectFails, Connected,
     AskPasskey, SecurityFails, vars, syncs
<1>2. ASSUME NEW d \in Nodes, NEW sync \in BOOLEAN, DeviceFound(d, sync)
      PROVE  UNCHANGED <<counter, work, session>>
  BY <1>2 DEF DeviceFound, syncs
<1>3. CASE Reboot
  <2>1. config.app = "gateway" /\ counter' = 0 /\ work' = FALSE /\ session' = "none"
    BY <1>3 DEF Reboot
  <2>2. UNCHANGED <<counter, work>>
    BY <1>a, <2>1
  <2>3. session' # session => SessionWeight(session') < SessionWeight(session)
    BY <1>a, <2>1, Weights
  <2>4. QED
    BY <1>c, <2>2, <2>3
<1>4. CASE Finished
  <2>1. /\ session \in {"running", "failed"} /\ session' \in {"none", "failed"}
        /\ UNCHANGED <<counter, work>> \/ Count(1, work)
    BY <1>a, <1>4 DEF Finished
  <2>2. session' # session => SessionWeight(session') < SessionWeight(session)
    BY <2>1, Weights
  <2>3. QED
    BY <1>c, <1>d, <2>1, <2>2
<1>5. CASE SyncStart
  <2>1. CASE link \in {"connected", "secured"}
    <3>1. work /\ work' = FALSE /\ session' = "running" /\ counter' = counter
      BY <1>5, <2>1 DEF SyncStart
    <3>2. /\ WorkWeight(work) = 3 /\ WorkWeight(work') = 0
          /\ CounterWeight(counter') = CounterWeight(counter)
      BY <3>1 DEF WorkWeight
    <3>3. SessionWeight(session') = 2
      BY <3>1, Weights
    <3>4. QED
      BY <1>b, <3>2, <3>3
  <2>2. CASE link \notin {"connected", "secured"}
    <3>1. work /\ Count(1, FALSE) /\ session' = session
      BY <1>5, <2>2 DEF SyncStart
    <3>2. /\ work' \in BOOLEAN
          /\ \/ counter = 2 /\ counter' = 2 /\ ~work'
             \/ counter = 1 /\ counter' = 2
             \/ counter = 0 /\ counter' = 1
      <4>1. /\ counter' = IF counter + 1 > 2 THEN 2 ELSE counter + 1
            /\ work' = (FALSE \/ (counter = 0 /\ 1 > 0))
        BY <3>1 DEF Count
      <4>2. work' \in BOOLEAN /\ (work' => counter = 0)
        BY <4>1
      <4>3. \/ counter = 2 /\ counter' = 2
            \/ counter = 1 /\ counter' = 2
            \/ counter = 0 /\ counter' = 1
        BY <1>a, <4>1
      <4>4. QED
        BY <4>2, <4>3
    <3>3. WorkWeight(work) = 3 /\ (~work' => WorkWeight(work') = 0)
      BY <3>1 DEF WorkWeight
    <3>4. WorkWeight(work') \in 0 .. 3 /\ SessionWeight(session') = SessionWeight(session)
      BY <3>1, <3>2, Weights
    <3>5. \/ CounterWeight(counter') = CounterWeight(counter) /\ WorkWeight(work') = 0
          \/ CounterWeight(counter') = CounterWeight(counter) - 5
      <4>1. CASE counter = 2 /\ counter' = 2 /\ ~work'
        BY <3>3, <4>1
      <4>2. CASE counter = 1 /\ counter' = 2
        BY <4>2, Weights
      <4>3. CASE counter = 0 /\ counter' = 1
        BY <4>3, Weights
      <4>4. QED
        BY <3>2, <4>1, <4>2, <4>3
    <3>6. QED
      BY <1>b, <3>3, <3>4, <3>5
  <2>3. QED
    BY <2>1, <2>2
<1>6. CASE Disconnected
  <2>1. /\ session' = "none"
        /\ UNCHANGED <<counter, work>> \/ \E k \in 0 .. 2 : Count(k, work)
    BY <1>6 DEF Disconnected
  <2>2. session' # session => SessionWeight(session') < SessionWeight(session)
    BY <1>a, <2>1, Weights
  <2>3. QED
    BY <1>c, <1>d, <2>1, <2>2
<1>7. QED
  BY <1>1, <1>2, <1>3, <1>4, <1>5, <1>6 DEF Next

(* The work item of the sample, which no disconnection cancels and which   *)
(* the sessions that it starts schedule again, comes to rest: between two  *)
(* connections that are secured it runs a bounded number of times.         *)
THEOREM SyncsComeToRest == Spec => SyncsRunDown
<1>1. IInv /\ DueInv /\ [Next]_vars
        => [UNCHANGED <<counter, work, session>> \/ Secured
              \/ SyncWeight' < SyncWeight]_vars
  BY SyncStep
<1>2. QED
  BY <1>1, Inductive, DueInductive, PTL DEF Spec, SyncsRunDown

(* Every step until the next scan. *)
LEMMA DistanceStep ==
  ASSUME IInv, DueInv, SyncWeight' \in 0 .. 15, [Next]_vars, vars' # vars,
         booted, booted', ~scanning, ~scanning'
  PROVE  IF UNCHANGED <<finder, conn, syncs>> THEN Distance' = Distance
                                              ELSE Distance' < Distance
<1>a. /\ SyncWeight \in 0 .. 15 /\ SyncWeight' \in 0 .. 15
      /\ LinkWeight(link) \in {20, 40, 60, 80, 100}
      /\ PcWeight(pc) \in 0 .. 1 /\ PairingWeight(pairing) \in 0 .. 2
      /\ PcWeight(pc') \in 0 .. 1 /\ PairingWeight(pairing') \in 0 .. 2
      /\ LinkWeight(link') \in {20, 40, 60, 80, 100}
  BY SyncWeightNat, Weights DEF IInv, Safe
<1>b. /\ Distance = SyncWeight + LinkWeight(link) + PcWeight(pc) + PairingWeight(pairing)
      /\ Distance' = SyncWeight' + LinkWeight(link') + PcWeight(pc') + PairingWeight(pairing')
  BY DEF Distance
<1>c. UNCHANGED syncs => SyncWeight' = SyncWeight
  BY DEF syncs, SyncWeight
<1>1. /\ ~Boot /\ ~Reboot /\ ~FatalCompare /\ ~CreateFails /\ ~ConnectFails
      /\ ~Disconnected /\ \A d, sync : ~DeviceFound(d, sync)
  BY DEF Boot, Reboot, FatalCompare, CreateFails, ConnectFails, Disconnected,
     DeviceFound
<1>2. CASE OpenWindow \/ TimerExpires \/ BondingTimeout
  <2>1. UNCHANGED <<finder, conn, syncs>>
    BY <1>2 DEF OpenWindow, TimerExpires, BondingTimeout
  <2>2. Distance' = Distance
    BY <1>b, <1>c, <2>1 DEF finder, conn
  <2>3. QED
    BY <2>1, <2>2
<1>3. CASE ConfirmPasskey \/ AskPasskey
  <2>1. /\ UNCHANGED <<syncs, link, pc>>
        /\ \/ pairing = "asked" /\ pairing' = "confirmed"
           \/ pairing = "none" /\ pairing' \in {"asked", "confirmed"}
    BY <1>3 DEF ConfirmPasskey, AskPasskey, finder
  <2>2. PairingWeight(pairing') < PairingWeight(pairing)
    BY <2>1, Weights
  <2>3. Distance' < Distance
    BY <1>a, <1>b, <1>c, <2>1, <2>2
  <2>4. QED
    BY <2>1, <2>3 DEF conn
<1>4. CASE Create
  <2>1. /\ UNCHANGED <<syncs, pairing>> /\ link = "none" /\ link' = "initiating"
        /\ pc = "create" /\ pc' \in {"idle", "disable"}
    BY <1>4 DEF Create, IInv, Safe, OneThingAtATime
  <2>2. LinkWeight(link) = 100 /\ LinkWeight(link') = 80
    BY <2>1, Weights
  <2>3. Distance' < Distance
    BY <1>a, <1>b, <1>c, <2>1, <2>2
  <2>4. QED
    BY <2>1, <2>3 DEF conn
<1>5. CASE BondingDisable
  <2>1. UNCHANGED <<syncs, pairing, link>> /\ pc = "disable" /\ pc' = "idle"
    BY <1>5 DEF BondingDisable, conn
  <2>2. PcWeight(pc) = 1 /\ PcWeight(pc') = 0
    BY <2>1, Weights
  <2>3. Distance' < Distance
    BY <1>a, <1>b, <1>c, <2>1, <2>2
  <2>4. QED
    BY <2>1, <2>3 DEF finder
<1>6. CASE Connected \/ Secured \/ SecurityFails
  <2>1. /\ pc' = pc
        /\ \/ link = "initiating" /\ link' \in {"connected", "closing"}
           \/ link = "connected" /\ link' \in {"secured", "closing"}
    BY <1>6 DEF Connected, Secured, SecurityFails, finder
  <2>2. LinkWeight(link') <= LinkWeight(link) - 20
    BY <2>1, Weights
  <2>3. Distance' < Distance
    BY <1>a, <1>b, <2>1, <2>2
  <2>4. QED
    BY <2>1, <2>3 DEF conn
<1>7. CASE Finished \/ SyncStart
  <2>1. /\ UNCHANGED <<pc, pairing, finder, peer, refs, default_conn>> /\ ~Secured
        /\ link' \in {link, "closing"}
    BY <1>7 DEF Finished, SyncStart, Secured, finder, conn
  <2>2. UNCHANGED <<counter, work, session>> \/ SyncWeight' < SyncWeight
    BY <2>1, SyncStep
  <2>3. CASE UNCHANGED <<counter, work, session>>
    <3>1. Finished
      BY <1>7, <2>3 DEF SyncStart, Count, IInv, Flags
    <3>2. UNCHANGED syncs
      BY <2>3, <3>1 DEF Finished, syncs
    <3>3. CASE link' = link
      <4>1. UNCHANGED <<finder, conn, syncs>> /\ Distance' = Distance
        BY <1>b, <1>c, <2>1, <3>2, <3>3 DEF conn
      <4>2. QED
        BY <4>1
    <3>4. CASE link' # link
      <4>1. link' = "closing" /\ link \in {"connected", "secured"}
        BY <2>1, <3>1, <3>4 DEF Finished
      <4>2. LinkWeight(link') < LinkWeight(link)
        BY <4>1, Weights
      <4>3. Distance' < Distance
        BY <1>a, <1>b, <1>c, <2>1, <3>2, <4>2
      <4>4. QED
        BY <3>4, <4>3 DEF conn
    <3>5. QED
      BY <3>3, <3>4
  <2>4. CASE SyncWeight' < SyncWeight
    <3>1. LinkWeight(link') <= LinkWeight(link)
      BY <1>a, <2>1, Weights
    <3>2. Distance' < Distance
      BY <1>a, <1>b, <2>1, <2>4, <3>1
    <3>3. ~UNCHANGED syncs
      BY <1>a, <1>c, <2>4
    <3>4. QED
      BY <3>2, <3>3
  <2>5. QED
    BY <2>2, <2>3, <2>4
<1>8. QED
  BY <1>1, <1>2, <1>3, <1>4, <1>5, <1>6, <1>7 DEF Next

(* A connection, whatever becomes of it, is on its way back to the next    *)
(* scan: there is a bound for what can happen before, and ScanHasStepDue   *)
(* says that there is a step to take. The bonding window, the button and   *)
(* the sample's work item cannot keep an application from scanning.        *)
THEOREM ScanComesBack == Spec => ScanComesNearer
<1>1. IInv => SyncWeight \in 0 .. 15 /\ Distance \in Nat
  <2> SUFFICES ASSUME IInv PROVE SyncWeight \in 0 .. 15 /\ Distance \in Nat
    OBVIOUS
  <2>1. /\ SyncWeight \in 0 .. 15 /\ LinkWeight(link) \in {20, 40, 60, 80, 100}
        /\ PcWeight(pc) \in 0 .. 1 /\ PairingWeight(pairing) \in 0 .. 2
    BY SyncWeightNat, Weights DEF IInv, Safe
  <2>2. QED
    BY <2>1 DEF Distance
<1> DEFINE Numbers == SyncWeight \in 0 .. 15 /\ Distance \in Nat
<1>2. IInv /\ DueInv /\ Numbers /\ Numbers' /\ [Next]_vars
        => [booted /\ booted' /\ ~scanning /\ ~scanning' =>
              IF UNCHANGED <<finder, conn, syncs>> THEN Distance' = Distance
              ELSE Distance' \in 0 .. Distance - 1]_vars
  <2> SUFFICES ASSUME IInv, DueInv, Numbers, Numbers', [Next]_vars, vars' # vars,
                      booted, booted', ~scanning, ~scanning'
               PROVE  IF UNCHANGED <<finder, conn, syncs>> THEN Distance' = Distance
                      ELSE Distance' \in 0 .. Distance - 1
    OBVIOUS
  <2>1. IF UNCHANGED <<finder, conn, syncs>> THEN Distance' = Distance
                                             ELSE Distance' < Distance
    BY DistanceStep
  <2>2. Distance \in Nat /\ Distance' \in Nat
    OBVIOUS
  <2>3. QED
    BY <2>1, <2>2
<1>3. QED
  BY <1>1, <1>2, Inductive, DueInductive, PTL DEF Spec, ScanComesNearer
=============================================================================
