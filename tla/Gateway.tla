------------------------------ MODULE Gateway ------------------------------
(***************************************************************************)
(* The life of an application's one connection: scanning for nodes, the    *)
(* bonding window (lib/bt/bond.c), pairing and the connection callbacks.   *)
(* There are two applications, alike but for what they scan with and for   *)
(* what a fatal error does: "gateway" (gateway/src/main.c, with            *)
(* lib/bt/scan.c and gateway/src/fatal_error.c) and the sample             *)
(* "custom_connect" (samples/custom_connect/src/main.c and scan.c).  The   *)
(* Bluetooth host thread runs device_found and the callbacks;              *)
(* bt_conn_le_create waits for the controller, so that the system work     *)
(* queue, which closes the bonding window and starts the sample's          *)
(* sessions, and the button's interrupt run in the middle of device_found. *)
(* What goes on in a session is in Node.                                   *)
(***************************************************************************)
EXTENDS Integers, FiniteSets

CONSTANTS
  Nodes,         \* the nodes that advertise
  Configs,       \* the builds to look at
  MaxPresses,    \* bound: presses of the button that open a window
  MaxReboots,    \* bound: fatal errors
  NULL

(***************************************************************************)
(* filter is CONFIG_POUCH_GATEWAY_GATT_SCAN_FILTER_BONDED; auto stands for *)
(* CONFIG_SAMPLE_POUCH_GATEWAY_BT_AUTO_BOND and _AUTO_CONFIRM, which have  *)
(* no prompt and are both set for the simulated board only.                *)
(***************************************************************************)
Config == [app : {"gateway", "custom_connect"}, filter : BOOLEAN, auto : BOOLEAN]

ASSUME GatewayAssumption ==
  /\ Configs \subseteq Config
  /\ MaxPresses \in Nat /\ MaxReboots \in Nat /\ NULL \notin Nodes

VARIABLES
  config,       \* how this application was built
  reboots,      \* fatal errors so far
  booted,       \* main has started the first scan
  scanning,     \* the controller scans
  found,        \* the node device_found is working on, or NULL
  found_bonded, \* its tf.is_bonded
  pc,           \* device_found: "idle", "create", "disable", or "halted" when
                \* a fatal error in it has stopped the system
  link,         \* "none", "initiating", "connected", "secured" or "closing"
  peer,         \* the node at the other end, or NULL
  refs,         \* references to the connection that the application holds
  default_conn, \* default_conn is not NULL
  pairing,      \* the passkey: "none", "asked" or "confirmed"
  session,      \* "none", "running", or "failed": it has called
                \* pouch_gateway_bt_finished and may call it again
  counter,      \* sync_data.counter of the sample, which tells 0, 1 and more
  work,         \* sync_data.work is scheduled
  starts,       \* history: sessions of the sample since security_changed
  bonding,      \* pouch_gateway_bonding
  timer,        \* pouch_gateway_bonding_timeout_work: "off", "armed" or "queued"
  forever,      \* history: the window was opened with K_FOREVER
  bonded,       \* the bonds of the host
  windows,      \* history: windows opened
  strangers,    \* history: connections begun to nodes without a bond
  attempt       \* history: what device_found knew of the node it connected to

system  == <<config, reboots>>
radio   == <<booted, scanning>>
finder  == <<found, found_bonded, pc>>
conn    == <<link, peer, refs, default_conn, pairing>>
syncs   == <<session, counter, work, starts>>
window  == <<bonding, timer, forever, windows>>
history == <<strangers, attempt>>
vars    == <<system, radio, finder, conn, syncs, window, bonded, history>>

Init ==
  /\ config \in Configs /\ reboots = 0
  /\ booted = FALSE /\ scanning = FALSE
  /\ found = NULL /\ found_bonded = FALSE /\ pc = "idle"
  /\ link = "none" /\ peer = NULL /\ refs = 0 /\ default_conn = FALSE
  /\ pairing = "none"
  /\ session = "none" /\ counter = 0 /\ work = FALSE /\ starts = 0
  /\ bonding = FALSE /\ timer = "off" /\ forever = FALSE /\ windows = 0
  /\ bonded = {} /\ strangers = 0 /\ attempt = "none"

Running == pc # "halted"

-----------------------------------------------------------------------------
(* lib/bt/bond.c                                                           *)

(* Mutant: the timer is not started.                                       *)
BondingEnableUntimed(no_timeout) ==
  /\ bonding' = TRUE /\ UNCHANGED timer
  /\ forever' = no_timeout
  /\ windows' = windows + (IF bonding THEN 0 ELSE 1)

(* pouch_gateway_bonding_enable.  k_work_reschedule with K_FOREVER stops   *)
(* the timer.                                                              *)
BondingEnable(no_timeout) ==
  /\ bonding' = TRUE
  /\ timer' = IF no_timeout THEN "off" ELSE "armed"
  /\ forever' = no_timeout
  /\ windows' = windows + (IF bonding THEN 0 ELSE 1)

TimerExpires ==
  /\ Running /\ timer = "armed"
  /\ timer' = "queued"
  /\ UNCHANGED <<system, radio, finder, conn, syncs, bonding, forever, windows,
                 bonded, history>>

(* Mutant: the window is prolonged.                                        *)
BondingTimeoutAgain ==
  /\ Running /\ timer = "queued"
  /\ timer' = "armed"
  /\ UNCHANGED <<system, radio, finder, conn, syncs, bonding, forever, windows,
                 bonded, history>>

(* pouch_gateway_bonding_timeout_handle                                    *)
BondingTimeout ==
  /\ Running /\ timer = "queued"
  /\ timer' = "off" /\ bonding' = FALSE
  /\ UNCHANGED <<system, radio, finder, conn, syncs, forever, windows, bonded,
                 history>>

(***************************************************************************)
(* button_pressed.  While there is a connection a press confirms its       *)
(* passkey, which the host refuses if none is asked for; else it opens a   *)
(* window of 30 seconds.                                                   *)
(***************************************************************************)
ConfirmPasskey ==
  /\ Running /\ default_conn /\ pairing = "asked"
  /\ pairing' = "confirmed"
  /\ UNCHANGED <<system, radio, finder, link, peer, refs, default_conn, syncs,
                 window, bonded, history>>

OpenWindow ==
  /\ Running /\ windows < MaxPresses
  /\ ~default_conn /\ ~bonding
  /\ BondingEnable(FALSE)
  /\ UNCHANGED <<system, radio, finder, conn, syncs, bonded, history>>

-----------------------------------------------------------------------------
(***************************************************************************)
(* main, once the cloud is connected, starts scanning, with an unlimited   *)
(* window if so configured.  It does not run while the work queue has work *)
(* to do.                                                                  *)
(***************************************************************************)
Boot ==
  /\ Running /\ ~booted /\ timer # "queued"
  /\ booted' = TRUE /\ scanning' = TRUE
  /\ IF config.auto THEN BondingEnable(TRUE) ELSE UNCHANGED window
  /\ UNCHANGED <<system, finder, conn, syncs, bonded, history>>

(***************************************************************************)
(* k_sys_fatal_error_handler of the gateway: whatever it was doing, it     *)
(* starts again with nothing in memory.  No build stores bonds.            *)
(***************************************************************************)
Reboot ==
  /\ config.app = "gateway" /\ reboots < MaxReboots
  /\ reboots' = reboots + 1
  /\ booted' = FALSE /\ scanning' = FALSE
  /\ found' = NULL /\ found_bonded' = FALSE /\ pc' = "idle"
  /\ link' = "none" /\ peer' = NULL /\ refs' = 0 /\ default_conn' = FALSE
  /\ pairing' = "none"
  /\ session' = "none" /\ counter' = 0 /\ work' = FALSE /\ starts' = 0
  /\ bonding' = FALSE /\ timer' = "off" /\ forever' = FALSE /\ windows' = 0
  /\ bonded' = {} /\ strangers' = 0 /\ attempt' = "none"
  /\ UNCHANGED config

-----------------------------------------------------------------------------
(* Mutant: the gateway's tf.addr is not set either.                        *)
BondedNowhere(d) == config.app = "gateway" /\ ~config.filter

(***************************************************************************)
(* device_found, for a connectable advertisement of the pouch service in a *)
(* compatible version; for the sample also with the name "Golioth" and a   *)
(* signal that is strong enough.                                           *)
(*                                                                         *)
(* What it takes for a bond (tf.is_bonded).  The gateway starts from TRUE  *)
(* if nodes are not filtered, the sample always from FALSE.  The sample    *)
(* leaves tf.addr NULL: if there is a bond to compare with, memcmp reads   *)
(* address 0 (CompareNull), which differs from every node's address or is  *)
(* a fatal error; the sample has Zephyr's handler for that, which halts.   *)
(***************************************************************************)
Bonded(d) ==
  config.app = "gateway" /\ (config.filter => d \in bonded)

CompareNull == config.app = "custom_connect" /\ config.filter /\ bonded # {}

Wanted(d, sync) == IF Bonded(d) THEN sync ELSE bonding

DeviceFound(d, sync) ==
  /\ scanning /\ pc = "idle" /\ Wanted(d, sync)
  /\ scanning' = FALSE
  /\ found' = d /\ found_bonded' = Bonded(d) /\ pc' = "create"
  /\ UNCHANGED <<system, booted, conn, syncs, window, bonded, history>>

FatalCompare ==
  /\ scanning /\ pc = "idle" /\ CompareNull
  /\ pc' = "halted"
  /\ UNCHANGED <<system, radio, found, found_bonded, conn, syncs, window,
                 bonded, history>>

(* bt_conn_le_create: a connection, with one reference, or an error.       *)
Create ==
  /\ pc = "create"
  /\ link' = "initiating" /\ peer' = found /\ refs' = 1
  /\ attempt' = IF found_bonded THEN "bonded" ELSE "stranger"
  /\ strangers' = strangers + (IF found_bonded THEN 0 ELSE 1)
  /\ pc' = IF found_bonded THEN "idle" ELSE "disable"
  /\ found' = NULL
  /\ UNCHANGED <<system, radio, found_bonded, default_conn, pairing, syncs,
                 window, bonded>>

(* Mutant: scanning is not started again.                                  *)
CreateFailsSilent ==
  /\ pc = "create"
  /\ pc' = "idle" /\ found' = NULL
  /\ UNCHANGED <<system, radio, found_bonded, conn, syncs, window, bonded,
                 history>>

CreateFails ==
  /\ pc = "create"
  /\ scanning' = TRUE
  /\ pc' = "idle" /\ found' = NULL
  /\ UNCHANGED <<system, booted, found_bonded, conn, syncs, window, bonded,
                 history>>

(* Mutant: only the timer is stopped.                                      *)
BondingDisableTimer ==
  /\ pc = "disable"
  /\ timer' = "off"
  /\ pc' = "idle"
  /\ UNCHANGED <<system, radio, found, found_bonded, conn, syncs, bonding,
                 forever, windows, bonded, history>>

(* pouch_gateway_bonding_disable, after the first attempt.                 *)
BondingDisable ==
  /\ pc = "disable"
  /\ timer' = "off" /\ bonding' = FALSE
  /\ pc' = "idle"
  /\ UNCHANGED <<system, radio, found, found_bonded, conn, syncs, forever,
                 windows, bonded, history>>

-----------------------------------------------------------------------------
(* The connection callbacks of main.c, run between two handlers.           *)

(* Mutants: the reference is kept, or given back twice.                    *)
UnrefNot == UNCHANGED refs
UnrefTwice == refs' = refs - 2

(* bt_conn_unref                                                           *)
Unref == refs' = refs - 1

(* bt_connected: the attempt failed or timed out, and scanning goes on.    *)
ConnectFails ==
  /\ link = "initiating" /\ pc = "idle"
  /\ link' = "none" /\ peer' = NULL /\ Unref
  /\ scanning' = TRUE
  /\ UNCHANGED <<system, booted, finder, default_conn, pairing, syncs, window,
                 bonded, history>>

(* bt_connected: security is asked for, or the connection given up.        *)
Connected ==
  /\ link = "initiating" /\ pc = "idle"
  /\ default_conn' = TRUE
  /\ link' \in {"connected", "closing"}
  /\ UNCHANGED <<system, radio, finder, peer, refs, pairing, syncs, window,
                 bonded, history>>

(***************************************************************************)
(* auth_passkey_confirm: nodes that are filtered and have no bond pair     *)
(* with a passkey (level 4), which the simulated board confirms itself.    *)
(* Others need none (level 2).                                             *)
(***************************************************************************)
NeedsPasskey == config.filter /\ peer \notin bonded

AskPasskey ==
  /\ link = "connected" /\ pc = "idle" /\ NeedsPasskey /\ pairing = "none"
  /\ pairing' = IF config.auto THEN "confirmed" ELSE "asked"
  /\ UNCHANGED <<system, radio, finder, link, peer, refs, default_conn, syncs,
                 window, bonded, history>>

(***************************************************************************)
(* security_changed without an error: a node without a bond has paired.    *)
(* The gateway calls pouch_gateway_bt_start, the sample schedules a work   *)
(* item that does.                                                         *)
(***************************************************************************)
Secured ==
  /\ link = "connected" /\ pc = "idle"
  /\ NeedsPasskey => pairing = "confirmed"
  /\ link' = "secured" /\ pairing' = "none"
  /\ bonded' = bonded \cup {peer}
  /\ IF config.app = "gateway"
     THEN session' = "running" /\ UNCHANGED <<counter, work, starts>>
     ELSE counter' = 0 /\ work' = TRUE /\ starts' = 0 /\ UNCHANGED session
  /\ UNCHANGED <<system, radio, finder, peer, refs, default_conn, window,
                 history>>

(* Mutant: the connection stays.                                           *)
SecurityFailsStays ==
  /\ link = "connected" /\ pc = "idle"
  /\ bonded' = bonded \ {peer}
  /\ UNCHANGED <<system, radio, finder, conn, syncs, window, history>>

(***************************************************************************)
(* security_changed with an error, an unanswered passkey's timeout for     *)
(* one, drops the bond; pairing_failed does not.  Both disconnect.         *)
(***************************************************************************)
SecurityFails ==
  /\ link = "connected" /\ pc = "idle"
  /\ link' = "closing" /\ pairing' = "none"
  /\ bonded' \in {bonded, bonded \ {peer}}
  /\ UNCHANGED <<system, radio, finder, peer, refs, default_conn, syncs, window,
                 history>>

-----------------------------------------------------------------------------
(* Sessions.                                                               *)

(* Mutant: what is finished on a connection that is down does not count.   *)
CountCalls(k, scheduled) ==
  IF link \in {"connected", "secured"}
  THEN /\ counter' = IF counter + k > 2 THEN 2 ELSE counter + k
       /\ work' = (scheduled \/ (counter = 0 /\ k > 0))
  ELSE counter' = counter /\ work' = (scheduled \/ k > 0)

(***************************************************************************)
(* What k calls of the sample's pouch_gateway_bt_finished count and        *)
(* schedule; k_work_schedule leaves work alone that is scheduled.          *)
(***************************************************************************)
Count(k, scheduled) ==
  /\ counter' = IF counter + k > 2 THEN 2 ELSE counter + k
  /\ work' = (scheduled \/ (counter = 0 /\ k > 0))

(***************************************************************************)
(* pouch_gateway_bt_finished.  The gateway disconnects; the sample does so *)
(* from the second call on, and schedules a session after the first.  A    *)
(* session that failed may call again: device_cert_notify_cb does, and the *)
(* end of its uplink or of its downlink's subscription.                    *)
(***************************************************************************)
Finished ==
  /\ Running /\ session # "none" /\ link \in {"connected", "secured", "closing"}
  /\ session' \in {"none", "failed"}
  /\ IF config.app = "gateway" THEN UNCHANGED <<counter, work>>
                               ELSE Count(1, work)
  /\ link' = IF config.app = "gateway" \/ counter' > 1 THEN "closing" ELSE link
  /\ UNCHANGED <<system, radio, finder, peer, refs, default_conn, pairing,
                 starts, window, bonded, history>>

(***************************************************************************)
(* sync_start_handler, on the work queue.  sync_data.conn is the one       *)
(* connection of the pool that is ever used, whatever it stands for by     *)
(* now: if it is not up, bt_start fails and has finished.                  *)
(***************************************************************************)
SyncStart ==
  /\ Running /\ work
  /\ IF link \in {"connected", "secured"}
     THEN /\ session' = "running" /\ work' = FALSE /\ UNCHANGED counter
          /\ starts' = starts + (IF link = "secured" THEN 1 ELSE 0)
     ELSE Count(1, FALSE) /\ UNCHANGED <<session, starts>>
  /\ UNCHANGED <<system, radio, finder, conn, window, bonded, history>>

(***************************************************************************)
(* bt_disconnected, asked for or not.  Before it, the ends of a discovery  *)
(* and of subscriptions may call pouch_gateway_bt_finished.                *)
(***************************************************************************)
Disconnected ==
  /\ link \in {"connected", "secured", "closing"} /\ pc = "idle"
  /\ link' = "none" /\ peer' = NULL /\ default_conn' = FALSE
  /\ pairing' = "none" /\ session' = "none"
  /\ IF config.app = "gateway" \/ session = "none" THEN UNCHANGED <<counter, work>>
     ELSE \E calls \in 0 .. 2 : Count(calls, work)
  /\ Unref
  /\ scanning' = TRUE
  /\ UNCHANGED <<system, booted, finder, starts, window, bonded, history>>

-----------------------------------------------------------------------------
Next ==
  \/ Boot \/ Reboot \/ OpenWindow \/ ConfirmPasskey
  \/ TimerExpires \/ BondingTimeout
  \/ \E d \in Nodes, sync \in BOOLEAN : DeviceFound(d, sync)
  \/ FatalCompare \/ Create \/ CreateFails \/ BondingDisable
  \/ ConnectFails \/ Connected \/ AskPasskey \/ Secured \/ SecurityFails
  \/ Finished \/ SyncStart \/ Disconnected

Spec == Init /\ [][Next]_vars

(***************************************************************************)
(* The host thread and the work queue are scheduled, timers expire, a      *)
(* connection attempt and a pairing succeed or time out, a session         *)
(* finishes (SessionEnds in Node) or the node leaves, and a connection     *)
(* that is being closed is closed.  Every node goes on to ask for a        *)
(* synchronisation whenever the controller scans (strong fairness), and    *)
(* not every attempt to connect to it fails at once.                       *)
(***************************************************************************)
FairSpec ==
  /\ Spec
  /\ WF_vars(Boot)
  /\ WF_vars(Create \/ CreateFails) /\ WF_vars(BondingDisable)
  /\ WF_vars(Connected \/ ConnectFails)
  /\ WF_vars(Secured \/ SecurityFails)
  /\ WF_vars(session = "running" /\ Finished) /\ WF_vars(SyncStart)
  /\ WF_vars(Disconnected /\ link = "closing")
  /\ WF_vars(TimerExpires) /\ WF_vars(BondingTimeout)
  /\ \A d \in Nodes : /\ SF_vars(DeviceFound(d, TRUE))
                      /\ SF_vars(Create /\ found = d)

-----------------------------------------------------------------------------
(* Properties.                                                             *)

TypeOK ==
  /\ config \in Configs /\ reboots \in 0 .. MaxReboots
  /\ booted \in BOOLEAN /\ scanning \in BOOLEAN
  /\ found \in Nodes \cup {NULL} /\ found_bonded \in BOOLEAN
  /\ pc \in {"idle", "create", "disable", "halted"}
  /\ link \in {"none", "initiating", "connected", "secured", "closing"}
  /\ peer \in Nodes \cup {NULL} /\ refs \in 0 .. 1 /\ default_conn \in BOOLEAN
  /\ pairing \in {"none", "asked", "confirmed"}
  /\ session \in {"none", "running", "failed"} /\ counter \in 0 .. 2
  /\ work \in BOOLEAN /\ starts \in 0 .. 2
  /\ bonding \in BOOLEAN /\ timer \in {"off", "armed", "queued"}
  /\ forever \in BOOLEAN
  /\ bonded \in SUBSET Nodes
  /\ windows \in Nat /\ strangers \in Nat
  /\ attempt \in {"none", "bonded", "stranger"}

(***************************************************************************)
(* The gateway is never idle and never does two things at once: it scans,  *)
(* or device_found is connecting, or there is one connection, for which    *)
(* the application holds exactly one reference.                            *)
(***************************************************************************)
OneThingAtATime ==
  booted =>
    /\ scanning <=> (link = "none" /\ pc # "create")
    /\ pc = "create" => link = "none"
    /\ refs = IF link = "none" THEN 0 ELSE 1

(***************************************************************************)
(* A bonding window that was opened for 30 seconds cannot stay open: its   *)
(* timer runs as long as it is open, however presses of the button, the    *)
(* timeout and the first attempt interleave.                               *)
(***************************************************************************)
WindowIsTimed == (bonding /\ ~forever) => timer # "off"

(***************************************************************************)
(* A bonding window lets in one stranger at most: the connections begun to *)
(* nodes without a bond are never more than the windows, since             *)
(* device_found closes the window before it runs again.  An attempt that   *)
(* bt_conn_le_create refuses begins no connection and is not counted: it   *)
(* returns before lib/bt/scan.c:179-183 closes the window, which stays     *)
(* open for the next attempt.                                              *)
(***************************************************************************)
OneStrangerPerWindow ==
  strangers + (IF pc = "create" /\ ~found_bonded THEN 1 ELSE 0) <= windows

(***************************************************************************)
(* When nodes are filtered, a node gets a bond only in a connection that   *)
(* was begun to it as a stranger, and so through a bonding window: one     *)
(* whose bond was dropped has to wait for the next window.                 *)
(***************************************************************************)
NewBondsFromWindow ==
  [][config.filter => (bonded' \subseteq bonded \/ attempt = "stranger")]_vars

(***************************************************************************)
(* A connection that ends, an attempt or a pairing that fails or is never  *)
(* answered, and a reboot lead back to scanning: the application serves    *)
(* the next node.                                                          *)
(***************************************************************************)
ScanningResumes ==
  /\ (link # "none") ~> scanning
  /\ (pc = "create") ~> (scanning \/ link # "none")
  /\ ~booted ~> scanning

(***************************************************************************)
(* The sample's work item comes to rest, though a disconnection does not   *)
(* cancel it (main.c:305) and a session that it starts on a connection     *)
(* that is gone schedules it again.                                        *)
(***************************************************************************)
SyncsStop == work ~> (~work \/ ~Running)

(***************************************************************************)
(* A timed window closes.                                                  *)
(***************************************************************************)
WindowCloses == (bonding /\ ~forever) ~> (~bonding \/ forever \/ ~Running)

(***************************************************************************)
(* Every node that asks for a synchronisation is connected to, unless      *)
(* nodes are filtered (Kconfig:81) and it has no bond: it is not passed    *)
(* over for ever, however connections, failures and reboots follow.        *)
(***************************************************************************)
Admitted(d) == booted /\ (config.filter => d \in bonded)

Serves(app) ==
  \A d \in Nodes :
    (config.app = app /\ Admitted(d)) ~> (peer = d \/ ~Admitted(d))

GatewayServes == Serves("gateway")

(***************************************************************************)
(* The sample's README (samples/custom_connect/README.md:7) says which     *)
(* criteria a node must follow to be connected to, and names neither a     *)
(* bonding window nor an exception for nodes with a bond.                  *)
(***************************************************************************)
SampleServes == Serves("custom_connect")

(***************************************************************************)
(* The sample's README (samples/custom_connect/README.md:14): a connection *)
(* is maintained for two synchronisation events.  The application does not *)
(* close one that is secured before it has started two sessions on it.     *)
(***************************************************************************)
TwoSyncs ==
  [][(config.app = "custom_connect" /\ link = "secured" /\ link' = "closing")
       => starts = 2]_vars
=============================================================================
