------------------------------ MODULE Keyboard ------------------------------
(***************************************************************************)
(* Keyboard (platform/iui/linux/device/Keyboard.cpp, .../win/...): a       *)
(* WorkerController whose body polls the key state every 5 ms, publishes   *)
(* it and calls the registered callback when it changed.                   *)
(*                                                                         *)
(* This is one object.  Copying and moving involve a second one; here that *)
(* is the state it brings, or the stop it suffers.  Its lifecycle has one  *)
(* owner, and the callback only observes and registers (IuiKeyboard.md,    *)
(* IUI-LIFE-04).  A key state is the set of the devices that have a key    *)
(* down.  What monitorLoop() keeps in its frame is one variable each: one  *)
(* body runs at a time (WorkerController.OneBody).                         *)
(***************************************************************************)
EXTENDS WorkerController

CONSTANTS
  Owner,         \* the thread that constructs, assigns and destroys
  Devices,       \* the keyboards of the machine
  RescanTicks,   \* RESCAN_INTERVAL_TICKS
  Launches       \* bound on the monitors started

VARIABLES
  windows,     \* the key state comes from GetAsyncKeyState
  devices,     \* what a scan finds of each device
  pressed,     \* the devices with a key down
  exists,      \* the object is constructed
  duty,        \* the public call the owner is in
  monitor,     \* where the body is
  open,        \* the devices of the descriptors monitorLoop() holds
  stale,       \* those of them that lost their device
  ticks,       \* rescan_ticks
  probed,      \* access_state of monitorLoop()
  current,
  notify,      \* a callback is held and the state changed
  access,      \* m_access_state
  state,       \* m_ascii_state and its siblings
  registered,  \* m_key_callback holds one
  waiting      \* the actors that wait in isReleasedAllKey()

native      == <<windows, devices, pressed>>
shared      == <<access, state, registered, waiting>>
local       == <<monitor, open, stale, ticks, probed, current, notify>>
keyboard    == <<native, exists, duty, local, shared>>
controller  == <<running, stop_requested, thread, worker_id, worker>>
everything  == <<vars, keyboard>>

KeyboardInit ==
  /\ windows \in BOOLEAN
  /\ IF windows THEN devices = [d \in Devices |-> "readable"]
     ELSE devices \in [Devices -> {"absent", "denied"}]
  /\ pressed = {}
  /\ exists = FALSE /\ duty = "none"
  /\ monitor = "wait" /\ open = {} /\ stale = {} /\ ticks = 0
  /\ probed = "Starting" /\ current = {} /\ notify = FALSE
  /\ access = "Starting" /\ state = {} /\ registered = FALSE
  /\ waiting = {}

Readable == {d \in Devices : devices[d] = "readable"}

-----------------------------------------------------------------------------
(***************************************************************************)
(* Keys, cables and permissions.                                           *)
(***************************************************************************)
PressOrRelease(d) ==
  /\ pressed' = IF d \in pressed THEN pressed \ {d} ELSE pressed \cup {d}
  /\ UNCHANGED <<vars, windows, devices, exists, duty, local, shared>>

\* A descriptor that was open stays useless when the device comes back.
DeviceChanges(d, to) ==
  /\ ~windows
  /\ devices[d] # to
  /\ devices' = [devices EXCEPT ![d] = to]
  /\ stale' = stale \cup ({d} \cap open)
  /\ UNCHANGED <<vars, windows, pressed, exists, duty, shared>>
  /\ UNCHANGED <<monitor, open, ticks, probed, current, notify>>

-----------------------------------------------------------------------------
(***************************************************************************)
(* The owner's calls.  A constructor and an assignment take access, state  *)
(* and callback from another object; "copy" and "move" assign.  "moved" is *)
(* a move from this object, which goes on without a monitor.               *)
(***************************************************************************)
Duty(o)    == duty = o
SetDuty(o) == duty' = o
InDuty     == duty \notin {"none", "gone"}
Brought    == [state : SUBSET Devices, registered : BOOLEAN]

\* Linux starts over, Windows keeps what the other object said.
Bring(b) ==
  /\ access' = IF windows THEN "Ready" ELSE "Starting"
  /\ state' = b.state
  /\ registered' = b.registered

Construct(b) ==
  /\ ~exists /\ Duty("none")
  /\ SetDuty("construct") /\ GoTo(Owner, "start")
  /\ Bring(b)
  /\ UNCHANGED <<controller, native, exists, local, waiting>>

Begin(o) ==
  /\ exists /\ Duty("none") /\ Owner \notin waiting
  /\ o \in {"copy", "move"} => \E w \in 1..Launches : worker[w] = "none"
  /\ SetDuty(o) /\ GoTo(Owner, "stop")
  /\ UNCHANGED <<controller, native, exists, local, shared>>

\* The worker that could see them is joined before state and callback change.
Assign(b) ==
  /\ Duty("copy") \/ Duty("move")
  /\ At(Owner, "stopped")
  /\ Bring(b)
  /\ GoTo(Owner, "start")
  /\ UNCHANGED <<controller, native, exists, duty, local, waiting>>

\* The other object takes the callback along; its arrays are copied.
MovedFrom ==
  /\ Duty("moved") /\ At(Owner, "stopped")
  /\ registered' = FALSE
  /\ SetDuty("none") /\ GoTo(Owner, "idle")
  /\ UNCHANGED <<controller, native, exists, local, access, state, waiting>>

\* start() says nothing to the caller but by an exception.
Launched ==
  /\ call[Owner].pc \in {"started", "refused"}
  /\ exists' = TRUE
  /\ SetDuty("none") /\ GoTo(Owner, "idle")
  /\ UNCHANGED <<controller, native, local, shared>>

\* The exception leaves the constructor, or the assignment with what it assigned.
LaunchFailed ==
  /\ At(Owner, "threw")
  /\ exists' = Duty("copy")
  /\ SetDuty(IF Duty("copy") THEN "none" ELSE "gone")
  /\ GoTo(Owner, "idle")
  /\ UNCHANGED <<controller, native, local, shared>>

Destroyed ==
  /\ Duty("destroy") /\ At(Owner, "stopped")
  /\ exists' = FALSE
  /\ SetDuty("gone") /\ GoTo(Owner, "idle")
  /\ UNCHANGED <<controller, native, local, shared>>

\* A launch that fails in a noexcept move ends the program.
OwnerStep ==
  \/ (CallStep(Owner) \/ (~Duty("move") /\ StartThrows(Owner))) /\ UNCHANGED keyboard
  \/ \E b \in Brought : Assign(b)
  \/ MovedFrom \/ Launched \/ LaunchFailed \/ Destroyed

-----------------------------------------------------------------------------
(***************************************************************************)
(* Registration and isReleasedAllKey(), by the owner or in the callback.   *)
(***************************************************************************)
InCallback(w) == worker[w] = "ticked" /\ monitor = "callback"
MayObserve(a) ==
  /\ a \notin waiting
  /\ IF a \in Workers THEN InCallback(a) ELSE a = Owner /\ exists /\ Duty("none")

Register(a) ==
  /\ MayObserve(a)
  /\ registered' \in BOOLEAN
  /\ UNCHANGED <<vars, native, exists, duty, local, access, state, waiting>>

AskReleased(a) ==
  /\ MayObserve(a)
  /\ waiting' = waiting \cup {a}
  /\ UNCHANGED <<vars, native, exists, duty, local, access, state, registered>>

\* 100 ms passed without a completed scan.
AskTimesOut(a) ==
  /\ a \in waiting
  /\ waiting' = waiting \ {a}
  /\ UNCHANGED <<vars, native, exists, duty, local, access, state, registered>>

-----------------------------------------------------------------------------
(***************************************************************************)
(* monitorLoop().                                                          *)
(***************************************************************************)
MonitorStarts(w) ==
  /\ WorkerEnters(w)
  /\ monitor' = "wait" /\ open' = {} /\ stale' = {} /\ ticks' = 0
  /\ UNCHANGED <<native, exists, duty, probed, current, notify, shared>>

\* The descriptors are closed as the loop is left.
Closed == open' = {} /\ stale' = {}

MonitorEnds(w) ==
  /\ worker[w] = "told"
  /\ BodyEnds(w)
  /\ Closed /\ ticks' = 0
  /\ UNCHANGED <<native, exists, duty, monitor, probed, current, notify, shared>>

Polls(w, pc, next) ==
  /\ worker[w] = "ticked" /\ monitor = pc
  /\ monitor' = next
  /\ UNCHANGED <<native, exists, duty>>

Refused(ds) == IF \E d \in ds : devices[d] = "denied" THEN "PermissionDenied" ELSE "Unavailable"

Countdown_Reset == RescanTicks
Countdown == ticks - 1

\* Every RescanTicks the old descriptors are closed and the devices scanned.
Scan(w) ==
  /\ ~windows /\ ticks = 0
  /\ Polls(w, "wait", "capture")
  /\ ticks' = RescanTicks
  /\ open' = Readable /\ stale' = {}
  /\ probed' = IF Readable # {} THEN "Ready" ELSE Refused(Devices)
  /\ UNCHANGED <<vars, current, notify, shared>>

CountDown(w) ==
  /\ ~windows /\ ticks # 0
  /\ Polls(w, "wait", "capture")
  /\ ticks' = Countdown
  /\ probed' = access
  /\ UNCHANGED <<vars, open, stale, current, notify, shared>>

\* The directory cannot be opened, or there is no memory for the descriptors.
ScanFails(w) ==
  /\ ~windows /\ ticks = 0
  /\ Polls(w, "wait", "capture")
  /\ ticks' = RescanTicks
  /\ open' = {} /\ stale' = {}
  /\ probed' \in {"Unavailable", "PermissionDenied"}
  /\ UNCHANGED <<vars, current, notify, shared>>

\* Devices that fail are dropped; one that can be read is enough.
Capture(w) ==
  /\ Polls(w, "capture", "access")
  /\ LET live == open \ stale IN
     CASE probed # "Ready" -> current' = {} /\ UNCHANGED <<open, stale, ticks, probed>>
       [] probed = "Ready" /\ live # {} ->
            current' = pressed \cap live /\ open' = live /\ stale' = {} /\ UNCHANGED <<ticks, probed>>
       [] OTHER ->
            /\ current' = {} /\ open' = {} /\ stale' = {} /\ ticks' = RescanTicks
            /\ probed' = IF Refused(open) = "PermissionDenied" THEN "PermissionDenied" ELSE "Disconnected"
  /\ UNCHANGED <<vars, notify, shared>>

PublishAccess(w) ==
  /\ Polls(w, "access", "install")
  /\ access' = probed
  /\ UNCHANGED <<vars, open, stale, ticks, probed, current, notify, state, registered, waiting>>

\* Under the mutex: the state is replaced and the callback taken.
Install(w, keys) ==
  /\ current' = keys
  /\ state' = keys
  /\ notify' = (registered /\ state # keys)
  /\ UNCHANGED <<vars, open, stale, ticks, probed, access, registered, waiting>>

Publish(w) == Polls(w, "install", "decide") /\ Install(w, current)
Sample(w)  == windows /\ Polls(w, "wait", "decide") /\ Install(w, pressed)

\* isStopRequested() is asked before the callback runs, not while.
Decide(w) ==
  /\ Polls(w, "decide", IF notify /\ ~stop_requested THEN "invoke" ELSE "count")
  /\ UNCHANGED <<vars, open, stale, ticks, probed, current, notify, shared>>

Invoke(w) ==
  /\ Polls(w, "invoke", "callback")
  /\ UNCHANGED <<vars, open, stale, ticks, probed, current, notify, shared>>

\* An exception clears the registration, and the monitor goes on.
CallbackReturns(w) ==
  /\ w \notin waiting
  /\ Polls(w, "callback", "count")
  /\ registered' \in {registered, FALSE}
  /\ UNCHANGED <<vars, open, stale, ticks, probed, current, notify, access, state, waiting>>

\* A scan completed: whoever waits for one returns.  The variables of the loop's
\* body go out of scope.
CountScan(w) ==
  /\ Polls(w, "count", "wait")
  /\ waiting' = {}
  /\ probed' = "Starting" /\ current' = {} /\ notify' = FALSE
  /\ WorkerMoves(w, "body")
  /\ UNCHANGED <<open, stale, ticks, access, state, registered>>

MonitorStep(w) ==
  \/ MonitorStarts(w) \/ MonitorEnds(w)
  \/ (WaitFor(w) \/ WaitTimeout(w) \/ WorkerEnds(w) \/ WorkerLeaves(w)) /\ UNCHANGED keyboard
  \/ CountDown(w) \/ Capture(w) \/ PublishAccess(w) \/ Publish(w) \/ Sample(w) \/ Decide(w) \/ Invoke(w) \/ CountScan(w)

Ended == Duty("gone") /\ UNCHANGED everything

KeyboardNext ==
  \/ \E d \in Devices : \/ PressOrRelease(d)
                        \/ \E to \in {"absent", "denied", "readable"} : DeviceChanges(d, to)
  \/ \E b \in Brought : Construct(b)
  \/ \E o \in {"copy", "move", "moved", "destroy"} : Begin(o)
  \/ OwnerStep
  \/ \E a \in {Owner} \cup Workers : Register(a) \/ AskReleased(a) \/ AskTimesOut(a)
  \/ \E w \in Workers : MonitorStep(w) \/ Scan(w) \/ ScanFails(w) \/ CallbackReturns(w)
  \/ Ended

-----------------------------------------------------------------------------
(***************************************************************************)
(* Properties.                                                             *)
(***************************************************************************)
States == {"Starting", "Ready", "Unavailable", "PermissionDenied", "Disconnected"}

\* Type invariant.  The polling holds descriptors on Linux only.
KeyboardTypeOK ==
  /\ windows \in BOOLEAN /\ exists \in BOOLEAN /\ notify \in BOOLEAN /\ registered \in BOOLEAN
  /\ devices \in [Devices -> {"absent", "denied", "readable"}]
  /\ {pressed, open, stale, current, state} \subseteq SUBSET Devices
  /\ stale \subseteq open /\ (windows => open = {})
  /\ duty \in {"none", "construct", "copy", "move", "moved", "destroy", "gone"}
  /\ monitor \in {"wait", "capture", "access", "install", "decide", "invoke", "callback", "count"}
  /\ ticks \in 0..RescanTicks
  /\ {access, probed} \subseteq States
  /\ waiting \subseteq {Owner} \cup Workers

Polling == \E w \in Workers : worker[w] = "ticked"

\* The state a callback is told is the published one until the callback ends,
\* whatever is assigned meanwhile, and no key is reported down by an object
\* whose last scan found nothing it could read (IuiKeyboard.md: "its snapshot is
\* all-released").
ReportsPublished ==
  /\ Polling /\ monitor \in {"decide", "invoke", "callback"} => current = state
  /\ access \in {"Unavailable", "PermissionDenied", "Disconnected"}
       /\ ~(Polling /\ monitor = "install") => state = {}

\* A worker that ended left no descriptor open.
DescriptorsClosed == ~running => open = {}

\* A callback begins after a stop was requested only while that stop waits.
CallbackStopRespected ==
  [][monitor # "callback" /\ monitor' = "callback" /\ stop_requested => ~Duty("none")]_everything

\* When the stop of a destruction, an assignment or a move returns, no worker
\* touches the object any more.
OwnerStopIsComplete ==
  [][~Duty("none") /\ ~At(Owner, "stopped") /\ call'[Owner].pc = "stopped"
       => thread' = 0 /\ \A w \in Workers : worker'[w] \in {"none", "joined"}]_everything

\* A keyboard that can be read is found, also after it was unplugged or denied,
\* for as long as there is a monitor.
Recovers ==
  \A d \in Devices :
    <>[](devices[d] = "readable" /\ thread # 0 /\ ~stop_requested)
      => []<>(access = "Ready")
=============================================================================
