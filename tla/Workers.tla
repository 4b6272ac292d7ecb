------------------------------ MODULE Workers ------------------------------
(***************************************************************************)
(* What runs the callbacks of an application: the controller of a worker   *)
(* thread on its own, the two components that embed it, the camera's owner *)
(* thread, the operations of the Node.js addon and the synchronous log,    *)
(* side by side: a behavior is one of them, and what a caller may rely on  *)
(* in all is stated once.                                                  *)
(***************************************************************************)
EXTENDS WorkerController

CONSTANTS
  Owner, Nobody,           \* of Timer and Keyboard
  Devices, RescanTicks, Launches,  \* of Keyboard
  Callers, None, MaxCalls, \* of CameraOwnerThread
  Timers, Waits, Copies,   \* of NodeOperations
  Sinks                    \* of LogRegistry

ASSUME ActorsAssumption ==
  MaxWorkers \in Nat /\ Threads \cap Nat = {} /\ Owner \in Threads /\ Nobody \notin Actors

ASSUME BoundsAssumption == Launches \in 1..MaxWorkers /\ RescanTicks \in Nat /\ MaxCalls \in Nat /\ None \notin Callers

\* Each operation of the addon is one object of one kind.
ASSUME OperationsAssumption ==
  /\ Timers \cap Waits = {} /\ Timers \cap Copies = {} /\ Waits \cap Copies = {}
  /\ None \notin Timers \cup Waits \cup Copies

VARIABLES
  component,  \* which one this is
  alive, impl_mutex, interval, callback, op, body, held,
  windows, devices, pressed, exists, duty, monitor, open, stale, ticks, probed, current, notify,
  access, state, registered, waiting,
  m_task, m_stop, m_ready, maker, owner, caller, task, calls,
  operation, function, promise, turn, joining, todo,
  log_sinks, past, destroyed, enabled, dispatching, writes

T == INSTANCE Timer
K == INSTANCE Keyboard
O == INSTANCE CameraOwnerThread
N == INSTANCE NodeOperations
L == INSTANCE LogRegistry WITH Writers <- Threads

timer    == <<alive, impl_mutex, interval, callback, op, body, held>>
keyboard == <<windows, devices, pressed, exists, duty, monitor, open, stale, ticks, probed,
              current, notify, access, state, registered, waiting>>
camera   == <<m_task, m_stop, m_ready, maker, owner, caller, task, calls>>
node     == <<operation, function, promise, turn, joining, todo>>
log      == <<log_sinks, past, destroyed, enabled, dispatching, writes>>
all      == <<component, vars, timer, keyboard, camera, node, log>>

WorkersInit ==
  /\ component \in {"controller", "timer", "keyboard", "owner_thread", "node", "log"}
  /\ Init /\ T!TimerInit /\ K!KeyboardInit /\ O!Init /\ N!NodeInit /\ L!LogInit
  /\ component # "keyboard" => ~windows /\ \A d \in Devices : devices[d] = "absent"

OfController(A) == component = "controller" /\ A /\ UNCHANGED <<component, timer, keyboard, camera, node, log>>
OfTimer(A)      == component = "timer" /\ A /\ UNCHANGED <<component, keyboard, camera, node, log>>
OfKeyboard(A)   == component = "keyboard" /\ A /\ UNCHANGED <<component, timer, camera, node, log>>
OfOwner(A)      == component = "owner_thread" /\ A /\ UNCHANGED <<component, vars, timer, keyboard, node, log>>
OfNode(A)       == component = "node" /\ A /\ UNCHANGED <<component, vars, timer, keyboard, camera, log>>
OfLog(A)        == component = "log" /\ A /\ UNCHANGED <<component, vars, timer, keyboard, camera, node>>

WorkersNext ==
  \/ OfController(Next) \/ OfTimer(T!TimerNext) \/ OfKeyboard(K!KeyboardNext)
  \/ OfOwner(O!Next) \/ OfNode(N!NodeNext) \/ OfLog(L!LogNext)

(***************************************************************************)
(* A thread that can run does, and native calls return; notify_all() is    *)
(* what wakes a waiting thread, spurious wakeups are not counted on.  A    *)
(* callback makes finitely many calls and ends.  A timer's interval may be *)
(* as long as its caller likes; the 5 and 100 ms of a keyboard pass, and   *)
(* its scan does not fail for ever.  Of the controller on its own and of   *)
(* the log nothing is promised that takes fairness.                        *)
(***************************************************************************)
OwnerSteps ==
  \/ OfTimer(T!TimerCallStep(Owner))
  \/ OfKeyboard(K!OwnerStep \/ K!AskTimesOut(Owner))
  \/ OfOwner(O!MakerStep)
  \/ OfNode(N!LoopStep)
WorkerSteps ==
  \/ \E w \in Workers : \/ OfTimer(T!TimerWorkerStep(w) \/ T!TimerCallStep(w))
                        \/ OfKeyboard(K!MonitorStep(w) \/ K!AskTimesOut(w))
  \/ OfOwner(O!OwnerStep)
  \/ OfNode(\E o \in N!Operations : N!NodeWorkerStep(o))
CallbackEnds == \E w \in Workers : OfTimer(T!CallbackEnds(w)) \/ OfKeyboard(K!CallbackReturns(w))
Scan         == \E w \in Workers : OfKeyboard(K!Scan(w))

FairSpec ==
  /\ WorkersInit /\ [][WorkersNext]_all
  /\ WF_all(OwnerSteps) /\ WF_all(WorkerSteps) /\ SF_all(CallbackEnds) /\ SF_all(Scan)
  /\ \A c \in Callers : WF_all(OfOwner(O!CallerStep(c)))

-----------------------------------------------------------------------------
(***************************************************************************)
(* Properties.  OneBody and HandleOwned are the controller's own.          *)
(***************************************************************************)
\* Type invariant.
WorkersTypeOK == TypeOK /\ T!TimerTypeOK /\ K!KeyboardTypeOK /\ O!TypeOK /\ N!NodeTypeOK /\ L!LogTypeOK

\* What a worker uses belongs to the session that runs: a timer's interval and
\* callback, the state a keyboard's callback is told.
OwnSettings == T!OwnSettings /\ K!ReportsPublished

\* A worker that is not running holds nothing: no captures of a timer's
\* callback, no descriptor of a keyboard; and what the slot of the owner thread
\* names, the frame of a caller, is still there.
Lifetimes ==
  /\ WorkersTypeOK
  /\ component = "timer" => T!CapturesReleased
  /\ component = "keyboard" => K!DescriptorsClosed
  /\ O!SlotAlive

\* The operation and the thread-safe function of a worker of the Node.js addon are
\* there for as long as it uses them, and no worker is left when the cleanup ends.
WorkersOutlived == N!WorkersOutlived

\* A log sink lives for as long as a thread calls it, whoever unregistered it
\* meanwhile; no thread is in two of them, and none is kept from them for good by
\* what its sinks write.
SinksSound == L!SinksOutliveCalls /\ L!NotReentered

\* No callback begins after a stop but while that stop still waits for it.
StopRespected == T!StopRespected /\ K!CallbackStopRespected

\* When a stop of the owner returns, no worker touches the object any more.
StopIsComplete == T!StopIsComplete /\ K!OwnerStopIsComplete

\* The owner thread implements the abstract calls.
ImplementsCalls == O!ImplementsCalls

\* A call of a thread is in progress, or one that a body or a destructor makes, or
\* one that settles a promise later.
Busy(t) ==
  CASE component = "timer"    -> t \in Threads /\ op[t] # "none"
    [] component = "keyboard" -> t = Owner /\ (K!InDuty \/ t \in waiting)
    [] OTHER                  -> t \in Callers /\ caller[t] # "idle"
BusyWithin ==
  CASE component = "timer"    -> \E w \in Workers : op[w] # "none"
    [] component = "keyboard" -> \E w \in Workers : w \in waiting
    [] component = "node"     -> N!Blocked \/ \E o \in N!Operations : N!Unsettled(o)
    [] OTHER                  -> maker = "joining"

\* No call lasts for ever: start(), stop(), assignment and destruction of a timer or
\* a keyboard, also in the middle of an interval of any length, in a callback and
\* while the callback stops its own timer; isReleasedAllKey() in the callback, which
\* holds up the scan it waits for; invoke() and the end of the owner thread; the
\* close() of a timer and the cleanup of the addon, whose promises are settled.
CallsReturn ==
  /\ \A t \in Threads \cup Callers : []<>~Busy(t)
  /\ []<>~BusyWithin

\* A keyboard that can be read is found, also after it was unplugged; nothing is
\* plugged in where the keyboard is not the component.
Recovers == K!Recovers
=============================================================================
