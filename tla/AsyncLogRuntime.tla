-------------------------- MODULE AsyncLogRuntime --------------------------
(***************************************************************************)
(* The asynchronous log runtime (core/wse/utility/AsyncLogRuntime.cpp):    *)
(* producers append records to a bounded queue, one writer thread drains   *)
(* it, and control threads call configure(), flush() and stop(), each of   *)
(* which waits for a barrier entry that travels through the same queue.    *)
(*                                                                         *)
(* One action is one critical section of Impl::mutex, or one step outside  *)
(* it that another thread can be interleaved with.  The condition variable *)
(* "changed" is the set asleep: a thread inside wait() is in it, and       *)
(* notify_all() empties it.                                                *)
(*                                                                         *)
(* A definition X_Y is X with a fault; the checks of the properties use it *)
(* in place of X to see that the property notices.                         *)
(***************************************************************************)
EXTENDS Naturals, Sequences, FiniteSets

CONSTANTS
  Controllers,  \* threads that call configure(), flush() and stop()
  Producers,    \* threads that call tryAppend()
  Capacities,   \* the values sAsyncLogSettings::queue_capacity is given
  Writer,       \* the thread running Impl::run()
  None,         \* no owner of a mutex, no barrier in an entry
  MaxSubmits,   \* bound on counted submissions (accepted, dropped, filtered)
  MaxGen        \* bound on successful configure() calls

ASSUME CapacitiesAssumption == Capacities \subseteq Nat \ {0}
ASSUME ThreadsAssumption ==
  /\ None \notin Controllers
  /\ Writer \notin Controllers

VARIABLES
  queue,        \* Impl::queue: records and barriers, oldest first
  settings,     \* Impl::settings: generation, capacity, captures still held
  status,       \* Impl::status
  stopping,     \* Impl::stopping
  writerFailed, \* Impl::writer_failed
  ledger,       \* history: the generation and the fate of each accepted record
  wpc,          \* where the writer thread is
  entry,        \* the entry the writer took, and whether it skips it
  asleep,       \* threads inside changed.wait()
  ppc,          \* where each producer is in tryAppend()
  control,      \* owner of Impl::control
  call          \* the control operation of each thread, with its Barrier

runtimeVars == <<settings, stopping, writerFailed>>
writerVars  == <<wpc, entry>>
controlVars == <<control, call>>
vars == <<queue, status, ledger, asleep, ppc, runtimeVars, writerVars, controlVars>>

-----------------------------------------------------------------------------
Errors     == {"ok", "writer", "reentrant", "tooLarge", "full", "alloc"}
Operations == {"configure", "flush", "stop"}
Fates      == {"pending", "written", "failed", "skipped"}

\* Impl::Entry: a record, named by its place in the ledger, or a barrier.
RecordEntry(id) == [id |-> id, barrier |-> None]
BarrierEntry(c) == [id |-> 0,  barrier |-> c]
IsRecord(e)     == e.barrier = None
Entries         == [id : Nat, barrier : Controllers \cup {None}]

\* A control thread outside every operation, and what its last one returned.
Idle(r) == [pc |-> "idle", op |-> "flush", done |-> FALSE, error |-> "ok",
            result |-> r, mark |-> 0]

NotifyAll == asleep' = {}

\* Each counted submission uses up one unit of the bound MaxSubmits.
MaySubmit == status.accepted + status.dropped + status.filtered < MaxSubmits

Init ==
  /\ queue = <<>>
  /\ settings = [gen |-> 0, capacity |-> 1, held |-> FALSE]
  /\ status = [is_running |-> FALSE, is_accepting |-> FALSE, queued |-> 0,
               accepted |-> 0, completed |-> 0, dropped |-> 0, filtered |-> 0,
               last_error |-> "ok"]
  /\ stopping = FALSE
  /\ writerFailed = FALSE
  /\ ledger = <<>>
  /\ wpc = "none"
  /\ entry = [of |-> RecordEntry(0), skip |-> FALSE]
  /\ asleep = {}
  /\ ppc = [p \in Producers |-> "idle"]
  /\ control = None
  /\ call = [c \in Controllers |-> Idle("none")]

-----------------------------------------------------------------------------
(***************************************************************************)
(* Producers: tryAppend().  NotRunning changes nothing and is no action.   *)
(***************************************************************************)
Submitting(p) == ppc[p] = "idle" /\ status.is_accepting /\ MaySubmit

QueueFull == status.queued >= settings.capacity

\* Appends an entry and wakes the threads waiting for one.
Enqueue_Front(e)  == queue' = <<e>> \o queue /\ NotifyAll
Enqueue_Silent(e) == queue' = Append(queue, e) /\ UNCHANGED asleep
Enqueue(e) == queue' = Append(queue, e) /\ NotifyAll

\* The last_error an error leaves: a writer failure is not replaced.
Retained_Latest(error) == error
Retained(error) == IF writerFailed THEN status.last_error ELSE error

\* A submission that is counted and goes no further.  After a writer failure
\* last_error is kept.
AppendRefused(p) ==
  /\ Submitting(p)
  /\ \/ status' = [status EXCEPT !.filtered = @ + 1]
     \/ writerFailed /\ status' = [status EXCEPT !.dropped = @ + 1]
     \/ /\ ~writerFailed
        /\ status' = [status EXCEPT !.dropped = @ + 1, !.last_error = "tooLarge"]
     \/ /\ ~writerFailed
        /\ QueueFull
        /\ status' = [status EXCEPT !.dropped = @ + 1, !.last_error = "full"]
  /\ UNCHANGED <<queue, ledger, asleep, ppc, runtimeVars, writerVars, controlVars>>

AppendAccepted(p) ==
  /\ Submitting(p)
  /\ ~writerFailed
  /\ ~QueueFull
  /\ Enqueue(RecordEntry(status.accepted + 1))
  /\ status' = [status EXCEPT !.queued = @ + 1, !.accepted = @ + 1]
  /\ ledger' = Append(ledger, [gen |-> settings.gen, fate |-> "pending"])
  /\ UNCHANGED <<ppc, runtimeVars, writerVars, controlVars>>

\* Copying the record throws: the lock is released, and the handler takes it
\* again in a critical section of its own.
AppendThrows(p) ==
  /\ Submitting(p)
  /\ ~writerFailed
  /\ ~QueueFull
  /\ ppc' = [ppc EXCEPT ![p] = "handler"]
  /\ UNCHANGED <<queue, status, ledger, asleep, runtimeVars, writerVars, controlVars>>

AppendHandler(p) ==
  /\ ppc[p] = "handler"
  /\ ppc' = [ppc EXCEPT ![p] = "idle"]
  /\ status' = [status EXCEPT !.dropped = @ + 1, !.last_error = Retained("alloc")]
  /\ UNCHANGED <<queue, ledger, asleep, runtimeVars, writerVars, controlVars>>

TryAppend(p) ==
  AppendRefused(p) \/ AppendAccepted(p) \/ AppendThrows(p) \/ AppendHandler(p)

-----------------------------------------------------------------------------
(***************************************************************************)
(* The writer thread, Impl::run().                                         *)
(***************************************************************************)
WriterAwake == wpc = "loop" /\ Writer \notin asleep

WriterSleep ==
  /\ WriterAwake
  /\ queue = <<>>
  /\ ~stopping
  /\ asleep' = asleep \cup {Writer}
  /\ UNCHANGED <<queue, status, ledger, ppc, runtimeVars, writerVars, controlVars>>

\* The writer leaves when it is told to stop and has drained the queue.
MayExit == queue = <<>> /\ stopping

WriterExit ==
  /\ WriterAwake
  /\ MayExit
  /\ wpc' = "exited"
  /\ UNCHANGED <<queue, status, ledger, asleep, ppc, runtimeVars, entry, controlVars>>

\* What taking an entry removes from status.queued: a barrier was not counted.
QueuedShare(e) == IF IsRecord(e) THEN 1 ELSE 0

\* After a failure records are drained without output, barriers still flush.
Skips_Never(e) == FALSE
Skips(e) == writerFailed /\ IsRecord(e)

\* Takes the oldest entry and releases the mutex for the output.
WriterTake ==
  /\ WriterAwake
  /\ queue # <<>>
  /\ wpc' = "busy"
  /\ entry' = [of |-> Head(queue), skip |-> Skips(Head(queue))]
  /\ queue' = Tail(queue)
  /\ status' = [status EXCEPT !.queued = @ - QueuedShare(Head(queue))]
  /\ UNCHANGED <<ledger, asleep, ppc, runtimeVars, controlVars>>

\* A formatter, console writer or sink that submits to its own runtime is
\* refused.  Skipped records run no callback.
WriterReenters ==
  /\ wpc = "busy"
  /\ ~entry.skip
  /\ MaySubmit
  /\ status' = [status EXCEPT !.dropped = @ + 1, !.last_error = Retained("reentrant")]
  /\ UNCHANGED <<queue, ledger, asleep, ppc, runtimeVars, writerVars, controlVars>>

\* The bookkeeping of a record that was written, failed or skipped.
FinishRecord(failed) ==
  /\ IsRecord(entry.of)
  /\ status' = [status EXCEPT !.completed = @ + 1,
                  !.dropped    = IF writerFailed \/ failed THEN @ + 1 ELSE @,
                  !.last_error = IF failed THEN "writer" ELSE @]
  /\ ledger' = [ledger EXCEPT ![entry.of.id].fate =
       IF entry.skip THEN "skipped" ELSE IF failed THEN "failed" ELSE "written"]
  /\ UNCHANGED call

\* The barrier of a control operation carries the retained failure.
BarrierError_ThisFlush(failed) == IF failed THEN "writer" ELSE "ok"
BarrierError(failed) ==
  IF failed THEN "writer" ELSE IF writerFailed THEN status.last_error ELSE "ok"

FinishBarrier(failed) ==
  /\ ~IsRecord(entry.of)
  /\ status' = [status EXCEPT !.last_error = IF failed THEN "writer" ELSE @]
  /\ call' = [call EXCEPT ![entry.of.barrier] =
                [@ EXCEPT !.done = TRUE, !.error = BarrierError(failed)]]
  /\ UNCHANGED ledger

\* write() or flushSinks() returned and the writer locks the mutex again.
WriterFinish(failed) ==
  /\ wpc = "busy"
  /\ entry.skip => ~failed
  /\ wpc' = "loop"
  /\ writerFailed' = (writerFailed \/ failed)
  /\ FinishRecord(failed) \/ FinishBarrier(failed)
  /\ NotifyAll
  /\ UNCHANGED <<queue, settings, stopping, entry, ppc, control>>

WriterStep ==
  WriterSleep \/ WriterExit \/ WriterTake \/ \E failed \in BOOLEAN : WriterFinish(failed)

-----------------------------------------------------------------------------
(***************************************************************************)
(* Control operations.  Every one first takes Impl::control; configure()   *)
(* has by then validated its settings and opened its candidate file, and a *)
(* failure of either returned without touching the runtime.                *)
(***************************************************************************)
At(c, pc)   == call[c].pc = pc
GoTo(c, pc) == call' = [call EXCEPT ![c].pc = pc]

Outcome(error) == IF error = "ok" THEN "success" ELSE "failure"

\* The operation returns r, drops its Barrier and releases Impl::control.
Return(c, r) == control' = None /\ call' = [call EXCEPT ![c] = Idle(r)]

Call(c, o) ==
  /\ At(c, "idle")
  /\ o = "configure" => settings.gen < MaxGen
  /\ call' = [call EXCEPT ![c] = [pc |-> "acquire", op |-> o, done |-> FALSE,
                error |-> "ok", result |-> "none", mark |-> status.accepted]]
  /\ UNCHANGED <<queue, status, ledger, asleep, ppc, runtimeVars, writerVars, control>>

Acquire(c) ==
  /\ At(c, "acquire")
  /\ control = None
  /\ control' = c
  /\ GoTo(c, CASE call[c].op = "configure" -> "enter"
               [] call[c].op = "flush"     -> "barrier"
               [] call[c].op = "stop"      -> "close")
  /\ UNCHANGED <<queue, status, ledger, asleep, ppc, runtimeVars, writerVars>>

\* configure() enqueues its barrier, starts the writer if there is none, and
\* closes admission, all in one critical section.
ConfigureEnter(c) ==
  /\ At(c, "enter")
  /\ Enqueue(BarrierEntry(c))
  /\ stopping' = (stopping /\ status.is_running)
  /\ wpc' = IF status.is_running THEN wpc ELSE "loop"
  /\ status' = [status EXCEPT !.is_running = TRUE, !.is_accepting = FALSE]
  /\ GoTo(c, "await")
  /\ UNCHANGED <<settings, writerFailed, ledger, ppc, entry, control>>

\* No queue slot, or no thread for the writer (the slot is then taken back):
\* the old configuration stays.
ConfigureFails(c) ==
  /\ At(c, "enter")
  /\ UNCHANGED stopping \/ (~status.is_running /\ stopping' = FALSE)
  /\ Return(c, "failure")
  /\ UNCHANGED <<queue, status, ledger, asleep, ppc, settings, writerFailed, writerVars>>

\* A control thread that finds its barrier not done waits for a notification.
AwaitSleep(c) ==
  /\ At(c, "await")
  /\ c \notin asleep
  /\ ~call[c].done
  /\ asleep' = asleep \cup {c}
  /\ UNCHANGED <<queue, status, ledger, ppc, runtimeVars, writerVars, controlVars>>

BarrierDone_Notified(c) == At(c, "await") /\ c \notin asleep
BarrierDone(c) == At(c, "await") /\ c \notin asleep /\ call[c].done

\* The barrier came through: the new settings replace the old ones, the
\* retained failure is cleared and admission opens again.
ConfigureCommit(c, capacity) ==
  /\ BarrierDone(c)
  /\ call[c].op = "configure"
  /\ settings' = [gen |-> settings.gen + 1, capacity |-> capacity, held |-> TRUE]
  /\ status' = [status EXCEPT !.last_error = "ok", !.is_accepting = TRUE]
  /\ writerFailed' = FALSE
  /\ Return(c, "success")
  /\ UNCHANGED <<queue, ledger, asleep, ppc, stopping, writerVars>>

\* stop() closes admission in a first critical section.
StopClose(c) ==
  /\ At(c, "close")
  /\ status' = [status EXCEPT !.is_accepting = FALSE]
  /\ GoTo(c, "barrier")
  /\ UNCHANGED <<queue, ledger, asleep, ppc, runtimeVars, writerVars, control>>

\* Impl::barrier() for flush() and stop(): enqueue the barrier and wait.
BarrierEnqueue(c) ==
  /\ At(c, "barrier")
  /\ status.is_running
  /\ Enqueue(BarrierEntry(c))
  /\ GoTo(c, "await")
  /\ UNCHANGED <<status, ledger, ppc, runtimeVars, writerVars, control>>

\* The end of Impl::barrier(): flush() returns, stop() goes on to halt.
BarrierEnd(c, r) ==
  /\ \/ call[c].op = "flush" /\ Return(c, r)
     \/ /\ call[c].op = "stop"
        /\ call' = [call EXCEPT ![c] = [@ EXCEPT !.pc = "halt", !.result = r]]
        /\ UNCHANGED control
  /\ UNCHANGED <<queue, status, ledger, asleep, ppc, runtimeVars, writerVars>>

\* Without a writer the barrier reports the retained failure at once.
BarrierNotRunning(c) ==
  /\ At(c, "barrier")
  /\ ~status.is_running
  /\ BarrierEnd(c, IF writerFailed THEN Outcome(status.last_error) ELSE "success")

\* The barrier or its queue slot cannot be allocated: flush() throws, stop()
\* remembers the failure and still halts the writer.
BarrierThrows(c) == At(c, "barrier") /\ BarrierEnd(c, "failure")

BarrierReturn(c) == BarrierDone(c) /\ BarrierEnd(c, Outcome(call[c].error))

StopHalt(c) ==
  /\ At(c, "halt")
  /\ stopping' = TRUE
  /\ NotifyAll
  /\ GoTo(c, "join")
  /\ UNCHANGED <<queue, status, ledger, ppc, settings, writerFailed, writerVars, control>>

\* join() returns at once when there is no thread, else when it has exited.
Joined_Detached == TRUE
Joined == wpc \in {"none", "exited"}

StopJoin(c) ==
  /\ At(c, "join")
  /\ Joined
  /\ wpc' = "none"
  /\ GoTo(c, "release")
  /\ UNCHANGED <<queue, status, ledger, asleep, ppc, runtimeVars, entry, control>>

\* The captures leave the settings once no writer can call them.
StopRelease(c) ==
  /\ At(c, "release")
  /\ status' = [status EXCEPT !.is_running = FALSE]
  /\ settings' = [settings EXCEPT !.held = FALSE]
  /\ Return(c, call[c].result)
  /\ UNCHANGED <<queue, ledger, asleep, ppc, stopping, writerFailed, writerVars>>

ControlStep(c) ==
  \/ ConfigureEnter(c) \/ ConfigureFails(c)
  \/ \E capacity \in Capacities : ConfigureCommit(c, capacity)
  \/ AwaitSleep(c)
  \/ BarrierEnqueue(c) \/ BarrierNotRunning(c) \/ BarrierThrows(c) \/ BarrierReturn(c)
  \/ StopClose(c) \/ StopHalt(c) \/ StopJoin(c) \/ StopRelease(c)

-----------------------------------------------------------------------------
\* A condition variable may wake a waiter without a notification.
SpuriousWake == \E t \in asleep :
  /\ asleep' = asleep \ {t}
  /\ UNCHANGED <<queue, status, ledger, ppc, runtimeVars, writerVars, controlVars>>

Next ==
  \/ \E p \in Producers : TryAppend(p)
  \/ WriterStep \/ WriterReenters \/ SpuriousWake
  \/ \E c \in Controllers :
       \/ \E o \in Operations : Call(c, o)
       \/ Acquire(c)
       \/ ControlStep(c)

Spec == Init /\ [][Next]_vars

(***************************************************************************)
(* A runnable thread runs and obtains Impl::mutex; formatter, console and  *)
(* sink callbacks return.  Nothing makes a program call an operation, and  *)
(* std::mutex orders no waiters, so Call and Acquire have no fairness.     *)
(***************************************************************************)
FairSpec == Spec /\ WF_vars(WriterStep) /\ \A c \in Controllers : WF_vars(ControlStep(c))

-----------------------------------------------------------------------------
(***************************************************************************)
(* Properties.                                                             *)
(***************************************************************************)
LedgerType   == [gen : Nat, fate : Fates]
SettingsType == [gen : Nat, capacity : Nat \ {0}, held : BOOLEAN]
StatusType   == [is_running : BOOLEAN, is_accepting : BOOLEAN, queued : Nat,
                 accepted : Nat, completed : Nat, dropped : Nat, filtered : Nat,
                 last_error : Errors]
CallType     == [pc : {"idle", "acquire", "enter", "close", "barrier", "await",
                       "halt", "join", "release"},
                 op : Operations, done : BOOLEAN, error : Errors,
                 result : {"none", "success", "failure"}, mark : Nat]

\* Type invariant.
TypeOK ==
  /\ queue \in Seq(Entries)
  /\ settings \in SettingsType
  /\ status \in StatusType
  /\ stopping \in BOOLEAN
  /\ writerFailed \in BOOLEAN
  /\ ledger \in Seq(LedgerType)
  /\ wpc \in {"none", "loop", "busy", "exited"}
  /\ entry \in [of : Entries, skip : BOOLEAN]
  /\ asleep \subseteq Controllers \cup {Writer}
  /\ ppc \in [Producers -> {"idle", "handler"}]
  /\ control \in Controllers \cup {None}
  /\ call \in [Controllers -> CallType]

\* The record the writer has in hand counts as one, a barrier as none.
InHand == IF wpc = "busy" /\ IsRecord(entry.of) THEN 1 ELSE 0

Barriers == {i \in 1..Len(queue) : ~IsRecord(queue[i])}

\* The capacity a configure() sets bounds the records waiting, including those
\* that arrived under the previous capacity, and at most one barrier is in the
\* queue on top of them (the comment at line 298: "the one control operation
\* is outside producer capacity and remains bounded by the control mutex").
QueueBounded ==
  /\ status.queued <= settings.capacity
  /\ Len(queue) = status.queued + Cardinality(Barriers)
  /\ Cardinality(Barriers) <= 1

\* No record is lost, duplicated or overtaken: every accepted record is
\* completed, in the writer's hand or queued, and the completed ones are the
\* oldest ones.
Conservation ==
  /\ Len(ledger) = status.accepted
  /\ status.accepted = status.completed + InHand + status.queued
  /\ \A id \in 1..Len(ledger) : ledger[id].fate # "pending" <=> id <= status.completed

\* write() reads the settings without the mutex, so no step may replace or
\* strip them while the writer is at work, and a record is only ever written
\* under the generation that accepted it.
SettingsIsolated ==
  wpc = "busy" /\ IsRecord(entry.of) =>
    settings.held /\ ledger[entry.of.id].gen = settings.gen
NoSwapDuringWrite == [][settings' # settings => wpc # "busy"]_vars

\* A runtime that is not running has no writer, no queued entry, no accepted
\* record left unsettled, and holds no capture of its caller.
QuietWhenStopped ==
  ~status.is_running =>
    /\ wpc = "none"
    /\ queue = <<>>
    /\ \A id \in 1..Len(ledger) : ledger[id].fate # "pending"
    /\ ~settings.held

\* A writer failure is retained until the next configure(): later submission
\* errors do not replace it, and no record is written after one that failed
\* in the same generation.
FailureRetained ==
  /\ writerFailed => status.last_error = "writer"
  /\ \A i, j \in 1..Len(ledger) :
       i < j /\ ledger[i].gen = ledger[j].gen /\ ledger[i].fate \in {"failed", "skipped"}
         => ledger[j].fate # "written"

\* When flush() or stop() succeeds, every record accepted before the call has
\* been settled, and each one of the current configuration was written.
Covered(c) ==
  \A id \in 1..call[c].mark :
    /\ ledger[id].fate # "pending"
    /\ ledger[id].gen = settings.gen => ledger[id].fate = "written"
SuccessCovers ==
  [][\A c \in Controllers :
       ~At(c, "idle") /\ call'[c].pc = "idle" /\ call'[c].result = "success"
         /\ call[c].op # "configure"
         => Covered(c)]_vars

\* A control operation that holds Impl::control returns, which gives the mutex up:
\* its barrier is never stranded behind a writer that sleeps, has failed or has left.
ControlReturns == \A c \in Controllers : []<>(control # c)

\* Every accepted record is settled, whatever the control threads do; a settled one
\* stays so.
AcceptedSettles ==
  \A id \in 1..MaxSubmits : []<>(id \in DOMAIN ledger => ledger[id].fate # "pending")

\* The runtime seen by its producers: the abstract channel.
Chan == INSTANCE AsyncLogChannel WITH
  journal    <- ledger,
  generation <- settings.gen,
  open       <- status.is_accepting,
  failed     <- writerFailed

\* The runtime implements the channel: records are settled once, in order,
\* under the settings they were accepted with, and a failure ends the output
\* of its generation.
ImplementsChannel == Chan!Channel
=============================================================================
