------------------------- MODULE CameraOwnerThread -------------------------
(***************************************************************************)
(* CameraOwnerThread (core/tmr/camera/CameraOwnerThread.h): a camera       *)
(* backend lives and dies on a thread of its own, and any thread calls it  *)
(* through invoke(), which lends the owner thread a task in its own stack  *)
(* frame.  One mutex, one condition variable and one slot serve everybody. *)
(*                                                                         *)
(* The constructor's thread is the one that destroys the object; it does   *)
(* so while no call is in progress (CameraOwnerThread.h:103).              *)
(*                                                                         *)
(* A definition X_Y is X with a fault; the checks of the properties use it *)
(* in place of X to see that the property notices.                         *)
(***************************************************************************)
EXTENDS Naturals

CONSTANTS
  Callers,   \* the threads that call invoke()
  None,      \* no task
  MaxCalls   \* bound on the calls of each caller

VARIABLES
  m_task,   \* the caller whose invocation is in the slot
  m_stop,
  m_ready,
  maker,    \* where the constructor or the destructor is
  owner,    \* where the owner thread is
  caller,   \* where each caller is
  task,     \* the Invocation in the frame of each caller: runs and outcome
  calls     \* how often each caller called

vars == <<m_task, m_stop, m_ready, maker, owner, caller, task, calls>>

-----------------------------------------------------------------------------
NewTask == [runs |-> 0, outcome |-> "none"]

Init ==
  /\ m_task = None
  /\ m_stop = FALSE
  /\ m_ready = FALSE
  /\ maker = "constructing"
  /\ owner = "create"
  /\ caller = [c \in Callers |-> "idle"]
  /\ task = [c \in Callers |-> NewTask]
  /\ calls = [c \in Callers |-> 0]

\* notify_all(): whoever waits looks at its predicate again.
Woken(pc) == CASE pc = "asleep_slot" -> "slot"
               [] pc = "asleep_done" -> "done"
               [] pc = "asleep"      -> "loop"
               [] pc = "asleep_ready" -> "constructing"
               [] OTHER              -> pc

\* A caller goes to pc and wakes the others.
CallersWoken(c, pc) ==
  caller' = [d \in Callers |-> IF d = c THEN pc ELSE Woken(caller[d])]

AllWoken == caller' = [d \in Callers |-> Woken(caller[d])]

-----------------------------------------------------------------------------
(***************************************************************************)
(* The constructor and the destructor.                                     *)
(***************************************************************************)
Ready == m_ready

AwaitReady ==
  /\ maker = "constructing"
  /\ maker' = IF ~Ready THEN "asleep_ready"
              ELSE IF owner = "failed" THEN "join_failed" ELSE "constructed"
  /\ UNCHANGED <<m_task, m_stop, m_ready, owner, caller, task, calls>>

\* A factory that failed: the thread is joined and its exception rethrown.
Rethrow ==
  /\ maker = "join_failed"
  /\ owner = "failed"
  /\ maker' = "rethrown"
  /\ UNCHANGED <<m_task, m_stop, m_ready, owner, caller, task, calls>>

WakeOwner == owner' = Woken(owner)

DestroyRequest ==
  /\ maker = "constructed"
  /\ \A c \in Callers : caller[c] = "idle"
  /\ m_stop' = TRUE
  /\ WakeOwner
  /\ maker' = "joining"
  /\ UNCHANGED <<m_task, m_ready, caller, task, calls>>

DestroyJoin ==
  /\ maker = "joining"
  /\ owner = "exited"
  /\ maker' = "destroyed"
  /\ UNCHANGED <<m_task, m_stop, m_ready, owner, caller, task, calls>>

-----------------------------------------------------------------------------
(***************************************************************************)
(* The owner thread.                                                       *)
(***************************************************************************)
\* The factory returns an object, or fails and ends the thread.
Create ==
  /\ owner = "create"
  /\ owner' \in {"loop", "failed"}
  /\ m_ready' = TRUE
  /\ maker' = Woken(maker)
  /\ UNCHANGED <<m_task, m_stop, caller, task, calls>>

OwnerLoop ==
  /\ owner = "loop"
  /\ owner' = IF m_stop THEN "drop" ELSE IF m_task # None THEN "running" ELSE "asleep"
  /\ UNCHANGED <<m_task, m_stop, m_ready, maker, caller, task, calls>>

\* The function runs without the mutex, and its exception is kept.
RunTask ==
  /\ owner = "running"
  /\ \E out \in {"returns", "throws"} :
       task' = [task EXCEPT ![m_task] = [runs |-> @.runs + 1, outcome |-> out]]
  /\ owner' = "ran"
  /\ UNCHANGED <<m_task, m_stop, m_ready, maker, caller, calls>>

FinishTask ==
  /\ owner = "ran"
  /\ m_task' = None
  /\ owner' = "loop"
  /\ AllWoken
  /\ UNCHANGED <<m_stop, m_ready, maker, task, calls>>

\* The object dies on the thread that made it.
DropObject ==
  /\ owner = "drop"
  /\ owner' = "exited"
  /\ UNCHANGED <<m_task, m_stop, m_ready, maker, caller, task, calls>>

OwnerStep == Create \/ OwnerLoop \/ RunTask \/ FinishTask \/ DropObject

-----------------------------------------------------------------------------
(***************************************************************************)
(* invoke().                                                               *)
(***************************************************************************)
Invoke(c) ==
  /\ maker = "constructed"
  /\ caller[c] = "idle"
  /\ calls[c] < MaxCalls
  /\ calls' = [calls EXCEPT ![c] = @ + 1]
  /\ caller' = [caller EXCEPT ![c] = "slot"]
  /\ task' = [task EXCEPT ![c] = NewTask]
  /\ UNCHANGED <<m_task, m_stop, m_ready, maker, owner>>

SlotFree_Unchecked == TRUE
SlotFree == m_task = None

\* The caller fills the slot, wakes everybody and waits, or waits for the slot.
TakeSlot(c) ==
  /\ caller[c] = "slot"
  /\ IF SlotFree
     THEN m_task' = c /\ CallersWoken(c, "asleep_done") /\ owner' = Woken(owner)
     ELSE caller' = [caller EXCEPT ![c] = "asleep_slot"] /\ UNCHANGED <<m_task, owner>>
  /\ UNCHANGED <<m_stop, m_ready, maker, task, calls>>

Done_Ran(c) == task[c].runs > 0
Done(c) == m_task # c

AwaitDone(c) ==
  /\ caller[c] = "done"
  /\ caller' = [caller EXCEPT ![c] = IF Done(c) THEN "idle" ELSE "asleep_done"]
  /\ UNCHANGED <<m_task, m_stop, m_ready, maker, owner, task, calls>>

SpuriousWake(c) ==
  /\ caller[c] # Woken(caller[c])
  /\ caller' = [caller EXCEPT ![c] = Woken(@)]
  /\ UNCHANGED <<m_task, m_stop, m_ready, maker, owner, task, calls>>

SpuriousOwnerWake ==
  /\ owner = "asleep"
  /\ WakeOwner
  /\ UNCHANGED <<m_task, m_stop, m_ready, maker, caller, task, calls>>

CallerStep(c) == TakeSlot(c) \/ AwaitDone(c)

Ended == maker \in {"rethrown", "destroyed"} /\ UNCHANGED vars

MakerStep == AwaitReady \/ Rethrow \/ DestroyJoin

Next ==
  \/ MakerStep \/ DestroyRequest \/ OwnerStep \/ SpuriousOwnerWake \/ Ended
  \/ \E c \in Callers : Invoke(c) \/ CallerStep(c) \/ SpuriousWake(c)

Spec == Init /\ [][Next]_vars

-----------------------------------------------------------------------------
(***************************************************************************)
(* Properties.                                                             *)
(***************************************************************************)
\* Type invariant.  Nobody uses the dispatcher before its thread is ready.
TypeOK ==
  /\ m_task \in Callers \cup {None}
  /\ m_stop \in BOOLEAN
  /\ m_ready \in BOOLEAN
  /\ maker \in {"constructing", "asleep_ready", "join_failed", "rethrown", "constructed",
                "joining", "destroyed"}
  /\ maker = "constructed" => m_ready
  /\ owner \in {"create", "failed", "loop", "asleep", "running", "ran", "drop", "exited"}
  /\ caller \in [Callers -> {"idle", "slot", "asleep_slot", "asleep_done", "done"}]
  /\ task \in [Callers -> [runs : Nat, outcome : {"none", "returns", "throws"}]]
  /\ calls \in [Callers -> 0..MaxCalls]

InInvoke(c) == caller[c] \in {"asleep_done", "done"}

\* The slot points into the stack frame of a caller, which has not returned.
\* The owner thread works on such a frame only.
SlotAlive ==
  /\ m_task # None => InInvoke(m_task)
  /\ owner \in {"running", "ran"} => m_task # None

Idle(c) == caller[c] = "idle"
Calls == INSTANCE OwnerCalls WITH
  request <- [c \in Callers |-> IF Idle(c) THEN "none"
                                ELSE IF task[c].runs = 0 THEN "requested" ELSE task[c].outcome],
  busy    <- IF owner = "running" THEN {m_task} ELSE {}

\* The dispatcher implements the abstract calls: one execution at a time, each
\* for one request, with the answer to the one who asked, so `*task.result` is
\* never empty.
ImplementsCalls == Calls!Spec
=============================================================================
