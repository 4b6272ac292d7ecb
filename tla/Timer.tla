------------------------------- MODULE Timer -------------------------------
(***************************************************************************)
(* Timer (core/wse/utility/wse_Timer.cpp): a WorkerController whose body   *)
(* waits for the interval, takes the callback and calls it.                *)
(*                                                                         *)
(* Worker w of the controller is the session the w-th launch began.  What  *)
(* tells one interval from another is the session that installed it, and   *)
(* so with the callback.  The owner makes one call at a time and the       *)
(* callback may stop the timer or change its interval (CoreServices.md:88).*)
(*                                                                         *)
(* Impl::mutex is held across the whole launch; the sections of the worker *)
(* under it are single actions.                                            *)
(***************************************************************************)
EXTENDS WorkerController

CONSTANTS Owner, Nobody

VARIABLES
  alive,       \* the timer exists
  impl_mutex,  \* the actor that holds Impl::mutex across several steps
  interval,    \* the session that installed Impl::interval
  callback,    \* the session that installed Impl::callback, 0 when it is empty
  op,          \* the public call each actor is in
  body,        \* where the body of each worker is
  held         \* the callback the body has taken

timerVars == <<alive, impl_mutex, interval, callback, op, body, held>>
allVars == <<vars, timerVars>>

-----------------------------------------------------------------------------
Stops == {"stop", "assign", "destroy", "destroy_impl"}

TimerInit ==
  /\ Init
  /\ alive = TRUE
  /\ impl_mutex = Nobody
  /\ interval = 0
  /\ callback = 0
  /\ op = [a \in Actors |-> "none"]
  /\ body = [w \in Workers |-> "interval"]
  /\ held = [w \in Workers |-> 0]

MutexFree_Ignored == TRUE
MutexFree == impl_mutex = Nobody

InCall(a, o) == op[a] = o
SetOp(a, o)  == op' = [op EXCEPT ![a] = o]

\* The owner calls, or the callback: stop() goes on to the controller.
TimerCall(a, o) ==
  /\ alive
  /\ InCall(a, "none")
  /\ \/ a = Owner /\ o \in {"start", "stop", "set", "assign", "destroy"}
     \/ a \in Workers /\ body[a] = "callback" /\ o \in {"stop", "set"}
  /\ o = "start" => \E w \in Workers : worker[w] = "none"
  /\ SetOp(a, o)
  /\ IF o \in Stops THEN GoTo(a, "stop") ELSE UNCHANGED call
  /\ UNCHANGED <<running, stop_requested, thread, worker_id, worker>>
  /\ UNCHANGED <<alive, impl_mutex, interval, callback, body, held>>

-----------------------------------------------------------------------------
(***************************************************************************)
(* start().                                                                *)
(***************************************************************************)
StartBegins(a) ==
  /\ InCall(a, "start") /\ At(a, "idle")
  /\ MutexFree
  /\ IF running THEN SetOp(a, "none") /\ UNCHANGED <<call, impl_mutex>>
     ELSE GoTo(a, "start") /\ impl_mutex' = a /\ UNCHANGED op
  /\ UNCHANGED <<running, stop_requested, thread, worker_id, worker>>
  /\ UNCHANGED <<alive, interval, callback, body, held>>

Unlock == impl_mutex' = Nobody

\* The worker is launched: its interval is installed and so is its callback,
\* if there is memory for it.
StartInstalls(a) ==
  /\ InCall(a, "start") /\ At(a, "started")
  /\ interval' = thread
  /\ callback' \in {thread, callback}
  /\ Unlock
  /\ SetOp(a, "none")
  /\ GoTo(a, "idle")
  /\ UNCHANGED <<running, stop_requested, thread, worker_id, worker>>
  /\ UNCHANGED <<alive, body, held>>

StartGivesUp(a) ==
  /\ InCall(a, "start") /\ call[a].pc \in {"refused", "threw"}
  /\ Unlock
  /\ SetOp(a, "none")
  /\ GoTo(a, "idle")
  /\ UNCHANGED <<running, stop_requested, thread, worker_id, worker>>
  /\ UNCHANGED <<alive, interval, callback, body, held>>

-----------------------------------------------------------------------------
(***************************************************************************)
(* setInterval(), stop(), move assignment and destruction.                 *)
(***************************************************************************)
SetInterval(a) ==
  /\ InCall(a, "set") \/ InCall(a, "assign")
  /\ call[a].pc \in {"idle", "stopped"}
  /\ MutexFree
  /\ SetOp(a, "none")
  /\ GoTo(a, "idle")
  /\ UNCHANGED <<running, stop_requested, thread, worker_id, worker>>
  /\ UNCHANGED <<alive, impl_mutex, interval, callback, body, held>>

\* ~Timer() stops the worker, and ~WorkerController() once more.
StopEnds(a) ==
  /\ At(a, "stopped")
  /\ CASE InCall(a, "stop") -> SetOp(a, "none") /\ GoTo(a, "idle") /\ UNCHANGED alive
       [] InCall(a, "destroy") -> SetOp(a, "destroy_impl") /\ GoTo(a, "stop") /\ UNCHANGED alive
       [] InCall(a, "destroy_impl") -> SetOp(a, "none") /\ GoTo(a, "idle") /\ alive' = FALSE
       [] OTHER -> FALSE
  /\ UNCHANGED <<running, stop_requested, thread, worker_id, worker>>
  /\ UNCHANGED <<impl_mutex, interval, callback, body, held>>

TimerCallStep(a) ==
  \/ (CallStep(a) \/ StartThrows(a)) /\ UNCHANGED timerVars
  \/ StartBegins(a) \/ StartInstalls(a) \/ StartGivesUp(a) \/ SetInterval(a) \/ StopEnds(a)

-----------------------------------------------------------------------------
(***************************************************************************)
(* The body of the worker.                                                 *)
(***************************************************************************)
BodyMoves(w, pc) ==
  /\ body' = [body EXCEPT ![w] = pc]
  /\ UNCHANGED <<running, stop_requested, thread, worker_id, call>>
  /\ UNCHANGED <<alive, impl_mutex, interval, op>>

ReadInterval(w) ==
  /\ worker[w] = "body" /\ body[w] = "interval"
  /\ MutexFree
  /\ BodyMoves(w, "wait")
  /\ UNCHANGED <<worker, callback, held>>

BodyWaits(w) ==
  /\ body[w] = "wait"
  /\ WaitFor(w)
  /\ UNCHANGED timerVars

BodyTimesOut(w) == WaitTimeout(w) /\ UNCHANGED timerVars

BodyTold(w) ==
  /\ worker[w] = "told" /\ body[w] = "wait"
  /\ BodyMoves(w, "release")
  /\ UNCHANGED <<worker, callback, held>>

\* The wait timed out: the callback is taken, an empty one ends the timer.
TakeCallback(w) ==
  /\ worker[w] = "ticked" /\ body[w] = "wait"
  /\ MutexFree
  /\ BodyMoves(w, IF callback = 0 THEN "release" ELSE "callback")
  /\ held' = [held EXCEPT ![w] = callback]
  /\ UNCHANGED <<worker, callback>>

\* The callback returns, or throws and ends the timer.
CallbackEnds(w) ==
  /\ body[w] = "callback"
  /\ InCall(w, "none")
  /\ \/ BodyMoves(w, "interval") /\ SetWorker(w, "body")
     \/ BodyMoves(w, "release") /\ UNCHANGED worker
  /\ held' = [held EXCEPT ![w] = 0]
  /\ UNCHANGED callback

\* The captures are released while the worker still counts as running.
Released == callback' = 0

ReleaseCallback(w) ==
  /\ body[w] = "release"
  /\ MutexFree
  /\ Released
  /\ BodyMoves(w, "done")
  /\ UNCHANGED <<worker, held>>

BodyReturns(w) ==
  /\ body[w] = "done"
  /\ BodyEnds(w)
  /\ UNCHANGED timerVars

TimerWorkerStep(w) ==
  \/ (WorkerEnters(w) \/ WorkerEnds(w) \/ WorkerLeaves(w)) /\ UNCHANGED timerVars
  \/ ReadInterval(w) \/ BodyWaits(w) \/ BodyTold(w) \/ TakeCallback(w)
  \/ ReleaseCallback(w) \/ BodyReturns(w)

\* The timer is gone.
Destroyed == ~alive /\ UNCHANGED allVars

TimerNext ==
  \/ \E a \in Actors : \/ \E o \in {"start", "stop", "set", "assign", "destroy"} : TimerCall(a, o)
                       \/ TimerCallStep(a)
  \/ \E w \in Workers : TimerWorkerStep(w) \/ BodyTimesOut(w) \/ CallbackEnds(w)
  \/ Destroyed

-----------------------------------------------------------------------------
(***************************************************************************)
(* Properties.                                                             *)
(***************************************************************************)
\* Type invariant.  Impl::mutex is held across steps by a start() only.
TimerTypeOK ==
  /\ alive \in BOOLEAN
  /\ impl_mutex \in Threads \cup {Nobody}
  /\ impl_mutex # Nobody => op[impl_mutex] = "start"
  /\ interval \in {0} \cup Workers
  /\ callback \in {0} \cup Workers
  /\ op \in [Actors -> {"none", "start", "set"} \cup Stops]
  /\ body \in [Workers -> {"interval", "wait", "callback", "release", "done"}]
  /\ held \in [Workers -> {0} \cup Workers]

\* A session waits for the interval its own start() installed, never for one
\* left from the session before, and only invokes its own callback.
OwnSettings ==
  \A w \in Workers :
    /\ body[w] # "interval" => interval >= w
    /\ body[w] = "callback" => held[w] = w

\* The captures of a callback are released when the timer stops: a timer that
\* is not running holds none (wse_Timer.h:69).
CapturesReleased == ~running /\ MutexFree => callback = 0 /\ \A w \in Workers : held[w] = 0

\* An invocation begins after a stop was requested only if the owner's stop()
\* has not returned; after the callback's own stop() none begins (wse_Timer.h:123).
StopRespected ==
  [][\A w \in Workers :
       body[w] # "callback" /\ body'[w] = "callback" /\ stop_requested
         => \E t \in Threads : op[t] \in Stops]_allVars

\* When a stop of the owner, which the destructor is too, returns, no worker
\* runs and no thread is joinable: a worker never touches a destroyed timer.
StopIsComplete ==
  [][\A t \in Threads :
       op[t] \in Stops /\ op'[t] = "none"
         => /\ thread' = 0
            /\ \A w \in Workers : worker'[w] \in {"none", "joined"}]_allVars
=============================================================================
