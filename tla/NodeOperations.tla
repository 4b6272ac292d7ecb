--------------------------- MODULE NodeOperations ---------------------------
(***************************************************************************)
(* The operations of the Node.js addon (lang/js/native/addon.cpp): timers  *)
(* of runAfter(), waits that settle a promise, frames copied on the pool,  *)
(* and the hook that reaps them all when the environment goes away.        *)
(*                                                                         *)
(* There is one JavaScript thread, and one worker for each timer and wait. *)
(* Each operation is used once.  A duration is how long the worker of an   *)
(* operation stays in Runtime::wait().                                     *)
(***************************************************************************)
EXTENDS Naturals

CONSTANTS
  Timers, Waits, Copies,  \* operations the application may begin
  None

Operations == Timers \cup Waits \cup Copies

VARIABLES
  operation,  \* the Operation objects, their workers and the TimerHolders
  function,   \* the thread-safe functions of timers and waits
  promise,
  turn,       \* what the JavaScript thread does
  joining,    \* the operation whose worker it joins
  todo        \* promise_operations of cleanupAddon()

node == <<operation, function, promise, turn, joining, todo>>

NoOperation ==
  [life |-> "none", worker |-> "none", cancelled |-> FALSE, failed |-> FALSE,
   registered |-> FALSE, released |-> FALSE, held |-> FALSE]
NoFunction == [refs |-> 0, queued |-> FALSE, closing |-> FALSE, freed |-> FALSE]

NodeInit ==
  /\ operation = [o \in Operations |-> NoOperation]
  /\ function = [o \in Timers \cup Waits |-> NoFunction]
  /\ promise = [o \in Waits \cup Copies |-> "none"]
  /\ turn = "loop" /\ joining = None /\ todo = {}

shutting_down == turn \in {"cleanup", "gone"}
Registered(os) == {o \in os : operation[o].registered}
SetOperation(o, op) == operation' = [operation EXCEPT ![o] = op]
SetFunction(o, fn)  == function' = [function EXCEPT ![o] = fn]

Deleted == [NoOperation EXCEPT !.life = "deleted"]

-----------------------------------------------------------------------------
(***************************************************************************)
(* Thread-safe functions of Node-API: an aborted one takes no more calls,  *)
(* and is finalized when it is aborted, or when all references are back    *)
(* and its queue is empty.                                                 *)
(***************************************************************************)
Released(fn, mode) ==
  IF fn.refs = 0 THEN fn
  ELSE [fn EXCEPT !.refs = @ - 1, !.closing = IF mode = "abort" THEN TRUE ELSE @]

\* Either the worker or the cleanup gives the reference of the runtime back.
ReleaseRuntimeReference(op, fn, mode) == IF op.released THEN fn ELSE Released(fn, mode)

Finished(fn) == ~fn.freed /\ (fn.closing \/ (fn.refs = 0 /\ ~fn.queued))

-----------------------------------------------------------------------------
(***************************************************************************)
(* Calls of the application, from an event of its own or in the callback   *)
(* of a timer.                                                             *)
(***************************************************************************)
MayCall == turn \in {"loop", "callback"} /\ joining = None

Begun == [NoOperation EXCEPT !.life = "live", !.registered = TRUE, !.worker = "wait"]

RunAfter(o) ==
  /\ MayCall /\ operation[o].life = "none"
  /\ SetOperation(o, [Begun EXCEPT !.held = TRUE])
  /\ SetFunction(o, [NoFunction EXCEPT !.refs = 1])
  /\ UNCHANGED <<promise, turn, joining, todo>>

Wait(o) ==
  /\ MayCall /\ operation[o].life = "none"
  /\ SetOperation(o, Begun)
  /\ SetFunction(o, [NoFunction EXCEPT !.refs = 2])
  /\ promise' = [promise EXCEPT ![o] = "pending"]
  /\ UNCHANGED <<turn, joining, todo>>

CopyFrame(o) ==
  /\ MayCall /\ operation[o].life = "none"
  /\ SetOperation(o, Begun)
  /\ promise' = [promise EXCEPT ![o] = "pending"]
  /\ UNCHANGED <<function, turn, joining, todo>>

\* The thread cannot be started.
RunAfterThrows(o) ==
  /\ MayCall /\ operation[o].life = "none"
  /\ SetOperation(o, Deleted)
  /\ SetFunction(o, Released([NoFunction EXCEPT !.refs = 1], "abort"))
  /\ UNCHANGED <<promise, turn, joining, todo>>

\* A wait is left to the finalizer of its function.
WaitThrows(o) ==
  /\ MayCall /\ operation[o].life = "none"
  /\ SetOperation(o, [Begun EXCEPT !.worker = "none", !.released = TRUE])
  /\ SetFunction(o, Released(Released([NoFunction EXCEPT !.refs = 2], "abort"), "release"))
  /\ UNCHANGED <<promise, turn, joining, todo>>

CancelTimer(o) ==
  /\ MayCall /\ operation[o].held
  /\ operation' = [operation EXCEPT ![o].cancelled = TRUE]
  /\ UNCHANGED <<function, promise, turn, joining, todo>>

\* closeCallbackOperation(): the JavaScript thread goes on to join the worker.
CloseCallbackOperation(o) ==
  /\ operation' = [operation EXCEPT ![o].cancelled = TRUE]
  /\ joining' = o
  /\ UNCHANGED <<function, promise, turn>>

\* close(), or the handle is collected.
CloseTimer(o) ==
  /\ MayCall /\ operation[o].held
  /\ CloseCallbackOperation(o)
  /\ UNCHANGED todo

\* A timer is deleted, and so is a wait by its finalizer; the cleanup only joins it.
Joined(o) ==
  /\ joining = o
  /\ operation[o].worker \in {"none", "returned"}
  /\ joining' = None
  /\ IF o \in Waits /\ turn = "cleanup"
       THEN operation' = [operation EXCEPT ![o].worker = "none"] /\ UNCHANGED function
       ELSE /\ SetOperation(o, Deleted)
            /\ IF o \in Waits THEN function' = [function EXCEPT ![o].freed = TRUE] ELSE UNCHANGED function
  /\ UNCHANGED <<promise, turn, todo>>

-----------------------------------------------------------------------------
(***************************************************************************)
(* The workers.                                                            *)
(***************************************************************************)
Moves(o, from, to) ==
  /\ operation[o].worker = from
  /\ SetOperation(o, [operation[o] EXCEPT !.worker = to])
  /\ UNCHANGED <<promise, turn, joining, todo>>

\* Runtime::wait() looks at the token once more when the time is over.
WaitReturns(o) ==
  /\ o \notin Copies
  /\ operation[o].worker = "wait"
  /\ SetOperation(o, [operation[o] EXCEPT !.worker = "check", !.failed = operation[o].cancelled])
  /\ UNCHANGED <<function, promise, turn, joining, todo>>

\* A cancelled timer calls nobody, a cancelled wait rejects its promise.
Calls(o) == ~shutting_down /\ (o \in Timers => ~operation[o].failed)

CheckShutdown(o) ==
  /\ Moves(o, "check", IF Calls(o) THEN "call" ELSE "release")
  /\ UNCHANGED function

\* napi_call_threadsafe_function(): a closing function takes a reference back.
CallFunction(o) ==
  /\ operation[o].worker = "call"
  /\ LET op == operation[o] fn == function[o] IN
     IF ~fn.closing
       THEN SetFunction(o, [fn EXCEPT !.queued = TRUE]) /\ SetOperation(o, [op EXCEPT !.worker = "release"])
       ELSE LET back == Released(fn, "release") IN
            IF o \in Waits
              THEN /\ SetFunction(o, ReleaseRuntimeReference(op, back, "abort"))
                   /\ SetOperation(o, [op EXCEPT !.worker = "release", !.released = TRUE])
              ELSE SetFunction(o, back) /\ SetOperation(o, [op EXCEPT !.worker = "release"])
  /\ UNCHANGED <<promise, turn, joining, todo>>

ReleaseFunction(o) ==
  /\ Moves(o, "release", "returned")
  /\ SetFunction(o, Released(function[o], "release"))

\* executeAsync(), on a thread of the pool.
Execute(o) ==
  /\ o \in Copies
  /\ Moves(o, "wait", "execute")
  /\ UNCHANGED function

Executed(o) ==
  /\ operation[o].worker = "execute"
  /\ SetOperation(o, [operation[o] EXCEPT !.worker = "returned", !.failed = shutting_down])
  /\ UNCHANGED <<function, promise, turn, joining, todo>>

NodeWorkerStep(o) ==
  WaitReturns(o) \/ CheckShutdown(o) \/ CallFunction(o) \/ ReleaseFunction(o) \/ Execute(o) \/ Executed(o)

-----------------------------------------------------------------------------
(***************************************************************************)
(* The event loop, which goes on until every handle is closed when the     *)
(* environment goes away.                                                  *)
(***************************************************************************)
InLoop == turn \in {"loop", "gone"} /\ joining = None
Settle(o) == promise' = [promise EXCEPT ![o] = "settled"]

CallTimerCallback(o) ==
  /\ turn = "loop" /\ joining = None
  /\ function[o].queued /\ ~function[o].closing
  /\ function' = [function EXCEPT ![o].queued = FALSE]
  /\ turn' = "callback"
  /\ UNCHANGED <<operation, promise, joining, todo>>

CallbackEnds ==
  /\ turn = "callback" /\ joining = None
  /\ turn' = "loop"
  /\ UNCHANGED <<operation, function, promise, joining, todo>>

CompletePromiseOperation(o) ==
  /\ turn = "loop" /\ joining = None
  /\ function[o].queued /\ ~function[o].closing
  /\ Settle(o)
  /\ SetFunction(o, ReleaseRuntimeReference(operation[o], [function[o] EXCEPT !.queued = FALSE], "release"))
  /\ operation' = [operation EXCEPT ![o].released = TRUE]
  /\ UNCHANGED <<turn, joining, todo>>

\* The function of a timer has no finalizer.
FinalizeTimerFunction(o) ==
  /\ InLoop
  /\ operation[o].life # "none" /\ Finished(function[o])
  /\ function' = [function EXCEPT ![o].freed = TRUE]
  /\ UNCHANGED <<operation, promise, turn, joining, todo>>

\* The one of a wait joins the worker before the function is freed.
FinalizePromiseOperation(o) ==
  /\ InLoop
  /\ operation[o].life # "none" /\ Finished(function[o])
  /\ joining' = o
  /\ UNCHANGED <<operation, function, promise, turn, todo>>

CompleteAsync(o) ==
  /\ InLoop
  /\ operation[o].worker = "returned"
  /\ Settle(o)
  /\ SetOperation(o, Deleted)
  /\ UNCHANGED <<function, turn, joining, todo>>

-----------------------------------------------------------------------------
(***************************************************************************)
(* The environment goes away, also in a callback: it closes its functions, *)
(* and the hook reaps.                                                     *)
(***************************************************************************)
\* A copy that did not begin is taken off the pool.
CancelWork(o) ==
  IF o \in Copies /\ operation[o].worker = "wait"
    THEN [operation[o] EXCEPT !.cancelled = TRUE, !.worker = "returned", !.failed = TRUE] ELSE operation[o]

CleanupAddon ==
  /\ MayCall
  /\ turn' = "cleanup"
  /\ function' = [o \in DOMAIN function |-> [function[o] EXCEPT !.closing = operation[o].life # "none"]]
  /\ operation' = [o \in Operations |-> CancelWork(o)]
  /\ todo' = Registered(Waits)
  /\ UNCHANGED <<promise, joining>>

CleanupWait(o) ==
  /\ turn = "cleanup" /\ joining = None
  /\ o \in todo
  /\ todo' = todo \ {o}
  /\ operation' = [operation EXCEPT ![o].cancelled = TRUE, ![o].released = TRUE]
  /\ SetFunction(o, ReleaseRuntimeReference(operation[o], function[o], "abort"))
  /\ joining' = o
  /\ UNCHANGED <<promise, turn>>

CleanupTimer(o) ==
  /\ turn = "cleanup" /\ joining = None /\ todo = {}
  /\ o \in Registered(Timers)
  /\ CloseCallbackOperation(o)
  /\ UNCHANGED todo

Reaped_WaitsOnly == todo = {}
Reaped == todo = {} /\ Registered(Timers) = {}

CleanupEnds ==
  /\ turn = "cleanup" /\ joining = None
  /\ Reaped
  /\ turn' = "gone"
  /\ UNCHANGED <<operation, function, promise, joining, todo>>

LoopStep ==
  \/ \E o \in Operations : Joined(o)
  \/ \E o \in Timers : CallTimerCallback(o) \/ FinalizeTimerFunction(o) \/ CleanupTimer(o)
  \/ \E o \in Waits : CompletePromiseOperation(o) \/ FinalizePromiseOperation(o) \/ CleanupWait(o)
  \/ \E o \in Copies : CompleteAsync(o)
  \/ CallbackEnds \/ CleanupEnds

Gone == turn = "gone" /\ UNCHANGED node

NodeNext ==
  \/ \E o \in Timers : RunAfter(o) \/ RunAfterThrows(o) \/ CancelTimer(o) \/ CloseTimer(o)
  \/ \E o \in Waits : Wait(o) \/ WaitThrows(o)
  \/ \E o \in Copies : CopyFrame(o)
  \/ \E o \in Operations : NodeWorkerStep(o)
  \/ LoopStep \/ CleanupAddon
  \/ Gone

NodeSpec == NodeInit /\ [][NodeNext]_node

-----------------------------------------------------------------------------
(***************************************************************************)
(* Properties.                                                             *)
(***************************************************************************)
Working(o) == operation[o].worker \notin {"none", "returned"}

\* Type invariant.
NodeTypeOK ==
  /\ operation \in [Operations ->
       [life : {"none", "live", "deleted"}, cancelled : BOOLEAN, failed : BOOLEAN,
        registered : BOOLEAN, released : BOOLEAN, held : BOOLEAN,
        worker : {"none", "wait", "check", "call", "release", "execute", "returned"}]]
  /\ function \in [Timers \cup Waits ->
       [refs : 0..2, queued : BOOLEAN, closing : BOOLEAN, freed : BOOLEAN]]
  /\ promise \in [Waits \cup Copies -> {"none", "pending", "settled"}]
  /\ turn \in {"loop", "callback", "cleanup", "gone"}
  /\ joining \in Operations \cup {None} /\ todo \subseteq Waits

\* Nothing is deleted under a worker that uses it, neither the operation nor the
\* function it calls and gives back, and what a registry or a handle names is there.
WorkersOutlived ==
  /\ \A o \in Operations :
       /\ Working(o) \/ operation[o].registered \/ operation[o].held => operation[o].life = "live"
       /\ o \in Timers \cup Waits /\ Working(o) => ~function[o].freed
  /\ turn = "gone" => \A o \in Timers \cup Waits : ~Working(o)

\* The JavaScript thread waits for a worker.
Blocked == joining # None

\* A promise the application got is not settled yet, and the environment stays.
Unsettled(o) == o \in Waits \cup Copies /\ promise[o] = "pending" /\ ~shutting_down

\* close() "cancels pending delivery" (LanguageBindings.md:74): the callback of a
\* timer is not called after its close().
ClosedIsQuiet ==
  [][\A o \in Timers : turn' = "callback" /\ function[o].queued /\ ~function'[o].queued
                         => operation[o].life = "live"]_node
=============================================================================
