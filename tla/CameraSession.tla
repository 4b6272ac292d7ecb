--------------------------- MODULE CameraSession ---------------------------
(***************************************************************************)
(* CameraSession (core/tmr/camera/Camera.cpp): an owner thread and, while  *)
(* a callback stream runs, a worker that reads frames and calls the user.  *)
(* The callback may itself stop, close, restart or destroy the session.    *)
(*                                                                         *)
(* Stream s is the s-th callback stream: its CallbackState, its worker and *)
(* the callback running on it.  Actor 0 is the owner thread, actor s the   *)
(* worker of stream s.  One action is what an actor does between two       *)
(* points where another one can see or disturb it; a native call is a      *)
(* state of its own, which ends with the call's outcome.                   *)
(*                                                                         *)
(* The application serializes its calls, with the documented exception     *)
(* that the callback may call stop() at any time (TmrCamera.md:253).       *)
(*                                                                         *)
(* A definition X_Y is X with a fault; the checks of the properties use it *)
(* in place of X to see that the property notices.                         *)
(***************************************************************************)
EXTENDS Naturals, CameraBackend

CONSTANTS
  MaxStreams,  \* bound on start(callback) calls that reach the launch
  MaxOpens     \* bound on successful open() calls

ASSUME BoundsAssumption == MaxStreams \in Nat /\ MaxOpens \in Nat

VARIABLES
  alive,    \* the session object exists
  backend,  \* Impl::backend, 0 when null
  native,   \* the state of each ICameraBackend object
  current,  \* Impl::callback_state, 0 when null
  thread,   \* the stream whose worker Impl::callback_thread holds, 0 if not joinable
  stream,   \* the CallbackState of each stream
  worker,   \* where the worker of each stream is, and the result it read
  frame     \* the public call each actor is in

vars == <<alive, backend, native, current, thread, stream, worker, frame>>

-----------------------------------------------------------------------------
Owner    == 0
Streams  == 1..MaxStreams
Actors   == {Owner} \cup Streams
Backends == 1..MaxOpens

Calls == {"open", "start", "stream", "read", "stop", "close", "destroy"}
Stops == {"stop", "close", "destroy"}

NoStream == [stop |-> FALSE, active |-> FALSE, published |-> FALSE, locked |-> FALSE,
             backend |-> 0]
NoCall(out) == [op |-> "none", pc |-> "none", state |-> 0, out |-> out]

Init ==
  /\ alive = TRUE
  /\ backend = 0
  /\ native = [b \in Backends |-> "none"]
  /\ current = 0
  /\ thread = 0
  /\ stream = [s \in Streams |-> NoStream]
  /\ worker = [s \in Streams |-> [pc |-> "none", result |-> "none"]]
  /\ frame = [a \in Actors |-> NoCall("none")]

NativeState(b) == IF b = 0 THEN "none" ELSE native[b]
NativeIs(b, states) == NativeState(b) \in states
IsOpen      == NativeIs(backend, {"open", "streaming"})
IsStreaming == NativeIs(backend, {"streaming"})
Delivering  == current # 0 /\ stream[current].active

\* Impl::isCallbackThread(): the thread-local identity of a worker is its stream.
IsCallbackThread(a) == current # 0 /\ a = current

\* The actor a goes on to pc, or returns from its call.
GoTo(a, pc)    == frame' = [frame EXCEPT ![a].pc = pc]
Return(a, out) == frame' = [frame EXCEPT ![a] = NoCall(out)]

At(a, ops, pc) == frame[a].op \in ops /\ frame[a].pc = pc
Outside(a)     == frame[a].op = "none"

\* isOpen() and isStreaming() wait for the backend mutex of the stream.
BackendUnlocked == current # 0 => ~stream[current].locked

SetNative(b, state)   == native' = [native EXCEPT ![b] = state]
NativeCall(b, op, out) == \E state \in After(op, NativeState(b), out) : SetNative(b, state)

-----------------------------------------------------------------------------
(***************************************************************************)
(* Calls.                                                                  *)
(***************************************************************************)
InUserCode(s) == worker[s].pc \in {"callback", "drop"}

\* A call of the application.  The worker is in user code while it runs the
\* callback and while it destroys the callable and its captures.
Begin(a, op) ==
  /\ alive
  /\ Outside(a)
  /\ IF a = Owner THEN \A s \in Streams : frame[s].op \in {"none", "stop"}
     ELSE InUserCode(a) /\ (op = "stop" \/ Outside(Owner))
  /\ op = "open" => a = Owner /\ \E b \in Backends : native[b] = "none"
  /\ op = "read" => a = Owner
  /\ op = "stream" => \E s \in Streams : worker[s].pc = "none"
  /\ frame' = [frame EXCEPT ![a] = [op |-> op, pc |-> "begin", state |-> 0, out |-> "none"]]
  /\ UNCHANGED <<alive, backend, native, current, thread, stream, worker>>

\* open(): the backend is opened before the session owns it.
Open(a) ==
  /\ At(a, {"open"}, "begin")
  /\ BackendUnlocked
  /\ \/ Return(a, "failed") /\ UNCHANGED <<backend, native>>
     \/ /\ ~IsOpen
        /\ \E b \in Backends :
             /\ native[b] = "none"
             /\ \A c \in Backends : c < b => native[c] # "none"
             /\ backend' = b
             /\ SetNative(b, "open")
        /\ Return(a, "ok")
  /\ UNCHANGED <<alive, current, thread, stream, worker>>

\* readFrame(): refused while a callback stream delivers.
ReadBegin(a) ==
  /\ At(a, {"read"}, "begin")
  /\ BackendUnlocked
  /\ IF IsOpen /\ ~Delivering THEN GoTo(a, "native") ELSE Return(a, "failed")
  /\ UNCHANGED <<alive, backend, native, current, thread, stream, worker>>

ReadEnd(a) ==
  /\ At(a, {"read"}, "native")
  /\ \E out \in {"ok", "failed", "threw"} : NativeCall(backend, "read", out) /\ Return(a, out)
  /\ UNCHANGED <<alive, backend, current, thread, stream, worker>>

-----------------------------------------------------------------------------
(***************************************************************************)
(* start() and start(callback).                                            *)
(***************************************************************************)
Starts == {"start", "stream"}

\* prepareStart(): a delivering stream refuses a second one.
PrepareStart(a) ==
  /\ At(a, Starts, "begin")
  /\ IF ~Delivering THEN GoTo(a, "reap") ELSE Return(a, "failed")
  /\ UNCHANGED <<alive, backend, native, current, thread, stream, worker>>

MayStart == IsOpen /\ ~IsStreaming

PrepareBackend(a) ==
  /\ At(a, Starts, "prepared")
  /\ IF MayStart THEN GoTo(a, "native") ELSE Return(a, "failed")
  /\ UNCHANGED <<alive, backend, native, current, thread, stream, worker>>

\* startBackend(): a native start that throws is closed.
StartFails(a) ==
  /\ At(a, Starts, "native")
  /\ \/ Return(a, "failed") /\ NativeCall(backend, "start", "failed")
     \/ Return(a, "threw") /\ SetNative(backend, "closed")
  /\ UNCHANGED <<alive, backend, current, thread, stream, worker>>

StartSucceeds(a) ==
  /\ At(a, {"start"}, "native")
  /\ NativeCall(backend, "start", "ok")
  /\ Return(a, "ok")
  /\ UNCHANGED <<alive, backend, current, thread, stream, worker>>

\* The backend streams: the new CallbackState becomes the session's.
StreamSucceeds(a) ==
  /\ At(a, {"stream"}, "native")
  /\ NativeCall(backend, "start", "ok")
  /\ \E s \in Streams :
       /\ worker[s].pc = "none"
       /\ \A r \in Streams : r < s => worker[r].pc # "none"
       /\ current' = s
       /\ stream' = [stream EXCEPT ![s] = [NoStream EXCEPT !.active = TRUE, !.backend = backend]]
  /\ GoTo(a, "launch")
  /\ UNCHANGED <<alive, backend, thread, worker>>

\* The thread runs from here on, but the session does not hold its handle yet.
Launch(a) ==
  /\ At(a, {"stream"}, "launch")
  /\ worker' = [worker EXCEPT ![current].pc = "wait"]
  /\ GoTo(a, "publish")
  /\ UNCHANGED <<alive, backend, native, current, thread, stream>>

\* No thread, or no memory for its callable: the backend is stopped again, and
\* closed if that fails.
Rollback_Keeps(a) == UNCHANGED native
Rollback(a) == NativeCall(backend, "stop", "ok") \/ SetNative(backend, "closed")
LaunchFails(a) ==
  /\ At(a, {"stream"}, "launch")
  /\ Rollback(a)
  /\ worker' = [worker EXCEPT ![current].pc = "exited"]
  /\ current' = 0
  /\ Return(a, "threw")
  /\ UNCHANGED <<alive, backend, thread, stream>>

Publish(a) ==
  /\ At(a, {"stream"}, "publish")
  /\ thread' = current
  /\ stream' = [stream EXCEPT ![current].published = TRUE]
  /\ Return(a, "ok")
  /\ UNCHANGED <<alive, backend, native, current, worker>>

-----------------------------------------------------------------------------
(***************************************************************************)
(* stop(), and close() and the destructor, which begin with it.            *)
(***************************************************************************)
StopFlag(a) ==
  /\ At(a, Stops, "begin")
  /\ stream' = IF current = 0 THEN stream ELSE [stream EXCEPT ![current].stop = TRUE]
  /\ frame' = [frame EXCEPT ![a] = [@ EXCEPT !.pc = "lock", !.state = current]]
  /\ UNCHANGED <<alive, backend, native, current, thread, worker>>

\* Taking and leaving the backend mutex of the stream, if there is one.
SetLocked(s, b) == stream' = IF s = 0 THEN stream ELSE [stream EXCEPT ![s].locked = b]

MayLock_Always(s) == TRUE
MayLock(s) == s # 0 => ~stream[s].locked

StopLock(a) ==
  /\ At(a, Stops, "lock")
  /\ MayLock(frame[a].state)
  /\ IF IsStreaming THEN SetLocked(frame[a].state, TRUE) /\ GoTo(a, "native")
     ELSE frame' = [frame EXCEPT ![a] = [@ EXCEPT !.pc = "reap", !.out = "ok"]] /\ UNCHANGED stream
  /\ UNCHANGED <<alive, backend, native, current, thread, worker>>

\* A native stop that throws is closed.
StopNative(a) ==
  /\ At(a, Stops, "native")
  /\ \E out \in {"ok", "failed", "threw"} :
       /\ IF out = "threw" THEN SetNative(backend, "closed") ELSE NativeCall(backend, "stop", out)
       /\ frame' = [frame EXCEPT ![a] = [@ EXCEPT !.pc = "reap", !.out = out]]
  /\ SetLocked(frame[a].state, FALSE)
  /\ UNCHANGED <<alive, backend, current, thread, worker>>

\* What follows reapCallbackThread(), which says whether it reaped.
AfterReap(a, reaped) ==
  CASE frame[a].op = "stop"    -> Return(a, frame[a].out)
    [] frame[a].op \in Starts  -> IF reaped THEN GoTo(a, "prepared") ELSE Return(a, "failed")
    [] OTHER                   -> GoTo(a, "release")

\* reapCallbackThread(): the worker itself leaves its thread to the owner.
LeaveToOwner_Retries(a) == UNCHANGED frame
LeaveToOwner(a) == AfterReap(a, FALSE)

ReapDeferred(a) ==
  /\ frame[a].pc = "reap"
  /\ IsCallbackThread(a)
  /\ LeaveToOwner(a)
  /\ UNCHANGED <<alive, backend, native, current, thread, stream, worker>>

\* join() returns once the thread of stream s, if there is one, has exited.
Joined_AtOnce(s) == TRUE
Joined(s) == s # 0 => worker[s].pc = "exited"

Reap(a) ==
  /\ frame[a].pc = "reap"
  /\ ~IsCallbackThread(a)
  /\ Joined(thread)
  /\ thread' = 0
  /\ current' = 0
  /\ AfterReap(a, TRUE)
  /\ UNCHANGED <<alive, backend, native, stream, worker>>

\* close() ends with the backend; the destructor goes on to ~Impl().
ReleaseBackend_Forgets(b) == UNCHANGED native
ReleaseBackend(b) == IF b = 0 THEN UNCHANGED native ELSE SetNative(b, "closed")

Release(a) ==
  /\ At(a, {"close", "destroy"}, "release")
  /\ ReleaseBackend(backend)
  /\ backend' = 0
  /\ IF frame[a].op = "close" THEN Return(a, "ok") ELSE GoTo(a, "destroy")
  /\ UNCHANGED <<alive, current, thread, stream, worker>>

\* ~Impl(): the callback detaches its own worker, any other actor joins it.
Destroy(a) ==
  /\ At(a, {"destroy"}, "destroy")
  /\ ~IsCallbackThread(a) => Joined(thread)
  /\ thread' = 0
  /\ current' = 0
  /\ alive' = FALSE
  /\ Return(a, "ok")
  /\ UNCHANGED <<backend, native, stream, worker>>

CallStep(a) ==
  \/ ReadEnd(a) \/ PrepareStart(a) \/ PrepareBackend(a)
  \/ StartFails(a) \/ StartSucceeds(a) \/ StreamSucceeds(a)
  \/ Launch(a) \/ LaunchFails(a) \/ Publish(a)
  \/ StopFlag(a) \/ StopLock(a) \/ StopNative(a)
  \/ ReapDeferred(a) \/ Reap(a) \/ Release(a) \/ Destroy(a)

-----------------------------------------------------------------------------
(***************************************************************************)
(* The worker of a callback stream.                                        *)
(***************************************************************************)
WorkerGoTo(s, pc) ==
  /\ worker' = [worker EXCEPT ![s].pc = pc]
  /\ UNCHANGED <<alive, backend, native, current, thread, frame>>

\* The worker does nothing before the session holds its handle.
Released_AtOnce(s) == TRUE
Released(s) == stream[s].published

WorkerStart(s) ==
  /\ worker[s].pc = "wait"
  /\ Released(s)
  /\ WorkerGoTo(s, "loop")
  /\ UNCHANGED stream

\* The loop condition, and the same check again inside the backend mutex.
Stopping(s) == stream[s].stop

WorkerLoop(s) ==
  /\ worker[s].pc = "loop"
  /\ WorkerGoTo(s, IF Stopping(s) THEN "ended" ELSE "lock")
  /\ UNCHANGED stream

WorkerLock(s) ==
  /\ worker[s].pc = "lock"
  /\ ~stream[s].locked
  /\ IF Stopping(s) THEN WorkerGoTo(s, "ended") /\ UNCHANGED stream
     ELSE WorkerGoTo(s, "reading") /\ SetLocked(s, TRUE)

\* The native read returns.  An exception is an error result of its own.
WorkerRead(s) ==
  /\ worker[s].pc = "reading"
  /\ \E r \in {"frame", "timeout", "error"} :
       /\ worker' = [worker EXCEPT ![s] = [pc |-> "check", result |-> r]]
       /\ NativeCall(stream[s].backend, "read", IF r = "error" THEN "failed" ELSE "ok")
  /\ SetLocked(s, FALSE)
  /\ UNCHANGED <<alive, backend, current, thread, frame>>

\* deliver() and the checks before it: nothing is delivered once the stop flag
\* is seen, and a timeout never is.
WorkerDeliver(s) ==
  /\ worker[s].pc = "check"
  /\ WorkerGoTo(s, IF Stopping(s) THEN "ended"
                   ELSE IF worker[s].result = "timeout" THEN "loop" ELSE "callback")
  /\ UNCHANGED stream

\* The callback returns or throws.  An error result was the last one.
KeepsDelivering(s) == worker[s].result = "frame"

CallbackReturns(s) ==
  /\ worker[s].pc = "callback"
  /\ Outside(s)
  /\ WorkerGoTo(s, "ended") \/ (KeepsDelivering(s) /\ WorkerGoTo(s, "loop"))
  /\ UNCHANGED stream

WorkerEnds(s) ==
  /\ worker[s].pc = "ended"
  /\ stream' = [stream EXCEPT ![s].active = FALSE]
  /\ WorkerGoTo(s, "drop")

\* The callable and its captures are gone, and so is the thread.
WorkerExit(s) ==
  /\ worker[s].pc = "drop"
  /\ Outside(s)
  /\ WorkerGoTo(s, "exited")
  /\ UNCHANGED stream

WorkerStep(s) ==
  \/ WorkerStart(s) \/ WorkerLoop(s) \/ WorkerLock(s) \/ WorkerRead(s)
  \/ WorkerDeliver(s) \/ CallbackReturns(s) \/ WorkerEnds(s) \/ WorkerExit(s)

-----------------------------------------------------------------------------
\* The session is gone and so is every worker.
Finished ==
  /\ ~alive
  /\ \A s \in Streams : worker[s].pc \in {"none", "exited"}
  /\ UNCHANGED vars

Next ==
  \/ \E a \in Actors : \/ \E op \in Calls : Begin(a, op)
                       \/ Open(a) \/ ReadBegin(a) \/ CallStep(a)
  \/ \E s \in Streams : WorkerStep(s)
  \/ Finished

Spec == Init /\ [][Next]_vars

(***************************************************************************)
(* A thread that can run does, native calls return and so do callbacks.    *)
(* std::mutex orders no waiters: Open and ReadBegin, which compete with    *)
(* the reads of the worker for the backend mutex, have no fairness.  User  *)
(* code makes finitely many calls, so it ends although each call disables  *)
(* its end: CallbackReturns and WorkerExit are strongly fair, those of all *)
(* streams together, which is less than each of them and enough.           *)
(***************************************************************************)
FairSpec ==
  /\ Spec
  /\ WF_vars(CallStep(Owner))
  /\ \A s \in Streams : WF_vars(WorkerStep(s) \/ CallStep(s))
  /\ SF_vars(\E s \in Streams : CallbackReturns(s) \/ WorkerExit(s))

-----------------------------------------------------------------------------
(***************************************************************************)
(* Properties.                                                             *)
(***************************************************************************)
StreamType == [stop : BOOLEAN, active : BOOLEAN, published : BOOLEAN, locked : BOOLEAN,
               backend : {0} \cup Backends]
WorkerType == [pc : {"none", "wait", "loop", "lock", "reading", "check", "callback",
                     "ended", "drop", "exited"},
               result : {"none", "frame", "timeout", "error"}]
FrameType  == [op : Calls \cup {"none"},
               pc : {"none", "begin", "native", "reap", "prepared", "launch", "publish",
                     "lock", "release", "destroy"},
               state : Actors, out : {"none", "ok", "failed", "threw"}]

\* The types.
TypeOK ==
  /\ alive \in BOOLEAN
  /\ backend \in {0} \cup Backends
  /\ native \in [Backends -> {"none", "open", "streaming", "closed"}]
  /\ current \in Actors
  /\ thread \in Actors
  /\ stream \in [Streams -> StreamType]
  /\ \A s \in Streams : stream[s].active => stream[s].backend \in Backends
  /\ worker \in [Streams -> WorkerType]
  /\ frame \in [Actors -> FrameType]

Running(s) == worker[s].pc \notin {"none", "wait", "exited"}
Reading(s) == worker[s].pc = "reading"

\* The session serializes the reads of its worker with every native start and
\* stop of the same backend, whoever requests them, and two actors never stop
\* it at once (TmrCamera.md:271: "Session serializes callback read/stop").  A
\* read of the owner never meets one of the worker.
NativeSerialized ==
  /\ \A s \in Streams, a \in Actors :
       Reading(s) /\ frame[a].pc = "native" => stream[s].backend # backend
  /\ \A a, b \in Actors :
       At(a, Stops \cup Starts, "native") /\ At(b, Stops \cup Starts, "native") => a = b

\* A worker that runs is the one whose handle the session holds, so a session
\* has one worker at a time and none is leaked or joined twice.  Only a session
\* destroyed by its own callback leaves a worker behind.
OneWorker ==
  /\ \A s \in Streams : Running(s) /\ alive => thread = s /\ current = s
  /\ \A r, s \in Streams : Running(r) /\ Running(s) => r = s
  /\ \A a \in Actors : At(a, {"stream"}, "publish") => thread = 0

\* Lifetimes: the worker of a destroyed session never calls it, and no other
\* thread is still inside it (TmrCamera.md:182: "remains memory-safe"); a native
\* object is closed before the session lets go of it, and a session that was
\* closed or destroyed keeps none open.
NoUseAfterDestroy ==
  ~alive =>
    /\ \A a \in Actors : Outside(a)
    /\ \A s \in Streams : Running(s) => stream[s].stop
Lifetimes ==
  /\ TypeOK
  /\ NoUseAfterDestroy
  /\ \A b \in Backends : native[b] \in {"open", "streaming"} => backend = b

\* When the owner's stop(), close() or destructor returns, in whatever way, the
\* worker has exited: no callback runs or starts after it.
QuietAfterStop ==
  [][frame[Owner].op \in Stops /\ frame'[Owner].op = "none"
       => /\ \A s \in Streams : worker'[s].pc \in {"none", "exited"}
          /\ thread' = 0 /\ current' = 0]_vars

\* A start that throws leaves nothing behind: the backend does not stream, and
\* the session has neither a CallbackState nor a worker (TmrCamera.md:224).
ThrowRollsBack ==
  [][\A a \in Actors :
       frame[a].op \in Starts /\ frame'[a].op = "none" /\ frame'[a].out = "threw"
         => ~IsStreaming' /\ current' = 0 /\ thread' = 0]_vars

\* stop(), close() and destruction by the owner return although the callback
\* may be stopping the session at the same time and reads hold the mutex.  A
\* callback that stops its own session returns from it: it never waits for the
\* thread it runs on.
StopReturns ==
  /\ []<>(frame[Owner].op \notin Stops)
  /\ \A s \in Streams : []<>Outside(s)
=============================================================================
