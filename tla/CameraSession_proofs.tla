------------------------ MODULE CameraSession_proofs ------------------------
(***************************************************************************)
(* The safety of a camera session, for any number of streams and backends. *)
(* One worker at a time follows from who may start one: a worker never     *)
(* gets past the reap of its own start, so the owner does, when it joined  *)
(* whatever ran before.  That a native stop meets no read and no other     *)
(* stop follows from the backend mutex of the stream that is current.      *)
(***************************************************************************)
EXTENDS CameraSession, TLAPS

\* A worker was launched and has not left.
Active(s) == worker[s].pc \notin {"none", "exited"}

\* Where a call can be.
Positions ==
  \A a \in Actors :
    /\ frame[a].op = "none" => frame[a].pc = "none"
    /\ frame[a].op = "open" => frame[a].pc = "begin"
    /\ frame[a].op = "read" => frame[a].pc \in {"begin", "native"}
    /\ frame[a].op = "start" => frame[a].pc \in {"begin", "reap", "prepared", "native"}
    /\ frame[a].op = "stream" => frame[a].pc \in {"begin", "reap", "prepared", "native", "launch", "publish"}
    /\ frame[a].op \in Stops => frame[a].pc \in {"begin", "lock", "native", "reap", "release", "destroy"}

\* The calls of a worker: from user code, alone unless it stops, and never past
\* the reap of a start.
CallsOfWorkers ==
  \A s \in Streams :
    /\ ~Outside(s) => InUserCode(s) /\ alive
    /\ frame[s].op \notin {"none", "stop"} => Outside(Owner)
    /\ frame[s].op \notin {"open", "read"}
    /\ frame[s].op \in Starts => frame[s].pc \in {"begin", "reap"}
    /\ frame[s].op \in Stops /\ frame[s].pc # "begin" => stream[s].stop
    /\ frame[s].op \in Stops /\ frame[s].pc \in {"lock", "native"} => frame[s].state = s

\* The workers: one at a time, of the current stream, which delivers until it ends.
WorkersOrdered ==
  /\ \A s \in Streams : Active(s) /\ alive =>
       current = s /\ (thread = s \/ (At(Owner, {"stream"}, "publish") /\ worker[s].pc = "wait"))
  /\ \A r, s \in Streams : Active(r) /\ Active(s) => r = s
  /\ \A s \in Streams : Active(s) /\ worker[s].pc # "drop" => stream[s].active
  /\ ~alive => Outside(Owner) /\ \A s \in Streams : Active(s) => Running(s) /\ stream[s].stop

\* The calls of the owner.
CallsOfOwner ==
  /\ frame[Owner].op \in Starts /\ frame[Owner].pc \in {"prepared", "native", "launch", "publish"} => thread = 0
  /\ frame[Owner].op \in Starts /\ frame[Owner].pc \in {"prepared", "native", "launch"} => \A s \in Streams : ~Active(s)
  /\ frame[Owner].op \in Starts /\ frame[Owner].pc \in {"prepared", "native"} => current = 0
  /\ frame[Owner].op \in Starts /\ frame[Owner].pc = "native" => backend \in Backends
  /\ frame[Owner].pc = "launch" => current \in Streams /\ worker[current].pc = "none"
  /\ frame[Owner].pc = "publish" => current \in Streams /\ worker[current].pc = "wait"
  /\ frame[Owner].pc \in {"launch", "publish"} => stream[current].active /\ ~stream[current].published
  /\ frame[Owner].op = "read" /\ frame[Owner].pc = "native" => \A s \in Streams : Active(s) => worker[s].pc = "drop"
  /\ frame[Owner].op \in Stops /\ frame[Owner].pc \in {"lock", "native"} => frame[Owner].state = current
  /\ frame[Owner].pc \in {"release", "destroy"} => thread = 0 /\ current = 0

\* The backend mutex of a stream has one holder.
InStop(a) == frame[a].op \in Stops /\ frame[a].pc = "native"
Locks ==
  /\ \A s \in Streams : Reading(s) => stream[s].locked
  /\ \A a \in Actors, s \in Streams : InStop(a) /\ frame[a].state = s => stream[s].locked /\ ~Reading(s)
  /\ \A a, b \in Actors : InStop(a) /\ InStop(b) /\ frame[a].state = frame[b].state => a = b

BackendOwned == \A b \in Backends : native[b] \in {"open", "streaming"} => backend = b

IInv == TypeOK /\ Positions /\ CallsOfWorkers /\ WorkersOrdered /\ CallsOfOwner /\ Locks /\ BackendOwned

-----------------------------------------------------------------------------
LEMMA InitHolds == Init => IInv
<1> SUFFICES ASSUME Init PROVE IInv
  OBVIOUS
<1>1. TypeOK
  BY BoundsAssumption DEF Init, TypeOK, NoStream, NoCall, StreamType, WorkerType, FrameType, Actors, Streams, Backends, Owner, Calls
<1>2. \A a \in Actors : frame[a].op = "none" /\ frame[a].pc = "none"
  BY DEF Init, NoCall
<1>3. \A s \in Streams : ~Active(s) /\ ~Reading(s)
  BY DEF Init, Active, Reading
<1>4. Owner \in Actors /\ Streams \subseteq Actors
  BY DEF Actors
<1>5. Positions /\ CallsOfWorkers /\ WorkersOrdered /\ CallsOfOwner
  BY <1>2, <1>3, <1>4 DEF Init, Positions, CallsOfWorkers, WorkersOrdered, CallsOfOwner, Outside, Starts, Stops
<1>6. Locks /\ BackendOwned
  BY <1>2, <1>3, <1>4 DEF Init, Locks, InStop, BackendOwned, Stops
<1> QED BY <1>1, <1>5, <1>6 DEF IInv

\* The actors are the owner and the workers.
LEMMA ActorsAre ==
  /\ Owner = 0 /\ Owner \in Actors /\ Owner \notin Streams
  /\ Streams \subseteq Actors /\ \A a \in Actors : a = Owner \/ a \in Streams
  /\ \A s \in Streams : s # 0
  BY BoundsAssumption DEF Owner, Actors, Streams

\* A frame of one actor changes.
LEMMA FrameMoves ==
  ASSUME TypeOK, NEW a \in Actors, NEW f \in FrameType, frame' = [frame EXCEPT ![a] = f]
  PROVE  /\ frame' \in [Actors -> FrameType]
         /\ frame'[a] = f
         /\ \A b \in Actors : b # a => frame'[b] = frame[b]
  BY DEF TypeOK

LEMMA FrameParts ==
  ASSUME NEW f \in FrameType, NEW pc \in {"none", "begin", "native", "reap", "prepared", "launch", "publish",
                     "lock", "release", "destroy"}
  PROVE  /\ [f EXCEPT !.pc = pc] \in FrameType
         /\ [f EXCEPT !.pc = pc].op = f.op /\ [f EXCEPT !.pc = pc].pc = pc
         /\ [f EXCEPT !.pc = pc].state = f.state
  BY DEF FrameType

LEMMA BeginKeeps ==
  ASSUME IInv, NEW a \in Actors, NEW op \in Calls, Begin(a, op)
  PROVE  IInv'
<1> DEFINE f == [op |-> op, pc |-> "begin", state |-> 0, out |-> "none"]
<1>1. f \in FrameType /\ f.op = op /\ f.pc = "begin"
  BY ActorsAre DEF FrameType, Calls, Actors
<1> HIDE DEF f
<1>2. frame' = [frame EXCEPT ![a] = f] /\ UNCHANGED <<alive, backend, native, current, thread, stream, worker>>
  BY DEF Begin, f
<1>3. /\ frame' \in [Actors -> FrameType] /\ frame'[a] = f
      /\ \A b \in Actors : b # a => frame'[b] = frame[b]
  BY <1>1, <1>2, FrameMoves DEF IInv
<1>4. TypeOK'
  BY <1>2, <1>3 DEF IInv, TypeOK
<1>5. Positions'
  BY <1>1, <1>3 DEF IInv, Positions, Calls, Stops
<1>6. CallsOfWorkers'
  BY <1>1, <1>2, <1>3, ActorsAre DEF IInv, CallsOfWorkers, Begin, Outside, InUserCode, Stops, Starts
<1>7. WorkersOrdered'
  BY <1>1, <1>2, <1>3, ActorsAre DEF IInv, WorkersOrdered, Begin, Outside, Active, Running, At
<1>8. CallsOfOwner'
  BY <1>1, <1>2, <1>3, ActorsAre DEF IInv, CallsOfOwner, Active
<1>9. Locks' /\ BackendOwned'
  BY <1>1, <1>2, <1>3, ActorsAre DEF IInv, Locks, BackendOwned, InStop, Reading
<1> QED BY <1>4, <1>5, <1>6, <1>7, <1>8, <1>9 DEF IInv

\* Where a call may go when it changes nothing but its own position.
MayGo(a, f) ==
  /\ \/ f.op \in Starts /\ f.pc \in {"reap", "prepared", "native"}
     \/ f.op = "read" /\ f.pc = "native"
     \/ f.op \in Stops /\ f.pc \in {"reap", "release"}
  /\ frame[a].pc = "begin" => f.op \notin Stops
  /\ a \in Streams => f.pc \in {"reap", "release"}
  /\ f.op \in Starts /\ f.pc \in {"prepared", "native"} =>
       frame[a].op \in Starts /\ frame[a].pc = "prepared" /\ backend \in Backends
  /\ f.op = "read" => \A s \in Streams : Active(s) => worker[s].pc = "drop"
  /\ a = Owner => f.pc # "release"

\* A call goes on, or returns, and nothing else changes: what is left to show is that
\* it may be where it goes.
LEMMA FrameKeeps ==
  ASSUME IInv, NEW a \in Actors, NEW f \in FrameType, frame[a].op # "none", frame[a].pc \notin {"launch", "publish"},
         frame' = [frame EXCEPT ![a] = f], UNCHANGED <<alive, backend, current, thread, stream, worker>>,
         native' \in [Backends -> {"none", "open", "streaming", "closed"}], BackendOwned',
         (f.op = "none" /\ f.pc = "none") \/ f.op = frame[a].op,
         f.op # "none" => MayGo(a, f)
  PROVE  IInv'
<1>1. /\ frame' \in [Actors -> FrameType] /\ frame'[a] = f
      /\ \A b \in Actors : b # a => frame'[b] = frame[b]
  BY FrameMoves DEF IInv
<1>2. TypeOK'
  BY <1>1 DEF IInv, TypeOK
<1>3. Positions'
  BY <1>1 DEF IInv, Positions, Stops, Starts, MayGo
<1>4. CallsOfWorkers'
  BY <1>1, ActorsAre DEF IInv, CallsOfWorkers, Positions, Outside, InUserCode, Stops, Starts, MayGo
<1>5. WorkersOrdered'
  BY <1>1, ActorsAre DEF IInv, WorkersOrdered, CallsOfWorkers, CallsOfOwner, Positions, Outside, Active, Running, At, Starts, Stops, MayGo
<1>6. CallsOfOwner'
  BY <1>1, ActorsAre DEF IInv, CallsOfOwner, Active, Starts, Stops, MayGo
<1>7. Locks'
  BY <1>1, ActorsAre DEF IInv, Locks, InStop, Reading, Stops, Starts, MayGo
<1> QED BY <1>2, <1>3, <1>4, <1>5, <1>6, <1>7 DEF IInv

LEMMA NoCallType ==
  ASSUME NEW out \in {"none", "ok", "failed", "threw"}
  PROVE  NoCall(out) \in FrameType /\ NoCall(out).op = "none" /\ NoCall(out).pc = "none" /\ NoCall(out).out = out
  BY ActorsAre DEF NoCall, FrameType

\* A native call leaves a state, and no other object opens than the one it is made on.
LEMMA NativeChanges ==
  ASSUME TypeOK, BackendOwned, UNCHANGED backend, NEW b \in {0} \cup Backends, NEW x,
         native' = [native EXCEPT ![b] = x],
         \/ b = backend /\ x \in {"open", "streaming", "closed"}
         \/ x \in {NativeState(b), "closed"}
         \/ x = "open" /\ NativeState(b) = "streaming"
  PROVE  native' \in [Backends -> {"none", "open", "streaming", "closed"}] /\ BackendOwned'
<1>1. 0 \notin Backends
  BY BoundsAssumption DEF Backends
<1>2. b = 0 => native' = native
  BY <1>1 DEF TypeOK
<1>3. b # 0 => native'[b] = x /\ NativeState(b) = native[b] /\ \A c \in Backends : c # b => native'[c] = native[c]
  BY DEF TypeOK, NativeState
<1>4. b # 0 => x \in {"none", "open", "streaming", "closed"}
  BY <1>3 DEF TypeOK
<1>5. native' \in [Backends -> {"none", "open", "streaming", "closed"}]
  BY <1>2, <1>4 DEF TypeOK
<1>6. BackendOwned'
  BY <1>2, <1>3 DEF BackendOwned
<1> QED BY <1>5, <1>6

LEMMA NativeCalls ==
  ASSUME TypeOK, BackendOwned, UNCHANGED backend, NEW b \in {0} \cup Backends,
         NEW op \in {"start", "stop", "read"}, NEW out \in {"ok", "failed", "threw"},
         NativeCall(b, op, out) \/ SetNative(b, "closed"), op = "start" => b = backend
  PROVE  native' \in [Backends -> {"none", "open", "streaming", "closed"}] /\ BackendOwned'
<1>1. CASE SetNative(b, "closed")
  BY <1>1, NativeChanges DEF SetNative
<1>2. CASE NativeCall(b, op, out)
  <2>1. PICK x \in After(op, NativeState(b), out) : native' = [native EXCEPT ![b] = x]
    BY <1>2 DEF NativeCall, SetNative
  <2>2. \/ b = backend /\ x \in {"open", "streaming", "closed"}
        \/ x \in {NativeState(b), "closed"}
        \/ x = "open" /\ NativeState(b) = "streaming"
    BY <2>1 DEF After, Success
  <2> QED BY <2>1, <2>2, NativeChanges
<1> QED BY <1>1, <1>2

-----------------------------------------------------------------------------
\* Reads of the owner, and starts up to their success.
LEMMA ReadBeginKeeps ==
  ASSUME IInv, NEW a \in Actors, ReadBegin(a)
  PROVE  IInv'
<1>1. frame[a] \in FrameType /\ frame[a].op = "read" /\ frame[a].pc = "begin"
  BY DEF ReadBegin, At, IInv, TypeOK
<1>2. UNCHANGED <<alive, backend, native, current, thread, stream, worker>>
  BY DEF ReadBegin
<1>3. native' \in [Backends -> {"none", "open", "streaming", "closed"}] /\ BackendOwned'
  BY <1>2 DEF IInv, TypeOK, BackendOwned
<1>4. a = Owner
  BY <1>1, ActorsAre DEF IInv, CallsOfWorkers
<1>5. CASE Return(a, "failed")
  BY <1>1, <1>2, <1>3, <1>5, NoCallType, FrameKeeps DEF Return
<1>6. CASE ~Delivering /\ GoTo(a, "native")
  <2> DEFINE f == [frame[a] EXCEPT !.pc = "native"]
  <2>1. f \in FrameType /\ f.op = "read" /\ f.pc = "native"
    BY <1>1, FrameParts
  <2>2. frame' = [frame EXCEPT ![a] = f]
    BY <1>6 DEF GoTo
  <2>3. \A s \in Streams : Active(s) => worker[s].pc = "drop"
    BY <1>1, <1>4, <1>6, ActorsAre DEF IInv, WorkersOrdered, Delivering, Outside
  <2> HIDE DEF f
  <2>4. MayGo(a, f)
    BY <1>1, <1>4, <2>1, <2>3, ActorsAre DEF MayGo, Starts, Stops
  <2> QED BY <1>1, <1>2, <1>3, <2>1, <2>2, <2>4, FrameKeeps
<1> QED BY <1>5, <1>6 DEF ReadBegin

LEMMA ReturnKeeps ==
  ASSUME IInv, NEW a \in Actors, ReadEnd(a) \/ StartFails(a) \/ StartSucceeds(a)
  PROVE  IInv'
<1>1. frame[a].op # "none" /\ frame[a].pc = "native"
  BY DEF ReadEnd, StartFails, StartSucceeds, At, Starts
<1>2. UNCHANGED <<alive, backend, current, thread, stream, worker>>
  BY DEF ReadEnd, StartFails, StartSucceeds
<1>3. native' \in [Backends -> {"none", "open", "streaming", "closed"}] /\ BackendOwned'
  <2>1. backend \in {0} \cup Backends
    BY DEF IInv, TypeOK
  <2>2. PICK op \in {"start", "read"}, out \in {"ok", "failed", "threw"} :
          NativeCall(backend, op, out) \/ SetNative(backend, "closed")
    BY DEF ReadEnd, StartFails, StartSucceeds
  <2> QED BY <1>2, <2>1, <2>2, NativeCalls DEF IInv
<1>4. PICK out \in {"ok", "failed", "threw"} : frame' = [frame EXCEPT ![a] = NoCall(out)]
  BY DEF ReadEnd, StartFails, StartSucceeds, Return
<1> QED BY <1>1, <1>2, <1>3, <1>4, NoCallType, FrameKeeps

LEMMA PrepareKeeps ==
  ASSUME IInv, NEW a \in Actors, PrepareStart(a) \/ PrepareBackend(a)
  PROVE  IInv'
<1>1. frame[a] \in FrameType /\ frame[a].op \in Starts /\ frame[a].pc \in {"begin", "prepared"}
  BY DEF PrepareStart, PrepareBackend, At, IInv, TypeOK
<1>2. UNCHANGED <<alive, backend, native, current, thread, stream, worker>>
  BY DEF PrepareStart, PrepareBackend
<1>3. native' \in [Backends -> {"none", "open", "streaming", "closed"}] /\ BackendOwned'
  BY <1>2 DEF IInv, TypeOK, BackendOwned
<1>4. CASE Return(a, "failed")
  BY <1>1, <1>2, <1>3, <1>4, NoCallType, FrameKeeps DEF Return, Starts
<1>5. CASE PrepareStart(a) /\ GoTo(a, "reap")
  <2> DEFINE f == [frame[a] EXCEPT !.pc = "reap"]
  <2>1. f \in FrameType /\ f.op = frame[a].op /\ f.pc = "reap"
    BY <1>1, FrameParts
  <2>2. frame' = [frame EXCEPT ![a] = f]
    BY <1>5 DEF GoTo
  <2> HIDE DEF f
  <2>3. MayGo(a, f)
    BY <1>1, <2>1 DEF MayGo, Starts, Stops
  <2> QED BY <1>1, <1>2, <1>3, <2>1, <2>2, <2>3, FrameKeeps DEF Starts
<1>6. CASE PrepareBackend(a) /\ MayStart /\ GoTo(a, "native")
  <2> DEFINE f == [frame[a] EXCEPT !.pc = "native"]
  <2>1. f \in FrameType /\ f.op = frame[a].op /\ f.pc = "native"
    BY <1>1, FrameParts
  <2>2. frame' = [frame EXCEPT ![a] = f]
    BY <1>6 DEF GoTo
  <2>3. backend \in Backends
    BY <1>6 DEF MayStart, IsOpen, NativeIs, NativeState, IInv, TypeOK
  <2>4. frame[a].pc = "prepared" /\ a \notin Streams
    BY <1>6 DEF PrepareBackend, At, Starts, IInv, CallsOfWorkers
  <2> HIDE DEF f
  <2>5. MayGo(a, f)
    BY <1>1, <2>1, <2>3, <2>4 DEF MayGo, Starts, Stops
  <2> QED BY <1>1, <1>2, <1>3, <2>1, <2>2, <2>5, FrameKeeps DEF Starts
<1> QED BY <1>4, <1>5, <1>6 DEF PrepareStart, PrepareBackend

\* A worker leaves its thread to the owner: a start fails, a close goes on.
LEMMA ReapDeferredKeeps ==
  ASSUME IInv, NEW a \in Actors, ReapDeferred(a)
  PROVE  IInv'
<1>1. frame[a] \in FrameType /\ frame[a].pc = "reap" /\ frame[a].op \in Starts \cup Stops
  BY DEF ReapDeferred, IInv, TypeOK, FrameType, Positions, Calls, Starts, Stops
<1>2. UNCHANGED <<alive, backend, native, current, thread, stream, worker>>
  BY DEF ReapDeferred
<1>3. native' \in [Backends -> {"none", "open", "streaming", "closed"}] /\ BackendOwned'
  BY <1>2 DEF IInv, TypeOK, BackendOwned
<1>4. a \in Streams
  BY ActorsAre DEF ReapDeferred, IsCallbackThread
<1>5. frame[a].out \in {"none", "ok", "failed", "threw"}
  BY <1>1 DEF FrameType
<1>6. CASE \E out \in {"none", "ok", "failed", "threw"} : Return(a, out)
  BY <1>1, <1>2, <1>3, <1>6, NoCallType, FrameKeeps DEF Return, Starts, Stops
<1>7. CASE frame[a].op \in {"close", "destroy"} /\ GoTo(a, "release")
  <2> DEFINE f == [frame[a] EXCEPT !.pc = "release"]
  <2>1. f \in FrameType /\ f.op = frame[a].op /\ f.pc = "release"
    BY <1>1, FrameParts
  <2>2. frame' = [frame EXCEPT ![a] = f]
    BY <1>7 DEF GoTo
  <2> HIDE DEF f
  <2>3. MayGo(a, f)
    BY <1>1, <1>4, <1>7, <2>1, ActorsAre DEF MayGo, Starts, Stops
  <2> QED BY <1>1, <1>2, <1>3, <1>7, <2>1, <2>2, <2>3, FrameKeeps
<1> QED BY <1>1, <1>5, <1>6, <1>7 DEF ReapDeferred, LeaveToOwner, AfterReap, Starts, Stops

-----------------------------------------------------------------------------
\* The worker of stream s moves to w and leaves its CallbackState at x.
MayMove(s, w, x) ==
  /\ Active(s) /\ Outside(s)
  /\ worker[s].pc = "wait" => stream[s].published
  /\ worker[s].pc = "drop" => w.pc = "exited"
  /\ w.pc \notin {"none", "wait"}
  /\ w.pc \notin {"drop", "exited"} => x.active
  /\ x.active => stream[s].active
  /\ x.stop = stream[s].stop /\ x.published = stream[s].published /\ x.backend = stream[s].backend
  /\ w.pc = "reading" => x.locked /\ ~stream[s].locked
  /\ stream[s].locked => x.locked \/ Reading(s)

LEMMA WorkerKeeps ==
  ASSUME IInv, NEW s \in Streams, NEW w \in WorkerType, NEW x \in StreamType, MayMove(s, w, x),
         worker' = [worker EXCEPT ![s] = w], stream' = [stream EXCEPT ![s] = x],
         UNCHANGED <<alive, backend, current, thread, frame>>,
         native' \in [Backends -> {"none", "open", "streaming", "closed"}], BackendOwned'
  PROVE  IInv'
<1>1. /\ worker' \in [Streams -> WorkerType] /\ worker'[s] = w
      /\ \A r \in Streams : r # s => worker'[r] = worker[r]
  BY DEF IInv, TypeOK
<1>2. /\ stream' \in [Streams -> StreamType] /\ stream'[s] = x
      /\ \A r \in Streams : r # s => stream'[r] = stream[r]
  BY DEF IInv, TypeOK
<1>3. TypeOK'
  BY <1>1, <1>2 DEF IInv, TypeOK, MayMove
<1>4. Positions'
  BY DEF IInv, Positions
<1>5. CallsOfWorkers'
  BY <1>1, <1>2, ActorsAre DEF IInv, CallsOfWorkers, Outside, InUserCode, MayMove
<1>6. alive => current = s /\ thread = s
  BY ActorsAre DEF IInv, WorkersOrdered, CallsOfOwner, MayMove, At
<1>7. \A r \in Streams : Active(r)' => r = s
  BY <1>1 DEF IInv, WorkersOrdered, MayMove, Active
<1>8. WorkersOrdered'
  BY <1>1, <1>2, <1>6, <1>7 DEF IInv, WorkersOrdered, MayMove, Active, Running, Outside
<1>9. CallsOfOwner'
  BY <1>1, <1>2, <1>7, ActorsAre DEF IInv, CallsOfOwner, WorkersOrdered, MayMove, Active, Outside, At
<1>10. \A a \in Actors : InStop(a)' <=> InStop(a)
  BY DEF InStop
<1>11. \A r \in Streams : Reading(r)' => stream'[r].locked
  BY <1>1, <1>2 DEF IInv, Locks, Reading, MayMove
<1>12. \A r \in Streams : stream[r].locked /\ ~Reading(r) => stream'[r].locked /\ ~Reading(r)'
  BY <1>1, <1>2 DEF Reading, MayMove
<1>13. Locks'
  BY <1>10, <1>11, <1>12 DEF IInv, Locks
<1> QED BY <1>3, <1>4, <1>5, <1>8, <1>9, <1>13 DEF IInv

\* The steps of a worker that change only where it is.
LEMMA WorkerGoes ==
  ASSUME IInv, NEW s \in Streams,
         WorkerStart(s) \/ WorkerLoop(s) \/ WorkerDeliver(s) \/ CallbackReturns(s) \/ WorkerExit(s)
  PROVE  IInv'
<1>1. PICK pc \in {"loop", "lock", "callback", "ended", "exited"} : worker' = [worker EXCEPT ![s].pc = pc]
        /\ (worker[s].pc = "drop" <=> pc = "exited")
  BY DEF WorkerStart, WorkerLoop, WorkerDeliver, CallbackReturns, WorkerExit, WorkerGoTo
<1> DEFINE w == [worker[s] EXCEPT !.pc = pc]
<1>2. w \in WorkerType /\ w.pc = pc
  BY DEF IInv, TypeOK, WorkerType
<1>3. stream[s] \in StreamType /\ stream = [stream EXCEPT ![s] = stream[s]]
  BY DEF IInv, TypeOK
<1>4. worker' = [worker EXCEPT ![s] = w]
  BY <1>1
<1>5. UNCHANGED <<alive, backend, native, current, thread, frame, stream>>
  BY DEF WorkerStart, WorkerLoop, WorkerDeliver, CallbackReturns, WorkerExit, WorkerGoTo
<1>6. Active(s) /\ Outside(s)
  BY DEF WorkerStart, WorkerLoop, WorkerDeliver, CallbackReturns, WorkerExit, Active, IInv, CallsOfWorkers, InUserCode
<1>7. worker[s].pc = "wait" => stream[s].published
  BY DEF WorkerStart, WorkerLoop, WorkerDeliver, CallbackReturns, WorkerExit, Released
<1>8. worker[s].pc # "drop" => stream[s].active
  BY <1>6 DEF IInv, WorkersOrdered
<1> HIDE DEF w
<1>9. MayMove(s, w, stream[s])
  BY <1>1, <1>2, <1>6, <1>7, <1>8 DEF MayMove
<1>10. native' \in [Backends -> {"none", "open", "streaming", "closed"}] /\ BackendOwned'
  BY <1>5 DEF IInv, TypeOK, BackendOwned
<1> QED BY <1>2, <1>3, <1>4, <1>5, <1>9, <1>10, WorkerKeeps

LEMMA WorkerLockKeeps ==
  ASSUME IInv, NEW s \in Streams, WorkerLock(s)
  PROVE  IInv'
<1>1. stream[s] \in StreamType /\ worker[s] \in WorkerType
  BY DEF IInv, TypeOK
<1>2. worker[s].pc = "lock" /\ ~stream[s].locked /\ Active(s) /\ Outside(s) /\ stream[s].active
  BY DEF WorkerLock, Active, IInv, CallsOfWorkers, InUserCode, WorkersOrdered
<1>3. UNCHANGED <<alive, backend, native, current, thread, frame>>
  BY DEF WorkerLock, WorkerGoTo
<1>4. native' \in [Backends -> {"none", "open", "streaming", "closed"}] /\ BackendOwned'
  BY <1>3 DEF IInv, TypeOK, BackendOwned
<1>5. CASE WorkerGoTo(s, "ended") /\ UNCHANGED stream
  <2> DEFINE w == [worker[s] EXCEPT !.pc = "ended"]
  <2>1. w \in WorkerType /\ w.pc = "ended"
    BY <1>1 DEF WorkerType
  <2>2. worker' = [worker EXCEPT ![s] = w] /\ stream' = [stream EXCEPT ![s] = stream[s]]
    BY <1>5 DEF WorkerGoTo, IInv, TypeOK
  <2> HIDE DEF w
  <2>3. MayMove(s, w, stream[s])
    BY <1>2, <2>1 DEF MayMove
  <2> QED BY <1>1, <1>3, <1>4, <2>1, <2>2, <2>3, WorkerKeeps
<1>6. CASE WorkerGoTo(s, "reading") /\ SetLocked(s, TRUE)
  <2> DEFINE w == [worker[s] EXCEPT !.pc = "reading"]
             x == [stream[s] EXCEPT !.locked = TRUE]
  <2>1. w \in WorkerType /\ w.pc = "reading"
    BY <1>1 DEF WorkerType
  <2>2. /\ x \in StreamType /\ x.locked /\ x.active = stream[s].active /\ x.stop = stream[s].stop
        /\ x.published = stream[s].published /\ x.backend = stream[s].backend
    BY <1>1 DEF StreamType
  <2>3. worker' = [worker EXCEPT ![s] = w] /\ stream' = [stream EXCEPT ![s] = x]
    BY <1>6, ActorsAre DEF WorkerGoTo, SetLocked
  <2> HIDE DEF w, x
  <2>4. MayMove(s, w, x)
    BY <1>2, <2>1, <2>2 DEF MayMove
  <2> QED BY <1>1, <1>3, <1>4, <2>1, <2>2, <2>3, <2>4, WorkerKeeps
<1> QED BY <1>5, <1>6 DEF WorkerLock

LEMMA WorkerReadKeeps ==
  ASSUME IInv, NEW s \in Streams, WorkerRead(s)
  PROVE  IInv'
<1>1. stream[s] \in StreamType /\ worker[s] \in WorkerType
  BY DEF IInv, TypeOK
<1>2. worker[s].pc = "reading" /\ Active(s) /\ Outside(s) /\ stream[s].active /\ Reading(s)
  BY DEF WorkerRead, Active, IInv, CallsOfWorkers, InUserCode, WorkersOrdered, Reading
<1>3. UNCHANGED <<alive, backend, current, thread, frame>>
  BY DEF WorkerRead
<1>4. PICK r \in {"frame", "timeout", "error"} :
        /\ worker' = [worker EXCEPT ![s] = [pc |-> "check", result |-> r]]
        /\ NativeCall(stream[s].backend, "read", IF r = "error" THEN "failed" ELSE "ok")
  BY DEF WorkerRead
<1>5. native' \in [Backends -> {"none", "open", "streaming", "closed"}] /\ BackendOwned'
  <2>1. stream[s].backend \in {0} \cup Backends
    BY <1>1 DEF StreamType
  <2>2. PICK out \in {"ok", "failed", "threw"} : NativeCall(stream[s].backend, "read", out)
    BY <1>4
  <2> QED BY <1>3, <2>1, <2>2, NativeCalls DEF IInv
<1> DEFINE w == [pc |-> "check", result |-> r]
           x == [stream[s] EXCEPT !.locked = FALSE]
<1>6. w \in WorkerType /\ w.pc = "check"
  BY DEF WorkerType
<1>7. /\ x \in StreamType /\ x.active = stream[s].active /\ x.stop = stream[s].stop
      /\ x.published = stream[s].published /\ x.backend = stream[s].backend
  BY <1>1 DEF StreamType
<1>8. worker' = [worker EXCEPT ![s] = w] /\ stream' = [stream EXCEPT ![s] = x]
  BY <1>4, ActorsAre DEF WorkerRead, SetLocked
<1> HIDE DEF w, x
<1>9. MayMove(s, w, x)
  BY <1>2, <1>6, <1>7 DEF MayMove
<1> QED BY <1>1, <1>3, <1>5, <1>6, <1>7, <1>8, <1>9, WorkerKeeps

LEMMA WorkerEndsKeeps ==
  ASSUME IInv, NEW s \in Streams, WorkerEnds(s)
  PROVE  IInv'
<1>1. stream[s] \in StreamType /\ worker[s] \in WorkerType
  BY DEF IInv, TypeOK
<1>2. worker[s].pc = "ended" /\ Active(s) /\ Outside(s)
  BY DEF WorkerEnds, Active, IInv, CallsOfWorkers, InUserCode
<1>3. UNCHANGED <<alive, backend, native, current, thread, frame>>
  BY DEF WorkerEnds, WorkerGoTo
<1>4. native' \in [Backends -> {"none", "open", "streaming", "closed"}] /\ BackendOwned'
  BY <1>3 DEF IInv, TypeOK, BackendOwned
<1> DEFINE w == [worker[s] EXCEPT !.pc = "drop"]
           x == [stream[s] EXCEPT !.active = FALSE]
<1>5. w \in WorkerType /\ w.pc = "drop"
  BY <1>1 DEF WorkerType
<1>6. /\ x \in StreamType /\ ~x.active /\ x.stop = stream[s].stop /\ x.locked = stream[s].locked
      /\ x.published = stream[s].published /\ x.backend = stream[s].backend
  BY <1>1 DEF StreamType
<1>7. worker' = [worker EXCEPT ![s] = w] /\ stream' = [stream EXCEPT ![s] = x]
  BY DEF WorkerEnds, WorkerGoTo
<1> HIDE DEF w, x
<1>8. MayMove(s, w, x)
  BY <1>2, <1>5, <1>6 DEF MayMove
<1> QED BY <1>1, <1>3, <1>4, <1>5, <1>6, <1>7, <1>8, WorkerKeeps

LEMMA WorkerStepKeeps ==
  ASSUME IInv, NEW s \in Streams, WorkerStep(s)
  PROVE  IInv'
  BY WorkerGoes, WorkerLockKeeps, WorkerReadKeeps, WorkerEndsKeeps DEF WorkerStep

-----------------------------------------------------------------------------
\* A worker in a call is in user code, and its stream is the current one.
LEMMA CallerIsCurrent ==
  ASSUME IInv, NEW s \in Streams, ~Outside(s)
  PROVE  alive /\ Active(s) /\ InUserCode(s) /\ current = s /\ thread = s /\ IsCallbackThread(s)
  BY ActorsAre DEF IInv, CallsOfWorkers, WorkersOrdered, InUserCode, Active, IsCallbackThread, At

\* What a call past the reap of a start says of its actor.
LEMMA StarterIsOwner ==
  ASSUME IInv, NEW a \in Actors, frame[a].op \in Starts,
         frame[a].pc \in {"prepared", "native", "launch", "publish"}
  PROVE  a = Owner /\ alive /\ thread = 0
  BY ActorsAre DEF IInv, CallsOfWorkers, CallsOfOwner, WorkersOrdered, Outside, Starts

LEMMA OpenKeeps ==
  ASSUME IInv, NEW a \in Actors, Open(a)
  PROVE  IInv'
<1>1. frame[a] \in FrameType /\ frame[a].op = "open" /\ frame[a].pc = "begin"
  BY DEF Open, At, IInv, TypeOK
<1>2. UNCHANGED <<alive, current, thread, stream, worker>>
  BY DEF Open
<1>3. CASE Return(a, "failed") /\ UNCHANGED <<backend, native>>
  <2>1. native' \in [Backends -> {"none", "open", "streaming", "closed"}] /\ BackendOwned'
    BY <1>3 DEF IInv, TypeOK, BackendOwned
  <2> QED BY <1>1, <1>2, <1>3, <2>1, NoCallType, FrameKeeps DEF Return
<1>4. CASE Return(a, "ok") /\ ~IsOpen /\ \E b \in Backends : backend' = b /\ SetNative(b, "open")
  <2>1. PICK b \in Backends : backend' = b /\ native' = [native EXCEPT ![b] = "open"]
    BY <1>4 DEF SetNative
  <2>2. /\ native' \in [Backends -> {"none", "open", "streaming", "closed"}]
        /\ \A c \in Backends : c # b => native'[c] = native[c]
    BY <2>1 DEF IInv, TypeOK
  <2>3. \A c \in Backends : native[c] \notin {"open", "streaming"}
    <3> SUFFICES ASSUME NEW c \in Backends, native[c] \in {"open", "streaming"} PROVE FALSE
      OBVIOUS
    <3>1. backend = c /\ c # 0
      BY BoundsAssumption DEF IInv, BackendOwned, Backends
    <3> QED BY <1>4, <3>1 DEF IsOpen, NativeIs, NativeState
  <2>4. BackendOwned'
    BY <2>1, <2>2, <2>3 DEF BackendOwned
  <2> DEFINE f == NoCall("ok")
  <2>5. f \in FrameType /\ f.op = "none" /\ f.pc = "none" /\ frame' = [frame EXCEPT ![a] = f]
    BY <1>4, NoCallType DEF Return
  <2> HIDE DEF f
  <2>6. /\ frame' \in [Actors -> FrameType] /\ frame'[a] = f
        /\ \A c \in Actors : c # a => frame'[c] = frame[c]
    BY <2>5, FrameMoves DEF IInv
  <2>7. a = Owner
    BY <1>1, ActorsAre DEF IInv, CallsOfWorkers
  <2>8. TypeOK'
    BY <1>2, <2>1, <2>2, <2>6 DEF IInv, TypeOK
  <2>9. Positions'
    BY <2>5, <2>6 DEF IInv, Positions, Stops
  <2>10. CallsOfWorkers'
    BY <1>2, <2>5, <2>6, <2>7, ActorsAre DEF IInv, CallsOfWorkers, Outside, InUserCode
  <2>11. WorkersOrdered'
    BY <1>1, <1>2, <2>5, <2>6, <2>7, ActorsAre DEF IInv, WorkersOrdered, Outside, Active, Running, At
  <2>12. CallsOfOwner'
    BY <2>5, <2>6, <2>7 DEF CallsOfOwner, Starts, Stops
  <2>13. Locks'
    BY <1>2, <2>5, <2>6, ActorsAre DEF IInv, Locks, InStop, Reading, Stops
  <2> QED BY <2>4, <2>8, <2>9, <2>10, <2>11, <2>12, <2>13 DEF IInv
<1> QED BY <1>3, <1>4 DEF Open

-----------------------------------------------------------------------------
\* The owner's start(callback), from the native start to the published handle.
LEMMA StreamSucceedsKeeps ==
  ASSUME IInv, NEW a \in Actors, StreamSucceeds(a)
  PROVE  IInv'
<1>1. frame[a] \in FrameType /\ frame[a].op = "stream" /\ frame[a].pc = "native"
  BY DEF StreamSucceeds, At, IInv, TypeOK
<1>2. a = Owner /\ alive /\ thread = 0 /\ backend \in Backends /\ \A s \in Streams : ~Active(s)
  BY <1>1, StarterIsOwner DEF Starts, IInv, CallsOfOwner
<1>3. UNCHANGED <<alive, backend, thread, worker>>
  BY DEF StreamSucceeds
<1>4. native' \in [Backends -> {"none", "open", "streaming", "closed"}] /\ BackendOwned'
  BY <1>3, NativeCalls DEF StreamSucceeds, IInv, TypeOK
<1> DEFINE x == [NoStream EXCEPT !.active = TRUE, !.backend = backend]
           f == [frame[a] EXCEPT !.pc = "launch"]
<1>5. x \in StreamType /\ x.active /\ x.backend \in Backends /\ ~x.published /\ ~x.locked
  BY <1>2 DEF NoStream, StreamType
<1>6. f \in FrameType /\ f.op = "stream" /\ f.pc = "launch"
  BY <1>1, FrameParts
<1>7. PICK s \in Streams : worker[s].pc = "none" /\ current' = s /\ stream' = [stream EXCEPT ![s] = x]
  BY DEF StreamSucceeds
<1>8. frame' = [frame EXCEPT ![a] = f]
  BY DEF StreamSucceeds, GoTo
<1> HIDE DEF x, f
<1>9. /\ frame' \in [Actors -> FrameType] /\ frame'[a] = f
      /\ \A c \in Actors : c # a => frame'[c] = frame[c]
  BY <1>6, <1>8, FrameMoves DEF IInv
<1>10. /\ stream' \in [Streams -> StreamType] /\ stream'[s] = x
       /\ \A r \in Streams : r # s => stream'[r] = stream[r]
  BY <1>5, <1>7 DEF IInv, TypeOK
<1>11. TypeOK'
  BY <1>3, <1>4, <1>5, <1>7, <1>9, <1>10, ActorsAre DEF IInv, TypeOK
<1>12. Positions'
  BY <1>6, <1>9 DEF IInv, Positions, Stops
<1>13. \A r \in Streams : Outside(r)
  BY <1>2, CallerIsCurrent
<1>14. CallsOfWorkers'
  BY <1>2, <1>9, <1>13, ActorsAre DEF CallsOfWorkers, Outside, Stops, Starts
<1>15. WorkersOrdered'
  BY <1>2, <1>3 DEF WorkersOrdered, Active
<1>16. CallsOfOwner'
  BY <1>2, <1>3, <1>5, <1>6, <1>7, <1>9, <1>10 DEF CallsOfOwner, Starts, Stops, Active
<1>17. Locks'
  BY <1>2, <1>3, <1>6, <1>9, <1>13, ActorsAre DEF Locks, InStop, Stops, Reading, Active, Outside
<1> QED BY <1>4, <1>11, <1>12, <1>14, <1>15, <1>16, <1>17 DEF IInv

LEMMA LaunchKeeps ==
  ASSUME IInv, NEW a \in Actors, Launch(a)
  PROVE  IInv'
<1>1. frame[a] \in FrameType /\ frame[a].op = "stream" /\ frame[a].pc = "launch"
  BY DEF Launch, At, IInv, TypeOK
<1>2. /\ a = Owner /\ alive /\ thread = 0 /\ \A s \in Streams : ~Active(s)
      /\ current \in Streams /\ stream[current].active /\ ~stream[current].published
  BY <1>1, StarterIsOwner DEF Starts, IInv, CallsOfOwner
<1>3. UNCHANGED <<alive, backend, native, current, thread, stream>>
  BY DEF Launch
<1> DEFINE w == [worker[current] EXCEPT !.pc = "wait"]
           f == [frame[a] EXCEPT !.pc = "publish"]
<1>4. w \in WorkerType /\ w.pc = "wait"
  BY <1>2 DEF IInv, TypeOK, WorkerType
<1>5. f \in FrameType /\ f.op = "stream" /\ f.pc = "publish"
  BY <1>1, FrameParts
<1>6. worker' = [worker EXCEPT ![current] = w] /\ frame' = [frame EXCEPT ![a] = f]
  BY DEF Launch, GoTo
<1> HIDE DEF w, f
<1>7. /\ frame' \in [Actors -> FrameType] /\ frame'[a] = f
      /\ \A c \in Actors : c # a => frame'[c] = frame[c]
  BY <1>5, <1>6, FrameMoves DEF IInv
<1>8. /\ worker' \in [Streams -> WorkerType] /\ worker'[current] = w
      /\ \A r \in Streams : r # current => worker'[r] = worker[r]
  BY <1>2, <1>4, <1>6 DEF IInv, TypeOK
<1>9. TypeOK'
  BY <1>3, <1>7, <1>8 DEF IInv, TypeOK
<1>10. Positions'
  BY <1>5, <1>7 DEF IInv, Positions, Stops
<1>11. \A r \in Streams : Outside(r)
  BY <1>2, CallerIsCurrent
<1>12. CallsOfWorkers'
  BY <1>2, <1>7, <1>11, ActorsAre DEF CallsOfWorkers, Outside, Stops, Starts
<1>13. \A r \in Streams : Active(r)' => r = current
  BY <1>2, <1>8 DEF Active
<1>14. WorkersOrdered'
  BY <1>2, <1>3, <1>4, <1>5, <1>7, <1>8, <1>13 DEF WorkersOrdered, At
<1>15. CallsOfOwner'
  BY <1>2, <1>3, <1>4, <1>5, <1>7, <1>8 DEF CallsOfOwner, Starts, Stops
<1>16. Locks'
  BY <1>2, <1>4, <1>5, <1>7, <1>8, <1>11, ActorsAre DEF Locks, InStop, Stops, Reading, Active, Outside
<1> QED BY <1>3, <1>9, <1>10, <1>12, <1>14, <1>15, <1>16 DEF IInv, BackendOwned

LEMMA LaunchFailsKeeps ==
  ASSUME IInv, NEW a \in Actors, LaunchFails(a)
  PROVE  IInv'
<1>1. frame[a] \in FrameType /\ frame[a].op = "stream" /\ frame[a].pc = "launch"
  BY DEF LaunchFails, At, IInv, TypeOK
<1>2. a = Owner /\ alive /\ thread = 0 /\ current \in Streams /\ \A s \in Streams : ~Active(s)
  BY <1>1, StarterIsOwner DEF Starts, IInv, CallsOfOwner
<1>3. UNCHANGED <<alive, backend, thread, stream>> /\ current' = 0
  BY DEF LaunchFails
<1>4. native' \in [Backends -> {"none", "open", "streaming", "closed"}] /\ BackendOwned'
  BY <1>3, NativeCalls DEF LaunchFails, Rollback, IInv, TypeOK
<1> DEFINE w == [worker[current] EXCEPT !.pc = "exited"]
           f == NoCall("threw")
<1>5. w \in WorkerType /\ w.pc = "exited"
  BY <1>2 DEF IInv, TypeOK, WorkerType
<1>6. f \in FrameType /\ f.op = "none" /\ f.pc = "none"
  BY NoCallType
<1>7. worker' = [worker EXCEPT ![current] = w] /\ frame' = [frame EXCEPT ![a] = f]
  BY DEF LaunchFails, Return
<1> HIDE DEF w, f
<1>8. /\ frame' \in [Actors -> FrameType] /\ frame'[a] = f
      /\ \A c \in Actors : c # a => frame'[c] = frame[c]
  BY <1>6, <1>7, FrameMoves DEF IInv
<1>9. /\ worker' \in [Streams -> WorkerType]
      /\ \A r \in Streams : worker'[r].pc = worker[r].pc \/ worker'[r].pc = "exited"
  BY <1>2, <1>5, <1>7 DEF IInv, TypeOK
<1>10. TypeOK'
  BY <1>3, <1>4, <1>8, <1>9, ActorsAre DEF IInv, TypeOK
<1>11. Positions'
  BY <1>6, <1>8 DEF IInv, Positions, Stops
<1>12. \A r \in Streams : Outside(r) /\ ~Active(r)'
  BY <1>2, <1>9, CallerIsCurrent DEF Active
<1>13. CallsOfWorkers'
  BY <1>2, <1>8, <1>12, ActorsAre DEF CallsOfWorkers, Outside, Stops, Starts
<1>14. WorkersOrdered'
  BY <1>2, <1>3, <1>12 DEF WorkersOrdered
<1>15. CallsOfOwner'
  BY <1>2, <1>6, <1>8 DEF CallsOfOwner, Starts, Stops
<1>16. Locks'
  BY <1>2, <1>6, <1>8, <1>12, ActorsAre DEF Locks, InStop, Stops, Reading, Active, Outside
<1> QED BY <1>4, <1>10, <1>11, <1>13, <1>14, <1>15, <1>16 DEF IInv

LEMMA PublishKeeps ==
  ASSUME IInv, NEW a \in Actors, Publish(a)
  PROVE  IInv'
<1>1. frame[a] \in FrameType /\ frame[a].op = "stream" /\ frame[a].pc = "publish"
  BY DEF Publish, At, IInv, TypeOK
<1>2. a = Owner /\ alive /\ current \in Streams /\ worker[current].pc = "wait"
  BY <1>1, StarterIsOwner DEF Starts, IInv, CallsOfOwner
<1>3. UNCHANGED <<alive, backend, native, current, worker>> /\ thread' = current
  BY DEF Publish
<1> DEFINE x == [stream[current] EXCEPT !.published = TRUE]
           f == NoCall("ok")
<1>4. /\ x \in StreamType /\ x.active = stream[current].active /\ x.backend = stream[current].backend
      /\ x.stop = stream[current].stop /\ x.locked = stream[current].locked
  BY <1>2 DEF IInv, TypeOK, StreamType
<1>5. f \in FrameType /\ f.op = "none" /\ f.pc = "none"
  BY NoCallType
<1>6. stream' = [stream EXCEPT ![current] = x] /\ frame' = [frame EXCEPT ![a] = f]
  BY DEF Publish, Return
<1> HIDE DEF x, f
<1>7. /\ frame' \in [Actors -> FrameType] /\ frame'[a] = f
      /\ \A c \in Actors : c # a => frame'[c] = frame[c]
  BY <1>5, <1>6, FrameMoves DEF IInv
<1>8. /\ stream' \in [Streams -> StreamType]
      /\ \A r \in Streams : /\ stream'[r].active = stream[r].active /\ stream'[r].backend = stream[r].backend
                            /\ stream'[r].stop = stream[r].stop /\ stream'[r].locked = stream[r].locked
  BY <1>2, <1>4, <1>6 DEF IInv, TypeOK
<1>9. TypeOK'
  BY <1>2, <1>3, <1>7, <1>8, ActorsAre DEF IInv, TypeOK
<1>10. Positions'
  BY <1>5, <1>7 DEF IInv, Positions, Stops
<1>11. \A r \in Streams : Active(r) => r = current
  BY <1>2 DEF IInv, WorkersOrdered
<1>12. \A r \in Streams : Outside(r)
  BY <1>2, <1>11 DEF IInv, CallsOfWorkers, InUserCode, Active
<1>13. CallsOfWorkers'
  BY <1>2, <1>7, <1>12, ActorsAre DEF CallsOfWorkers, Outside, Stops, Starts
<1>14. WorkersOrdered'
  BY <1>2, <1>3, <1>8, <1>11 DEF IInv, WorkersOrdered, Active
<1>15. CallsOfOwner'
  BY <1>2, <1>5, <1>7 DEF CallsOfOwner, Starts, Stops
<1>16. Locks'
  BY <1>2, <1>3, <1>5, <1>7, <1>8, <1>12, ActorsAre DEF IInv, Locks, InStop, Stops, Reading, Outside
<1> QED BY <1>3, <1>9, <1>10, <1>13, <1>14, <1>15, <1>16 DEF IInv, BackendOwned

-----------------------------------------------------------------------------
\* stop(), and what close() and the destructor begin with.
LEMMA StopperIsCurrent ==
  ASSUME IInv, NEW a \in Actors, frame[a].op \in Stops
  PROVE  /\ alive /\ (a = Owner \/ a = current)
         /\ frame[a].pc \in {"lock", "native"} => frame[a].state = current
<1>1. CASE a = Owner
  BY <1>1 DEF IInv, WorkersOrdered, CallsOfOwner, Outside, Stops
<1>2. CASE a \in Streams
  <2>1. ~Outside(a)
    BY DEF Outside, Stops
  <2> QED BY <1>2, <2>1, CallerIsCurrent DEF IInv, CallsOfWorkers
<1> QED BY <1>1, <1>2, ActorsAre

LEMMA StopFlagKeeps ==
  ASSUME IInv, NEW a \in Actors, StopFlag(a)
  PROVE  IInv'
<1>1. frame[a] \in FrameType /\ frame[a].op \in Stops /\ frame[a].pc = "begin"
  BY DEF StopFlag, At, IInv, TypeOK
<1>2. alive /\ (a = Owner \/ a = current) /\ current \in Actors
  BY <1>1, StopperIsCurrent DEF IInv, TypeOK
<1>3. UNCHANGED <<alive, backend, native, current, thread, worker>>
  BY DEF StopFlag
<1> DEFINE f == [frame[a] EXCEPT !.pc = "lock", !.state = current]
<1>4. f \in FrameType /\ f.op = frame[a].op /\ f.pc = "lock" /\ f.state = current
  BY <1>1, <1>2 DEF FrameType
<1>5. frame' = [frame EXCEPT ![a] = f]
  BY DEF StopFlag
<1> HIDE DEF f
<1>6. /\ frame' \in [Actors -> FrameType] /\ frame'[a] = f
      /\ \A c \in Actors : c # a => frame'[c] = frame[c]
  BY <1>4, <1>5, FrameMoves DEF IInv
<1>7. /\ stream' \in [Streams -> StreamType]
      /\ current # 0 => stream'[current].stop
      /\ \A r \in Streams : /\ stream'[r].active = stream[r].active /\ stream'[r].backend = stream[r].backend
                            /\ stream[r].stop => stream'[r].stop
                            /\ stream'[r].locked = stream[r].locked /\ stream'[r].published = stream[r].published
  <2>1. CASE current = 0
    BY <2>1 DEF StopFlag, IInv, TypeOK
  <2>2. CASE current \in Streams
    <3> DEFINE x == [stream[current] EXCEPT !.stop = TRUE]
    <3>1. /\ x \in StreamType /\ x.stop /\ x.active = stream[current].active /\ x.backend = stream[current].backend
          /\ x.locked = stream[current].locked /\ x.published = stream[current].published
      BY <2>2 DEF IInv, TypeOK, StreamType
    <3>2. stream' = [stream EXCEPT ![current] = x]
      BY <2>2, ActorsAre DEF StopFlag
    <3> HIDE DEF x
    <3>3. /\ stream' \in [Streams -> StreamType] /\ stream'[current] = x
          /\ \A r \in Streams : r # current => stream'[r] = stream[r]
      BY <2>2, <3>1, <3>2 DEF IInv, TypeOK
    <3> QED BY <3>1, <3>3
  <2> QED BY <1>2, <2>1, <2>2, ActorsAre
<1>8. TypeOK'
  BY <1>3, <1>6, <1>7 DEF IInv, TypeOK
<1>9. Positions'
  BY <1>1, <1>4, <1>6 DEF IInv, Positions, Stops
<1>10. CallsOfWorkers'
  <2>1. \A s \in Streams : s # a => frame'[s] = frame[s] /\ (stream[s].stop => stream'[s].stop)
    BY <1>1, <1>2, <1>3, <1>4, <1>6, <1>7, ActorsAre
  <2>2. frame[a].op # "none" /\ frame'[a].op = frame[a].op /\ frame'[a].op \in Stops /\ frame'[a].pc = "lock"
    BY <1>1, <1>2, <1>3, <1>4, <1>6, <1>7 DEF Stops
  <2>3. a \in Streams => InUserCode(a) /\ stream'[a].stop /\ frame'[a].state = a
    BY <1>1, <1>2, <1>3, <1>4, <1>6, <1>7, <2>2, ActorsAre DEF IInv, CallsOfWorkers, Outside
  <2>4. \A s \in Streams : frame[s].op \notin {"none", "stop"} => frame'[Owner].op = "none"
    BY <1>1, <1>2, <1>3, <1>4, <1>6, <1>7, <2>2, ActorsAre DEF IInv, CallsOfWorkers, Outside
  <2> QED BY <1>2, <1>3, <2>1, <2>2, <2>3, <2>4, ActorsAre DEF IInv, CallsOfWorkers, Outside, InUserCode, Stops, Starts
<1>11. WorkersOrdered'
  BY <1>1, <1>2, <1>3, <1>4, <1>6, <1>7, ActorsAre DEF IInv, WorkersOrdered, Outside, Active, Running, At, Stops
<1>12. CallsOfOwner'
  BY <1>1, <1>3, <1>4, <1>6, <1>7, ActorsAre, ZenonT(60) DEF IInv, CallsOfOwner, Active, Starts, Stops
<1>13. Locks'
  <2>1. \A c \in Actors : InStop(c)' => InStop(c) /\ frame'[c].state = frame[c].state
    BY <1>4, <1>6 DEF InStop
  <2>2. \A s \in Streams : (Reading(s)' <=> Reading(s)) /\ stream'[s].locked = stream[s].locked
    BY <1>3, <1>7 DEF Reading
  <2> QED BY <2>1, <2>2 DEF IInv, Locks
<1> QED BY <1>3, <1>8, <1>9, <1>10, <1>11, <1>12, <1>13 DEF IInv, BackendOwned

\* What SetLocked does, to no stream when there is none.
LEMMA LockedParts ==
  ASSUME TypeOK, NEW s \in Actors, NEW b \in BOOLEAN, SetLocked(s, b)
  PROVE  /\ stream' \in [Streams -> StreamType]
         /\ \A r \in Streams : /\ stream'[r].active = stream[r].active /\ stream'[r].backend = stream[r].backend
                               /\ stream'[r].stop = stream[r].stop /\ stream'[r].published = stream[r].published
                               /\ stream'[r].locked = IF r = s THEN b ELSE stream[r].locked
<1>1. CASE s = 0
  BY <1>1, ActorsAre DEF SetLocked, TypeOK
<1>2. CASE s \in Streams
  <2> DEFINE x == [stream[s] EXCEPT !.locked = b]
  <2>1. /\ x \in StreamType /\ x.locked = b /\ x.active = stream[s].active /\ x.backend = stream[s].backend
        /\ x.stop = stream[s].stop /\ x.published = stream[s].published
    BY <1>2 DEF TypeOK, StreamType
  <2>2. stream' = [stream EXCEPT ![s] = x]
    BY <1>2, ActorsAre DEF SetLocked
  <2> HIDE DEF x
  <2>3. /\ stream' \in [Streams -> StreamType] /\ stream'[s] = x
        /\ \A r \in Streams : r # s => stream'[r] = stream[r]
    BY <1>2, <2>1, <2>2 DEF TypeOK
  <2> QED BY <2>1, <2>3
<1> QED BY <1>1, <1>2, ActorsAre

LEMMA StopLockKeeps ==
  ASSUME IInv, NEW a \in Actors, StopLock(a)
  PROVE  IInv'
<1>1. frame[a] \in FrameType /\ frame[a].op \in Stops /\ frame[a].pc = "lock" /\ frame[a].state \in Actors
  BY DEF StopLock, At, IInv, TypeOK, FrameType
<1>2. alive /\ (a = Owner \/ a = current) /\ frame[a].state = current
  BY <1>1, StopperIsCurrent
<1>3. UNCHANGED <<alive, backend, native, current, thread, worker>>
  BY DEF StopLock
<1>4. native' \in [Backends -> {"none", "open", "streaming", "closed"}] /\ BackendOwned'
  BY <1>3 DEF IInv, TypeOK, BackendOwned
<1>5. CASE SetLocked(frame[a].state, TRUE) /\ GoTo(a, "native")
  <2> DEFINE f == [frame[a] EXCEPT !.pc = "native"]
  <2>1. f \in FrameType /\ f.op = frame[a].op /\ f.pc = "native" /\ f.state = current
    BY <1>1, <1>2, FrameParts
  <2>2. frame' = [frame EXCEPT ![a] = f]
    BY <1>5 DEF GoTo
  <2> HIDE DEF f
  <2>3. /\ frame' \in [Actors -> FrameType] /\ frame'[a] = f
        /\ \A c \in Actors : c # a => frame'[c] = frame[c]
    BY <2>1, <2>2, FrameMoves DEF IInv
  <2>4. /\ stream' \in [Streams -> StreamType]
        /\ \A r \in Streams : /\ stream'[r].active = stream[r].active /\ stream'[r].backend = stream[r].backend
                              /\ stream'[r].stop = stream[r].stop /\ stream'[r].published = stream[r].published
                              /\ stream'[r].locked = IF r = current THEN TRUE ELSE stream[r].locked
    <3>1. SetLocked(current, TRUE) /\ current \in Actors /\ TRUE \in BOOLEAN
      BY <1>1, <1>2, <1>5
    <3> QED BY <3>1, LockedParts DEF IInv
  <2>5. current # 0 => ~stream[current].locked
    BY <1>2 DEF StopLock, MayLock
  <2>6. TypeOK'
    BY <1>3, <1>4, <2>3, <2>4 DEF IInv, TypeOK
  <2>7. Positions'
    BY <1>1, <2>1, <2>3 DEF IInv, Positions, Stops
  <2>8. CallsOfWorkers'
    <3>1. \A s \in Streams : s # a => frame'[s] = frame[s] /\ stream'[s].stop = stream[s].stop
      BY <1>1, <1>2, <1>3, <2>1, <2>3, <2>4, ActorsAre
    <3>2. frame[a].op # "none" /\ frame'[a].op = frame[a].op /\ frame'[a].op \in Stops /\ frame'[a].pc # "begin" /\ frame'[a].pc # "lock"
      BY <1>1, <1>2, <1>3, <2>1, <2>3, <2>4 DEF Stops
    <3>3. a \in Streams => InUserCode(a) /\ stream[a].stop /\ stream'[a].stop = stream[a].stop /\ frame'[a].op \notin Starts
      BY <1>1, <1>2, <1>3, <2>1, <2>3, <2>4, <3>2 DEF IInv, CallsOfWorkers, Outside, Stops, Starts
    <3>4. a \in Streams /\ frame'[a].pc = "native" => frame'[a].state = a
      BY <1>1, <1>2, <1>3, <2>1, <2>3, <2>4, ActorsAre
    <3>5. \A s \in Streams : frame[s].op \notin {"none", "stop"} => frame'[Owner].op = "none"
      BY <1>1, <1>2, <1>3, <2>1, <2>3, <2>4, <3>2, ActorsAre DEF IInv, CallsOfWorkers, Outside
    <3> QED BY <1>3, <3>1, <3>2, <3>3, <3>4, <3>5, ActorsAre DEF IInv, CallsOfWorkers, Outside, InUserCode, Stops
  <2>9. WorkersOrdered'
    BY <1>1, <1>2, <1>3, <2>1, <2>3, <2>4, ActorsAre, ZenonT(60) DEF IInv, WorkersOrdered, Outside, Active, Running, At, Stops
  <2>10. CallsOfOwner'
    BY <1>1, <1>3, <2>1, <2>3, <2>4, ActorsAre, ZenonT(60) DEF IInv, CallsOfOwner, Active, Starts, Stops
  <2>11. \A c \in Actors : InStop(c) => c = Owner /\ current = 0
    <3> SUFFICES ASSUME NEW c \in Actors, InStop(c) PROVE c = Owner /\ current = 0
      OBVIOUS
    <3>1. (c = Owner \/ c = current) /\ frame[c].state = current
      BY StopperIsCurrent DEF InStop
    <3>2. current = 0
      BY <2>5, <3>1, ActorsAre DEF IInv, TypeOK, Locks
    <3> QED BY <3>1, <3>2, ActorsAre
  <2>12. current = 0 => a = Owner
    BY <1>2, ActorsAre
  <2>13. \A c \in Actors : InStop(c)' => c = a /\ frame'[c].state = current
    BY <1>1, <2>1, <2>3, <2>11, <2>12 DEF InStop
  <2>14. \A s \in Streams : Reading(s)' <=> Reading(s)
    BY <1>3 DEF Reading
  <2>15. \A s \in Streams : s = current => stream'[s].locked /\ ~Reading(s)
    BY <2>4, <2>5, ActorsAre DEF IInv, Locks
  <2>16. Locks'
    BY <2>4, <2>13, <2>14, <2>15 DEF IInv, Locks
  <2> QED BY <1>4, <2>6, <2>7, <2>8, <2>9, <2>10, <2>16 DEF IInv
<1>6. CASE frame' = [frame EXCEPT ![a] = [@ EXCEPT !.pc = "reap", !.out = "ok"]] /\ UNCHANGED stream
  <2> DEFINE f == [frame[a] EXCEPT !.pc = "reap", !.out = "ok"]
  <2>1. f \in FrameType /\ f.op = frame[a].op /\ f.pc = "reap"
    BY <1>1 DEF FrameType
  <2>2. frame' = [frame EXCEPT ![a] = f]
    BY <1>6
  <2> HIDE DEF f
  <2>3. MayGo(a, f)
    BY <1>1, <2>1 DEF MayGo, Starts, Stops
  <2> QED BY <1>1, <1>3, <1>4, <1>6, <2>1, <2>2, <2>3, FrameKeeps DEF Stops
<1> QED BY <1>5, <1>6 DEF StopLock

LEMMA StopNativeKeeps ==
  ASSUME IInv, NEW a \in Actors, StopNative(a)
  PROVE  IInv'
<1>1. frame[a] \in FrameType /\ frame[a].op \in Stops /\ frame[a].pc = "native" /\ frame[a].state \in Actors
  BY DEF StopNative, At, IInv, TypeOK, FrameType
<1>2. alive /\ (a = Owner \/ a = current) /\ frame[a].state = current
  BY <1>1, StopperIsCurrent
<1>3. UNCHANGED <<alive, backend, current, thread, worker>>
  BY DEF StopNative
<1>4. PICK out \in {"ok", "failed", "threw"} :
        /\ NativeCall(backend, "stop", out) \/ SetNative(backend, "closed")
        /\ frame' = [frame EXCEPT ![a] = [@ EXCEPT !.pc = "reap", !.out = out]]
  BY DEF StopNative
<1>5. native' \in [Backends -> {"none", "open", "streaming", "closed"}] /\ BackendOwned'
  BY <1>3, <1>4, NativeCalls DEF IInv, TypeOK
<1> DEFINE f == [frame[a] EXCEPT !.pc = "reap", !.out = out]
<1>6. f \in FrameType /\ f.op = frame[a].op /\ f.pc = "reap"
  BY <1>1 DEF FrameType
<1>7. frame' = [frame EXCEPT ![a] = f]
  BY <1>4
<1> HIDE DEF f
<1>8. /\ frame' \in [Actors -> FrameType] /\ frame'[a] = f
      /\ \A c \in Actors : c # a => frame'[c] = frame[c]
  BY <1>6, <1>7, FrameMoves DEF IInv
<1>9. /\ stream' \in [Streams -> StreamType]
      /\ \A r \in Streams : /\ stream'[r].active = stream[r].active /\ stream'[r].backend = stream[r].backend
                            /\ stream'[r].stop = stream[r].stop /\ stream'[r].published = stream[r].published
                            /\ stream'[r].locked = IF r = current THEN FALSE ELSE stream[r].locked
  BY <1>1, <1>2, LockedParts, ZenonT(60) DEF IInv, StopNative
<1>10. TypeOK'
  BY <1>3, <1>5, <1>8, <1>9 DEF IInv, TypeOK
<1>11. Positions'
  BY <1>1, <1>6, <1>8 DEF IInv, Positions, Stops
<1>12. CallsOfWorkers'
  <2>1. \A s \in Streams : s # a => frame'[s] = frame[s] /\ stream'[s].stop = stream[s].stop
    BY <1>1, <1>2, <1>3, <1>6, <1>8, <1>9, ActorsAre
  <2>2. frame[a].op # "none" /\ frame'[a].op = frame[a].op /\ frame'[a].op \in Stops /\ frame'[a].pc # "begin" /\ frame'[a].pc # "lock"
    BY <1>1, <1>2, <1>3, <1>6, <1>8, <1>9 DEF Stops
  <2>3. a \in Streams => InUserCode(a) /\ stream[a].stop /\ stream'[a].stop = stream[a].stop /\ frame'[a].op \notin Starts
    BY <1>1, <1>2, <1>3, <1>6, <1>8, <1>9, <2>2 DEF IInv, CallsOfWorkers, Outside, Stops, Starts
  <2>4. a \in Streams /\ frame'[a].pc = "native" => frame'[a].state = a
    BY <1>1, <1>2, <1>3, <1>6, <1>8, <1>9, ActorsAre
  <2>5. \A s \in Streams : frame[s].op \notin {"none", "stop"} => frame'[Owner].op = "none"
    BY <1>1, <1>2, <1>3, <1>6, <1>8, <1>9, <2>2, ActorsAre DEF IInv, CallsOfWorkers, Outside
  <2> QED BY <1>3, <2>1, <2>2, <2>3, <2>4, <2>5, ActorsAre DEF IInv, CallsOfWorkers, Outside, InUserCode, Stops
<1>13. WorkersOrdered'
  BY <1>1, <1>2, <1>3, <1>6, <1>8, <1>9, ActorsAre DEF IInv, WorkersOrdered, Outside, Active, Running, At, Stops
<1>14. CallsOfOwner'
  BY <1>1, <1>3, <1>6, <1>8, <1>9, ActorsAre, ZenonT(60) DEF IInv, CallsOfOwner, Active, Starts, Stops
<1>15. \A c \in Actors : ~InStop(c)'
  <2> SUFFICES ASSUME NEW c \in Actors, c # a, InStop(c) PROVE FALSE
    BY <1>6, <1>8 DEF InStop
  <2>1. frame[c].state = current
    BY StopperIsCurrent DEF InStop
  <2> QED BY <1>1, <1>2, <2>1 DEF IInv, Locks, InStop
<1>16. \A r \in Streams : Reading(r) => r # current
  BY <1>1, <1>2 DEF IInv, Locks, InStop
<1>17. Locks'
  BY <1>3, <1>9, <1>15, <1>16 DEF IInv, Locks, Reading
<1> QED BY <1>5, <1>10, <1>11, <1>12, <1>13, <1>14, <1>17 DEF IInv

-----------------------------------------------------------------------------
\* Who reaps is the owner, and the worker it joined was the only one.
LEMMA ReaperIsOwner ==
  ASSUME IInv, NEW a \in Actors, Reap(a)
  PROVE  /\ a = Owner /\ alive /\ frame[a].op \in Starts \cup Stops /\ frame[a].pc = "reap"
         /\ \A s \in Streams : ~Active(s) /\ Outside(s)
<1>1. frame[a] \in FrameType /\ frame[a].pc = "reap" /\ frame[a].op \in Starts \cup Stops /\ ~Outside(a)
  BY DEF Reap, IInv, TypeOK, FrameType, Positions, Outside, Calls, Starts, Stops
<1>2. a = Owner
  BY <1>1, CallerIsCurrent, ActorsAre DEF Reap
<1>3. alive
  BY <1>1, <1>2 DEF IInv, WorkersOrdered
<1>4. \A s \in Streams : ~Active(s)
  BY <1>1, <1>2, <1>3, ActorsAre DEF Reap, Joined, Active, IInv, WorkersOrdered, At
<1> QED BY <1>1, <1>2, <1>3, <1>4, CallerIsCurrent

LEMMA ReapKeeps ==
  ASSUME IInv, NEW a \in Actors, Reap(a)
  PROVE  IInv'
<1>1. /\ a = Owner /\ alive /\ frame[a].op \in Starts \cup Stops /\ frame[a].pc = "reap"
      /\ \A s \in Streams : ~Active(s) /\ Outside(s)
  BY ReaperIsOwner
<1>2. UNCHANGED <<alive, backend, native, stream, worker>> /\ thread' = 0 /\ current' = 0
  BY DEF Reap
<1>3. frame[a] \in FrameType /\ frame[a].out \in {"none", "ok", "failed", "threw"}
  BY DEF IInv, TypeOK, FrameType
<1>4. PICK f \in FrameType :
        /\ frame' = [frame EXCEPT ![a] = f]
        /\ \/ f.op = "none" /\ f.pc = "none"
           \/ f.op = frame[a].op /\ f.op \in Starts /\ f.pc = "prepared"
           \/ f.op = frame[a].op /\ f.op \in {"close", "destroy"} /\ f.pc = "release"
  <2>1. CASE Return(a, frame[a].out)
    BY <1>3, <2>1, NoCallType DEF Return
  <2>2. CASE frame[a].op \in Starts /\ GoTo(a, "prepared")
    <3>1. [frame[a] EXCEPT !.pc = "prepared"] \in FrameType
      BY <1>3, FrameParts
    <3>2. PICK g \in FrameType : g = [frame[a] EXCEPT !.pc = "prepared"]
      BY <3>1
    <3>3. g.op = frame[a].op /\ g.pc = "prepared"
      BY <1>3, <3>2, FrameParts
    <3>4. frame' = [frame EXCEPT ![a] = g]
      BY <2>2, <3>2 DEF GoTo
    <3> QED BY <2>2, <3>3, <3>4
  <2>3. CASE frame[a].op \in {"close", "destroy"} /\ GoTo(a, "release")
    <3>1. [frame[a] EXCEPT !.pc = "release"] \in FrameType
      BY <1>3, FrameParts
    <3>2. PICK g \in FrameType : g = [frame[a] EXCEPT !.pc = "release"]
      BY <3>1
    <3>3. g.op = frame[a].op /\ g.pc = "release"
      BY <1>3, <3>2, FrameParts
    <3>4. frame' = [frame EXCEPT ![a] = g]
      BY <2>3, <3>2 DEF GoTo
    <3> QED BY <2>3, <3>3, <3>4
  <2> QED BY <1>1, <2>1, <2>2, <2>3 DEF Reap, AfterReap, Starts, Stops
<1>5. /\ frame' \in [Actors -> FrameType] /\ frame'[a] = f
      /\ \A c \in Actors : c # a => frame'[c] = frame[c]
  BY <1>4, FrameMoves DEF IInv
<1>6. TypeOK'
  BY <1>2, <1>5, ActorsAre DEF IInv, TypeOK
<1>7. Positions'
  BY <1>4, <1>5 DEF IInv, Positions, Stops, Starts
<1>8. CallsOfWorkers'
  BY <1>1, <1>5, ActorsAre DEF CallsOfWorkers, Outside, Stops, Starts
<1>9. WorkersOrdered'
  BY <1>1, <1>2 DEF WorkersOrdered, Active
<1>10. CallsOfOwner'
  BY <1>1, <1>2, <1>4, <1>5 DEF CallsOfOwner, Starts, Stops, Active
<1>11. Locks'
  BY <1>1, <1>2, <1>4, <1>5, ActorsAre DEF Locks, InStop, Reading, Active, Outside, Starts, Stops
<1> QED BY <1>2, <1>6, <1>7, <1>8, <1>9, <1>10, <1>11 DEF IInv, BackendOwned

LEMMA ReleaseKeeps ==
  ASSUME IInv, NEW a \in Actors, Release(a)
  PROVE  IInv'
<1>1. frame[a] \in FrameType /\ frame[a].op \in {"close", "destroy"} /\ frame[a].pc = "release"
  BY DEF Release, At, IInv, TypeOK
<1>2. UNCHANGED <<alive, current, thread, stream, worker>> /\ backend' = 0
  BY DEF Release
<1>3. native' \in [Backends -> {"none", "open", "streaming", "closed"}] /\ BackendOwned'
  <2>1. backend = 0 => native' = native
    BY DEF Release, ReleaseBackend
  <2>2. backend # 0 => native' = [native EXCEPT ![backend] = "closed"]
    BY DEF Release, ReleaseBackend, SetNative
  <2>3. 0 \notin Backends
    BY BoundsAssumption DEF Backends
  <2> QED BY <1>2, <2>1, <2>2, <2>3 DEF IInv, TypeOK, BackendOwned
<1>4. PICK f \in FrameType :
        /\ frame' = [frame EXCEPT ![a] = f]
        /\ \/ f.op = "none" /\ f.pc = "none"
           \/ f.op = "destroy" /\ frame[a].op = "destroy" /\ f.pc = "destroy"
  <2>1. CASE frame[a].op = "close" /\ Return(a, "ok")
    BY <2>1, NoCallType DEF Return
  <2>2. CASE frame[a].op = "destroy" /\ GoTo(a, "destroy")
    <3>1. [frame[a] EXCEPT !.pc = "destroy"] \in FrameType
      BY <1>1, FrameParts
    <3>2. PICK g \in FrameType : g = [frame[a] EXCEPT !.pc = "destroy"]
      BY <3>1
    <3>3. g.op = frame[a].op /\ g.pc = "destroy"
      BY <1>1, <3>2, FrameParts
    <3>4. frame' = [frame EXCEPT ![a] = g]
      BY <2>2, <3>2 DEF GoTo
    <3> QED BY <2>2, <3>3, <3>4
  <2> QED BY <1>1, <2>1, <2>2 DEF Release
<1>5. /\ frame' \in [Actors -> FrameType] /\ frame'[a] = f
      /\ \A c \in Actors : c # a => frame'[c] = frame[c]
  BY <1>4, FrameMoves DEF IInv
<1>6. a \in Streams => Outside(Owner)
  BY <1>1 DEF IInv, CallsOfWorkers
<1>7. TypeOK'
  BY <1>2, <1>3, <1>5 DEF IInv, TypeOK
<1>8. Positions'
  BY <1>4, <1>5 DEF IInv, Positions, Stops
<1>9. CallsOfWorkers'
  BY <1>1, <1>2, <1>4, <1>5, <1>6, ActorsAre DEF IInv, CallsOfWorkers, Outside, InUserCode, Stops, Starts
<1>10. WorkersOrdered'
  BY <1>1, <1>2, <1>4, <1>5, ActorsAre DEF IInv, WorkersOrdered, Outside, Active, Running, At
<1>11. CallsOfOwner'
  BY <1>1, <1>2, <1>4, <1>5, <1>6, ActorsAre DEF IInv, CallsOfOwner, Positions, Outside, Active, Starts, Stops
<1>12. \A c \in Actors : InStop(c)' => c # a /\ InStop(c) /\ frame'[c].state = frame[c].state
  BY <1>4, <1>5 DEF InStop
<1>13. \A s \in Streams : Reading(s)' <=> Reading(s)
  BY <1>2 DEF Reading
<1>14. Locks'
  BY <1>2, <1>12, <1>13 DEF IInv, Locks
<1> QED BY <1>3, <1>7, <1>8, <1>9, <1>10, <1>11, <1>14 DEF IInv

LEMMA DestroyKeeps ==
  ASSUME IInv, NEW a \in Actors, Destroy(a)
  PROVE  IInv'
<1>1. frame[a] \in FrameType /\ frame[a].op = "destroy" /\ frame[a].pc = "destroy"
  BY DEF Destroy, At, IInv, TypeOK
<1>2. UNCHANGED <<backend, native, stream, worker>> /\ thread' = 0 /\ current' = 0 /\ alive' = FALSE
  BY DEF Destroy
<1> DEFINE f == NoCall("ok")
<1>3. f \in FrameType /\ f.op = "none" /\ f.pc = "none" /\ frame' = [frame EXCEPT ![a] = f]
  BY NoCallType DEF Destroy, Return
<1> HIDE DEF f
<1>4. /\ frame' \in [Actors -> FrameType] /\ frame'[a] = f
      /\ \A c \in Actors : c # a => frame'[c] = frame[c]
  BY <1>3, FrameMoves DEF IInv
<1>5. alive
  BY <1>1, StopperIsCurrent DEF Stops
<1>6. CASE a = Owner
  <2>1. current = 0
    BY <1>1, <1>6 DEF IInv, CallsOfOwner
  <2>2. \A s \in Streams : ~Active(s)
    BY <1>5, <2>1, ActorsAre DEF IInv, WorkersOrdered
  <2>3. \A c \in Actors : frame'[c].op = "none" /\ frame'[c].pc = "none"
    BY <1>3, <1>4, <1>6, <2>1, CallerIsCurrent, ActorsAre DEF Outside, IInv, Positions
  <2>4. TypeOK'
    BY <1>2, <1>4, ActorsAre DEF IInv, TypeOK
  <2>5. WorkersOrdered'
    BY <1>2, <2>2, <2>3, ActorsAre DEF WorkersOrdered, Active, Outside
  <2>6. Positions' /\ CallsOfWorkers' /\ CallsOfOwner'
    BY <2>3, ActorsAre DEF Positions, CallsOfWorkers, CallsOfOwner, Outside, Starts, Stops
  <2>7. Locks' /\ BackendOwned'
    BY <1>2, <2>3 DEF IInv, Locks, BackendOwned, InStop, Reading, Stops
  <2> QED BY <2>4, <2>5, <2>6, <2>7 DEF IInv
<1>7. CASE a \in Streams
  <2>1. Outside(Owner) /\ stream[a].stop
    BY <1>1, <1>7 DEF IInv, CallsOfWorkers, Stops
  <2>2. Active(a) /\ InUserCode(a) /\ current = a
    BY <1>1, <1>7, CallerIsCurrent DEF Outside
  <2>3. \A c \in Actors : frame'[c].op = "none" /\ frame'[c].pc = "none"
    <3>1. \A c \in Streams : c # a => Outside(c)
      BY <2>2, CallerIsCurrent
    <3> QED BY <1>3, <1>4, <2>1, <3>1, ActorsAre DEF Outside, IInv, Positions
  <2>4. TypeOK'
    BY <1>2, <1>4, ActorsAre DEF IInv, TypeOK
  <2>5. WorkersOrdered'
    BY <1>2, <1>7, <2>1, <2>2, <2>3, ActorsAre DEF IInv, WorkersOrdered, Active, Running, InUserCode, Outside
  <2>6. Positions' /\ CallsOfWorkers' /\ CallsOfOwner'
    BY <2>3, ActorsAre DEF Positions, CallsOfWorkers, CallsOfOwner, Outside, Starts, Stops
  <2>7. Locks' /\ BackendOwned'
    BY <1>2, <2>3 DEF IInv, Locks, BackendOwned, InStop, Reading, Stops
  <2> QED BY <2>4, <2>5, <2>6, <2>7 DEF IInv
<1> QED BY <1>6, <1>7, ActorsAre

-----------------------------------------------------------------------------
LEMMA CallStepKeeps ==
  ASSUME IInv, NEW a \in Actors, CallStep(a)
  PROVE  IInv'
  BY ReturnKeeps, PrepareKeeps, StreamSucceedsKeeps, LaunchKeeps, LaunchFailsKeeps, PublishKeeps,
     StopFlagKeeps, StopLockKeeps, StopNativeKeeps, ReapDeferredKeeps, ReapKeeps, ReleaseKeeps, DestroyKeeps
     DEF CallStep

LEMMA StepKeeps == IInv /\ [Next]_vars => IInv'
<1> SUFFICES ASSUME IInv, [Next]_vars PROVE IInv'
  OBVIOUS
<1>1. CASE UNCHANGED vars
  BY <1>1 DEF vars, IInv, TypeOK, Positions, CallsOfWorkers, WorkersOrdered, CallsOfOwner, Locks, BackendOwned,
              InStop, Outside, InUserCode, Active, Running, Reading, At
<1>2. CASE \E a \in Actors : (\E op \in Calls : Begin(a, op)) \/ Open(a) \/ ReadBegin(a) \/ CallStep(a)
  BY <1>2, BeginKeeps, OpenKeeps, ReadBeginKeeps, CallStepKeeps
<1>3. CASE \E s \in Streams : WorkerStep(s)
  BY <1>3, WorkerStepKeeps
<1> QED BY <1>1, <1>2, <1>3 DEF Next, Finished

\* Every step of a session keeps the inductive invariant (Camera.cpp).
THEOREM Invariance == Spec => []IInv
  BY InitHolds, StepKeeps, PTL DEF Spec

\* The session has one worker at a time, the one whose handle it holds, and no
\* other handle is there to overwrite when a new one is published
\* (reapCallbackThread and startCallback, Camera.cpp).
THEOREM OneWorkerAlways == Spec => []OneWorker
<1>1. IInv => OneWorker
  BY ActorsAre DEF IInv, OneWorker, WorkersOrdered, CallsOfOwner, CallsOfWorkers, Running, Active, At, Starts
<1> QED BY <1>1, Invariance, PTL

\* The reads of the worker never meet a native start, stop or read of another
\* actor, and two actors never start or stop the backend at once (the backend
\* mutex of CallbackState, Camera.cpp).
THEOREM NativeSerializedAlways == Spec => []NativeSerialized
<1>1. ASSUME IInv, NEW s \in Streams, NEW a \in Actors, Reading(s), frame[a].pc = "native" PROVE FALSE
  <2>1. Active(s) /\ worker[s].pc \notin {"callback", "drop"}
    BY <1>1 DEF Reading, Active
  <2>2. frame[a] \in FrameType /\ frame[a].op \in {"read"} \cup Starts \cup Stops
    BY <1>1 DEF IInv, TypeOK, FrameType, Positions, Calls, Starts, Stops
  <2>3. CASE frame[a].op = "read"
    BY <1>1, <2>1, <2>3, ActorsAre DEF IInv, CallsOfOwner, CallsOfWorkers
  <2>4. CASE frame[a].op \in Starts
    BY <1>1, <2>1, <2>4, StarterIsOwner DEF IInv, CallsOfOwner
  <2>5. CASE frame[a].op \in Stops
    BY <1>1, <2>1, <2>5, StopperIsCurrent DEF IInv, WorkersOrdered, Locks, InStop
  <2> QED BY <2>2, <2>3, <2>4, <2>5
<1>2. ASSUME IInv, NEW a \in Actors, NEW b \in Actors,
             At(a, Stops \cup Starts, "native"), At(b, Stops \cup Starts, "native") PROVE a = b
  <2>1. CASE frame[a].op \in Starts
    BY <1>2, <2>1, StarterIsOwner, CallerIsCurrent, ActorsAre DEF At, Outside, Starts, Stops, IInv, CallsOfOwner
  <2>2. CASE frame[b].op \in Starts
    BY <1>2, <2>2, StarterIsOwner, CallerIsCurrent, ActorsAre DEF At, Outside, Starts, Stops, IInv, CallsOfOwner
  <2>3. CASE frame[a].op \in Stops /\ frame[b].op \in Stops
    BY <1>2, <2>3, StopperIsCurrent DEF At, IInv, Locks, InStop
  <2> QED BY <1>2, <2>1, <2>2, <2>3 DEF At
<1>3. IInv => NativeSerialized
  BY <1>1, <1>2 DEF NativeSerialized
<1> QED BY <1>3, Invariance, PTL

\* A worker that outlives its session is about to end, no thread is inside a
\* destroyed session, and no native object stays open when the session lets go
\* of it (close() and ~Impl(), Camera.cpp).
THEOREM LifetimesAlways == Spec => []Lifetimes
<1>1. IInv => Lifetimes
  BY CallerIsCurrent, ActorsAre
     DEF IInv, Lifetimes, NoUseAfterDestroy, BackendOwned, WorkersOrdered, Active, Running
<1> QED BY <1>1, Invariance, PTL

-----------------------------------------------------------------------------
\* Whose frame a step changes.
CallOf(a) == (\E op \in Calls : Begin(a, op)) \/ Open(a) \/ ReadBegin(a) \/ CallStep(a)

LEMMA OthersStay ==
  ASSUME TypeOK, NEW a \in Actors, NEW b \in Actors, b # a, CallOf(a)
  PROVE  frame'[b] = frame[b]
<1>1. CASE (\E op \in Calls : Begin(a, op)) \/ Open(a) \/ ReadBegin(a) \/ ReadEnd(a)
  BY <1>1 DEF TypeOK, Begin, Open, ReadBegin, ReadEnd, GoTo, Return
<1>2. CASE PrepareStart(a) \/ PrepareBackend(a) \/ StartFails(a) \/ StartSucceeds(a) \/ StreamSucceeds(a)
  BY <1>2 DEF TypeOK, PrepareStart, PrepareBackend, StartFails, StartSucceeds, StreamSucceeds, GoTo, Return
<1>3. CASE Launch(a) \/ LaunchFails(a) \/ Publish(a) \/ StopFlag(a) \/ StopLock(a) \/ StopNative(a)
  BY <1>3 DEF TypeOK, Launch, LaunchFails, Publish, StopFlag, StopLock, StopNative, GoTo, Return
<1>4. CASE ReapDeferred(a) \/ Reap(a) \/ Release(a) \/ Destroy(a)
  BY <1>4 DEF TypeOK, ReapDeferred, Reap, Release, Destroy, LeaveToOwner, AfterReap, GoTo, Return
<1> QED BY <1>1, <1>2, <1>3, <1>4 DEF CallOf, CallStep

LEMMA WorkersCallNothing ==
  ASSUME NEW s \in Streams, WorkerStep(s)
  PROVE  frame' = frame
  BY DEF WorkerStep, WorkerStart, WorkerLoop, WorkerLock, WorkerRead, WorkerDeliver, CallbackReturns, WorkerEnds,
         WorkerExit, WorkerGoTo

\* A return, and its outcome.
LEMMA Returned ==
  ASSUME TypeOK, NEW a \in Actors, NEW out \in {"none", "ok", "failed", "threw"}, Return(a, out)
  PROVE  frame'[a].op = "none" /\ frame'[a].out = out
  BY FrameMoves, NoCallType DEF Return

\* A call goes on.
LEMMA Continued ==
  ASSUME TypeOK, NEW a \in Actors,
         NEW pc \in {"none", "begin", "native", "reap", "prepared", "launch", "publish", "lock", "release", "destroy"},
         GoTo(a, pc)
  PROVE  frame'[a].op = frame[a].op
  BY DEF GoTo, TypeOK, FrameType

\* When the owner's stop(), close() or destructor returns, no worker is left and
\* none will be: it has joined the one there was (reapCallbackThread, Camera.cpp).
THEOREM QuietAfterStopAlways == Spec => QuietAfterStop
<1> DEFINE Ends  == frame[Owner].op \in Stops /\ frame'[Owner].op = "none"
           Quiet == /\ \A s \in Streams : worker'[s].pc \in {"none", "exited"}
                    /\ thread' = 0 /\ current' = 0
<1>1. ASSUME IInv, CallOf(Owner), Ends PROVE Quiet
  <2>1. frame[Owner] \in FrameType /\ TypeOK /\ Owner \in Actors
    BY <1>1, ActorsAre DEF IInv, TypeOK
  <2>2. CASE Reap(Owner)
    BY <1>1, <2>1, <2>2, ReaperIsOwner DEF Reap, Active
  <2>3. CASE Release(Owner) \/ Destroy(Owner)
    <3>1. alive /\ thread = 0 /\ current = 0
      BY <1>1, <2>1, <2>3, StopperIsCurrent DEF Release, Destroy, At, IInv, CallsOfOwner
    <3>2. \A s \in Streams : ~Active(s)
      BY <1>1, <3>1, ActorsAre DEF IInv, WorkersOrdered
    <3> QED BY <2>3, <3>1, <3>2 DEF Release, Destroy, Active
  <2>4. CASE StopFlag(Owner) \/ StopLock(Owner) \/ StopNative(Owner)
    <3>1. frame'[Owner].op = frame[Owner].op
      <4>1. CASE frame' = [frame EXCEPT ![Owner] = [@ EXCEPT !.pc = "lock", !.state = current]]
        <5> DEFINE g == [frame[Owner] EXCEPT !.pc = "lock", !.state = current]
        <5>1. g.op = frame[Owner].op /\ frame' = [frame EXCEPT ![Owner] = g]
          BY <2>1, <4>1 DEF FrameType
        <5> HIDE DEF g
        <5> QED BY <2>1, <5>1 DEF TypeOK
      <4>2. ASSUME NEW out, frame' = [frame EXCEPT ![Owner] = [@ EXCEPT !.pc = "reap", !.out = out]]
            PROVE  frame'[Owner].op = frame[Owner].op
        <5> DEFINE g == [frame[Owner] EXCEPT !.pc = "reap", !.out = out]
        <5>1. g.op = frame[Owner].op /\ frame' = [frame EXCEPT ![Owner] = g]
          BY <2>1, <4>2 DEF FrameType
        <5> HIDE DEF g
        <5> QED BY <2>1, <5>1 DEF TypeOK
      <4>3. CASE GoTo(Owner, "native")
        BY <2>1, <4>3, Continued
      <4> QED BY <2>4, <4>1, <4>2, <4>3 DEF StopFlag, StopLock, StopNative
    <3> QED BY <1>1, <3>1 DEF Stops
  <2> QED BY <1>1, <2>2, <2>3, <2>4, ActorsAre
          DEF CallOf, CallStep, Begin, Open, ReadBegin, ReadEnd, PrepareStart, PrepareBackend, StartFails, StartSucceeds,
              StreamSucceeds, Launch, LaunchFails, Publish, ReapDeferred, IsCallbackThread, At, Outside, Starts, Stops
<1>2. ASSUME IInv, [Next]_vars, Ends PROVE Quiet
  <2>1. frame'[Owner] # frame[Owner]
    BY <1>2 DEF Stops
  <2>2. PICK a \in Actors : CallOf(a)
    BY <1>2, <2>1, WorkersCallNothing DEF Next, Finished, vars, CallOf
  <2>3. a = Owner
    BY <1>2, <2>1, <2>2, OthersStay, ActorsAre DEF IInv
  <2> QED BY <1>1, <1>2, <2>2, <2>3
<1>3. IInv /\ [Next]_vars =>
        [frame[Owner].op \in Stops /\ frame'[Owner].op = "none"
           => /\ \A s \in Streams : worker'[s].pc \in {"none", "exited"}
              /\ thread' = 0 /\ current' = 0]_vars
  BY <1>2
<1> QED BY <1>3, Invariance, PTL DEF Spec, QuietAfterStop

\* A start that throws leaves no stream, no CallbackState and no thread behind
\* (startBackend and startCallback, Camera.cpp).
THEOREM ThrowRollsBackAlways == Spec => ThrowRollsBack
<1> DEFINE Throws(a) == frame[a].op \in Starts /\ frame'[a].op = "none" /\ frame'[a].out = "threw"
           Clean     == ~IsStreaming' /\ current' = 0 /\ thread' = 0
<1>1. ASSUME IInv, NEW a \in Actors, CallOf(a), Throws(a) PROVE Clean
  <2>1. TypeOK /\ frame[a] \in FrameType /\ backend \in {0} \cup Backends /\ 0 \notin Backends
    BY <1>1, BoundsAssumption DEF IInv, TypeOK, Backends
  <2>2. CASE StartFails(a)
    <3>1. a = Owner /\ thread = 0 /\ current = 0 /\ backend \in Backends
      BY <1>1, <2>2, StarterIsOwner DEF StartFails, At, IInv, CallsOfOwner
    <3>2. SetNative(backend, "closed")
      BY <1>1, <2>1, <2>2, Returned DEF StartFails
    <3>3. native'[backend] = "closed" /\ UNCHANGED <<backend, current, thread>>
      BY <2>1, <2>2, <3>1, <3>2 DEF StartFails, SetNative, TypeOK
    <3> QED BY <3>1, <3>3 DEF IsStreaming, NativeIs, NativeState
  <2>3. CASE LaunchFails(a)
    <3>1. thread' = 0 /\ current' = 0 /\ backend' = backend
      BY <1>1, <2>3, StarterIsOwner DEF LaunchFails, At, Starts
    <3>2. backend # 0 => native'[backend] # "streaming"
      BY <2>1, <2>3 DEF LaunchFails, Rollback, NativeCall, SetNative, After, Success, NativeState, TypeOK
    <3> QED BY <3>1, <3>2 DEF IsStreaming, NativeIs, NativeState
  <2>4. CASE PrepareStart(a) \/ PrepareBackend(a) \/ StartSucceeds(a) \/ StreamSucceeds(a) \/ Launch(a) \/ Publish(a)
    <3>1. frame'[a].op = frame[a].op \/ frame'[a].out # "threw"
      BY <2>1, <2>4, Returned, Continued
         DEF PrepareStart, PrepareBackend, StartSucceeds, StreamSucceeds, Launch, Publish
    <3> QED BY <1>1, <3>1 DEF Starts
  <2>5. CASE ReapDeferred(a) \/ Reap(a)
    <3>1. frame'[a].op = frame[a].op \/ frame'[a].out # "threw"
      BY <1>1, <2>1, <2>5, Returned, Continued DEF ReapDeferred, Reap, LeaveToOwner, AfterReap, Starts
    <3> QED BY <1>1, <3>1 DEF Starts
  <2> QED BY <1>1, <2>2, <2>3, <2>4, <2>5
          DEF CallOf, CallStep, Begin, Open, ReadBegin, ReadEnd, StopFlag, StopLock, StopNative, Release, Destroy,
              At, Outside, Starts, Stops
<1>2. ASSUME IInv, [Next]_vars, NEW a \in Actors, Throws(a) PROVE Clean
  <2>1. frame'[a] # frame[a]
    BY <1>2 DEF Starts
  <2>2. PICK b \in Actors : CallOf(b)
    BY <1>2, <2>1, WorkersCallNothing DEF Next, Finished, vars, CallOf
  <2>3. a = b
    BY <1>2, <2>1, <2>2, OthersStay DEF IInv
  <2> QED BY <1>1, <1>2, <2>2, <2>3
<1>3. IInv /\ [Next]_vars =>
        [\A a \in Actors :
           frame[a].op \in Starts /\ frame'[a].op = "none" /\ frame'[a].out = "threw"
             => ~IsStreaming' /\ current' = 0 /\ thread' = 0]_vars
  BY <1>2
<1> QED BY <1>3, Invariance, PTL DEF Spec, ThrowRollsBack
=============================================================================
