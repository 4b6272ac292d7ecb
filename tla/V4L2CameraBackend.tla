------------------------- MODULE V4L2CameraBackend -------------------------
(***************************************************************************)
(* The Linux camera adapter                                                *)
(* (platform/tmr/linux/camera/V4L2CameraBackend.cpp): who owns each mapped *)
(* buffer, the driver or a read, through starts, reads, stops and closes   *)
(* of which any native call may fail.                                      *)
(*                                                                         *)
(* One step is one native call with its outcome.  One call runs at a time: *)
(* CameraSession serializes them (CameraSession!NativeSerialized).  The    *)
(* control calls keep no state and are left out.                           *)
(*                                                                         *)
(* The driver is external.  It takes a buffer it does not hold, hands back *)
(* one it holds, and releases all of them at STREAMOFF and at close; any   *)
(* call may fail, and a failing dequeue may still consume a buffer.        *)
(***************************************************************************)
EXTENDS Integers, FiniteSets, FiniteSetsExt, CameraAdapter

CONSTANTS
  MaxBuffers,  \* the driver grants at most this many buffers
  MaxTimeout,  \* bound on the timeout of a read, in ticks of the clock
  IntMax       \* the largest int: what one poll() can wait

VARIABLES
  fd,         \* m_descriptor is open
  dirty,      \* m_queue_dirty
  count,      \* m_buffers.size()
  mapped,     \* the buffers whose address is not MAP_FAILED
  driver,     \* whether the driver streams, and the buffers it holds
  lease,      \* the DequeuedBuffer of a read
  left,       \* ticks until the deadline of the read
  expiry      \* poll() returns when left is down to this

vars == <<fd, streaming, dirty, count, mapped, driver, lease, call, left, expiry>>
adapter == <<fd, streaming, dirty, count, mapped>>
clock == <<left, expiry>>

Indices == 0..(MaxBuffers - 1)
NoLease == [index |-> 0, active |-> FALSE]
Stopped == [on |-> FALSE, queued |-> {}]
Forever == -1

\* What isOpen() and isStreaming() show.
State == IF ~fd THEN "closed" ELSE IF streaming THEN "streaming" ELSE "open"

Init ==
  /\ fd = FALSE /\ streaming = FALSE /\ dirty = FALSE
  /\ count = 0 /\ mapped = {}
  /\ driver = Stopped
  /\ lease = NoLease
  /\ call = Idle("none")
  /\ left = 0 /\ expiry = 0

CloseAndReturn(out) == Fail(out, "close")

Begin(op) ==
  /\ Quiet
  /\ Enter(op, IF op = "close" THEN "close" ELSE "begin", State)
  /\ IF op = "read" THEN left' \in 0..MaxTimeout ELSE UNCHANGED left
  /\ UNCHANGED <<adapter, driver, lease, expiry>>

-----------------------------------------------------------------------------
(***************************************************************************)
(* resetQueue(): STREAMOFF returns every buffer, also those of a queue     *)
(* that was never started.                                                 *)
(***************************************************************************)
ResetSucceeds ==
  /\ driver' = IF dirty THEN Stopped ELSE driver
  /\ dirty' = FALSE
  /\ streaming' = (streaming /\ ~dirty)

ResetFails == dirty /\ UNCHANGED <<driver, dirty, streaming>>

(***************************************************************************)
(* close() goes on whatever fails: STREAMOFF, the descriptor, the maps.    *)
(***************************************************************************)

CloseReset ==
  /\ call.pc = "close"
  /\ ResetSucceeds \/ ResetFails
  /\ GoTo("native")
  /\ UNCHANGED <<fd, count, mapped, lease, clock>>

CloseNative ==
  /\ call.pc = "native"
  /\ driver' = IF fd THEN Stopped ELSE driver
  /\ fd' = FALSE /\ streaming' = FALSE /\ dirty' = FALSE
  /\ GoTo("unmap")
  /\ UNCHANGED <<count, mapped, lease, clock>>

Unmap ==
  /\ call.pc = "unmap"
  /\ mapped' = {} /\ count' = 0
  /\ Return(call.out)
  /\ UNCHANGED <<fd, streaming, dirty, driver, lease, clock>>

-----------------------------------------------------------------------------
(***************************************************************************)
(* open(): what fails or throws once the device is open closes it again.   *)
(***************************************************************************)
OpenDevice ==
  /\ At("open", "begin")
  /\ \/ Return("failed") /\ UNCHANGED fd
     \/ ~fd /\ fd' = TRUE /\ GoTo("configure")
  /\ UNCHANGED <<streaming, dirty, count, mapped, driver, lease, clock>>

OpenRollback(out) == CloseAndReturn(out)

OpenFails ==
  /\ At("open", "configure") \/ (At("open", "map") /\ call.i < count)
  /\ \E out \in {"failed", "threw"} : OpenRollback(out)
  /\ UNCHANGED <<adapter, driver, lease, clock>>

\* The capability, format and frame-rate calls, and the buffers granted.
OpenConfigure ==
  /\ At("open", "configure")
  /\ count' \in 2..MaxBuffers
  /\ GoTo("map")
  /\ UNCHANGED <<fd, streaming, dirty, mapped, driver, lease, clock>>

MapBuffer ==
  /\ At("open", "map")
  /\ IF call.i < count
     THEN mapped' = mapped \cup {call.i} /\ call' = [call EXCEPT !.i = @ + 1]
     ELSE Return("ok") /\ UNCHANGED mapped
  /\ UNCHANGED <<fd, streaming, dirty, count, driver, lease, clock>>

-----------------------------------------------------------------------------
(***************************************************************************)
(* start(): every buffer goes to the driver, and only then STREAMON.       *)
(***************************************************************************)
StartBegin ==
  /\ At("start", "begin")
  /\ IF fd /\ ~streaming THEN dirty' = TRUE /\ GoTo("queue")
     ELSE Return("failed") /\ UNCHANGED dirty
  /\ UNCHANGED <<fd, streaming, count, mapped, driver, lease, clock>>

\* VIDIOC_QBUF succeeds only for a buffer the driver does not hold.
Queue(i) == i \notin driver.queued /\ driver' = [driver EXCEPT !.queued = @ \cup {i}]

StartQueue ==
  /\ At("start", "queue")
  /\ call.i < count
  /\ Queue(call.i)
  /\ call' = [call EXCEPT !.i = @ + 1]
  /\ UNCHANGED <<adapter, lease, clock>>

StreamOn ==
  /\ At("start", "queue")
  /\ call.i = count
  /\ driver' = [driver EXCEPT !.on = TRUE]
  /\ streaming' = TRUE
  /\ Return("ok")
  /\ UNCHANGED <<fd, dirty, count, mapped, lease, clock>>

\* failStart(), after a QBUF or the STREAMON that failed.
FailStart ==
  \/ ResetSucceeds /\ Return("failed")
  \/ ResetFails /\ CloseAndReturn("failed")

StartFails ==
  /\ At("start", "queue")
  /\ FailStart
  /\ UNCHANGED <<fd, count, mapped, lease, clock>>

\* stop(): a queue that cannot be reset closes the device.
Stop ==
  /\ At("stop", "begin")
  /\ IF ~streaming THEN Return("ok") /\ UNCHANGED <<driver, dirty, streaming>>
     ELSE \/ ResetSucceeds /\ Return("ok")
          \/ ResetFails /\ CloseAndReturn("failed")
  /\ UNCHANGED <<fd, count, mapped, lease, clock>>

-----------------------------------------------------------------------------
(***************************************************************************)
(* readFrame(): the wait.                                                  *)
(***************************************************************************)
ReadBegin ==
  /\ At("read", "begin")
  /\ IF streaming THEN GoTo("deadline") ELSE Return("failed")
  /\ UNCHANGED <<adapter, driver, lease, clock>>

\* A cast to int, and what poll() is given: never a negative, endless wait.
ToInt(n) == IF n > IntMax THEN n - 2 * (IntMax + 1) ELSE n
Wait == ToInt(Min({left, IntMax}))

PollBegin ==
  /\ At("read", "deadline")
  /\ IF left = 0 THEN Return("timeout") /\ UNCHANGED expiry
     ELSE GoTo("poll") /\ expiry' = IF Wait < 0 THEN Forever ELSE left - Wait
  /\ UNCHANGED <<adapter, driver, lease, left>>

PollExpires ==
  /\ At("read", "poll")
  /\ left <= expiry
  /\ GoTo("deadline")
  /\ UNCHANGED <<adapter, driver, lease, clock>>

\* A signal, or an event other than POLLIN: the loop goes on.  POLLERR,
\* POLLHUP and POLLNVAL close; an error of poll() itself does not.
PollEvent ==
  /\ At("read", "poll")
  /\ \/ GoTo("deadline")
     \/ Return("failed")
     \/ CloseAndReturn("failed")
     \/ driver.queued # {} /\ IF left = 0 THEN Return("timeout") ELSE GoTo("dequeue")
  /\ UNCHANGED <<adapter, driver, lease, clock>>

Tick ==
  /\ call.op = "read" /\ left > 0
  /\ left' = left - 1
  /\ UNCHANGED <<adapter, driver, lease, call, expiry>>

-----------------------------------------------------------------------------
(***************************************************************************)
(* readFrame(): the buffer.                                                *)
(***************************************************************************)
\* The driver hands back i.  It may name another index, none that exists.
Consume(i) == driver' = [driver EXCEPT !.queued = @ \ {i}]

BadIndex(n) == n >= count

Dequeue ==
  /\ At("read", "dequeue")
  /\ \E i \in driver.queued : \E n \in {i, count} :
       /\ Consume(i)
       /\ IF BadIndex(n) THEN CloseAndReturn("failed") /\ UNCHANGED lease
          ELSE GoTo("leased") /\ lease' = [index |-> n, active |-> TRUE]
  /\ UNCHANGED <<adapter, clock>>

\* EINTR and EAGAIN retry; any other error may have consumed a buffer.
DequeueError == CloseAndReturn("failed")

DequeueFails ==
  /\ At("read", "dequeue")
  /\ \/ GoTo("deadline") /\ UNCHANGED driver
     \/ DequeueError /\ (UNCHANGED driver \/ \E i \in driver.queued : Consume(i))
  /\ UNCHANGED <<adapter, lease, clock>>

\* The payload is copied; it may be invalid, and the copy may throw.
Copy ==
  /\ At("read", "leased")
  /\ \/ GoTo("release")
     \/ \E out \in {"failed", "threw"} : Fail(out, "unwind")
  /\ UNCHANGED <<adapter, driver, lease, clock>>

\* release(), called for a good frame and again by the destructor.
Releases_Again == TRUE
Releases == lease.active

Release(pc) ==
  /\ At("read", pc)
  /\ IF Releases
     THEN /\ lease' = [lease EXCEPT !.active = FALSE]
          /\ \/ /\ Queue(lease.index)
                /\ IF pc = "release" THEN GoTo("unwind") ELSE Return(call.out)
             \/ /\ CloseAndReturn(IF pc = "release" THEN "failed" ELSE call.out)
                /\ UNCHANGED driver
     ELSE Return(call.out) /\ UNCHANGED <<driver, lease>>
  /\ UNCHANGED <<adapter, clock>>

-----------------------------------------------------------------------------
Step ==
  \/ CloseReset \/ CloseNative \/ Unmap
  \/ OpenDevice \/ OpenFails \/ OpenConfigure \/ MapBuffer
  \/ StartBegin \/ StartQueue \/ StreamOn \/ StartFails \/ Stop
  \/ ReadBegin \/ PollBegin \/ PollExpires \/ Dequeue \/ DequeueFails \/ Copy
  \/ Release("release") \/ Release("unwind")

Next == (\E op \in Operations : Begin(op)) \/ Step \/ PollEvent \/ Tick

Spec == Init /\ [][Next]_vars

\* Native calls other than poll() return, poll() returns when its wait is over,
\* and the clock goes on.  Nothing is assumed of the device.
FairSpec == Spec /\ WF_vars(Step) /\ WF_vars(Tick)

-----------------------------------------------------------------------------
(***************************************************************************)
(* Properties.                                                             *)
(***************************************************************************)
Opened == 0..(count - 1)

\* Type invariant.
TypeOK ==
  /\ fd \in BOOLEAN /\ streaming \in BOOLEAN /\ dirty \in BOOLEAN
  /\ count \in 0..MaxBuffers
  /\ mapped \subseteq Indices
  /\ driver \in [on : BOOLEAN, queued : SUBSET Indices]
  /\ lease \in [index : Indices, active : BOOLEAN]
  /\ call \in CallType({"close", "native", "unmap", "configure", "map", "queue", "deadline",
                        "poll", "dequeue", "leased", "release", "unwind"}, 0..MaxBuffers)
  /\ left \in 0..MaxTimeout
  /\ expiry \in 0..MaxTimeout

\* The buffer a read copies from is mapped and is not the driver's while the
\* read has it (V4L2CameraBackend.cpp:496: "a lease until QBUF succeeds"), and
\* the driver only holds mapped buffers (line 705: "Close the native owner
\* before unmapping").
BuffersOwned ==
  /\ lease.active => fd /\ lease.index \in mapped /\ lease.index \notin driver.queued
  /\ driver.queued \subseteq mapped

\* Between calls an adapter that is open has all its buffers mapped, and one
\* that is closed keeps nothing, whatever failed on the way.
WholeOrClosed ==
  Quiet => IF fd THEN count >= 2 /\ mapped = Opened
           ELSE mapped = {} /\ driver = Stopped /\ ~streaming /\ ~dirty

\* A stream that can be started again has an empty queue: QBUF of a buffer that
\* a failed start or stop left with the driver would fail for ever.
RestartClean == Quiet /\ State = "open" => driver = Stopped /\ ~dirty

\* A stream that runs has all its buffers: no read, timed out, failed or
\* thrown, keeps one (V4L2CameraBackend.cpp:833: a late return starves the queue).
StreamKeepsBuffers == Quiet /\ State = "streaming" => driver.on /\ driver.queued = Opened

BetweenCalls == WholeOrClosed /\ RestartClean /\ StreamKeepsBuffers

\* What CameraSession relies on: a call that succeeds reaches its state, and one
\* that fails leaves the former state or a closed adapter.
KeepsContract ==
  [][Returns => State' \in After(call.op, call.before, call'.out)]_vars

\* Every call returns, and a read by its deadline whatever the device does, also
\* when the timeout is longer than one poll() can wait.
CallsReturn == ~Quiet ~> Quiet
=============================================================================
