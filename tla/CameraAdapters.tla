--------------------------- MODULE CameraAdapters ---------------------------
(***************************************************************************)
(* The three adapters side by side: a session has one of them, which one   *)
(* depends on the platform and on the device it opens.  What they all      *)
(* promise is stated here once.                                            *)
(***************************************************************************)
EXTENDS CameraAdapter

CONSTANTS
  MaxBuffers, MaxTimeout, IntMax,  \* of the V4L2 adapter
  Buffers                          \* of the libcamera adapter

VARIABLES
  adapter,  \* which one this is
  fd, dirty, count, mapped, driver, lease, left, expiry,
  handle, disconnected, callback_failed, native_active, requests, held, stopped,
  opened, failed, direct, callback, reader, capture, late

V4L2      == INSTANCE V4L2CameraBackend
Libcamera == INSTANCE LibcameraCameraBackend
Windows   == INSTANCE MediaFoundationCameraBackend

Adapters == {"v4l2", "libcamera", "windows"}

v4l2      == <<fd, dirty, count, mapped, driver, lease, left, expiry>>
libcamera == <<handle, disconnected, callback_failed, native_active, requests, held, stopped>>
windows   == <<opened, failed, direct, callback, reader, capture, late>>
vars == <<adapter, streaming, call, v4l2, libcamera, windows>>

Init == adapter \in Adapters /\ V4L2!Init /\ Libcamera!Init /\ Windows!Init

\* A step of one adapter; there are no others.
OfV4L2(A)      == adapter = "v4l2" /\ A /\ UNCHANGED <<adapter, libcamera, windows>>
OfLibcamera(A) == adapter = "libcamera" /\ A /\ UNCHANGED <<adapter, v4l2, windows>>
OfWindows(A)   == adapter = "windows" /\ A /\ UNCHANGED <<adapter, v4l2, libcamera>>

Next == OfV4L2(V4L2!Next) \/ OfLibcamera(Libcamera!Next) \/ OfWindows(Windows!Next)

\* The fairness of each adapter: the thread of the call, and the time or the
\* pipeline it waits for.
Steps == OfV4L2(V4L2!Step) \/ OfLibcamera(Libcamera!Step) \/ OfWindows(Windows!Step)
Ticks ==
  \/ OfV4L2(V4L2!Tick)
  \/ OfLibcamera(Libcamera!Completion /\ ~disconnected)
  \/ OfWindows(Windows!DeadlinePasses)

-----------------------------------------------------------------------------
(***************************************************************************)
(* Properties.                                                             *)
(***************************************************************************)
State ==
  CASE adapter = "v4l2"      -> V4L2!State
    [] adapter = "libcamera" -> Libcamera!State
    [] adapter = "windows"   -> Windows!State

\* A frame buffer has one owner at a time, the native side or a read, and is
\* neither unmapped nor freed while the native side has it; a frame never
\* belongs to a stream that has ended.
FramesOwned ==
  /\ adapter = "v4l2" => V4L2!TypeOK /\ V4L2!BuffersOwned
  /\ adapter = "libcamera" => Libcamera!TypeOK /\ Libcamera!RequestsOwned
  /\ adapter = "windows" => Windows!TypeOK /\ Windows!SamplesOwned

\* Between calls a closed adapter keeps nothing, an open one can be started
\* again, and a stream has lost no buffer, whatever failed, timed out, threw or
\* came late on the way.
BetweenCalls ==
  /\ adapter = "v4l2" => V4L2!BetweenCalls
  /\ adapter = "libcamera" => Libcamera!BetweenCalls
  /\ adapter = "windows" => Windows!BetweenCalls

\* What CameraSession relies on: a call that succeeds reaches its state, and one
\* that fails leaves a state that CameraBackend allows.
KeepsContract == [][Returns => State' \in After(call.op, call.before, call'.out)]_vars

\* Every call returns, but a close() of libcamera that waits for a pipeline that
\* never lets go (Libcamera!MayHang).
Busy == ~Quiet /\ ~(adapter = "libcamera" /\ Libcamera!MayHang)
=============================================================================
