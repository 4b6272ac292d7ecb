-------------------- MODULE MediaFoundationCameraBackend --------------------
(***************************************************************************)
(* The Windows adapter (platform/tmr/win/camera/                           *)
(* MediaFoundationCameraBackend.cpp, MediaFoundationReadState.h and        *)
(* DirectShowRawCapture.cpp).  An open camera takes one of two paths: a    *)
(* source reader, which answers one sample request at a time from a thread *)
(* of its own, or a DirectShow graph, which pushes frames.                 *)
(*                                                                         *)
(* The callbacks run between any two steps of the call in progress; calls  *)
(* are serialized by CameraSession and made by one thread (CameraOwner-    *)
(* Thread).  Formats, controls and the copy of a frame are left out.       *)
(*                                                                         *)
(* The reader is external.  A flush ends with OnFlush, at any time or      *)
(* never, and until then a request may still be answered; with it the      *)
(* request is gone (TmrCamera.md:446).  What a released reader still       *)
(* delivers reaches a closed state and changes nothing.                    *)
(***************************************************************************)
EXTENDS CameraAdapter

VARIABLES
  opened,     \* m_open
  failed,     \* m_reader_failed
  direct,     \* m_native_capture is set
  callback,   \* the MediaFoundationReadState of m_callback
  reader,     \* the source reader: the request it owes an answer, and a flush
  capture,    \* the SampleState of m_native_capture, and whether its graph runs
  late        \* the deadline of the read in progress has passed

vars == <<opened, streaming, failed, direct, callback, reader, capture, late, call>>
camera == <<opened, failed, direct, late>>

\* A request belongs to the present stream or to one that has ended.
Ages == {"none", "current", "stale"}
Aged(age) == IF age = "none" THEN "none" ELSE "stale"

NoCallback == [accepting |-> FALSE, flushing |-> FALSE, closed |-> FALSE, inflight |-> FALSE,
               sample |-> "none", age |-> "none"]
NoReader   == [request |-> "none", flush |-> FALSE]
NoCapture  == [active |-> FALSE, latest |-> FALSE, failure |-> FALSE, graph |-> FALSE]

\* What isOpen() and isStreaming() show.
State == IF ~opened THEN "closed" ELSE IF streaming THEN "streaming" ELSE "open"

Init ==
  /\ opened = FALSE /\ streaming = FALSE /\ failed = FALSE /\ direct = FALSE
  /\ callback = NoCallback
  /\ reader = NoReader
  /\ capture = NoCapture
  /\ late = FALSE
  /\ call = Idle("none")

Begin(op) ==
  /\ Quiet
  /\ Enter(op, "begin", State)
  /\ late' = FALSE
  /\ UNCHANGED <<opened, failed, direct, streaming, callback, reader, capture>>

-----------------------------------------------------------------------------
(***************************************************************************)
(* open(): what fails is closed again before it is open.                   *)
(***************************************************************************)
Open ==
  /\ At("open", "begin")
  /\ \/ (\E out \in {"failed", "threw"} : Return(out)) /\ UNCHANGED <<opened, direct>>
     \/ ~opened /\ opened' = TRUE /\ direct' \in BOOLEAN /\ Return("ok")
  /\ UNCHANGED <<streaming, failed, late, callback, reader, capture>>

(***************************************************************************)
(* start(): a failed reader is not used again.                             *)
(***************************************************************************)
MayStart == opened /\ ~failed /\ ~streaming

\* MediaFoundationReadState::reset().
Reset ==
  IF callback.closed \/ callback.flushing THEN callback
  ELSE [NoCallback EXCEPT !.accepting = TRUE]

Start ==
  /\ At("start", "begin")
  /\ CASE ~MayStart -> Return("failed") /\ UNCHANGED <<streaming, callback, capture>>
       [] MayStart /\ direct ->
            /\ capture' = [capture EXCEPT !.active = TRUE, !.latest = FALSE, !.failure = FALSE]
            /\ GoTo("run")
            /\ UNCHANGED <<streaming, callback>>
       [] MayStart /\ ~direct ->
            callback' = Reset /\ streaming' = TRUE /\ Return("ok") /\ UNCHANGED capture
  /\ UNCHANGED <<camera, reader>>

\* IMediaControl::Run().
Run ==
  /\ At("start", "run")
  /\ \/ capture' = [capture EXCEPT !.graph = TRUE] /\ streaming' = TRUE /\ Return("ok")
     \/ /\ capture' = [capture EXCEPT !.active = FALSE, !.latest = FALSE]
        /\ Fail("failed", "halt")
        /\ UNCHANGED streaming
  /\ UNCHANGED <<camera, callback, reader>>

-----------------------------------------------------------------------------
(***************************************************************************)
(* stop(), and close(), which begins with it.                              *)
(***************************************************************************)
Stopping(pc) == call.op \in {"stop", "close"} /\ call.pc = pc
AfterStop(out) == IF call.op = "close" THEN GoTo("release") ELSE Return(out)

StopIdle ==
  /\ Stopping("begin")
  /\ ~streaming
  /\ call.op = "stop" => ~direct
  /\ AfterStop("ok")
  /\ UNCHANGED <<camera, streaming, callback, reader, capture>>

StopCapture ==
  /\ Stopping("begin")
  /\ direct /\ (call.op = "stop" \/ streaming)
  /\ streaming' = FALSE
  /\ capture' = [capture EXCEPT !.active = FALSE, !.latest = FALSE]
  /\ GoTo("halt")
  /\ UNCHANGED <<camera, callback, reader>>

\* IMediaControl::Stop(), whose result a failed start ignores.
Halt ==
  /\ call.pc = "halt"
  /\ \/ /\ capture' = [capture EXCEPT !.graph = FALSE]
        /\ IF call.op = "start" THEN Return(call.out) ELSE AfterStop("ok")
     \/ /\ UNCHANGED capture
        /\ IF call.op = "start" THEN Return(call.out) ELSE AfterStop("failed")
  /\ UNCHANGED <<camera, streaming, callback, reader>>

\* beginFlush(): the gate is shut before the native flush.
Gate == FALSE

StopReader ==
  /\ Stopping("begin")
  /\ ~direct /\ streaming
  /\ streaming' = FALSE
  /\ reader' = [reader EXCEPT !.request = Aged(@)]
  /\ IF callback.closed
     THEN failed' = TRUE /\ AfterStop("failed") /\ UNCHANGED callback
     ELSE /\ callback' = [callback EXCEPT !.accepting = Gate, !.sample = "none", !.age = "none",
                                          !.flushing = TRUE]
          /\ GoTo("flush")
          /\ UNCHANGED failed
  /\ UNCHANGED <<opened, direct, late, capture>>

Closed == [callback EXCEPT !.closed = TRUE, !.accepting = FALSE, !.sample = "none", !.age = "none"]

FlushFails ==
  /\ Stopping("flush")
  /\ callback' = Closed
  /\ failed' = TRUE
  /\ AfterStop("failed")
  /\ UNCHANGED <<opened, direct, late, streaming, reader, capture>>

FlushBegins ==
  /\ Stopping("flush")
  /\ reader' = [reader EXCEPT !.flush = TRUE]
  /\ GoTo("flushing")
  /\ UNCHANGED <<camera, streaming, callback, capture>>

\* waitFlushed().
FlushEnds_AtOnce == TRUE
FlushEnds == ~callback.flushing

Flushed ==
  /\ Stopping("flushing")
  /\ FlushEnds
  /\ AfterStop("ok")
  /\ UNCHANGED <<camera, streaming, callback, reader, capture>>

FlushTimesOut ==
  /\ Stopping("flushing")
  /\ callback.flushing
  /\ GoTo("giveup")
  /\ UNCHANGED <<camera, streaming, callback, reader, capture>>

\* The state closes after the wait gave up: OnFlush may come in between.
GiveUp ==
  /\ Stopping("giveup")
  /\ callback' = Closed
  /\ failed' = TRUE
  /\ AfterStop("failed")
  /\ UNCHANGED <<opened, direct, late, streaming, reader, capture>>

Release ==
  /\ At("close", "release")
  /\ opened' = FALSE /\ streaming' = FALSE /\ failed' = FALSE /\ direct' = FALSE
  /\ callback' = NoCallback /\ reader' = NoReader /\ capture' = NoCapture
  /\ Return("ok")
  /\ UNCHANGED late

-----------------------------------------------------------------------------
(***************************************************************************)
(* readFrame() of the source reader.                                       *)
(***************************************************************************)
ReadBegin ==
  /\ At("read", "begin")
  /\ CASE direct -> GoTo("grab")
       [] ~direct /\ streaming -> GoTo("loop")
       [] ~direct /\ ~streaming -> Return("failed")
  /\ UNCHANGED <<camera, streaming, callback, reader, capture>>

\* "One request at a time": a read that timed out left one behind.
Unrequested == callback.sample = "none" /\ ~callback.inflight

ReadLoop ==
  /\ At("read", "loop")
  /\ IF Unrequested THEN callback' = [callback EXCEPT !.inflight = TRUE] /\ GoTo("request")
     ELSE GoTo("wait") /\ UNCHANGED callback
  /\ UNCHANGED <<camera, streaming, reader, capture>>

\* IMFSourceReader::ReadSample().
RequestSample ==
  /\ At("read", "request")
  /\ reader' = [reader EXCEPT !.request = "current"]
  /\ GoTo("wait")
  /\ UNCHANGED <<camera, streaming, callback, capture>>

ReaderFails == failed' = TRUE /\ streaming' = FALSE /\ Return("failed")

RequestFails ==
  /\ At("read", "request")
  /\ callback' = [callback EXCEPT !.inflight = FALSE]
  /\ ReaderFails
  /\ UNCHANGED <<opened, direct, late, reader, capture>>

DeadlinePasses ==
  /\ call.op = "read" /\ ~late
  /\ late' = TRUE
  /\ UNCHANGED <<opened, failed, direct, streaming, callback, reader, capture, call>>

ReadTimesOut ==
  /\ At("read", "wait")
  /\ late /\ callback.sample = "none"
  /\ Return("timeout")
  /\ UNCHANGED <<camera, streaming, callback, reader, capture>>

\* An error ends the stream, a stream tick does not end the read, and a frame
\* may be impossible to map.
ReadTakes ==
  /\ At("read", "wait")
  /\ callback.sample # "none"
  /\ callback' = [callback EXCEPT !.sample = "none", !.age = "none"]
  /\ CASE callback.sample = "error" -> ReaderFails
       [] callback.sample = "tick"  ->
            (IF late THEN Return("timeout") ELSE GoTo("loop")) /\ UNCHANGED <<failed, streaming>>
       [] callback.sample = "frame" ->
            (\E out \in {"ok", "failed", "threw"} : Return(out)) /\ UNCHANGED <<failed, streaming>>
  /\ UNCHANGED <<opened, direct, late, reader, capture>>

-----------------------------------------------------------------------------
(***************************************************************************)
(* readFrame() of the DirectShow graph.                                    *)
(***************************************************************************)
GrabEnds ==
  /\ At("read", "grab")
  /\ CASE ~capture.active \/ capture.failure -> Return("failed") /\ UNCHANGED capture
       [] capture.active /\ ~capture.failure /\ capture.latest ->
            /\ capture' = [capture EXCEPT !.latest = FALSE]
            /\ \E out \in {"ok", "failed", "threw"} : Return(out)
       [] OTHER -> late /\ Return("timeout") /\ UNCHANGED capture
  /\ UNCHANGED <<camera, streaming, callback, reader>>

\* An event of the graph says that the device is gone.
DeviceLost ==
  /\ At("read", "grab")
  /\ capture.active /\ ~capture.failure /\ ~capture.latest
  /\ capture' = [capture EXCEPT !.failure = TRUE]
  /\ UNCHANGED <<camera, streaming, callback, reader, call>>

-----------------------------------------------------------------------------
(***************************************************************************)
(* The threads of the reader and of the graph.                             *)
(***************************************************************************)
Accepts == callback.accepting /\ ~callback.closed

OnReadSample ==
  /\ reader.request # "none"
  /\ reader' = [reader EXCEPT !.request = "none"]
  /\ \E sample \in {"frame", "tick", "error"} :
       callback' = IF Accepts
                   THEN [callback EXCEPT !.sample = sample, !.age = reader.request, !.inflight = FALSE]
                   ELSE callback
  /\ UNCHANGED <<camera, streaming, capture, call>>

OnFlush ==
  /\ reader.flush
  /\ reader' = NoReader
  /\ callback' = IF callback.flushing /\ ~callback.closed
                 THEN [callback EXCEPT !.inflight = FALSE, !.flushing = FALSE]
                 ELSE callback
  /\ UNCHANGED <<camera, streaming, capture, call>>

BufferCB ==
  /\ capture.graph /\ capture.active
  /\ \/ capture' = [capture EXCEPT !.latest = TRUE]
     \/ capture' = [capture EXCEPT !.failure = TRUE]
  /\ UNCHANGED <<camera, streaming, callback, reader, call>>

-----------------------------------------------------------------------------
Step ==
  \/ Open \/ Start \/ Run
  \/ StopIdle \/ StopCapture \/ Halt
  \/ StopReader \/ FlushFails \/ FlushBegins \/ Flushed \/ FlushTimesOut \/ GiveUp \/ Release
  \/ ReadBegin \/ ReadLoop \/ RequestSample \/ RequestFails \/ ReadTimesOut \/ ReadTakes
  \/ GrabEnds

Next ==
  \/ \E op \in Operations : Begin(op)
  \/ Step \/ DeadlinePasses
  \/ OnReadSample \/ OnFlush \/ BufferCB \/ DeviceLost

Spec == Init /\ [][Next]_vars

\* Native calls return, and time goes on: nothing is assumed of the device.
FairSpec == Spec /\ WF_vars(Step) /\ WF_vars(DeadlinePasses)

-----------------------------------------------------------------------------
(***************************************************************************)
(* Properties.                                                             *)
(***************************************************************************)
\* Type invariant.
TypeOK ==
  /\ {opened, streaming, failed, direct, late} \subseteq BOOLEAN
  /\ callback \in [accepting : BOOLEAN, flushing : BOOLEAN, closed : BOOLEAN, inflight : BOOLEAN,
                   sample : {"none", "frame", "tick", "error"}, age : Ages]
  /\ reader \in [request : Ages, flush : BOOLEAN]
  /\ capture \in [active : BOOLEAN, latest : BOOLEAN, failure : BOOLEAN, graph : BOOLEAN]
  /\ call \in CallType({"run", "halt", "flush", "flushing", "giveup", "release", "loop", "request",
                        "wait", "grab"}, {0})

\* A stream never publishes a sample that an earlier one asked for, and never
\* asks for one while the reader owes another (MediaFoundationCameraBackend.cpp:942).
SamplesOwned ==
  /\ callback.sample # "none" => callback.age = "current" /\ streaming
  /\ At("read", "request") => reader.request = "none"
  /\ capture.latest => capture.active

\* Between calls a closed adapter keeps nothing; a camera that may be started
\* again owes nothing to an earlier stream, whatever flush came late or never;
\* and a stream waits for a sample exactly when the reader owes one, so that no
\* timed-out read starves the next.
BetweenCalls ==
  Quiet =>
    /\ State = "closed" => callback = NoCallback /\ reader = NoReader /\ capture = NoCapture
    /\ State = "open" /\ ~failed => reader = NoReader /\ ~callback.inflight /\ ~callback.flushing
    /\ State = "streaming" /\ ~direct =>
         /\ callback.accepting /\ ~callback.closed /\ ~callback.flushing /\ ~failed
         /\ callback.inflight = (reader.request # "none")
    /\ State = "streaming" /\ direct => capture.active /\ capture.graph

\* What CameraSession relies on.
KeepsContract ==
  [][Returns => State' \in After(call.op, call.before, call'.out)]_vars

\* Every call returns, also a stop that no OnFlush answers and a read that gets
\* nothing but stream ticks.
CallsReturn == ~Quiet ~> Quiet
=============================================================================
