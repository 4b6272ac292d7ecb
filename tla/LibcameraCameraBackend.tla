----------------------- MODULE LibcameraCameraBackend -----------------------
(***************************************************************************)
(* The libcamera adapter (platform/tmr/linux/camera/                       *)
(* LibcameraCameraBackend.cpp and LibcameraResources.h): who owns each     *)
(* request, the pipeline, the completed ring or a read, while the camera   *)
(* manager's thread completes them and any native call fails or throws.    *)
(*                                                                         *)
(* The caller takes m_mutex for what is one step here; the completion      *)
(* callbacks run between any two of its steps.  One call runs at a time:   *)
(* CameraSession serializes them (CameraSession!NativeSerialized).         *)
(* Formats, metadata and control values are left out.                      *)
(*                                                                         *)
(* The pipeline is external.  It holds the requests it accepted, and       *)
(* completes them in any order, the rest of them before a stop succeeds,   *)
(* and cancels them only as part of a stop (cpp:479).  A failed stop, or a *)
(* disconnected pipeline, "might still reference" them (cpp:616), for ever *)
(* in the second case.  That the signal of a disconnection is delivered    *)
(* before any stop succeeds because of it is an assumption.                *)
(***************************************************************************)
EXTENDS FiniteSets, Sequences, Functions, CameraAdapter

CONSTANT Buffers  \* the frame buffers, and so the requests, of a stream

VARIABLES
  handle,           \* m_handle is set
  disconnected,     \* m_disconnected
  callback_failed,  \* m_callback_failed
  native_active,    \* m_native_active
  requests,         \* m_requests: the owners, the pending ledger, the ready ring, the fault
  held,             \* the requests the pipeline holds
  stopped           \* Camera::stop() returned zero to the call in progress

vars == <<handle, streaming, disconnected, callback_failed, native_active, requests, held,
          stopped, call>>
flags == <<handle, disconnected, callback_failed, stopped>>

Indices == 0..(Buffers - 1)
NoRequests == [owners |-> {}, pending |-> {}, ready |-> <<>>, fault |-> FALSE]

\* What isOpen() and isStreaming() show.
State == IF ~handle THEN "closed" ELSE IF streaming THEN "streaming" ELSE "open"

Init ==
  /\ handle = FALSE /\ streaming = FALSE /\ disconnected = FALSE
  /\ callback_failed = FALSE /\ native_active = FALSE
  /\ requests = NoRequests
  /\ held = {}
  /\ stopped = FALSE
  /\ call = Idle("none")

\* A rollback, whose cleanup never replaces the first error.
Rollback(out) == Fail(out, "halt")

Begin(op) ==
  /\ Quiet
  /\ Enter(op, "begin", State)
  /\ UNCHANGED <<flags, streaming, native_active, requests, held>>

-----------------------------------------------------------------------------
(***************************************************************************)
(* stopNative(), the body of stop() and of every rollback.                 *)
(***************************************************************************)
Halt ==
  /\ call.pc = "halt"
  /\ streaming' = FALSE
  /\ stopped' = FALSE
  /\ GoTo("native")
  /\ UNCHANGED <<handle, disconnected, callback_failed, native_active, requests, held>>

\* Camera::stop() fails, throws, or succeeds: then every request has completed,
\* but those of a disconnected camera.  It is not called in vain.
StopSucceeds ==
  /\ call.pc = "native"
  /\ native_active => held = {} \/ disconnected
  /\ native_active' = FALSE
  /\ stopped' = TRUE
  /\ GoTo("settle")
  /\ UNCHANGED <<handle, disconnected, callback_failed, streaming, requests, held>>

StopFails ==
  /\ call.pc = "native"
  /\ native_active
  /\ GoTo("settle")
  /\ UNCHANGED <<flags, streaming, native_active, requests, held>>

\* quiesced(), which only a stop that reached a connected pipeline allows.
Quiesced_Always == stopped
Quiesced == stopped /\ ~disconnected

\* clear() refuses while a request is outstanding.
Outstanding == requests.pending # {}
Cleared(pending) == IF pending = {} THEN NoRequests ELSE [requests EXCEPT !.pending = pending]

AfterStop(cleared) ==
  CASE call.op = "close" -> GoTo("drain")
    [] call.op = "stop"  -> Return(IF cleared THEN "ok" ELSE "failed")
    [] call.op \in {"start", "read"} -> Return(call.out)

Settle ==
  /\ call.pc = "settle"
  /\ LET pending == IF Quiesced THEN {} ELSE requests.pending
     IN /\ requests' = IF stopped THEN Cleared(pending) ELSE requests
        /\ AfterStop(stopped /\ pending = {})
  /\ UNCHANGED <<flags, streaming, native_active, held>>

Stop ==
  /\ At("stop", "begin")
  /\ GoTo("halt")
  /\ UNCHANGED <<flags, streaming, native_active, requests, held>>

-----------------------------------------------------------------------------
(***************************************************************************)
(* open() and close().                                                     *)
(***************************************************************************)
\* Everything that may fail comes before the members, the signals come last:
\* connecting them may throw, which closes.
Open ==
  /\ At("open", "begin")
  /\ \/ \E out \in {"failed", "threw"} : Return(out) /\ UNCHANGED <<handle, disconnected>>
     \/ /\ ~handle
        /\ handle' = TRUE /\ disconnected' = FALSE
        /\ Return("ok") \/ call' = [call EXCEPT !.op = "close", !.pc = "halt", !.out = "threw"]
  /\ UNCHANGED <<streaming, stopped, callback_failed, native_active, requests, held>>

Close ==
  /\ At("close", "begin")
  /\ IF handle THEN GoTo("halt") ELSE Return("ok")
  /\ UNCHANGED <<flags, streaming, native_active, requests, held>>

\* close() waits for what a failed stop or a disconnected pipeline still has.
MayFree == ~Outstanding

CloseDrained ==
  /\ At("close", "drain")
  /\ MayFree
  /\ requests' = NoRequests
  /\ handle' = FALSE /\ disconnected' = FALSE
  /\ callback_failed' = FALSE /\ native_active' = FALSE
  /\ Return(call.out)
  /\ UNCHANGED <<streaming, stopped, held>>

-----------------------------------------------------------------------------
(***************************************************************************)
(* start(): prepare, start, queue every request, or roll back.             *)
(***************************************************************************)
MayStart == handle /\ ~streaming /\ ~disconnected /\ ~native_active /\ ~Outstanding

StartBegin ==
  /\ At("start", "begin")
  /\ IF MayStart THEN GoTo("prepare") ELSE Return("failed")
  /\ UNCHANGED <<flags, streaming, native_active, requests, held>>

\* createRequests() fails or throws, or the initial controls do.
StartFails ==
  /\ call.op = "start" /\ call.pc \in {"prepare", "prepared"}
  /\ \E out \in {"failed", "threw"} : Rollback(out)
  /\ UNCHANGED <<flags, streaming, native_active, requests, held>>

Prepare ==
  /\ At("start", "prepare")
  /\ requests' = [NoRequests EXCEPT !.owners = Indices]
  /\ GoTo("prepared")
  /\ UNCHANGED <<flags, streaming, native_active, held>>

\* native_active comes first: a start that failed is stopped as well.
StartNative ==
  /\ At("start", "prepared")
  /\ native_active' = TRUE
  /\ \/ streaming' = TRUE /\ callback_failed' = FALSE /\ GoTo("queue")
     \/ Rollback("failed") /\ UNCHANGED <<streaming, callback_failed>>
  /\ UNCHANGED <<handle, disconnected, stopped, requests, held>>

StartQueued ==
  /\ At("start", "queue")
  /\ call.i = Buffers
  /\ Return("ok")
  /\ UNCHANGED <<flags, streaming, native_active, requests, held>>

-----------------------------------------------------------------------------
(***************************************************************************)
(* queueRequest(): the ledger owns a request before the pipeline does.     *)
(***************************************************************************)
Queueing == (At("start", "queue") /\ call.i < Buffers) \/ At("read", "queue")

\* The controls of the request may throw, and so may its reuse.
QueueThrows ==
  /\ Queueing
  /\ Rollback("threw")
  /\ UNCHANGED <<flags, streaming, native_active, requests, held>>

Ledger(i) == requests.pending \cup {i}

QueueBegin ==
  /\ Queueing
  /\ IF call.i \in requests.pending
     THEN /\ requests' = [requests EXCEPT !.fault = TRUE]
          /\ Rollback(IF call.out = "ok" THEN "failed" ELSE call.out)
     ELSE /\ requests' = [requests EXCEPT !.pending = Ledger(call.i)]
          /\ GoTo("queueing")
  /\ UNCHANGED <<flags, streaming, native_active, held>>

QueueAccepted ==
  /\ call.pc = "queueing"
  /\ native_active
  /\ held' = held \cup {call.i}
  /\ IF call.op = "read" THEN Return(call.out)
     ELSE call' = [call EXCEPT !.pc = "queue", !.i = @ + 1]
  /\ UNCHANGED <<flags, streaming, native_active, requests>>

QueueRejected ==
  /\ call.pc = "queueing"
  /\ GoTo("reject")
  /\ UNCHANGED <<flags, streaming, native_active, requests, held>>

\* rejected(), and the transaction rolls back.
Rejected == [requests EXCEPT !.pending = @ \ {call.i}]

Reject ==
  /\ call.pc = "reject"
  /\ requests' = Rejected
  /\ Rollback(IF call.out = "ok" THEN "failed" ELSE call.out)
  /\ UNCHANGED <<flags, streaming, native_active, held>>

-----------------------------------------------------------------------------
(***************************************************************************)
(* readFrame().                                                            *)
(***************************************************************************)
ReadBegin ==
  /\ At("read", "begin")
  /\ IF streaming THEN GoTo("wait") ELSE Return("failed")
  /\ UNCHANGED <<flags, streaming, native_active, requests, held>>

\* What ends the wait before its timeout.
Signalled == requests.ready # <<>> \/ callback_failed \/ disconnected \/ ~streaming

ReadTimesOut ==
  /\ At("read", "wait")
  /\ ~Signalled
  /\ Return("timeout")
  /\ UNCHANGED <<flags, streaming, native_active, requests, held>>

\* A disconnected camera is left to stop(); failed bookkeeping stops the stream.
ReadFails ==
  /\ At("read", "wait")
  /\ Signalled
  /\ disconnected \/ callback_failed \/ requests.ready = <<>>
  /\ IF ~disconnected /\ callback_failed THEN Rollback("failed") ELSE Return("failed")
  /\ UNCHANGED <<flags, streaming, native_active, requests, held>>

ReadPops ==
  /\ At("read", "wait")
  /\ ~disconnected /\ ~callback_failed /\ requests.ready # <<>>
  /\ requests' = [requests EXCEPT !.ready = Tail(@)]
  /\ call' = [call EXCEPT !.pc = "copy", !.i = Head(requests.ready)]
  /\ UNCHANGED <<flags, streaming, native_active, held>>

\* A frame that cannot be copied is requeued all the same, one that throws stops.
Requeues(out) == out # "threw"

Copy ==
  /\ At("read", "copy")
  /\ \E out \in {"ok", "failed", "threw"} :
       IF out = "threw" THEN Rollback(out)
       ELSE IF Requeues(out) THEN Fail(out, "queue")
       ELSE Return(out)
  /\ UNCHANGED <<flags, streaming, native_active, requests, held>>

-----------------------------------------------------------------------------
(***************************************************************************)
(* The camera manager's thread.                                            *)
(***************************************************************************)
\* complete(): the ledger lets go, and the ring takes what is published.
Completed(r) ==
  IF r \notin requests.pending THEN [requests EXCEPT !.fault = TRUE]
  ELSE IF ~streaming THEN [requests EXCEPT !.pending = @ \ {r}]
  ELSE IF Len(requests.ready) = Cardinality(requests.owners)
       THEN [requests EXCEPT !.pending = @ \ {r}, !.fault = TRUE]
  ELSE [requests EXCEPT !.pending = @ \ {r}, !.ready = Append(@, r)]

onRequestComplete(r) ==
  /\ requests' = Completed(r)
  /\ callback_failed' = (callback_failed \/ requests'.fault)
  /\ UNCHANGED <<handle, streaming, stopped, disconnected, native_active, call>>

Complete(r) ==
  /\ r \in held
  /\ held' = held \ {r}
  /\ onRequestComplete(r)

\* A request nobody queued completes, or one completes twice.
CompleteUnknown(r) ==
  /\ handle /\ call.op # "open"
  /\ r \notin requests.pending
  /\ onRequestComplete(r)
  /\ UNCHANGED held

\* The handler throws before it reached the ledger.
CompleteThrows(r) ==
  /\ r \in held
  /\ held' = held \ {r}
  /\ callback_failed' = TRUE
  /\ UNCHANGED <<handle, streaming, stopped, disconnected, native_active, requests, call>>

onDisconnected ==
  /\ handle /\ ~disconnected
  /\ disconnected' = TRUE
  /\ UNCHANGED <<handle, streaming, stopped, callback_failed, native_active, requests, held, call>>

-----------------------------------------------------------------------------
Step ==
  \/ Halt \/ StopSucceeds \/ StopFails \/ Settle \/ Stop
  \/ Open \/ Close \/ CloseDrained
  \/ StartBegin \/ StartFails \/ Prepare \/ StartNative \/ StartQueued
  \/ QueueThrows \/ QueueBegin \/ QueueAccepted \/ QueueRejected \/ Reject
  \/ ReadBegin \/ ReadTimesOut \/ ReadFails \/ ReadPops \/ Copy

Completion == \E r \in Indices : Complete(r) \/ CompleteThrows(r)

\* close() waits for a disconnected pipeline that never completes, or for a
\* request whose completion threw when the stop failed as well.
StuckInClose ==
  /\ At("close", "drain")
  /\ Outstanding
  /\ disconnected \/ held = {}
  /\ UNCHANGED vars

Next ==
  \/ \E op \in Operations : Begin(op)
  \/ Step
  \/ Completion
  \/ \E r \in Indices : CompleteUnknown(r)
  \/ onDisconnected
  \/ StuckInClose

Spec == Init /\ [][Next]_vars

\* Native calls return, a read times out, and a pipeline that is connected
\* completes what it holds.
FairSpec == Spec /\ WF_vars(Step) /\ WF_vars(Completion /\ ~disconnected)

-----------------------------------------------------------------------------
(***************************************************************************)
(* Properties.                                                             *)
(***************************************************************************)
\* The request a read took from the ring and has not given back.
Reading == IF call.op = "read" /\ call.pc \in {"copy", "queue"} THEN {call.i} ELSE {}

\* Type invariant.
TypeOK ==
  /\ {handle, streaming, disconnected, callback_failed, native_active} \subseteq BOOLEAN
  /\ requests.owners \in {{}, Indices}
  /\ requests.pending \subseteq Indices
  /\ requests.ready \in Seq(Indices) /\ Len(requests.ready) <= Buffers
  /\ requests.fault \in BOOLEAN
  /\ held \subseteq Indices
  /\ stopped \in BOOLEAN
  /\ call \in CallType({"halt", "native", "settle", "drain", "prepare", "prepared", "queue",
                        "queueing", "reject", "wait", "copy"}, 0..Buffers)

\* No request is freed while the pipeline holds it, whatever stop failed and
\* whatever was disconnected (LibcameraCameraBackend.cpp:616), and a request is
\* with the pipeline, in the ring, or with a read, never two of them: a read
\* never copies a buffer that is being filled.
RequestsOwned ==
  /\ held \subseteq requests.pending
  /\ requests.pending \subseteq requests.owners
  /\ IsInjective(requests.ready)
  /\ Range(requests.ready) \subseteq requests.owners
  /\ Range(requests.ready) \cap (requests.pending \cup Reading) = {}
  /\ Reading \cap requests.pending = {}

\* Between calls a closed adapter keeps nothing, and a stream keeps all its
\* requests in circulation: no read, timed out, failed or thrown, loses one.
BetweenCalls ==
  Quiet =>
    /\ State = "closed" => requests = NoRequests /\ held = {} /\ ~native_active /\ ~streaming
    /\ State = "streaming" => native_active /\ requests.pending \cup Range(requests.ready) = Indices

\* What CameraSession relies on.
KeepsContract ==
  [][Returns => State' \in After(call.op, call.before, call'.out)]_vars

\* Every call returns.  Only close() may wait without a deadline, for a
\* disconnected pipeline (TmrCamera.md:380), or when its stop failed and a
\* completion had thrown before.
MayHang == call.pc = "drain" /\ (disconnected \/ (callback_failed /\ ~stopped))
CallsReturn == ~Quiet ~> Quiet \/ MayHang
=============================================================================
