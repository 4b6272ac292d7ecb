-------------------------- MODULE LibcameraSession --------------------------
(***************************************************************************)
(* CameraSession::stop() over the libcamera adapter.  After a failure the  *)
(* adapter refuses to start while a native stop is outstanding ("stop      *)
(* before restarting", LibcameraCameraBackend.cpp:826), and isStreaming()  *)
(* is already false: the session then has nothing to stop                  *)
(* (core/tmr/camera/Camera.cpp:357) and answers success.                   *)
(***************************************************************************)
EXTENDS LibcameraCameraBackend

VARIABLE result  \* of the last CameraSession::stop(), "none" once anything was called since

sessionVars == <<vars, result>>

SessionInit == Init /\ result = "none"

\* stop(): only a streaming backend is stopped.
SessionStop ==
  /\ Quiet
  /\ IF streaming THEN Begin("stop") /\ result' = "none"
     ELSE result' = "ok" /\ UNCHANGED vars

\* The other calls, which go to the backend.
SessionCall ==
  \E op \in Operations \ {"stop"} : Begin(op) /\ result' = "none"

StopReturns == At("stop", "settle") /\ Settle /\ result' = call'.out

NativeStep == ~At("stop", "settle") /\ Step /\ UNCHANGED result

SessionNext ==
  \/ SessionStop \/ SessionCall \/ StopReturns \/ NativeStep
  \/ (Completion \/ onDisconnected \/ StuckInClose) /\ UNCHANGED result

SessionSpec == SessionInit /\ [][SessionNext]_sessionVars

\* A stop() that reports success has cleaned up, so that the session can be
\* started again: "Call stop() and inspect its result before restarting after
\* failure" (TmrCamera.md:374).
SuccessCleansUp == result = "ok" => ~native_active /\ ~Outstanding
=============================================================================
