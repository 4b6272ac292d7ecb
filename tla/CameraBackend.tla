--------------------------- MODULE CameraBackend ---------------------------
(***************************************************************************)
(* What CameraSession takes for granted of an ICameraBackend               *)
(* (core/tmr/camera/CameraBackend.h), and an adapter has to keep: in which *)
(* states, as isOpen() and isStreaming() show them, a call may leave it.   *)
(***************************************************************************)

States == {"closed", "open", "streaming"}
Operations == {"open", "start", "stop", "read", "close"}

Success(op, before) ==
  CASE op = "open"  -> "open"
    [] op = "start" -> "streaming"
    [] op = "stop"  -> IF before = "streaming" THEN "open" ELSE before
    [] op = "read"  -> before
    [] op = "close" -> "closed"

\* A call that fails leaves the state as it was, or a closed backend.  A stop
\* or a read that fails may have ended the stream.
After(op, before, out) ==
  IF out = "ok" THEN {Success(op, before)}
  ELSE {before, "closed"} \cup (IF op \in {"stop", "read"} /\ before = "streaming" THEN {"open"} ELSE {})
=============================================================================
