----------------------------- MODULE OwnerCalls -----------------------------
(***************************************************************************)
(* What CameraOwnerThread promises its callers: a call is a request, one   *)
(* execution on the owned object and an answer, which is the outcome of    *)
(* that execution.  Executions do not overlap.                             *)
(***************************************************************************)
CONSTANT Callers

VARIABLES
  request,  \* the state of the call of each caller
  busy      \* the callers whose call the object is executing

vars == <<request, busy>>

States == {"none", "requested", "returns", "throws"}

Init == request = [c \in Callers |-> "none"] /\ busy = {}

Request(c) ==
  /\ request[c] = "none"
  /\ request' = [request EXCEPT ![c] = "requested"]
  /\ UNCHANGED busy

Begin(c) ==
  /\ request[c] = "requested"
  /\ busy = {}
  /\ busy' = {c}
  /\ UNCHANGED request

End(c) ==
  /\ busy = {c}
  /\ busy' = {}
  /\ \E out \in {"returns", "throws"} : request' = [request EXCEPT ![c] = out]

\* The answer goes to the caller that made the request.
Answer(c) ==
  /\ request[c] \in {"returns", "throws"}
  /\ request' = [request EXCEPT ![c] = "none"]
  /\ UNCHANGED busy

Next == \E c \in Callers : Request(c) \/ Begin(c) \/ End(c) \/ Answer(c)

Spec == Init /\ [][Next]_vars
=============================================================================
