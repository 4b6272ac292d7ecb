---------------------------- MODULE CameraAdapter ----------------------------
(***************************************************************************)
(* The call an adapter is in, and what is common to the steps of the three *)
(* adapters.  A call goes through the points pc of its body, and ends with *)
(* an outcome.                                                             *)
(***************************************************************************)
EXTENDS Naturals, CameraBackend

VARIABLES
  streaming,  \* m_streaming
  call        \* the call in progress

Outcomes == {"ok", "failed", "threw", "timeout"}

Idle(out) == [op |-> "none", pc |-> "none", i |-> 0, before |-> "closed", out |-> out]

At(op, pc)  == call.op = op /\ call.pc = pc
GoTo(pc)    == call' = [call EXCEPT !.pc = pc]
Return(out) == call' = Idle(out)

\* The first error is kept through the cleanup at pc.
Fail(out, pc) == call' = [call EXCEPT !.pc = pc, !.out = out]

Enter(op, pc, state) ==
  call' = [op |-> op, pc |-> pc, i |-> 0, before |-> state, out |-> "ok"]

Quiet == call.op = "none"
Returns == ~Quiet /\ Quiet'

\* The index i is that of a buffer or a request, and of the next to queue.
CallType(pcs, indices) ==
  [op : Operations \cup {"none"}, pc : pcs \cup {"none", "begin"}, i : indices,
   before : States, out : Outcomes \cup {"none"}]
=============================================================================
