------------------------------ MODULE Transport ------------------------------
(***************************************************************************)
(* What TcpClient, UdpClient and SerialPort (platform/xpt) have in common: *)
(* one native handle, calls under a deadline and a cancellation token, and *)
(* the wait in slices that watches both (waitForSocket and                 *)
(* waitForDescriptor).                                                     *)
(*                                                                         *)
(* An instance is confined to one caller, so there is one call at a time;  *)
(* the token may be cancelled and the clock goes on between any two steps. *)
(* Bytes, and datagrams, are numbered in the order in which they arrive,   *)
(* and those of one send in the order of its buffer.                       *)
(***************************************************************************)
EXTENDS Naturals, Sequences, FiniteSets

CONSTANTS
  MaxTimeout,   \* bound on a timeout, in ticks
  MaxBytes,     \* bound on the size of a transfer, and on what arrives
  MaxAddresses  \* bound on the addresses a name resolves to

ASSUME TransportAssumption == {MaxTimeout, MaxBytes, MaxAddresses} \subseteq Nat \ {0}

VARIABLES
  windows,    \* the platform
  owned,      \* the handle the instance owns, 0 for none
  handles,    \* the native handles that are open
  call,       \* the call in progress
  budget,     \* the time left until its deadline
  cancelled,  \* its token
  late,       \* the native operations it began after the cancellation
  arrived,    \* the bytes that have come in for the owned handle
  taken,      \* those of them the process has taken
  got,        \* those of them the caller has been given, in order
  wire        \* the bytes of the call's buffer that the native side took

base == <<windows, owned, handles, call, budget, cancelled, late, arrived, taken, got, wire>>
context == <<windows, budget, cancelled>>
stream == <<arrived, taken, got>>

Handles == 1..(MaxAddresses + 1)
Numbers(n) == [i \in 1..n |-> i]
LesserOf(a, b) == IF a < b THEN a ELSE b

Idle == [op |-> "none", pc |-> "none", before |-> 0, size |-> 0, sent |-> 0,
         address |-> 0, candidate |-> 0, out |-> "none"]

Init ==
  /\ windows \in BOOLEAN
  /\ owned = 0 /\ handles = {}
  /\ call = Idle
  /\ budget = 0 /\ cancelled = FALSE /\ late = 0
  /\ arrived = 0 /\ taken = 0 /\ got = <<>> /\ wire = <<>>

At(op, pc) == call.op = op /\ call.pc = pc
In(ops, pc) == call.op \in ops /\ call.pc = pc
GoTo(pc)   == call' = [call EXCEPT !.pc = pc]
Quiet      == call.op = "none"
Expired    == budget = 0

\* The value of a transfer is what it sent.
Return(out) == call' = [Idle EXCEPT !.out = out, !.sent = call.sent]
Returns == ~Quiet /\ Quiet'

\* Any timeout, and a token that may be cancelled already.  Arguments that are
\* refused change nothing and are left out.
Begin(op, size) ==
  /\ Quiet
  /\ call' = [Idle EXCEPT !.op = op, !.pc = "begin", !.before = owned, !.size = size]
  /\ budget' \in 0..MaxTimeout
  /\ cancelled' \in BOOLEAN
  /\ late' = 0 /\ wire' = <<>>
  /\ UNCHANGED <<windows, owned, handles, stream>>

Cancel ==
  /\ ~Quiet /\ ~cancelled
  /\ cancelled' = TRUE
  /\ UNCHANGED <<windows, owned, handles, call, budget, late, stream, wire>>

Tick ==
  /\ ~Quiet /\ ~Expired
  /\ budget' = budget - 1
  /\ UNCHANGED <<windows, owned, handles, call, cancelled, late, stream, wire>>

\* A native operation begins.
NativeBegins == late' = late + (IF cancelled THEN 1 ELSE 0)

\* The stream of a handle that is closed is over, and a new one begins empty.
NewStream == arrived' = 0 /\ taken' = 0 /\ got' = <<>>

Closed == owned' = 0 /\ handles' = handles \ {owned} /\ NewStream

\* A candidate is opened beside the handle that is owned.
Fresh == CHOOSE h \in Handles \ handles : TRUE

-----------------------------------------------------------------------------
(***************************************************************************)
(* The wait: the token, then the deadline, then a slice of at most 20 ms.  *)
(***************************************************************************)
Stops == cancelled \/ Expired
StopReason == IF cancelled THEN "cancelled" ELSE "timeout"

WaitBegins ==
  /\ call.pc = "wait"
  /\ ~Stops
  /\ GoTo("select")
  /\ UNCHANGED <<context, owned, handles, late, stream, wire>>

\* What is ready wins over the end of the slice and over a signal.
WaitSlice(ready) ==
  /\ call.pc = "select"
  /\ GoTo(IF ready THEN "io" ELSE "wait")
  /\ UNCHANGED <<context, owned, handles, late, stream, wire>>

-----------------------------------------------------------------------------
\* Something arrives for the handle.
Arrives ==
  /\ owned # 0 /\ arrived < MaxBytes
  /\ arrived' = arrived + 1
  /\ UNCHANGED <<context, owned, handles, call, late, taken, got, wire>>

\* The native side takes n bytes of the buffer, from where the send says it is.
Written(n) == wire' = wire \o [i \in 1..n |-> call.sent + i]

Progress(n) == [call EXCEPT !.sent = @ + n]

\* A transfer comes to its end.
TransferReturns(out) ==
  /\ Return(out)
  /\ UNCHANGED <<context, owned, handles, late, stream, wire>>
TransferCloses(out) ==
  /\ Return(out)
  /\ Closed
  /\ UNCHANGED <<context, late, wire>>

-----------------------------------------------------------------------------
Outcomes == {"none", "ok", "timeout", "cancelled", "rejected", "resolution", "connection",
             "io", "exhausted", "truncated", "threw"}

\* Type invariant.
BaseTypeOK ==
  /\ windows \in BOOLEAN
  /\ owned \in {0} \cup handles /\ handles \subseteq Handles
  /\ call.before \in {0} \cup Handles /\ call.candidate \in {0} \cup handles
  /\ call.size \in 0..MaxBytes /\ call.sent \in 0..MaxBytes
  /\ call.address \in 0..MaxAddresses
  /\ call.out \in Outcomes
  /\ budget \in 0..MaxTimeout /\ cancelled \in BOOLEAN
  /\ arrived \in 0..MaxBytes /\ taken \in 0..arrived
  /\ got \in Seq(1..MaxBytes) /\ wire \in Seq(1..MaxBytes)

\* The count a send reports is what the native side took, each byte once and in
\* the order of the buffer.
ProgressExact == wire = Numbers(Len(wire)) /\ (Quiet /\ call.out # "threw" => call.sent = Len(wire))
=============================================================================
