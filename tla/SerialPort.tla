----------------------------- MODULE SerialPort -----------------------------
(***************************************************************************)
(* SerialPort (platform/xpt/serial/SerialPort.cpp): open, close, send and  *)
(* receive, with poll() on POSIX and with overlapped I/O on Windows, where *)
(* one read may outlive the receive() that began it.                       *)
(*                                                                         *)
(* The driver is external.  An overlapped operation completes in its own   *)
(* time, with any number of the bytes that are there, or fails with some;  *)
(* one that is cancelled ends at once, and may have completed before.      *)
(***************************************************************************)
EXTENDS Transport

VARIABLES
  is_read_pending,  \* m_is_read_pending
  buffer,           \* the bytes of m_read_buffer from m_read_offset to m_read_size
  read,             \* the overlapped read of the driver, and the bytes it has stored
  write             \* the overlapped write of the driver, and how much it has taken

readVars == <<is_read_pending, buffer, read>>
vars == <<base, readVars, write>>

None == [state |-> "none", bytes |-> <<>>]
Unwritten == [state |-> "none", count |-> 0]

SerialInit ==
  /\ Init
  /\ is_read_pending = FALSE /\ buffer = <<>>
  /\ read = None /\ write = Unwritten

Operations == {"open", "close", "send", "receive"}

Call(op, size) ==
  /\ op \in {"send", "receive"} => owned # 0
  /\ op = "receive" => size > 0
  /\ Begin(op, size)
  /\ UNCHANGED <<readVars, write>>

-----------------------------------------------------------------------------
(***************************************************************************)
(* cancelRead() and close().                                               *)
(***************************************************************************)
\* The driver stores what came in before the cancellation reached it.
Collected == IF is_read_pending THEN read.bytes ELSE buffer
CancelRead ==
  /\ is_read_pending' = FALSE
  /\ buffer' = Collected
  /\ read' = IF is_read_pending THEN None ELSE read

\* The read is collected before the handle and the buffer go.
CloseRead_Abandons == UNCHANGED read
CloseRead == read' = None
CloseImpl ==
  /\ Closed
  /\ is_read_pending' = FALSE /\ buffer' = <<>>
  /\ CloseRead

Close ==
  /\ At("close", "begin")
  /\ Return("ok")
  /\ CloseImpl
  /\ UNCHANGED <<context, late, wire, write>>

-----------------------------------------------------------------------------
(***************************************************************************)
(* open(): the candidate replaces the port once it is configured.          *)
(***************************************************************************)
OpenCandidate ==
  /\ At("open", "begin")
  /\ \/ Stops /\ Return(StopReason) /\ UNCHANGED handles
     \/ ~Stops /\ Return("connection") /\ UNCHANGED handles
     \/ /\ ~Stops
        /\ handles' = handles \cup {Fresh}
        /\ call' = [call EXCEPT !.pc = "configure", !.candidate = Fresh]
  /\ UNCHANGED <<context, owned, late, stream, wire, readVars, write>>

\* A setting fails or reads back different, or there is no time left.
OpenFails ==
  /\ At("open", "configure")
  /\ Return("io") \/ (Stops /\ Return(StopReason))
  /\ handles' = handles \ {call.candidate}
  /\ UNCHANGED <<context, owned, late, stream, wire, readVars, write>>

OpenSucceeds ==
  /\ At("open", "configure") /\ ~Stops
  /\ Return("ok")
  /\ handles' = handles \ {owned}
  /\ owned' = call.candidate
  /\ NewStream
  /\ is_read_pending' = FALSE /\ buffer' = <<>> /\ CloseRead
  /\ UNCHANGED <<context, late, wire, write>>

-----------------------------------------------------------------------------
(***************************************************************************)
(* receive() on Windows.                                                   *)
(***************************************************************************)
\* takeReadBytes(): at most what the caller asked for; the rest stays.
Given(bytes) == SubSeq(bytes, 1, LesserOf(call.size, Len(bytes)))
Suffix_Dropped(bytes) == <<>>
Suffix(bytes) == SubSeq(bytes, Len(Given(bytes)) + 1, Len(bytes))
Take(bytes, out) ==
  /\ got' = got \o Given(bytes)
  /\ buffer' = Suffix(bytes)
  /\ Return(out)

\* The bytes that were collected are returned with the error that closes.
TakeAndClose(out) == Return(out) /\ CloseImpl

\* At the top of the loop, and in waitForRead().
ReceiveCancelled ==
  /\ At("receive", "loop") \/ At("receive", "collect")
  /\ windows /\ cancelled
  /\ At("receive", "collect") => read.state = "active"
  /\ Take(Collected, "cancelled")
  /\ is_read_pending' = FALSE
  /\ read' = IF is_read_pending THEN None ELSE read
  /\ UNCHANGED <<context, owned, handles, late, arrived, taken, wire, write>>

ReceiveBuffered ==
  /\ At("receive", "loop") /\ windows
  /\ ~cancelled /\ buffer # <<>>
  /\ Take(buffer, "ok")
  /\ UNCHANGED <<context, owned, handles, late, arrived, taken, wire, is_read_pending, read, write>>

ReceiveExpired ==
  /\ \/ At("receive", "loop") /\ ~cancelled /\ buffer = <<>> /\ ~is_read_pending
     \/ At("receive", "collect") /\ ~cancelled /\ read.state = "active"
  /\ windows /\ Expired
  /\ TransferReturns("timeout")
  /\ UNCHANGED <<readVars, write>>

\* The outcomes of ReadFile(): bytes at once, a pending read, or a failure, with
\* the event and the buffer that may not be had before it.
StartRead ==
  /\ At("receive", "loop") /\ windows
  /\ ~cancelled /\ buffer = <<>> /\ ~is_read_pending /\ ~Expired
  /\ NativeBegins
  /\ \/ /\ \E n \in 0..(arrived - taken) :
             /\ taken' = taken + n
             /\ buffer' = [i \in 1..n |-> taken + i]
        /\ UNCHANGED <<call, owned, handles, arrived, got, is_read_pending, read>>
     \/ /\ is_read_pending' = TRUE
        /\ read' = [state |-> "active", bytes |-> <<>>]
        /\ GoTo("collect")
        /\ UNCHANGED <<owned, handles, stream, buffer>>
     \/ /\ Return("exhausted")
        /\ UNCHANGED <<owned, handles, stream, readVars>>
     \/ TakeAndClose("io")
  /\ UNCHANGED <<context, wire, write>>

JoinRead ==
  /\ At("receive", "loop") /\ windows
  /\ ~cancelled /\ buffer = <<>> /\ is_read_pending
  /\ GoTo("collect")
  /\ UNCHANGED <<context, owned, handles, late, stream, wire, readVars, write>>

\* GetOverlappedResult() finds the read complete: the loop looks at it.
CollectRead ==
  /\ At("receive", "collect")
  /\ read.state = "done"
  /\ is_read_pending' = FALSE /\ read' = None
  /\ buffer' = read.bytes
  /\ GoTo("loop")
  /\ UNCHANGED <<context, owned, handles, late, stream, wire, write>>

\* The read or the wait for it has failed.
CollectFails ==
  /\ At("receive", "collect")
  /\ TakeAndClose("io")
  /\ UNCHANGED <<context, late, wire, write>>

ReceiveBegins ==
  /\ At("receive", "begin")
  /\ IF windows THEN GoTo("loop") ELSE GoTo("wait") \/ Return("exhausted")
  /\ UNCHANGED <<context, owned, handles, late, stream, wire, readVars, write>>

ReceiveWindows ==
  \/ ReceiveCancelled \/ ReceiveBuffered \/ ReceiveExpired \/ StartRead \/ JoinRead
  \/ CollectRead \/ CollectFails

-----------------------------------------------------------------------------
(***************************************************************************)
(* receive() and send() on POSIX.                                          *)
(***************************************************************************)
WaitStops ==
  /\ call.pc = "wait" /\ Stops
  /\ TransferReturns(StopReason)
  /\ UNCHANGED <<readVars, write>>

\* poll() or the transfer fails, or the device is gone: the port is closed.
PosixFails ==
  /\ call.pc \in {"select", "io"} /\ ~windows
  /\ Return("io") /\ CloseImpl
  /\ UNCHANGED <<context, late, wire, write>>

\* Nothing was read or written after all.
Again ==
  /\ call.pc = "io" /\ ~windows
  /\ NativeBegins
  /\ GoTo("wait")
  /\ UNCHANGED <<context, owned, handles, stream, wire, readVars, write>>

ReadPosix ==
  /\ At("receive", "io")
  /\ NativeBegins
  /\ \E n \in 1..LesserOf(call.size, arrived - taken) :
       /\ taken' = taken + n
       /\ got' = got \o [i \in 1..n |-> taken + i]
  /\ Return("ok")
  /\ UNCHANGED <<context, owned, handles, arrived, wire, readVars, write>>

SendBegins ==
  /\ At("send", "begin")
  /\ IF call.size = 0 THEN Return("ok") ELSE GoTo("wait")
  /\ UNCHANGED <<context, owned, handles, late, stream, wire, readVars, write>>

\* The next piece, or the end.
Sent(moved) == IF moved.sent = call.size THEN [Idle EXCEPT !.out = "ok", !.sent = moved.sent]
               ELSE [moved EXCEPT !.pc = "wait"]

WritePosix ==
  /\ At("send", "io") /\ ~windows
  /\ NativeBegins
  /\ \E n \in 1..(call.size - call.sent) : Written(n) /\ call' = Sent(Progress(n))
  /\ UNCHANGED <<context, owned, handles, stream, readVars, write>>

Ready == call.op = "receive" => taken < arrived

Posix == WaitStops \/ PosixFails \/ Again \/ ReadPosix \/ WritePosix

-----------------------------------------------------------------------------
(***************************************************************************)
(* send() on Windows: the operation lives no longer than the call.         *)
(***************************************************************************)
\* No event, WriteFile() completes at once, or it is pending, or it fails.
WriteWindows ==
  /\ At("send", "wait") /\ windows /\ ~Stops
  /\ NativeBegins
  /\ \/ Return("exhausted") /\ UNCHANGED <<owned, handles, stream, wire, readVars, write>>
     \/ /\ \E n \in 0..(call.size - call.sent) : Written(n) /\ call' = Sent(Progress(n))
        /\ UNCHANGED <<owned, handles, stream, readVars, write>>
     \/ /\ write' = [state |-> "active", count |-> 0]
        /\ GoTo("written")
        /\ UNCHANGED <<owned, handles, stream, wire, readVars>>
     \/ Return("io") /\ CloseImpl /\ UNCHANGED <<wire, write>>
  /\ UNCHANGED context

WriteDone ==
  /\ At("send", "written") /\ write.state = "done"
  /\ call' = Sent(Progress(write.count))
  /\ write' = Unwritten
  /\ UNCHANGED <<context, owned, handles, late, stream, wire, readVars>>

\* The token or the deadline cancels the write, which may have been done in the
\* meantime: then that is what counts.
WriteCancelled ==
  /\ At("send", "written") /\ write.state = "active"
  /\ Stops
  /\ write' = Unwritten
  /\ \/ call' = [Idle EXCEPT !.out = StopReason, !.sent = Progress(write.count).sent]
     \/ call' = Sent(Progress(write.count))
  /\ UNCHANGED <<context, owned, handles, late, stream, wire, readVars>>

WriteFails ==
  /\ At("send", "written")
  /\ call' = [Idle EXCEPT !.out = "io", !.sent = Progress(write.count).sent]
  /\ write' = Unwritten
  /\ CloseImpl
  /\ UNCHANGED <<context, late, wire>>

\* There is no memory for the error: PendingWriteGuard cancels and collects.
WriteThrows ==
  /\ At("send", "written") /\ write.state = "active" /\ Stops
  /\ Return("threw")
  /\ write' = Unwritten
  /\ UNCHANGED <<context, owned, handles, late, stream, wire, readVars>>

SendWindows == WriteWindows \/ WriteDone \/ WriteCancelled \/ WriteFails \/ WriteThrows

Step ==
  \/ Close \/ OpenCandidate \/ OpenFails \/ OpenSucceeds
  \/ ReceiveBegins \/ SendBegins \/ ReceiveWindows \/ SendWindows \/ Posix
  \/ ~windows /\ (WaitBegins \/ WaitSlice(Ready)) /\ UNCHANGED <<readVars, write>>

-----------------------------------------------------------------------------
(***************************************************************************)
(* The driver.                                                             *)
(***************************************************************************)
\* A byte arrives, and is stored by the read that waits for one.
DriverReads ==
  /\ read.state = "active" /\ taken < arrived
  /\ taken' = taken + 1
  /\ read' = [read EXCEPT !.bytes = Append(@, taken + 1)]
  /\ UNCHANGED <<context, owned, handles, call, late, arrived, got, wire, is_read_pending, buffer, write>>

\* With its bytes, or after 20 ms without any.
ReadCompletes ==
  /\ read.state = "active"
  /\ read' = [read EXCEPT !.state = "done"]
  /\ UNCHANGED <<base, is_read_pending, buffer, write>>

DriverWrites ==
  /\ write.state = "active" /\ call.sent + write.count < call.size
  /\ wire' = Append(wire, call.sent + write.count + 1)
  /\ write' = [write EXCEPT !.count = @ + 1]
  /\ UNCHANGED <<context, owned, handles, call, late, stream, readVars>>

WriteCompletes ==
  /\ write.state = "active"
  /\ write' = [write EXCEPT !.state = "done"]
  /\ UNCHANGED <<base, readVars>>

Driver == DriverReads \/ ReadCompletes \/ DriverWrites \/ WriteCompletes

Next ==
  \/ \E op \in Operations, size \in 0..MaxBytes : Call(op, size)
  \/ Step \/ Driver
  \/ (Arrives \/ Cancel \/ Tick) /\ UNCHANGED <<readVars, write>>

-----------------------------------------------------------------------------
\* Type invariant.
TypeOK ==
  /\ BaseTypeOK
  /\ call.op \in Operations \cup {"none"}
  /\ call.pc \in {"none", "begin", "configure", "wait", "select", "io", "loop", "collect", "written"}
  /\ is_read_pending \in BOOLEAN
  /\ buffer \in Seq(1..MaxBytes)
  /\ read \in [state : {"none", "active", "done"}, bytes : Seq(1..MaxBytes)]
  /\ write \in [state : {"none", "active", "done"}, count : 0..MaxBytes]

\* The driver never has an operation whose event, OVERLAPPED or buffer is gone.
IoOwned ==
  /\ read.state # "none" <=> is_read_pending
  /\ is_read_pending => owned # 0 /\ buffer = <<>>
  /\ write.state # "none" => At("send", "written")

\* No byte is lost or returned twice, whichever receive() the read began in.
BytesKept == got \o buffer \o read.bytes = Numbers(taken)

\* What is left of the port (XptTransport.md:220).
OwnerAfter(out) ==
  CASE call.op = "close" -> {0}
    [] call.op = "open" -> IF out = "ok" THEN {call.candidate} ELSE {call.before}
    [] call.op \in {"send", "receive"} /\ out = "io" -> {0}
    [] OTHER -> {call.before}
=============================================================================
