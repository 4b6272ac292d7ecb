------------------------------ MODULE TcpClient ------------------------------
(***************************************************************************)
(* TcpClient (platform/xpt/network/TcpClient.cpp): connect, disconnect,    *)
(* checkPeerConnection, send and receive over one non-blocking socket.     *)
(* A destructor and a move assignment disconnect.                          *)
(*                                                                         *)
(* The network is external.  A candidate's connection is established or    *)
(* refused in its own time or never; a peer sends bytes, closes or resets. *)
(***************************************************************************)
EXTENDS Transport

VARIABLES
  link,    \* the connection of the candidate or of the owned socket
  peeked   \* the interrupted attempts of checkPeerConnection()

vars == <<base, link, peeked>>

TcpInit == Init /\ link = "none" /\ peeked = 0

Transfers == {"send", "receive"}
Operations == Transfers \cup {"connect", "check", "disconnect"}

\* A closed client refuses all but connect and disconnect.
Call(op, size) ==
  /\ op \in {"send", "receive", "check"} => owned # 0
  /\ op = "receive" => size > 0
  /\ Begin(op, size)
  /\ peeked' = 0
  /\ UNCHANGED link

\* shutdown() and closesocket(), or nothing when the client is closed.
Disconnect ==
  /\ At("disconnect", "begin")
  /\ TransferCloses("ok")
  /\ link' = "none"
  /\ UNCHANGED peeked

-----------------------------------------------------------------------------
(***************************************************************************)
(* connect().                                                              *)
(***************************************************************************)
\* A cancelled context leaves the old connection alone; the deadline does not.
ConnectRejected ==
  /\ At("connect", "begin") /\ cancelled
  /\ TransferReturns("cancelled")
  /\ UNCHANGED <<link, peeked>>

\* The old connection goes before the name is resolved, to some addresses.
ConnectBegins ==
  /\ At("connect", "begin") /\ ~cancelled
  /\ \E n \in 0..MaxAddresses :
       call' = IF n = 0 THEN [Idle EXCEPT !.out = "resolution"]
               ELSE [call EXCEPT !.pc = "address", !.address = n]
  /\ Closed
  /\ link' = "none"
  /\ UNCHANGED <<context, late, wire, peeked>>

\* The candidate is closed, and the next address is tried.
NextAddress(a) ==
  call' = IF a = 1 THEN [Idle EXCEPT !.out = "connection"]
          ELSE [call EXCEPT !.pc = "address", !.address = a - 1, !.candidate = 0]

ConnectStops ==
  /\ At("connect", "address")
  /\ Stops
  /\ Return(StopReason)
  /\ UNCHANGED <<context, owned, handles, late, stream, wire, link, peeked>>

\* socket() or the switch to non-blocking I/O fails.
CandidateFails ==
  /\ At("connect", "address") /\ ~Stops
  /\ NextAddress(call.address)
  /\ UNCHANGED <<context, owned, handles, late, stream, wire, link, peeked>>

\* ::connect() is pending, or knows the result at once.
ConnectStarts ==
  /\ At("connect", "address") /\ ~Stops
  /\ handles' = handles \cup {Fresh}
  /\ link' \in {"connecting", "connected", "refused"}
  /\ call' = [call EXCEPT !.pc = IF link' = "connecting" THEN "wait" ELSE "io", !.candidate = Fresh]
  /\ NativeBegins
  /\ UNCHANGED <<context, owned, stream, wire, peeked>>

\* A pending one is connected, or refused, at any time.
ConnectSettles ==
  /\ link = "connecting"
  /\ link' \in {"connected", "refused"}
  /\ UNCHANGED <<base, peeked>>

\* select() of WinSock reports a refusal among the exceptions, which are not
\* asked for.
ConnectReady == link = "connected" \/ (link = "refused" /\ ~windows)

ConnectWaitEnds ==
  /\ call.op = "connect"
  /\ call.pc = "wait" /\ Stops
  /\ Return(StopReason)
  /\ handles' = handles \ {call.candidate}
  /\ link' = "none"
  /\ UNCHANGED <<context, owned, late, stream, wire, peeked>>

\* select() fails, SO_ERROR reports or cannot be read, or ::connect() fails.
ConnectFails ==
  /\ At("connect", "select") \/ At("connect", "io")
  /\ NextAddress(call.address)
  /\ handles' = handles \ {call.candidate}
  /\ link' = "none"
  /\ UNCHANGED <<context, owned, late, stream, wire, peeked>>

ConnectSucceeds ==
  /\ At("connect", "io") /\ link = "connected"
  /\ Return("ok")
  /\ owned' = call.candidate
  /\ NewStream
  /\ UNCHANGED <<context, handles, late, wire, link, peeked>>

Connect ==
  \/ ConnectRejected \/ ConnectBegins \/ ConnectStops \/ CandidateFails
  \/ ConnectStarts \/ ConnectWaitEnds \/ ConnectFails \/ ConnectSucceeds

-----------------------------------------------------------------------------
(***************************************************************************)
(* send(), receive() and checkPeerConnection().                            *)
(***************************************************************************)
\* The wait of a transfer stops or fails: the connection is kept.
TransferStops ==
  /\ call.op \in Transfers
  /\ \/ call.pc = "wait" /\ Stops /\ TransferReturns(StopReason)
     \/ call.pc = "select" /\ TransferReturns("io")
  /\ UNCHANGED <<link, peeked>>

Readable == arrived > taken \/ link \in {"finished", "reset"}
Ready ==
  CASE call.op = "connect" -> ConnectReady
    [] call.op = "receive" -> Readable
    [] OTHER               -> TRUE

\* An empty send is done at once; a receive() needs memory.
TransferBegins ==
  /\ In(Transfers, "begin")
  /\ IF At("send", "begin") /\ call.size = 0 THEN Return("ok")
     ELSE GoTo("wait") \/ (call.op = "receive" /\ Return("exhausted"))
  /\ UNCHANGED <<context, owned, handles, late, stream, wire, link, peeked>>

Send ==
  /\ At("send", "io")
  /\ NativeBegins
  /\ \E n \in 1..(call.size - call.sent) :
       /\ Written(n)
       /\ LET moved == Progress(n)
          IN call' = IF moved.sent = call.size THEN [Idle EXCEPT !.out = "ok", !.sent = moved.sent]
                     ELSE [moved EXCEPT !.pc = "wait"]
  /\ UNCHANGED <<context, owned, handles, stream, link, peeked>>

Receive ==
  /\ At("receive", "io")
  /\ arrived > taken /\ link # "reset"
  /\ NativeBegins
  /\ \E n \in 1..LesserOf(call.size, arrived - taken) :
       /\ taken' = taken + n
       /\ got' = got \o [i \in 1..n |-> taken + i]
  /\ Return("ok")
  /\ UNCHANGED <<context, owned, handles, arrived, wire, link, peeked>>

\* Interrupted, or it would block after all.
Again ==
  /\ In(Transfers, "io")
  /\ NativeBegins
  /\ GoTo("wait")
  /\ UNCHANGED <<context, owned, handles, stream, wire, link, peeked>>

\* An error of the connection, and the end of the stream, close the client.
ConnectionLost ==
  /\ In(Transfers, "io")
  /\ IF call.op = "send" THEN TRUE ELSE link = "reset" \/ (link = "finished" /\ arrived = taken)
  /\ TransferCloses("connection")
  /\ link' = "none"
  /\ UNCHANGED peeked

NativeFails ==
  /\ In(Transfers, "io")
  /\ TransferReturns("io")
  /\ UNCHANGED <<link, peeked>>

\* MSG_PEEK, up to four times when it is interrupted.
MaxPeeks == 4
CheckInterrupted ==
  /\ At("check", "begin") /\ peeked + 1 < MaxPeeks
  /\ peeked' = peeked + 1
  /\ UNCHANGED <<base, link>>

CheckSucceeds ==
  /\ At("check", "begin")
  /\ arrived > taken \/ link = "connected"
  /\ TransferReturns("ok")
  /\ UNCHANGED <<link, peeked>>

\* The peer has closed, or recv() fails in any other way.
CheckFails ==
  /\ At("check", "begin")
  /\ TransferCloses("connection")
  /\ link' = "none"
  /\ UNCHANGED peeked

Transfer ==
  \/ TransferBegins \/ TransferStops \/ Send \/ Receive \/ Again \/ ConnectionLost
  \/ NativeFails \/ CheckInterrupted \/ CheckSucceeds \/ CheckFails

Step ==
  \/ Disconnect \/ Connect \/ Transfer
  \/ (WaitBegins \/ WaitSlice(Ready)) /\ UNCHANGED <<link, peeked>>

-----------------------------------------------------------------------------
\* The peer sends, closes or resets.
PeerSends == link = "connected" /\ owned # 0 /\ Arrives /\ UNCHANGED <<link, peeked>>
PeerLeaves ==
  /\ link = "connected" /\ owned # 0
  /\ link' \in {"finished", "reset"}
  /\ UNCHANGED <<base, peeked>>

Next ==
  \/ \E op \in Operations, size \in 0..MaxBytes : Call(op, size)
  \/ Step \/ ConnectSettles \/ PeerSends \/ PeerLeaves
  \/ (Cancel \/ Tick) /\ UNCHANGED <<link, peeked>>

Spec == TcpInit /\ [][Next]_vars

-----------------------------------------------------------------------------
\* Type invariant.
TypeOK ==
  /\ BaseTypeOK
  /\ call.op \in Operations \cup {"none"}
  /\ call.pc \in {"none", "begin", "address", "wait", "select", "io"}
  /\ link \in {"none", "connecting", "connected", "refused", "finished", "reset"}
  /\ link = "none" <=> handles = {}
  /\ peeked \in 0..(MaxPeeks - 1)

\* What the documentation's table says is left of the socket (XptTransport.md:118).
OwnerAfter(out) ==
  CASE call.op = "disconnect" -> {0}
    [] call.op = "connect" -> IF out = "ok" THEN {call.candidate}
                              ELSE IF call.pc = "begin" /\ out = "cancelled" THEN {call.before} ELSE {0}
    [] out = "connection" -> {0}
    [] OTHER -> {call.before}

\* "A failed candidate closes before the next is tried" (XptTransport.md:130):
\* a wait for a candidate that has been refused is its last.
RefusalNoticed == [][At("connect", "select") /\ link = "refused" => call'.pc # "wait"]_vars
=============================================================================
