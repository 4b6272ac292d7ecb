------------------------------ MODULE UdpClient ------------------------------
(***************************************************************************)
(* UdpClient (platform/xpt/network/UdpClient.cpp): bind, close, sendTo and *)
(* receiveFrom over one non-blocking socket.  A byte of Transport is a     *)
(* whole datagram here, so a send is of size 1.                            *)
(*                                                                         *)
(* The network is external: datagrams arrive, those that were lost, as far *)
(* as this client can tell, were never sent.                               *)
(***************************************************************************)
EXTENDS Transport

vars == base

Operations == {"bind", "close", "sendTo", "receiveFrom"}

\* Without a socket there is nothing to receive from.
Call(op) ==
  /\ op = "receiveFrom" => owned # 0
  /\ Begin(op, IF op = "sendTo" THEN 1 ELSE 0)

Close ==
  /\ At("close", "begin")
  /\ TransferCloses("ok")

\* The endpoint is resolved to some addresses, if the token allows it.
Resolve ==
  /\ In({"bind", "sendTo"}, "begin")
  /\ \/ cancelled /\ Return("cancelled")
     \/ ~cancelled /\ Return("resolution")
     \/ ~cancelled /\ \E n \in 1..MaxAddresses :
          call' = [call EXCEPT !.pc = "address", !.address = n]
  /\ UNCHANGED <<context, owned, handles, late, stream, wire>>

\* The candidate of this address, if there is one, is closed.
NextAddress ==
  /\ handles' = handles \ {call.candidate}
  /\ call' = IF call.address = 1 THEN [Idle EXCEPT !.out = "connection", !.sent = call.sent]
             ELSE [call EXCEPT !.pc = "address", !.address = @ - 1, !.candidate = 0]
  /\ UNCHANGED <<context, owned, late, stream, wire>>

\* socket() or the switch to non-blocking I/O fails.
CandidateFails ==
  /\ \/ At("bind", "address") /\ ~Stops
     \/ At("sendTo", "address") /\ owned = 0
  /\ NextAddress

Candidate(pc) ==
  /\ handles' = handles \cup {Fresh}
  /\ call' = [call EXCEPT !.pc = pc, !.candidate = Fresh]
  /\ UNCHANGED <<context, owned, late, stream, wire>>

-----------------------------------------------------------------------------
(***************************************************************************)
(* bind().                                                                 *)
(***************************************************************************)
BindStops ==
  /\ At("bind", "address") /\ Stops
  /\ TransferReturns(StopReason)

BindCandidate == At("bind", "address") /\ ~Stops /\ Candidate("bind")

\* ::bind() fails, or the address it chose cannot be read.
BindFails == At("bind", "bind") /\ NextAddress

\* The old socket goes once the new one is bound.
BindSucceeds ==
  /\ At("bind", "bind")
  /\ handles' = handles \ {owned}
  /\ owned' = call.candidate
  /\ NewStream
  /\ Return("ok")
  /\ UNCHANGED <<context, late, wire>>

-----------------------------------------------------------------------------
(***************************************************************************)
(* sendTo(): the socket of the client, or one candidate for each address.  *)
(***************************************************************************)
SendOwned ==
  /\ At("sendTo", "address") /\ owned # 0
  /\ GoTo("wait")
  /\ UNCHANGED <<context, owned, handles, late, stream, wire>>

SendCandidate == At("sendTo", "address") /\ owned = 0 /\ Candidate("wait")

WaitStops ==
  /\ \/ call.pc = "wait" /\ Stops /\ Return(StopReason)
     \/ call.pc = "select" /\ Return("io")
  /\ handles' = handles \ {call.candidate}
  /\ UNCHANGED <<context, owned, late, stream, wire>>

Kept_Dropped == owned
Kept == IF owned = 0 THEN call.candidate ELSE owned
SendSucceeds ==
  /\ At("sendTo", "io")
  /\ NativeBegins
  /\ Written(1)
  /\ call' = [Idle EXCEPT !.out = "ok", !.sent = Progress(1).sent]
  /\ owned' = Kept
  /\ UNCHANGED <<context, handles, stream>>

SendFails == At("sendTo", "io") /\ NextAddress

\* Interrupted, or it would block after all.
Again ==
  /\ call.pc = "io"
  /\ NativeBegins
  /\ GoTo("wait")
  /\ UNCHANGED <<context, owned, handles, stream, wire>>

-----------------------------------------------------------------------------
(***************************************************************************)
(* receiveFrom().                                                          *)
(***************************************************************************)
ReceiveBegins ==
  /\ At("receiveFrom", "begin")
  /\ GoTo("wait") \/ Return("exhausted")
  /\ UNCHANGED <<context, owned, handles, late, stream, wire>>

\* A whole datagram is taken, if only its prefix is given to the caller, and if
\* its source cannot be read none of it.
Receive ==
  /\ At("receiveFrom", "io")
  /\ taken < arrived
  /\ NativeBegins
  /\ taken' = taken + 1
  /\ \/ got' = Append(got, taken + 1) /\ \E out \in {"ok", "truncated"} : Return(out)
     \/ got' = got /\ Return("io")
  /\ UNCHANGED <<context, owned, handles, arrived, wire>>

\* Any error, a reset by the peer among them, leaves the socket open.
ReceiveFails == At("receiveFrom", "io") /\ TransferReturns("io")

Ready == call.op = "receiveFrom" => taken < arrived

Step ==
  \/ Close \/ Resolve \/ CandidateFails
  \/ BindStops \/ BindCandidate \/ BindFails \/ BindSucceeds
  \/ SendOwned \/ SendCandidate \/ SendSucceeds \/ SendFails
  \/ WaitBegins \/ WaitSlice(Ready) \/ WaitStops \/ Again
  \/ ReceiveBegins \/ Receive \/ ReceiveFails

Next == (\E op \in Operations : Call(op)) \/ Step \/ Arrives \/ Cancel \/ Tick

-----------------------------------------------------------------------------
\* Type invariant.
TypeOK ==
  /\ BaseTypeOK
  /\ call.op \in Operations \cup {"none"}
  /\ call.pc \in {"none", "begin", "address", "bind", "wait", "select", "io"}

\* What is left of the socket (XptTransport.md:157).
OwnerAfter(out) ==
  CASE call.op = "close" -> {0}
    [] call.op = "bind" /\ out = "ok" -> {call.candidate}
    [] call.op = "sendTo" /\ out = "ok" /\ call.before = 0 -> {call.candidate}
    [] OTHER -> {call.before}
=============================================================================
