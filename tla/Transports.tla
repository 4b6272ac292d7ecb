----------------------------- MODULE Transports -----------------------------
(***************************************************************************)
(* The four transports side by side: a program has one of them here, and   *)
(* what a caller may rely on in all of them is stated once.                *)
(***************************************************************************)
EXTENDS Transport

CONSTANTS
  WordMax, PerMillisecond, Timeouts, Delays, MaxAttempts, MaxNow  \* of HttpClient

ASSUME HttpAssumption ==
  /\ {WordMax, PerMillisecond, MaxAttempts} \subseteq Nat \ {0} /\ MaxNow \in Nat
  /\ Timeouts \subseteq 0..WordMax /\ Delays \subseteq 0..WordMax

VARIABLES
  transport,  \* which one this is
  link, peeked,
  is_read_pending, buffer, read, write,
  options, timeout, now, deadline, pc, attempt, outcome, since, resume

Tcp    == INSTANCE TcpClient
Udp    == INSTANCE UdpClient
Serial == INSTANCE SerialPort
Http   == INSTANCE HttpClient

tcp    == <<link, peeked>>
serial == <<is_read_pending, buffer, read, write>>
http   == <<options, timeout, now, deadline, pc, attempt, outcome, since, resume>>
native == <<windows, owned, handles, call, budget, arrived, taken, got, wire>>
vars   == <<transport, base, tcp, serial, http>>

\* The platform makes no difference to UDP and HTTP.
TransportsInit ==
  /\ transport \in {"tcp", "udp", "serial", "http"}
  /\ Tcp!TcpInit /\ Serial!SerialInit
  /\ transport \in {"udp", "http"} => ~windows
  /\ IF transport = "http" THEN Http!Init
     ELSE /\ options = 0 /\ timeout = 0 /\ now = 0 /\ deadline = 0 /\ pc = "none"
          /\ attempt = 0 /\ outcome = "none" /\ since = 0 /\ resume = 0

OfTcp(A)    == transport = "tcp" /\ A /\ UNCHANGED <<transport, serial, http>>
OfUdp(A)    == transport = "udp" /\ A /\ UNCHANGED <<transport, tcp, serial, http>>
OfSerial(A) == transport = "serial" /\ A /\ UNCHANGED <<transport, tcp, http>>
OfHttp(A)   == transport = "http" /\ A /\ UNCHANGED <<transport, native, tcp, serial>>

Next == OfTcp(Tcp!Next) \/ OfUdp(Udp!Next) \/ OfSerial(Serial!Next) \/ OfHttp(Http!Next)

\* What is fair: the caller's thread runs and the clock goes on; the network, the
\* peer, the driver and the server owe nothing.
Steps == OfTcp(Tcp!Step) \/ OfUdp(Udp!Step) \/ OfSerial(Serial!Step) \/ OfHttp(Http!Step)
Ticks ==
  \/ transport # "http" /\ Tick /\ UNCHANGED <<transport, tcp, serial, http>>
  \/ OfHttp(Http!Tick)

-----------------------------------------------------------------------------
(***************************************************************************)
(* Properties.                                                             *)
(***************************************************************************)
\* Between calls no native handle is open but the one that is owned, whatever
\* failed on the way, and the driver never works on an event, an OVERLAPPED or
\* a buffer that is gone.
NativeOwned ==
  /\ Quiet => handles = {owned} \ {0}
  /\ transport = "tcp" => Tcp!TypeOK
  /\ transport = "udp" => Udp!TypeOK
  /\ transport = "serial" => Serial!TypeOK /\ Serial!IoOwned
  /\ transport = "http" => Http!TypeOK

\* What a call leaves of the connection, socket or port it found, for each of
\* its outcomes: a timeout or a cancellation never costs a port or a socket, but
\* for connect(), which has closed the old connection (XptTransport.md:118-127,
\* 157-165, 184-186).
OwnerKept ==
  [][Returns => owned' \in CASE transport = "tcp"    -> Tcp!OwnerAfter(call'.out)
                             [] transport = "udp"    -> Udp!OwnerAfter(call'.out)
                             [] transport = "serial" -> Serial!OwnerAfter(call'.out)
                             [] OTHER                -> {0}]_vars

\* What arrived is returned in its order and at most once, and what was sent is
\* what the result reports, each byte once, even if the operation timed out, was
\* cancelled as it completed, or outlived its call (XptTransport.md:229: "consumed
\* bytes are never returned twice").
TransferExact ==
  /\ ProgressExact
  /\ transport = "tcp" => got = Numbers(taken)
  /\ transport = "udp" => \A i, j \in 1..Len(got) : i < j => got[i] < got[j]
  /\ transport = "serial" => Serial!BytesKept

\* At most one more native operation, or transfer, begins after a cancellation.
CancelHeeded == late <= 1

\* HTTP alone repeats what it has sent.
RetryAuthorized == Http!RetryAuthorized

\* Every call returns although nobody answers and nobody cancels.
Busy == IF transport = "http" THEN pc # "done" ELSE ~Quiet
=============================================================================
