--------------------------- MODULE Devices_proofs ---------------------------
(***************************************************************************)
(* What the transports and the camera adapters of Devices promise, for any *)
(* timeouts, sizes, addresses, policies, words of the clock and numbers of *)
(* buffers.                                                                *)
(*                                                                         *)
(* Each of them has an invariant of its own.  That of a transport says     *)
(* where its operation can stand, which handles are open there, and which  *)
(* numbers the bytes that were given, kept and sent have; that of an       *)
(* adapter says where a call can stand, and who has each buffer there.  An *)
(* invariant of all of them says that the one of the behaviour's device    *)
(* holds.                                                                  *)
(***************************************************************************)
EXTENDS Devices, SequenceTheorems, FunctionTheorems, FiniteSetTheorems, WellFoundedInduction, TLAPS

-----------------------------------------------------------------------------
(***************************************************************************)
(* Sequences of successive numbers.                                        *)
(***************************************************************************)

\* Numbers from the one after n on.
Piece(n, m) == [i \in 1..m |-> n + i]

LEMMA PieceIs ==
  ASSUME NEW n \in Nat, NEW m \in Nat
  PROVE  /\ Piece(n, m) \in Seq(1..(n + m)) /\ Piece(n, m) \in Seq(Nat) /\ Len(Piece(n, m)) = m
         /\ \A i \in 1..m : Piece(n, m)[i] = n + i
<1>1. \A i \in 1..m : n + i \in 1..(n + m)
  OBVIOUS
<1> QED BY <1>1 DEF Piece

LEMMA NumbersAre ==
  ASSUME NEW n \in Nat
  PROVE  /\ Numbers(n) \in Seq(1..n) /\ Numbers(n) \in Seq(Nat) /\ Len(Numbers(n)) = n
         /\ \A i \in 1..n : Numbers(n)[i] = i
         /\ Numbers(0) = <<>>
<1>1. Numbers(0) = <<>>
  BY DEF Numbers
<1> QED BY <1>1 DEF Numbers

LEMMA NumbersGrow ==
  ASSUME NEW n \in Nat, NEW m \in Nat
  PROVE  Numbers(n) \o Piece(n, m) = Numbers(n + m)
<1>1. Numbers(n) \in Seq(Nat) /\ Piece(n, m) \in Seq(Nat) /\ Numbers(n + m) \in Seq(Nat)
  BY NumbersAre, PieceIs
<1> DEFINE low == Numbers(n)
           high == Piece(n, m)
<1>2. /\ low \o high \in Seq(Nat)
      /\ Len(low \o high) = n + m
      /\ \A i \in 1 .. n + m : (low \o high)[i] = IF i <= n THEN low[i] ELSE high[i - n]
  <2>1. low \in Seq(Nat) /\ high \in Seq(Nat) /\ Len(low) = n /\ Len(high) = m
    BY <1>1, NumbersAre, PieceIs
  <2> HIDE DEF low, high
  <2> QED BY <2>1, ConcatProperties
<1>3. ASSUME NEW i \in 1..(n + m) PROVE (Numbers(n) \o Piece(n, m))[i] = Numbers(n + m)[i]
  <2>1. Numbers(n + m)[i] = i
    BY NumbersAre
  <2>2. i <= n => Numbers(n)[i] = i
    BY NumbersAre
  <2>3. i > n => Piece(n, m)[i - n] = i
    <3>1. i > n => i - n \in 1..m /\ n + (i - n) = i
      OBVIOUS
    <3> QED BY <3>1, PieceIs
  <2> QED BY <1>2, <2>1, <2>2, <2>3
<1>4. Len(Numbers(n + m)) = n + m
  BY NumbersAre
<1> HIDE DEF Numbers
<1> QED BY <1>1, <1>2, <1>3, <1>4, SeqEqual

LEMMA NumbersAppend ==
  ASSUME NEW n \in Nat
  PROVE  Append(Numbers(n), n + 1) = Numbers(n + 1)
<1>1. Numbers(n) \in Seq(Nat) /\ Numbers(n + 1) \in Seq(Nat)
  BY NumbersAre
<1>2. /\ Append(Numbers(n), n + 1) \in Seq(Nat) /\ Len(Append(Numbers(n), n + 1)) = n + 1
      /\ \A i \in 1..(n + 1) : Append(Numbers(n), n + 1)[i] = IF i = n + 1 THEN n + 1 ELSE Numbers(n)[i]
  <2> DEFINE seq == Numbers(n)
  <2>1. seq \in Seq(Nat) /\ Len(seq) = n
    BY NumbersAre
  <2> HIDE DEF seq
  <2>2. /\ Append(seq, n + 1) \in Seq(Nat) /\ Len(Append(seq, n + 1)) = n + 1
        /\ \A i \in 1..(n + 1) : Append(seq, n + 1)[i] = IF i = n + 1 THEN n + 1 ELSE seq[i]
    BY <2>1
  <2> QED BY <2>2 DEF seq
<1>3. Len(Numbers(n + 1)) = n + 1 /\ \A i \in 1..(n + 1) : Numbers(n + 1)[i] = i
  BY NumbersAre
<1>4. \A i \in 1..(n + 1) : Append(Numbers(n), n + 1)[i] = Numbers(n + 1)[i]
  <2> SUFFICES ASSUME NEW i \in 1..(n + 1) PROVE Append(Numbers(n), n + 1)[i] = i
    BY <1>3
  <2>1. i # n + 1 => i \in 1..n /\ Numbers(n)[i] = i
    BY NumbersAre
  <2> QED BY <1>2, <2>1
<1> QED BY <1>1, <1>2, <1>3, <1>4, SeqEqual

LEMMA ItemsOf == ASSUME NEW S, NEW seq \in Seq(S) PROVE Len(seq) \in Nat /\ \A i \in 1..Len(seq) : seq[i] \in S
  OBVIOUS

\* An increasing sequence of numbers up to n, and the next number.
Increasing(seq) == \A i, j \in 1..Len(seq) : i < j => seq[i] < seq[j]

LEMMA IncreasingAppend ==
  ASSUME NEW n \in Nat, NEW seq \in Seq(1..n), Increasing(seq)
  PROVE  Append(seq, n + 1) \in Seq(1..(n + 1)) /\ Increasing(Append(seq, n + 1))
<1> DEFINE more == Append(seq, n + 1)
<1>1. Len(seq) \in Nat /\ (\A i \in 1..Len(seq) : seq[i] \in 1..n) /\ seq \in Seq(1..(n + 1))
      /\ n + 1 \in 1..(n + 1)
  <2>1. 1..n \subseteq 1..(n + 1)
    OBVIOUS
  <2>2. seq \in Seq(1..(n + 1))
    BY <2>1, SeqMonotonic
  <2> QED BY <2>2, ItemsOf
<1>2. more \in Seq(1..(n + 1)) /\ Len(more) = Len(seq) + 1
      /\ \A i \in 1..Len(more) : more[i] = IF i = Len(seq) + 1 THEN n + 1 ELSE seq[i]
  <2> DEFINE S == 1..(n + 1)
             last == n + 1
  <2>1. seq \in Seq(S) /\ last \in S
    BY <1>1
  <2> HIDE DEF S, last
  <2>2. /\ Append(seq, last) \in Seq(S) /\ Len(Append(seq, last)) = Len(seq) + 1
        /\ \A i \in 1..(Len(seq) + 1) : Append(seq, last)[i] = IF i = Len(seq) + 1 THEN last ELSE seq[i]
    BY <2>1, AppendProperties
  <2> QED BY <2>2 DEF S, last
<1> HIDE DEF more
<1>3. ASSUME NEW i \in 1..Len(more), NEW j \in 1..Len(more), i < j PROVE more[i] < more[j]
  <2>1. i \in 1..Len(seq) /\ i # Len(seq) + 1 /\ (j # Len(seq) + 1 => j \in 1..Len(seq))
    <3>1. Len(seq) \in Nat /\ Len(more) = Len(seq) + 1 /\ i \in 1..(Len(seq) + 1) /\ j \in 1..(Len(seq) + 1)
      BY <1>1, <1>2
    <3> QED BY <1>3, <3>1
  <2>2. more[i] = seq[i] /\ more[j] = IF j = Len(seq) + 1 THEN n + 1 ELSE seq[j]
    BY <1>2, <2>1
  <2>3. seq[i] \in 1..n
    BY <1>1, <2>1
  <2> QED BY <1>3, <2>1, <2>2, <2>3 DEF Increasing
<1> QED BY <1>2, <1>3 DEF Increasing, more

LEMMA PieceNone == ASSUME NEW n \in Nat PROVE Piece(n, 0) = <<>>
  BY DEF Piece

LEMMA PieceAppend ==
  ASSUME NEW n \in Nat, NEW m \in Nat
  PROVE  Append(Piece(n, m), n + m + 1) = Piece(n, m + 1)
<1> DEFINE piece == Piece(n, m)
           next == Piece(n, m + 1)
           last == n + m + 1
<1>1. /\ piece \in Seq(Nat) /\ Len(piece) = m /\ \A i \in 1..m : piece[i] = n + i
      /\ next \in Seq(Nat) /\ Len(next) = m + 1 /\ \A i \in 1..(m + 1) : next[i] = n + i
      /\ last \in Nat /\ last = n + (m + 1)
  <2>1. m + 1 \in Nat /\ last \in Nat /\ last = n + (m + 1)
    OBVIOUS
  <2>2. piece \in Seq(Nat) /\ Len(piece) = m /\ \A i \in 1..m : piece[i] = n + i
    BY PieceIs
  <2>3. next \in Seq(Nat) /\ Len(next) = m + 1 /\ \A i \in 1..(m + 1) : next[i] = n + i
    BY <2>1, PieceIs
  <2> QED BY <2>1, <2>2, <2>3
<1> HIDE DEF piece, next, last
<1>2. /\ Append(piece, last) \in Seq(Nat) /\ Len(Append(piece, last)) = m + 1
      /\ \A i \in 1..(m + 1) : Append(piece, last)[i] = IF i = m + 1 THEN last ELSE piece[i]
  BY <1>1, AppendProperties
<1>3. \A i \in 1..(m + 1) : Append(piece, last)[i] = next[i]
  BY <1>1, <1>2
<1>4. Append(piece, last) = next
  BY <1>1, <1>2, <1>3, SeqEqual
<1> QED BY <1>4 DEF piece, next, last

LEMMA PieceSplit ==
  ASSUME NEW n \in Nat, NEW m \in Nat, NEW k \in 0..m
  PROVE  SubSeq(Piece(n, m), 1, k) = Piece(n, k) /\ SubSeq(Piece(n, m), k + 1, m) = Piece(n + k, m - k)
<1> DEFINE piece == Piece(n, m)
           front == Piece(n, k)
           back  == Piece(n + k, m - k)
<1>1. /\ piece \in Seq(Nat) /\ Len(piece) = m /\ (\A i \in 1..m : piece[i] = n + i)
         /\ (\A i \in 1..m : piece[i] \in Nat)
      /\ front \in Seq(Nat) /\ Len(front) = k /\ (\A i \in 1..k : front[i] = n + i)
  <2>1. k \in Nat
    OBVIOUS
  <2>2. piece \in Seq(Nat) /\ Len(piece) = m /\ \A i \in 1..m : piece[i] = n + i
    BY PieceIs
  <2>3. front \in Seq(Nat) /\ Len(front) = k /\ \A i \in 1..k : front[i] = n + i
    BY <2>1, PieceIs
  <2>4. \A i \in 1..m : piece[i] \in Nat
    BY <2>2
  <2> QED BY <2>2, <2>3, <2>4
<1>2. /\ back \in Seq(Nat) /\ Len(back) = m - k /\ (\A i \in 1..(m - k) : back[i] = n + k + i)
  <2>1. n + k \in Nat /\ m - k \in Nat
    OBVIOUS
  <2> QED BY <2>1, PieceIs
<1> HIDE DEF piece, front, back
<1>3. SubSeq(piece, 1, k) = front
  <2>1. \A i \in 1..k : piece[i] \in Nat
    BY <1>1
  <2>2. /\ SubSeq(piece, 1, k) \in Seq(Nat) /\ Len(SubSeq(piece, 1, k)) = k
        /\ \A i \in 1..k : SubSeq(piece, 1, k)[i] = piece[i]
    <3>1. 1 \in Int /\ k \in Int
      OBVIOUS
    <3>2. /\ SubSeq(piece, 1, k) \in Seq(Nat)
          /\ Len(SubSeq(piece, 1, k)) = IF 1 <= k THEN k - 1 + 1 ELSE 0
          /\ \A i \in 1 .. (k - 1 + 1) : SubSeq(piece, 1, k)[i] = piece[1 + i - 1]
      BY <2>1, <3>1, SubSeqProperties
    <3> QED BY <3>2
  <2>3. \A i \in 1..k : SubSeq(piece, 1, k)[i] = front[i]
    BY <1>1, <2>2
  <2> QED BY <1>1, <2>2, <2>3, SeqEqual
<1>4. SubSeq(piece, k + 1, m) = back
  <2>1. \A i \in (k + 1)..m : piece[i] \in Nat
    BY <1>1
  <2>2. /\ SubSeq(piece, k + 1, m) \in Seq(Nat) /\ Len(SubSeq(piece, k + 1, m)) = m - k
        /\ \A i \in 1..(m - k) : SubSeq(piece, k + 1, m)[i] = piece[k + i]
    <3>1. k + 1 \in Int /\ m \in Int
      OBVIOUS
    <3>2. /\ SubSeq(piece, k + 1, m) \in Seq(Nat)
          /\ Len(SubSeq(piece, k + 1, m)) = IF k + 1 <= m THEN m - (k + 1) + 1 ELSE 0
          /\ \A i \in 1 .. (m - (k + 1) + 1) : SubSeq(piece, k + 1, m)[i] = piece[k + 1 + i - 1]
      BY <2>1, <3>1, SubSeqProperties
    <3>3. m - (k + 1) + 1 = m - k /\ \A i \in Int : k + 1 + i - 1 = k + i
      OBVIOUS
    <3> QED BY <3>2, <3>3
  <2>3. \A i \in 1..(m - k) : piece[k + i] = n + k + i
    <3> SUFFICES ASSUME NEW i \in 1..(m - k) PROVE piece[k + i] = n + k + i
      OBVIOUS
    <3>1. k + i \in 1..m /\ n + (k + i) = n + k + i
      OBVIOUS
    <3> QED BY <1>1, <3>1
  <2>4. \A i \in 1..(m - k) : SubSeq(piece, k + 1, m)[i] = back[i]
    BY <1>2, <2>2, <2>3
  <2> QED BY <1>2, <2>2, <2>4, SeqEqual
<1> QED BY <1>3, <1>4 DEF piece, front, back

-----------------------------------------------------------------------------
(***************************************************************************)
(* What the transports have in common.                                     *)
(***************************************************************************)
LEMMA Bounds == MaxTimeout \in Nat \ {0} /\ MaxBytes \in Nat \ {0} /\ MaxAddresses \in Nat \ {0}
  BY TransportAssumption

Names == {0} \cup Handles
Calls(ops, pcs) ==
  [op : ops \cup {"none"}, pc : pcs \cup {"none"}, before : Names, size : 0..MaxBytes, sent : 0..MaxBytes,
   address : 0..MaxAddresses, candidate : Names, out : Outcomes]

Ranges ==
  /\ windows \in BOOLEAN /\ budget \in 0..MaxTimeout /\ cancelled \in BOOLEAN /\ late \in {0, 1}
  /\ arrived \in 0..MaxBytes /\ taken \in 0..arrived

\* What is open is the handle that is owned and the candidate.
Open == owned \in Names /\ handles = {owned, call.candidate} \ {0}

\* Once an operation began after the cancellation there is no way to the next one.
Heeded == late = 1 => cancelled /\ call.pc \in {"wait", "none"}

\* A call that is over.
Over(c, sent) == c.op = "none" /\ c.pc = "none" /\ c.candidate = 0 /\ c.sent = sent

LEMMA Zeros == "none" \in Outcomes /\ 0 \in Names /\ 0 \in 0..MaxBytes /\ 0 \in 0..MaxAddresses
  BY Bounds DEF Outcomes, Names

LEMMA IdleIs == ASSUME NEW ops, NEW pcs PROVE Idle \in Calls(ops, pcs) /\ Over(Idle, 0)
  BY Zeros DEF Idle, Calls, Over

LEMMA Fails ==
  ASSUME NEW ops, NEW pcs, NEW out \in Outcomes, call' = [Idle EXCEPT !.out = out]
  PROVE  call' \in Calls(ops, pcs) /\ Over(call', 0) /\ call'.out = out
  BY Zeros DEF Idle, Calls, Over

LEMMA Reports ==
  ASSUME NEW ops, NEW pcs, NEW out \in Outcomes, NEW sent \in 0..MaxBytes,
         call' = [Idle EXCEPT !.out = out, !.sent = sent]
  PROVE  call' \in Calls(ops, pcs) /\ Over(call', sent) /\ call'.out = out
  BY Zeros DEF Idle, Calls, Over

\* A candidate is a handle that is not open.
LEMMA FreshIs ==
  ASSUME NEW h \in Names, handles = {h} \ {0}
  PROVE  Fresh \in Handles /\ Fresh # 0 /\ Fresh # h /\ Fresh \in Names
<1>1. 1 \in Handles /\ 2 \in Handles /\ 0 \notin Handles
  BY Bounds DEF Handles
<1>2. \E x \in Handles \ handles : TRUE
  BY <1>1
<1>3. Fresh \in Handles \ handles
  BY <1>2 DEF Fresh
<1> QED BY <1>1, <1>3 DEF Names

-----------------------------------------------------------------------------
(***************************************************************************)
(* TcpClient.                                                              *)
(***************************************************************************)
\* The operators of Transport are the same in an instance of it.
LEMMA TcpSame == Tcp!Idle = Idle /\ Tcp!Outcomes = Outcomes /\ Tcp!Handles = Handles /\ Tcp!Fresh = Fresh
  BY DEF Idle, Tcp!Idle, Outcomes, Tcp!Outcomes, Handles, Tcp!Handles, Fresh, Tcp!Fresh

TcpPlaces == {"begin", "address", "wait", "select", "io"}

TcpTyped ==
  /\ call \in Calls(Tcp!Operations, TcpPlaces)
  /\ link \in {"none", "connecting", "connected", "refused", "finished", "reset"}
  /\ peeked \in 0..(Tcp!MaxPeeks - 1)

\* Where each operation can stand, and what it has sent.
TcpPlaced ==
  /\ call.op = "none" <=> call.pc = "none"
  /\ call.op \in {"check", "disconnect"} => call.pc = "begin"
  /\ call.op \in Tcp!Transfers => call.pc # "address"
  /\ call.op \notin Tcp!Transfers \cup {"none"} => call.sent = 0
  /\ call.op # "none" => call.sent <= call.size

\* connect() has a candidate while it waits for it and nothing else, and the others
\* keep the socket.
TcpOwner ==
  /\ call.op = "connect" /\ call.pc \in {"wait", "select", "io"} <=> call.candidate # 0
  /\ call.op = "connect" /\ call.pc # "begin" => owned = 0 /\ call.address # 0
  /\ call.op \in {"check", "send", "receive"} \/ call.pc = "begin" => owned = call.before
  /\ link = "none" <=> handles = {}

TcpExact == got = Numbers(taken) /\ wire = Numbers(call.sent)

TcpInv == Ranges /\ Open /\ Heeded /\ TcpTyped /\ TcpPlaced /\ TcpOwner /\ TcpExact

LEMMA TcpInitHolds == Tcp!TcpInit => TcpInv
<1> USE TcpSame
<1> SUFFICES ASSUME Tcp!TcpInit PROVE TcpInv
  OBVIOUS
<1>1. Ranges /\ Heeded
  <2>1. windows \in BOOLEAN /\ cancelled \in BOOLEAN
    BY DEF Tcp!TcpInit, Tcp!Init
  <2>2. budget = 0 /\ late = 0 /\ arrived = 0 /\ taken = 0
    BY DEF Tcp!TcpInit, Tcp!Init
  <2> QED BY <2>1, <2>2, Bounds DEF Ranges, Heeded
<1>0. Open
  BY DEF Tcp!TcpInit, Tcp!Init, Idle, Tcp!Idle, Open, Names
<1>2. call \in Calls(Tcp!Operations, TcpPlaces)
  BY IdleIs DEF Tcp!TcpInit, Tcp!Init
<1>3. TcpTyped /\ TcpPlaced /\ TcpOwner
  BY <1>2 DEF Tcp!TcpInit, Tcp!Init, Idle, Tcp!Idle, TcpTyped, TcpPlaced, TcpOwner, Tcp!Transfers, Tcp!MaxPeeks
<1>4. TcpExact
  BY NumbersAre DEF Tcp!TcpInit, Tcp!Init, Idle, Tcp!Idle, TcpExact
<1> QED BY <1>0, <1>1, <1>3, <1>4 DEF TcpInv

\* A step to another place of the call, which keeps its handles.
LEMMA TcpGoes ==
  ASSUME TcpInv, NEW place \in {"wait", "select", "io"}, Tcp!GoTo(place),
         UNCHANGED <<Tcp!context, owned, handles, Tcp!stream, wire, link, peeked>>,
         call.op \in Tcp!Transfers \/ (call.op = "connect" /\ call.pc \in {"wait", "select", "io"}),
         late' \in {0, 1}, late' = 1 => cancelled /\ place = "wait"
  PROVE  TcpInv'
<1> USE TcpSame
<1> USE DEF TcpInv, Tcp!context, Tcp!stream
<1>1. call \in Calls(Tcp!Operations, TcpPlaces) /\ place \in TcpPlaces
  BY DEF TcpTyped, TcpPlaces
<1>2. /\ call' \in Calls(Tcp!Operations, TcpPlaces)
      /\ call'.pc = place /\ call'.op = call.op /\ call'.sent = call.sent /\ call'.before = call.before
      /\ call'.size = call.size /\ call'.candidate = call.candidate /\ call'.address = call.address
  BY <1>1 DEF Tcp!GoTo, Calls
<1>3. Ranges' /\ Open' /\ Heeded'
  BY <1>2 DEF Ranges, Open, Heeded
<1>4. TcpTyped' /\ TcpPlaced' /\ TcpOwner'
  BY <1>2 DEF TcpTyped, TcpPlaced, TcpOwner, Tcp!Transfers
<1>5. TcpExact'
  BY <1>2 DEF TcpExact
<1> QED BY <1>3, <1>4, <1>5

\* A call without a candidate that ends where it stands.
LEMMA TcpEnds ==
  ASSUME TcpInv, NEW out \in Outcomes, Tcp!Return(out), call.candidate = 0,
         UNCHANGED <<Tcp!context, owned, handles, late, Tcp!stream, wire, link, peeked>>
  PROVE  TcpInv'
<1> USE TcpSame
<1> USE DEF TcpInv, Tcp!context, Tcp!stream
<1>1. /\ call' \in Calls(Tcp!Operations, TcpPlaces)
      /\ call'.pc = "none" /\ call'.op = "none" /\ call'.sent = call.sent /\ call'.candidate = 0
  <2>1. call.sent \in 0..MaxBytes
    BY DEF TcpTyped, Calls
  <2> QED BY <2>1, Reports DEF Tcp!Return, Over
<1>2. Ranges' /\ Open' /\ Heeded'
  BY <1>1 DEF Ranges, Open, Heeded
<1>3. TcpTyped' /\ TcpPlaced' /\ TcpOwner'
  BY <1>1 DEF TcpTyped, TcpPlaced, TcpOwner, Tcp!Transfers
<1>4. TcpExact'
  BY <1>1 DEF TcpExact
<1> QED BY <1>2, <1>3, <1>4

\* A call that ends and closes the socket.
LEMMA TcpCloses ==
  ASSUME TcpInv, NEW out \in Outcomes, Tcp!TransferCloses(out), call.candidate = 0,
         link' = "none", UNCHANGED peeked
  PROVE  TcpInv'
<1> USE TcpSame
<1> USE DEF TcpInv, Tcp!context, Tcp!TransferCloses, Tcp!Closed, Tcp!NewStream
<1>1. /\ call' \in Calls(Tcp!Operations, TcpPlaces)
      /\ call'.pc = "none" /\ call'.op = "none" /\ call'.sent = call.sent /\ call'.candidate = 0
  <2>1. call.sent \in 0..MaxBytes
    BY DEF TcpTyped, Calls
  <2> QED BY <2>1, Reports DEF Tcp!Return, Over
<1>2. Ranges' /\ Open' /\ Heeded'
  BY <1>1, Bounds DEF Ranges, Open, Heeded, Names
<1>3. handles' = {}
  BY DEF Open
<1>4. TcpTyped' /\ TcpPlaced' /\ TcpOwner'
  BY <1>1, <1>3 DEF TcpTyped, TcpPlaced, TcpOwner, Tcp!Transfers
<1>5. TcpExact'
  BY <1>1, NumbersAre DEF TcpExact
<1> QED BY <1>2, <1>4, <1>5

\* A connect() that gives its candidate up, for the next one or for good.
LEMMA TcpDrops ==
  ASSUME TcpInv, call.op = "connect", call.pc # "begin",
         UNCHANGED <<Tcp!context, owned, late, Tcp!stream, wire, peeked>>,
         handles' = handles \ {call.candidate}, link' = "none",
         \/ \E out \in Outcomes : call' = [Idle EXCEPT !.out = out] \/ Tcp!Return(out)
         \/ /\ call.address > 1 /\ call.pc # "wait"
            /\ call' = [call EXCEPT !.pc = "address", !.address = call.address - 1, !.candidate = 0]
  PROVE  TcpInv'
<1> USE TcpSame
<1> USE DEF TcpInv, Tcp!context, Tcp!stream
<1>1. owned = 0 /\ handles' = {} /\ call.sent = 0
  BY DEF TcpOwner, TcpPlaced, Tcp!Transfers, Open
<1>2. /\ call' \in Calls(Tcp!Operations, TcpPlaces) /\ call'.candidate = 0 /\ call'.sent = 0
      /\ \/ call'.op = "none" /\ call'.pc = "none"
         \/ call'.op = "connect" /\ call'.pc = "address" /\ call'.address # 0 /\ call.pc # "wait"
            /\ call'.size \in Nat
  <2>1. CASE \E out \in Outcomes : call' = [Idle EXCEPT !.out = out] \/ Tcp!Return(out)
    BY <2>1, <1>1, Zeros, Fails, Reports DEF Tcp!Return, Over
  <2>2. CASE call.address > 1
             /\ call' = [call EXCEPT !.pc = "address", !.address = call.address - 1, !.candidate = 0]
                /\ call.pc # "wait"
    <3>1. call \in Calls(Tcp!Operations, TcpPlaces) /\ call.address - 1 \in 0..MaxAddresses
          /\ call.address - 1 # 0
      BY <2>2, Bounds DEF TcpTyped, Calls
    <3>2. "address" \in TcpPlaces /\ 0 \in Names
      BY DEF TcpPlaces, Names
    <3>3. call' \in Calls(Tcp!Operations, TcpPlaces)
      BY <2>2, <3>1, <3>2 DEF Calls
    <3>4. call'.op = "connect" /\ call'.pc = "address" /\ call'.address = call.address - 1
          /\ call'.candidate = 0
          /\ call'.sent = 0 /\ call'.size = call.size
      BY <1>1, <2>2, <3>1 DEF Calls
    <3>5. call.size \in Nat
      BY <3>1, Bounds DEF Calls
    <3> QED BY <2>2, <3>1, <3>3, <3>4, <3>5
  <2> QED BY <2>1, <2>2
<1>3. Ranges' /\ Open' /\ Heeded'
  BY <1>1, <1>2 DEF Ranges, Open, Heeded, TcpPlaced
<1>4. TcpTyped' /\ TcpPlaced' /\ TcpOwner'
  BY <1>1, <1>2 DEF TcpTyped, TcpPlaced, TcpOwner, Tcp!Transfers
<1>5. TcpExact'
  BY <1>1, <1>2, NumbersAre DEF TcpExact
<1> QED BY <1>3, <1>4, <1>5

-----------------------------------------------------------------------------
LEMMA TcpReasons == Tcp!StopReason \in Outcomes
  BY TcpSame DEF Tcp!StopReason, Outcomes, Tcp!Outcomes

LEMMA TcpBegins ==
  ASSUME TcpInv, NEW op \in Tcp!Operations, NEW size \in 0..MaxBytes, Tcp!Call(op, size)
  PROVE  TcpInv'
<1> USE TcpSame
<1> USE DEF TcpInv, Tcp!Call, Tcp!Begin, Tcp!context, Tcp!stream
<1>1. owned \in Names /\ call.candidate = 0
  BY DEF Open, TcpOwner, TcpPlaced, Quiet, Tcp!Quiet, Tcp!Transfers
<1>2. /\ call' \in Calls(Tcp!Operations, TcpPlaces) /\ call'.op = op /\ call'.pc = "begin"
         /\ call'.before = owned
      /\ call'.size = size /\ call'.sent = 0 /\ call'.candidate = 0
  <2>1. "begin" \in TcpPlaces
    BY DEF TcpPlaces
  <2> QED BY <1>1, <2>1, Zeros DEF Idle, Tcp!Idle, Calls
<1>3. Ranges' /\ Open' /\ Heeded'
  BY <1>1, <1>2 DEF Ranges, Open, Heeded
<1>4. peeked' \in 0..(Tcp!MaxPeeks - 1) /\ op # "none"
  BY DEF Tcp!MaxPeeks, Tcp!Operations, Tcp!Transfers
<1>5. TcpTyped' /\ TcpPlaced' /\ TcpOwner'
  BY <1>2, <1>4 DEF TcpTyped, TcpPlaced, TcpOwner
<1>6. TcpExact'
  BY <1>2, NumbersAre DEF TcpExact
<1> QED BY <1>3, <1>5, <1>6

\* The clock, the token and the peer.
LEMMA TcpWorld ==
  ASSUME TcpInv,
         ((Tcp!Cancel \/ Tcp!Tick) /\ UNCHANGED <<link, peeked>>) \/ Tcp!ConnectSettles \/ Tcp!PeerSends \/ Tcp!PeerLeaves
  PROVE  TcpInv'
<1> USE TcpSame
<1> USE DEF TcpInv, Tcp!context, Tcp!stream
<1>1. UNCHANGED <<windows, owned, handles, call, late, taken, got, wire, peeked>>
  BY DEF Tcp!Cancel, Tcp!Tick, Tcp!ConnectSettles, Tcp!PeerSends, Tcp!PeerLeaves, Tcp!Arrives, Tcp!base
<1>2. Ranges'
  <2>1. CASE Tcp!Cancel \/ Tcp!Tick
    <3>1. Tcp!Tick => budget - 1 \in 0..MaxTimeout
      BY Bounds DEF Tcp!Tick, Tcp!Expired, Ranges
    <3> QED BY <1>1, <2>1, <3>1 DEF Tcp!Cancel, Tcp!Tick, Ranges
  <2>2. CASE Tcp!PeerSends
    BY <1>1, <2>2, Bounds DEF Tcp!PeerSends, Tcp!Arrives, Ranges
  <2>3. CASE Tcp!ConnectSettles \/ Tcp!PeerLeaves
    BY <1>1, <2>3 DEF Tcp!ConnectSettles, Tcp!PeerLeaves, Tcp!base, Ranges
  <2> QED BY <2>1, <2>2, <2>3
<1>3. Open' /\ TcpPlaced' /\ TcpExact'
  BY <1>1 DEF Open, TcpPlaced, TcpExact
<1>4. Heeded'
  <2>1. cancelled => cancelled'
    BY DEF Tcp!Cancel, Tcp!Tick, Tcp!ConnectSettles, Tcp!PeerSends, Tcp!PeerLeaves, Tcp!Arrives, Tcp!base
  <2> QED BY <1>1, <2>1 DEF Heeded
<1>5. TcpTyped' /\ TcpOwner'
  BY <1>1 DEF TcpTyped, TcpOwner, Tcp!Cancel, Tcp!Tick, Tcp!ConnectSettles, Tcp!PeerSends, Tcp!PeerLeaves,
     Tcp!Arrives, Tcp!base
<1> QED BY <1>2, <1>3, <1>4, <1>5

LEMMA TcpConnects ==
  ASSUME TcpInv, Tcp!Connect
  PROVE  TcpInv'
<1> USE TcpSame
<1> USE DEF TcpInv, Tcp!context, Tcp!stream
<1>0. call.op = "connect"
  BY DEF Tcp!Connect, Tcp!ConnectRejected, Tcp!ConnectBegins, Tcp!ConnectStops, Tcp!CandidateFails,
     Tcp!ConnectStarts, Tcp!ConnectWaitEnds,
         Tcp!ConnectFails, Tcp!ConnectSucceeds, Tcp!At
<1>1. CASE Tcp!ConnectRejected
  BY <1>1, TcpEnds DEF Tcp!ConnectRejected, Tcp!TransferReturns, Tcp!At, TcpOwner, Outcomes, Tcp!Outcomes
<1>2. CASE Tcp!ConnectBegins
  <2>1. call \in Calls(Tcp!Operations, TcpPlaces) /\ call.pc = "begin" /\ call.candidate = 0 /\ call.sent = 0
        /\ call.size \in Nat
    BY <1>2, Bounds DEF Tcp!ConnectBegins, Tcp!At, TcpTyped, TcpOwner, TcpPlaced, Tcp!Transfers, Calls
  <2>2. owned' = 0 /\ handles' = {} /\ link' = "none"
    BY <1>2, <2>1 DEF Tcp!ConnectBegins, Tcp!Closed, Open
  <2>3. /\ call' \in Calls(Tcp!Operations, TcpPlaces) /\ call'.candidate = 0 /\ call'.sent = 0
        /\ \/ call'.op = "none" /\ call'.pc = "none"
           \/ call'.op = "connect" /\ call'.pc = "address" /\ call'.address # 0 /\ call'.size \in Nat
    <3>1. PICK n \in 0..MaxAddresses :
            call' = IF n = 0 THEN [Idle EXCEPT !.out = "resolution"] ELSE [call EXCEPT !.pc = "address", !.address = n]
      BY <1>2 DEF Tcp!ConnectBegins
    <3>2. CASE n = 0
      BY <3>1, <3>2, Fails DEF Over, Outcomes, Tcp!Outcomes
    <3>3. CASE n # 0
      <4>1. "address" \in TcpPlaces
        BY DEF TcpPlaces
      <4> QED BY <1>0, <2>1, <3>1, <3>3, <4>1 DEF Calls
    <3> QED BY <3>2, <3>3
  <2>4. Ranges' /\ Open' /\ Heeded'
    BY <1>2, <2>1, <2>2, <2>3, Zeros, Bounds DEF Tcp!ConnectBegins, Tcp!Closed, Tcp!NewStream, Ranges, Open,
       Heeded
  <2>5. TcpTyped' /\ TcpPlaced' /\ TcpOwner'
    BY <1>2, <2>2, <2>3 DEF Tcp!ConnectBegins, TcpTyped, TcpPlaced, TcpOwner, Tcp!Transfers
  <2>6. TcpExact'
    BY <1>2, <2>1, <2>3, NumbersAre DEF Tcp!ConnectBegins, Tcp!Closed, Tcp!NewStream, TcpExact
  <2> QED BY <2>4, <2>5, <2>6
<1>3. CASE Tcp!ConnectStops
  BY <1>3, TcpEnds, TcpReasons DEF Tcp!ConnectStops, Tcp!At, TcpOwner
<1>4. CASE Tcp!CandidateFails
  <2>1. call.candidate = 0 /\ handles = {} /\ link = "none" /\ call.address \in 0..MaxAddresses
        /\ call.address # 0
    BY <1>4 DEF Tcp!CandidateFails, Tcp!At, TcpOwner, Open, TcpTyped, Calls
  <2>2. call.address = 1 \/ call.address > 1
    BY <2>1, Bounds
  <2> QED BY <1>4, <2>1, <2>2, TcpDrops DEF Tcp!CandidateFails, Tcp!NextAddress, Tcp!At, Outcomes, Tcp!Outcomes
<1>5. CASE Tcp!ConnectStarts
  <2>1. call.candidate = 0 /\ handles = {} /\ owned = 0 /\ call.sent = 0
        /\ call \in Calls(Tcp!Operations, TcpPlaces)
        /\ call.address # 0
    BY <1>5 DEF Tcp!ConnectStarts, Tcp!At, TcpOwner, Open, TcpTyped, TcpPlaced, Tcp!Transfers
  <2>2. Fresh # 0 /\ Fresh \in Names
    BY <2>1, FreshIs, Zeros
  <2>3. /\ link' \in {"connecting", "connected", "refused"} /\ handles' = {Fresh}
        /\ late' = 0
    BY <1>5, <2>1 DEF Tcp!ConnectStarts, Tcp!NativeBegins, Tcp!Stops, Heeded, Ranges
  <2>4. /\ call' \in Calls(Tcp!Operations, TcpPlaces) /\ call'.pc \in {"wait", "io"} /\ call'.op = "connect"
        /\ call'.candidate = Fresh /\ call'.sent = 0 /\ call'.size = call.size /\ call'.address = call.address
    <3>1. "wait" \in TcpPlaces /\ "io" \in TcpPlaces
      BY DEF TcpPlaces
    <3> QED BY <1>0, <1>5, <2>1, <2>2, <3>1 DEF Tcp!ConnectStarts, Calls
  <2>5. Ranges' /\ Open' /\ Heeded'
    BY <1>5, <2>1, <2>2, <2>3, <2>4 DEF Tcp!ConnectStarts, Ranges, Open, Heeded
  <2>6. TcpTyped' /\ TcpPlaced' /\ TcpOwner'
    BY <1>5, <2>1, <2>2, <2>3, <2>4 DEF Tcp!ConnectStarts, TcpTyped, TcpPlaced, TcpOwner, Tcp!Transfers
  <2>7. TcpExact'
    BY <1>5, <2>1, <2>4 DEF Tcp!ConnectStarts, TcpExact
  <2> QED BY <2>5, <2>6, <2>7
<1>6. CASE Tcp!ConnectWaitEnds
  BY <1>0, <1>6, TcpDrops, TcpReasons DEF Tcp!ConnectWaitEnds
<1>7. CASE Tcp!ConnectFails
  <2>1. call.address \in 0..MaxAddresses /\ call.address # 0
    BY <1>7 DEF Tcp!ConnectFails, Tcp!At, TcpOwner, TcpTyped, Calls
  <2>2. call.address = 1 \/ call.address > 1
    BY <2>1, Bounds
  <2> QED BY <1>7, <2>2, TcpDrops DEF Tcp!ConnectFails, Tcp!NextAddress, Tcp!At, Outcomes, Tcp!Outcomes
<1>8. CASE Tcp!ConnectSucceeds
  <2>1. owned = 0 /\ call.candidate # 0 /\ call.candidate \in Names /\ handles = {call.candidate}
        /\ call.sent = 0
    BY <1>8 DEF Tcp!ConnectSucceeds, Tcp!At, TcpOwner, Open, TcpPlaced, TcpTyped, Calls, Tcp!Transfers
  <2>2. call' \in Calls(Tcp!Operations, TcpPlaces) /\ call'.op = "none" /\ call'.pc = "none"
        /\ call'.candidate = 0 /\ call'.sent = 0
    BY <1>8, <2>1, Zeros, Reports DEF Tcp!ConnectSucceeds, Tcp!Return, Over, Outcomes, Tcp!Outcomes
  <2>3. Ranges' /\ Open' /\ Heeded'
    BY <1>8, <2>1, <2>2, Bounds DEF Tcp!ConnectSucceeds, Tcp!NewStream, Ranges, Open, Heeded
  <2>4. TcpTyped' /\ TcpPlaced' /\ TcpOwner'
    BY <1>8, <2>1, <2>2 DEF Tcp!ConnectSucceeds, TcpTyped, TcpPlaced, TcpOwner, Tcp!Transfers
  <2>5. TcpExact'
    BY <1>8, <2>1, <2>2, NumbersAre DEF Tcp!ConnectSucceeds, Tcp!NewStream, TcpExact
  <2> QED BY <2>3, <2>4, <2>5
<1> QED BY <1>1, <1>2, <1>3, <1>4, <1>5, <1>6, <1>7, <1>8 DEF Tcp!Connect

\* A native operation of a transfer.
LEMMA TcpCounts ==
  ASSUME TcpInv, call.pc = "io", Tcp!NativeBegins
  PROVE  late' \in {0, 1} /\ (late' = 1 => cancelled)
  BY TcpSame DEF TcpInv, Tcp!NativeBegins, Heeded, Ranges

LEMMA TcpTransfers ==
  ASSUME TcpInv, Tcp!Transfer
  PROVE  TcpInv'
<1> USE TcpSame
<1> USE DEF TcpInv, Tcp!context, Tcp!stream
<1>0. call.candidate = 0 \/ call.op = "connect"
  BY DEF TcpOwner
<1>1. CASE Tcp!TransferBegins
  <2>1. call.op \in Tcp!Transfers /\ call.candidate = 0 /\ late' = 0
    BY <1>1, <1>0 DEF Tcp!TransferBegins, Tcp!In, Tcp!Transfers, Heeded, Ranges
  <2>2. (\E out \in {"ok", "exhausted"} : Tcp!Return(out)) \/ Tcp!GoTo("wait")
    BY <1>1 DEF Tcp!TransferBegins
  <2>3. CASE Tcp!GoTo("wait")
    <3>1. UNCHANGED <<Tcp!context, owned, handles, Tcp!stream, wire, link, peeked>>
      BY <1>1 DEF Tcp!TransferBegins
    <3> QED BY <2>1, <2>3, <3>1, TcpGoes
  <2>4. CASE \E out \in {"ok", "exhausted"} : Tcp!Return(out)
    BY <1>1, <2>1, <2>4, TcpEnds DEF Tcp!TransferBegins, Outcomes, Tcp!Outcomes
  <2> QED BY <2>2, <2>3, <2>4
<1>2. CASE Tcp!TransferStops
  BY <1>0, <1>2, TcpEnds, TcpReasons DEF Tcp!TransferStops, Tcp!TransferReturns, Tcp!Transfers, Outcomes,
     Tcp!Outcomes
<1>3. CASE Tcp!Send
  <2>1. call \in Calls(Tcp!Operations, TcpPlaces) /\ call.op = "send" /\ call.candidate = 0 /\ call.pc = "io"
    BY <1>0, <1>3 DEF Tcp!Send, Tcp!At, TcpTyped
  <2>2. PICK n \in 1..(call.size - call.sent) :
          /\ Tcp!Written(n)
          /\ call' = IF Tcp!Progress(n).sent = call.size THEN [Idle EXCEPT !.out = "ok", !.sent = Tcp!Progress(n).sent]
                     ELSE [Tcp!Progress(n) EXCEPT !.pc = "wait"]
    BY <1>3 DEF Tcp!Send
  <2>3. /\ call.sent \in Nat /\ call.size \in Nat /\ call.size <= MaxBytes /\ n \in Nat
        /\ call.sent + n \in 0..MaxBytes /\ call.sent + n <= call.size
    BY <2>1, <2>2, Bounds DEF Calls
  <2>4. Tcp!Progress(n) \in Calls(Tcp!Operations, TcpPlaces) /\ Tcp!Progress(n).sent = call.sent + n
        /\ Tcp!Progress(n).op = "send" /\ Tcp!Progress(n).candidate = 0 /\ Tcp!Progress(n).before = call.before
           /\ Tcp!Progress(n).size = call.size
    BY <2>1, <2>3 DEF Tcp!Progress, Calls
  <2>5. /\ call' \in Calls(Tcp!Operations, TcpPlaces) /\ call'.candidate = 0 /\ call'.sent = call.sent + n
        /\ \/ call'.op = "none" /\ call'.pc = "none"
           \/ call'.op = "send" /\ call'.pc = "wait" /\ call'.size = call.size /\ call'.before = call.before
    <3>1. CASE Tcp!Progress(n).sent = call.size
      BY <2>2, <2>3, <2>4, <3>1, Reports DEF Over, Outcomes, Tcp!Outcomes
    <3>2. CASE Tcp!Progress(n).sent # call.size
      <4>1. call' = [Tcp!Progress(n) EXCEPT !.pc = "wait"] /\ "wait" \in TcpPlaces
        BY <2>2, <3>2 DEF TcpPlaces
      <4> HIDE DEF Tcp!Progress
      <4> QED BY <2>4, <4>1 DEF Calls
    <3> QED BY <3>1, <3>2
  <2>6. late' \in {0, 1} /\ (late' = 1 => cancelled)
    BY <1>3, <2>1, TcpCounts DEF Tcp!Send
  <2>7. Ranges' /\ Open' /\ Heeded'
    BY <1>3, <2>1, <2>5, <2>6 DEF Tcp!Send, Ranges, Open, Heeded
  <2>8. TcpTyped' /\ TcpPlaced' /\ TcpOwner'
    BY <1>3, <2>1, <2>3, <2>5 DEF Tcp!Send, TcpTyped, TcpPlaced, TcpOwner, Tcp!Transfers
  <2>9. TcpExact'
    <3>1. wire' = Numbers(call.sent) \o Piece(call.sent, n)
      BY <2>2 DEF TcpExact, Tcp!Written, Piece
    <3>2. wire' = Numbers(call.sent + n)
      BY <2>3, <3>1, NumbersGrow
    <3> QED BY <1>3, <2>5, <3>2 DEF Tcp!Send, TcpExact
  <2> QED BY <2>7, <2>8, <2>9
<1>4. CASE Tcp!Receive
  <2>1. call.op = "receive" /\ call.candidate = 0 /\ call.pc = "io" /\ call.sent \in 0..MaxBytes
        /\ call.size \in Nat
    BY <1>0, <1>4, Bounds DEF Tcp!Receive, Tcp!At, TcpTyped, Calls
  <2>2. PICK n \in 1..Tcp!LesserOf(call.size, arrived - taken) :
          taken' = taken + n /\ got' = got \o Piece(taken, n)
    BY <1>4 DEF Tcp!Receive, Piece
  <2>3. n \in Nat /\ taken \in Nat /\ taken + n \in 0..arrived
    BY <2>1, <2>2, Bounds DEF Tcp!LesserOf, Ranges
  <2>4. call' \in Calls(Tcp!Operations, TcpPlaces) /\ call'.op = "none" /\ call'.pc = "none"
        /\ call'.candidate = 0 /\ call'.sent = call.sent
    BY <1>4, <2>1, Reports DEF Tcp!Receive, Tcp!Return, Over, Outcomes, Tcp!Outcomes
  <2>5. late' \in {0, 1} /\ (late' = 1 => cancelled)
    BY <1>4, <2>1, TcpCounts DEF Tcp!Receive
  <2>6. Ranges' /\ Open' /\ Heeded'
    BY <1>4, <2>1, <2>2, <2>3, <2>4, <2>5 DEF Tcp!Receive, Ranges, Open, Heeded
  <2>7. TcpTyped' /\ TcpPlaced' /\ TcpOwner'
    BY <1>4, <2>4 DEF Tcp!Receive, TcpTyped, TcpPlaced, TcpOwner, Tcp!Transfers
  <2>8. TcpExact'
    BY <1>4, <2>2, <2>3, <2>4, NumbersGrow DEF Tcp!Receive, TcpExact
  <2> QED BY <2>6, <2>7, <2>8
<1>5. CASE Tcp!Again
  BY <1>5, TcpCounts, TcpGoes DEF Tcp!Again, Tcp!In
<1>6. CASE Tcp!ConnectionLost
  BY <1>0, <1>6, TcpCloses DEF Tcp!ConnectionLost, Tcp!In, Tcp!Transfers, Outcomes, Tcp!Outcomes
<1>7. CASE Tcp!NativeFails
  BY <1>0, <1>7, TcpEnds DEF Tcp!NativeFails, Tcp!TransferReturns, Tcp!In, Tcp!Transfers, Outcomes, Tcp!Outcomes
<1>8. CASE Tcp!CheckInterrupted
  <2>1. UNCHANGED Tcp!base /\ UNCHANGED link /\ peeked' \in 0..(Tcp!MaxPeeks - 1)
    BY <1>8 DEF Tcp!CheckInterrupted, TcpTyped, Tcp!MaxPeeks
  <2> QED BY <2>1 DEF Tcp!base, Ranges, Open, Heeded, TcpTyped, TcpPlaced, TcpOwner, TcpExact
<1>9. CASE Tcp!CheckSucceeds
  BY <1>0, <1>9, TcpEnds DEF Tcp!CheckSucceeds, Tcp!TransferReturns, Tcp!At, Outcomes, Tcp!Outcomes
<1>10. CASE Tcp!CheckFails
  BY <1>0, <1>10, TcpCloses DEF Tcp!CheckFails, Tcp!At, Outcomes, Tcp!Outcomes
<1> QED BY <1>1, <1>2, <1>3, <1>4, <1>5, <1>6, <1>7, <1>8, <1>9, <1>10 DEF Tcp!Transfer

LEMMA TcpStepKeeps ==
  ASSUME TcpInv, Tcp!Next
  PROVE  TcpInv'
<1> USE TcpSame
<1>1. CASE Tcp!Disconnect
  BY <1>1, TcpCloses DEF Tcp!Disconnect, Tcp!At, TcpInv, TcpOwner, Outcomes, Tcp!Outcomes
<1>2. CASE (Tcp!WaitBegins \/ Tcp!WaitSlice(Tcp!Ready)) /\ UNCHANGED <<link, peeked>>
  <2>1. PICK place \in {"wait", "select", "io"} :
          Tcp!GoTo(place) /\ UNCHANGED <<Tcp!context, owned, handles, late, Tcp!stream, wire, link, peeked>>
    BY <1>2 DEF Tcp!WaitBegins, Tcp!WaitSlice
  <2>2. late = 0 /\ call.pc \in {"wait", "select"}
    BY <1>2 DEF Tcp!WaitBegins, Tcp!WaitSlice, Tcp!Stops, TcpInv, Heeded, Ranges
  <2>3. call.op \in Tcp!Transfers \/ call.op = "connect"
    BY <2>2 DEF TcpInv, TcpPlaced, TcpTyped, Calls, Tcp!Operations, Tcp!Transfers
  <2> QED BY <2>1, <2>2, <2>3, TcpGoes
<1>3. CASE Tcp!Step
  BY <1>1, <1>2, <1>3, TcpConnects, TcpTransfers DEF Tcp!Step
<1> QED BY <1>3, TcpBegins, TcpWorld DEF Tcp!Next

\* What it says of a state, and of a return.
LEMMA TcpSound ==
  ASSUME TcpInv
  PROVE  Tcp!TypeOK /\ ProgressExact /\ got = Numbers(taken) /\ late <= 1 /\ (Quiet => handles = {owned} \ {0})
<1> USE TcpSame
<1> USE DEF TcpInv
<1>1. call \in Calls(Tcp!Operations, TcpPlaces) /\ (Quiet => call.candidate = 0)
  BY DEF TcpTyped, TcpOwner, TcpPlaced, Quiet, Tcp!Quiet
<1>2. got \in Seq(1..MaxBytes) /\ wire \in Seq(1..MaxBytes) /\ wire = Numbers(Len(wire))
      /\ call.sent = Len(wire)
  <2>1. call.sent \in 0..MaxBytes /\ call.sent \in Nat /\ taken \in Nat /\ taken <= MaxBytes
    BY <1>1, Bounds DEF Ranges, Calls
  <2>2. got \in Seq(1..taken) /\ wire \in Seq(1..call.sent) /\ Len(wire) = call.sent
    BY <2>1, NumbersAre DEF TcpExact
  <2>3. 1..taken \subseteq 1..MaxBytes /\ 1..call.sent \subseteq 1..MaxBytes
    BY <2>1, Bounds
  <2>4. got \in Seq(1..MaxBytes) /\ wire \in Seq(1..MaxBytes)
    BY <2>2, <2>3, SeqMonotonic
  <2> QED BY <2>2, <2>4 DEF TcpExact
<1>3. handles \subseteq Handles /\ owned \in {0} \cup handles /\ call.candidate \in {0} \cup handles
  BY <1>1 DEF Open, Names, Calls
<1>4. Tcp!BaseTypeOK
  BY <1>1, <1>2, <1>3 DEF Tcp!BaseTypeOK, Ranges, Calls, Names
<1>5. Tcp!TypeOK
  BY <1>1, <1>4 DEF Tcp!TypeOK, TcpTyped, TcpOwner, Calls, TcpPlaces
<1>6. Quiet => handles = {owned} \ {0}
  BY <1>1 DEF Open
<1>7. late <= 1
  BY DEF Ranges
<1> QED BY <1>2, <1>5, <1>6, <1>7 DEF ProgressExact, Tcp!ProgressExact, TcpExact

\* What a return leaves of the socket.
LEMMA TcpReturns ==
  ASSUME TcpInv, Tcp!Next, Returns
  PROVE  owned' \in Tcp!OwnerAfter(call'.out)
<1> USE TcpSame
<1> USE DEF TcpInv, Returns, Tcp!Returns, Quiet, Tcp!Quiet, Tcp!OwnerAfter, Tcp!context, Tcp!stream
<1>1. call.op \in Tcp!Operations /\ call'.op = "none"
  BY DEF TcpTyped, Calls
<1>2. CASE Tcp!Disconnect
  BY <1>2 DEF Tcp!Disconnect, Tcp!TransferCloses, Tcp!Closed, Tcp!At
<1>3. CASE Tcp!Connect
  <2>1. CASE Tcp!ConnectRejected
    BY <2>1, Reports DEF Tcp!ConnectRejected, Tcp!TransferReturns, Tcp!Return, Tcp!At, TcpOwner, TcpTyped,
       Calls, Outcomes, Tcp!Outcomes
  <2>2. CASE Tcp!ConnectBegins
    <3>1. owned' = 0 /\ call.op = "connect" /\ call.pc = "begin"
      BY <2>2 DEF Tcp!ConnectBegins, Tcp!Closed, Tcp!At
    <3>2. PICK n \in 0..MaxAddresses :
            call' = IF n = 0 THEN [Idle EXCEPT !.out = "resolution"] ELSE [call EXCEPT !.pc = "address", !.address = n]
      BY <2>2 DEF Tcp!ConnectBegins
    <3>3. n = 0
      BY <1>1, <3>1, <3>2 DEF TcpTyped, Calls
    <3>4. call'.out = "resolution"
      BY <3>2, <3>3, Fails DEF Outcomes, Tcp!Outcomes
    <3> QED BY <3>1, <3>4
  <2>3. CASE Tcp!ConnectSucceeds
    <3>1. call'.out = "ok" /\ owned' = call.candidate /\ call.op = "connect"
      BY <2>3, Reports DEF Tcp!ConnectSucceeds, Tcp!Return, Tcp!At, TcpTyped, Calls, Outcomes, Tcp!Outcomes
    <3> QED BY <3>1
  <2>4. CASE Tcp!ConnectStops \/ Tcp!CandidateFails \/ Tcp!ConnectWaitEnds \/ Tcp!ConnectFails
    <3>1. owned' = 0 /\ call.op = "connect" /\ call.pc # "begin"
      BY <2>4 DEF Tcp!ConnectStops, Tcp!CandidateFails, Tcp!ConnectWaitEnds, Tcp!ConnectFails, Tcp!At, TcpOwner
    <3>2. call'.out # "ok"
      <4>1. \E out \in {"cancelled", "timeout", "connection"} : call' = [Idle EXCEPT !.out = out] \/ Tcp!Return(out)
        BY <1>1, <2>4 DEF Tcp!ConnectStops, Tcp!CandidateFails, Tcp!ConnectWaitEnds, Tcp!ConnectFails,
           Tcp!NextAddress, Tcp!StopReason, TcpTyped, Calls
      <4> QED BY <4>1, Fails, Reports DEF Tcp!Return, TcpTyped, Calls, Outcomes, Tcp!Outcomes
    <3> QED BY <3>1, <3>2
  <2>5. ~Tcp!ConnectStarts
    <3>1. Tcp!ConnectStarts => call'.op = call.op
      BY DEF Tcp!ConnectStarts, TcpTyped, Calls
    <3> QED BY <1>1, <3>1 DEF Tcp!Operations, Tcp!Transfers
  <2> QED BY <1>3, <2>1, <2>2, <2>3, <2>4, <2>5 DEF Tcp!Connect
<1>4. CASE Tcp!Transfer
  <2>1. call.op \in {"send", "receive", "check"} /\ owned = call.before
    BY <1>4 DEF Tcp!Transfer, Tcp!TransferBegins, Tcp!TransferStops, Tcp!Send, Tcp!Receive, Tcp!Again,
       Tcp!ConnectionLost, Tcp!NativeFails, Tcp!CheckInterrupted,
       Tcp!CheckSucceeds, Tcp!CheckFails, Tcp!At, Tcp!In, Tcp!Transfers, TcpOwner
  <2>2. CASE Tcp!ConnectionLost \/ Tcp!CheckFails
    <3>1. owned' = 0 /\ Tcp!Return("connection")
      BY <2>2 DEF Tcp!ConnectionLost, Tcp!CheckFails, Tcp!TransferCloses, Tcp!Closed
    <3>2. call'.out = "connection"
      BY <3>1, Reports DEF Tcp!Return, TcpTyped, Calls, Outcomes, Tcp!Outcomes
    <3> QED BY <2>1, <3>1, <3>2
  <2>3. CASE Tcp!TransferBegins \/ Tcp!TransferStops \/ Tcp!Receive \/ Tcp!NativeFails \/ Tcp!CheckSucceeds
    <3>1. owned' = owned /\ \E out \in {"ok", "exhausted", "cancelled", "timeout", "io"} : Tcp!Return(out)
      <4>1. ~Tcp!GoTo("wait")
        BY <1>1, <2>1 DEF Tcp!GoTo, TcpTyped, Calls
      <4> QED BY <2>3, <4>1 DEF Tcp!TransferBegins, Tcp!TransferStops, Tcp!TransferReturns, Tcp!Receive,
              Tcp!NativeFails, Tcp!CheckSucceeds, Tcp!StopReason
    <3>2. call'.out # "connection"
      BY <3>1, Reports DEF Tcp!Return, TcpTyped, Calls, Outcomes, Tcp!Outcomes
    <3> QED BY <2>1, <3>1, <3>2
  <2>4. CASE Tcp!Send
    <3>1. PICK n \in 1..(call.size - call.sent) :
            call' = IF Tcp!Progress(n).sent = call.size THEN [Idle EXCEPT !.out = "ok", !.sent = Tcp!Progress(n).sent]
                    ELSE [Tcp!Progress(n) EXCEPT !.pc = "wait"]
      BY <2>4 DEF Tcp!Send
    <3>2. Tcp!Progress(n).sent = call.size /\ call.size \in 0..MaxBytes
      BY <1>1, <3>1 DEF Tcp!Progress, TcpTyped, Calls, Tcp!Operations
    <3>3. owned' = owned /\ call' = [Idle EXCEPT !.out = "ok", !.sent = call.size]
      BY <2>4, <3>1, <3>2 DEF Tcp!Send
    <3>4. call'.out = "ok"
      BY <3>2, <3>3, Reports DEF Outcomes, Tcp!Outcomes
    <3> QED BY <2>1, <3>3, <3>4
  <2>5. ~Tcp!Again /\ ~Tcp!CheckInterrupted
    BY <1>1, <2>1 DEF Tcp!Again, Tcp!CheckInterrupted, Tcp!GoTo, Tcp!base, TcpTyped, Calls
  <2> QED BY <1>4, <2>2, <2>3, <2>4, <2>5 DEF Tcp!Transfer
<1>5. ~((Tcp!WaitBegins \/ Tcp!WaitSlice(Tcp!Ready)) /\ UNCHANGED <<link, peeked>>)
  BY <1>1 DEF Tcp!WaitBegins, Tcp!WaitSlice, Tcp!GoTo, TcpTyped, Calls, Tcp!Operations, Tcp!Transfers
<1>6. ASSUME NEW op \in Tcp!Operations, NEW size \in 0..MaxBytes, Tcp!Call(op, size) PROVE FALSE
  BY <1>1, <1>6 DEF Tcp!Call, Tcp!Begin, Tcp!Operations, Tcp!Transfers
<1>7. ~(Tcp!ConnectSettles \/ Tcp!PeerSends \/ Tcp!PeerLeaves \/ ((Tcp!Cancel \/ Tcp!Tick) /\ UNCHANGED <<link, peeked>>))
  BY <1>1 DEF Tcp!ConnectSettles, Tcp!PeerSends, Tcp!PeerLeaves, Tcp!Arrives, Tcp!Cancel, Tcp!Tick, Tcp!base,
     Tcp!Operations, Tcp!Transfers
<1> HIDE DEF TcpInv, Tcp!OwnerAfter, Returns, Tcp!Returns, Quiet, Tcp!Quiet, Tcp!context, Tcp!stream
<1>8. CASE Tcp!Step
  BY <1>2, <1>3, <1>4, <1>5, <1>8 DEF Tcp!Step
<1>9. ~\E op \in Tcp!Operations, size \in 0..MaxBytes : Tcp!Call(op, size)
  BY <1>6
<1> QED BY <1>7, <1>8, <1>9 DEF Tcp!Next

-----------------------------------------------------------------------------
(***************************************************************************)
(* UdpClient.                                                              *)
(***************************************************************************)
\* The operators of Transport are the same in an instance of it.
LEMMA UdpSame == Udp!Idle = Idle /\ Udp!Outcomes = Outcomes /\ Udp!Handles = Handles /\ Udp!Fresh = Fresh
  BY DEF Idle, Udp!Idle, Outcomes, Udp!Outcomes, Handles, Udp!Handles, Fresh, Udp!Fresh

UdpPlaces == {"begin", "address", "bind", "wait", "select", "io"}
UdpWaiting == {"wait", "select", "io"}

UdpTyped == call \in Calls(Udp!Operations, UdpPlaces)

\* Where each operation can stand.
UdpPlaced ==
  /\ call.op = "none" <=> call.pc = "none"
  /\ call.op = "close" => call.pc = "begin"
  /\ call.op = "bind" => call.pc \in {"begin", "address", "bind"}
  /\ call.op = "receiveFrom" => call.pc \in {"begin"} \cup UdpWaiting
  /\ call.op = "sendTo" => call.pc # "bind"
  /\ call.pc \in {"address", "bind"} => call.address # 0
  /\ call.op = "sendTo" /\ call.pc # "begin" => call.address # 0

\* A call keeps the socket it found until it returns; a candidate stands for the one
\* bind() makes, and for the one sendTo() makes when there is none.
UdpOwner ==
  /\ call.op # "none" => owned = call.before /\ call.sent = 0
  /\ call.candidate # 0 <=> \/ call.op = "bind" /\ call.pc = "bind"
                            \/ call.op = "sendTo" /\ call.pc \in UdpWaiting /\ owned = 0
  /\ call.candidate # 0 => call.candidate # owned

\* The datagrams that were given are some of those that were taken, in their order.
UdpExact ==
  /\ wire = Numbers(call.sent)
  /\ got \in Seq(1..taken)
  /\ \A i, j \in 1..Len(got) : i < j => got[i] < got[j]

UdpInv == Ranges /\ Open /\ Heeded /\ UdpTyped /\ UdpPlaced /\ UdpOwner /\ UdpExact

LEMMA UdpInitHolds == Udp!Init => UdpInv
<1> USE UdpSame
<1> SUFFICES ASSUME Udp!Init PROVE UdpInv
  OBVIOUS
<1>1. Ranges /\ Heeded
  <2>1. windows \in BOOLEAN /\ cancelled \in BOOLEAN
    BY DEF Udp!Init
  <2>2. budget = 0 /\ late = 0 /\ arrived = 0 /\ taken = 0
    BY DEF Udp!Init
  <2> QED BY <2>1, <2>2, Bounds DEF Ranges, Heeded
<1>2. Open
  BY DEF Udp!Init, Idle, Udp!Idle, Open, Names
<1>3. UdpTyped /\ UdpPlaced /\ UdpOwner
  BY IdleIs DEF Udp!Init, Over, UdpTyped, UdpPlaced, UdpOwner, UdpWaiting
<1>4. UdpExact
  BY NumbersAre DEF Udp!Init, Idle, Udp!Idle, UdpExact
<1> QED BY <1>1, <1>2, <1>3, <1>4 DEF UdpInv

\* A step to another place of the call, which keeps its handles.
LEMMA UdpGoes ==
  ASSUME UdpInv, NEW place \in UdpWaiting, Udp!GoTo(place),
         UNCHANGED <<Udp!context, owned, handles, Udp!stream, wire>>,
         \/ call.op \in {"sendTo", "receiveFrom"} /\ call.pc \in UdpWaiting
         \/ call.op = "sendTo" /\ call.pc = "address" /\ owned # 0
         \/ call.op = "receiveFrom" /\ call.pc = "begin",
         late' \in {0, 1}, late' = 1 => cancelled /\ place = "wait"
  PROVE  UdpInv'
<1> USE UdpSame
<1> USE DEF UdpInv, Udp!context, Udp!stream
<1>1. call \in Calls(Udp!Operations, UdpPlaces) /\ place \in UdpPlaces
  BY DEF UdpTyped, UdpPlaces, UdpWaiting
<1>2. /\ call' \in Calls(Udp!Operations, UdpPlaces)
      /\ call'.pc = place /\ call'.op = call.op /\ call'.sent = call.sent /\ call'.before = call.before
      /\ call'.candidate = call.candidate /\ call'.address = call.address
  BY <1>1 DEF Udp!GoTo, Calls
<1>3. Ranges' /\ Open' /\ Heeded'
  BY <1>2 DEF Ranges, Open, Heeded
<1>4. UdpTyped' /\ UdpPlaced' /\ UdpOwner'
  BY <1>2 DEF UdpTyped, UdpPlaced, UdpOwner, UdpWaiting
<1>5. UdpExact'
  BY <1>2 DEF UdpExact
<1> QED BY <1>3, <1>4, <1>5

\* A call that ends as it found the socket, its candidate closed.
LEMMA UdpEnds ==
  ASSUME UdpInv, NEW out \in Outcomes, Udp!Return(out), handles' = handles \ {call.candidate},
         UNCHANGED <<Udp!context, owned, late, Udp!stream, wire>>
  PROVE  UdpInv'
<1> USE UdpSame
<1> USE DEF UdpInv, Udp!context, Udp!stream
<1>1. call' \in Calls(Udp!Operations, UdpPlaces) /\ call'.pc = "none" /\ call'.op = "none"
      /\ call'.sent = call.sent /\ call'.candidate = 0
  <2>1. call.sent \in 0..MaxBytes
    BY DEF UdpTyped, Calls
  <2> QED BY <2>1, Reports DEF Udp!Return, Over
<1>2. Open'
  <2>1. call.candidate # 0 => call.candidate # owned
    BY DEF UdpOwner
  <2> QED BY <1>1, <2>1 DEF Open
<1>3. Ranges' /\ Heeded'
  BY <1>1 DEF Ranges, Heeded
<1>4. UdpTyped' /\ UdpPlaced' /\ UdpOwner'
  BY <1>1 DEF UdpTyped, UdpPlaced, UdpOwner, UdpWaiting
<1>5. UdpExact'
  BY <1>1 DEF UdpExact
<1> QED BY <1>2, <1>3, <1>4, <1>5

\* ... or as it found it, without one.
LEMMA UdpKeeps == ASSUME UdpInv, call.candidate = 0,
UNCHANGED handles PROVE handles' = handles \ {call.candidate}
  BY UdpSame DEF UdpInv, Open

LEMMA UdpNext ==
  ASSUME UdpInv, Udp!NextAddress, call.address # 0, call.op \in {"bind", "sendTo"},
         call.pc \in {"address", "bind", "io"}
  PROVE  UdpInv'
<1> USE UdpSame
<1> USE DEF UdpInv, Udp!context, Udp!stream
<1>1. call \in Calls(Udp!Operations, UdpPlaces) /\ call.sent = 0 /\ handles' = handles \ {call.candidate}
  BY DEF UdpTyped, UdpOwner, Udp!NextAddress
<1>2. CASE call.address = 1
  <2>1. Udp!Return("connection")
    BY <1>2 DEF Udp!NextAddress, Udp!Return
  <2> QED BY <1>1, <2>1, UdpEnds DEF Udp!NextAddress, Outcomes, Udp!Outcomes
<1>3. CASE call.address # 1
  <2>1. call' = [call EXCEPT !.pc = "address", !.address = call.address - 1, !.candidate = 0]
    BY <1>3 DEF Udp!NextAddress
  <2>2. call.address - 1 \in 0..MaxAddresses /\ call.address - 1 # 0 /\ "address" \in UdpPlaces /\ 0 \in Names
    BY <1>1, <1>3, Bounds DEF Calls, UdpPlaces, Names
  <2>3. /\ call' \in Calls(Udp!Operations, UdpPlaces)
        /\ call'.op = call.op /\ call'.pc = "address" /\ call'.address # 0 /\ call'.candidate = 0
           /\ call'.sent = 0
        /\ call'.before = call.before
    BY <1>1, <2>1, <2>2 DEF Calls
  <2>4. Open'
    <3>1. call.candidate # 0 => call.candidate # owned
      BY DEF UdpOwner
    <3> QED BY <2>3, <3>1 DEF Open, Udp!NextAddress
  <2>5. Ranges' /\ Heeded'
    BY <2>3 DEF Ranges, Heeded, Udp!NextAddress
  <2>6. UdpTyped' /\ UdpPlaced' /\ UdpOwner'
    BY <2>3 DEF UdpTyped, UdpPlaced, UdpOwner, Udp!NextAddress, UdpWaiting
  <2>7. UdpExact'
    BY <1>1, <2>3 DEF UdpExact, Udp!NextAddress
  <2> QED BY <2>4, <2>5, <2>6, <2>7
<1> QED BY <1>2, <1>3

\* A candidate for the address.
LEMMA UdpTries ==
  ASSUME UdpInv, NEW place \in {"bind", "wait"}, Udp!Candidate(place), call.pc = "address",
         \/ call.op = "bind" /\ place = "bind"
         \/ call.op = "sendTo" /\ place = "wait" /\ owned = 0
  PROVE  UdpInv'
<1> USE UdpSame
<1> USE DEF UdpInv, Udp!context, Udp!stream, Udp!Candidate
<1>1. call \in Calls(Udp!Operations, UdpPlaces) /\ call.candidate = 0 /\ owned \in Names
      /\ handles = {owned} \ {0}
  BY DEF UdpTyped, UdpOwner, Open, UdpWaiting
<1>2. Fresh # 0 /\ Fresh # owned /\ Fresh \in Names
  BY <1>1, FreshIs
<1>3. place \in UdpPlaces
  BY DEF UdpPlaces
<1>4. /\ call' \in Calls(Udp!Operations, UdpPlaces)
      /\ call'.op = call.op /\ call'.pc = place /\ call'.address = call.address /\ call'.candidate = Fresh
      /\ call'.sent = call.sent /\ call'.before = call.before
  BY <1>1, <1>2, <1>3 DEF Calls
<1>5. Open'
  BY <1>1, <1>2, <1>4 DEF Open
<1>6. Ranges' /\ Heeded'
  BY <1>4 DEF Ranges, Heeded
<1>7. UdpTyped' /\ UdpPlaced' /\ UdpOwner'
  BY <1>2, <1>4 DEF UdpTyped, UdpPlaced, UdpOwner, UdpWaiting
<1>8. UdpExact'
  BY <1>4 DEF UdpExact
<1> QED BY <1>5, <1>6, <1>7, <1>8

LEMMA UdpReasons == Udp!StopReason \in Outcomes
  BY UdpSame DEF Udp!StopReason, Outcomes, Udp!Outcomes

LEMMA UdpBegins ==
  ASSUME UdpInv, NEW op \in Udp!Operations, Udp!Call(op)
  PROVE  UdpInv'
<1> USE UdpSame
<1> USE DEF UdpInv, Udp!Call, Udp!Begin, Udp!context, Udp!stream
<1> DEFINE size == IF op = "sendTo" THEN 1 ELSE 0
<1>1. owned \in Names /\ call.candidate = 0 /\ size \in 0..MaxBytes
  BY Bounds DEF Open, UdpOwner, UdpPlaced, Quiet, Udp!Quiet, UdpWaiting
<1>2. /\ call' \in Calls(Udp!Operations, UdpPlaces) /\ call'.op = op /\ call'.pc = "begin"
         /\ call'.before = owned
      /\ call'.sent = 0 /\ call'.candidate = 0
  <2>1. "begin" \in UdpPlaces
    BY DEF UdpPlaces
  <2>2. call' = [Idle EXCEPT !.op = op, !.pc = "begin", !.before = owned, !.size = size]
    OBVIOUS
  <2> HIDE DEF size
  <2> QED BY <1>1, <2>1, <2>2, Zeros DEF Idle, Udp!Idle, Calls
<1>3. Ranges' /\ Open' /\ Heeded'
  BY <1>1, <1>2 DEF Ranges, Open, Heeded
<1>4. UdpTyped' /\ UdpPlaced' /\ UdpOwner'
  BY <1>2 DEF UdpTyped, UdpPlaced, UdpOwner, Udp!Operations, UdpWaiting
<1>5. UdpExact'
  BY <1>2, NumbersAre DEF UdpExact
<1> QED BY <1>3, <1>4, <1>5

LEMMA UdpWorld == ASSUME UdpInv, Udp!Cancel \/ Udp!Tick \/ Udp!Arrives PROVE UdpInv'
<1> USE UdpSame
<1> USE DEF UdpInv, Udp!context, Udp!stream
<1>1. UNCHANGED <<windows, owned, handles, call, late, taken, got, wire>>
  BY DEF Udp!Cancel, Udp!Tick, Udp!Arrives
<1>2. Ranges'
  <2>1. Udp!Tick => budget - 1 \in 0..MaxTimeout
    BY Bounds DEF Udp!Tick, Udp!Expired, Ranges
  <2>2. CASE Udp!Cancel \/ Udp!Tick
    BY <1>1, <2>1, <2>2 DEF Udp!Cancel, Udp!Tick, Ranges
  <2>3. CASE Udp!Arrives
    BY <1>1, <2>3, Bounds DEF Udp!Arrives, Ranges
  <2> QED BY <2>2, <2>3
<1>3. Open' /\ UdpTyped' /\ UdpPlaced' /\ UdpOwner' /\ UdpExact'
  BY <1>1 DEF Open, UdpTyped, UdpPlaced, UdpOwner, UdpExact
<1>4. Heeded'
  <2>1. cancelled => cancelled'
    BY DEF Udp!Cancel, Udp!Tick, Udp!Arrives
  <2> QED BY <1>1, <2>1 DEF Heeded
<1> QED BY <1>2, <1>3, <1>4

-----------------------------------------------------------------------------
\* Steps that are like no other.
LEMMA UdpCloses == ASSUME UdpInv, Udp!Close PROVE UdpInv'
<1> USE UdpSame
<1> USE DEF UdpInv, Udp!context, Udp!Close, Udp!TransferCloses, Udp!Closed, Udp!NewStream, Udp!At
<1>1. /\ call' \in Calls(Udp!Operations, UdpPlaces) /\ call'.pc = "none" /\ call'.op = "none"
         /\ call'.sent = call.sent
      /\ call'.candidate = 0
  <2>1. call.sent \in 0..MaxBytes
    BY DEF UdpTyped, Calls
  <2> QED BY <2>1, Reports DEF Udp!Return, Over, Outcomes, Udp!Outcomes
<1>2. call.candidate = 0
  BY DEF UdpOwner, UdpWaiting
<1>3. Ranges' /\ Open' /\ Heeded'
  BY <1>1, <1>2, Bounds DEF Ranges, Open, Heeded, Names
<1>4. UdpTyped' /\ UdpPlaced' /\ UdpOwner'
  BY <1>1 DEF UdpTyped, UdpPlaced, UdpOwner, UdpWaiting
<1>5. UdpExact'
  <2>1. got' = <<>> /\ Len(got') = 0 /\ got' \in Seq(1..taken')
    OBVIOUS
  <2> QED BY <1>1, <2>1 DEF UdpExact
<1> QED BY <1>3, <1>4, <1>5

LEMMA UdpResolves == ASSUME UdpInv, Udp!Resolve PROVE UdpInv'
<1> USE UdpSame
<1> USE DEF UdpInv, Udp!context, Udp!stream
<1>1. call \in Calls(Udp!Operations, UdpPlaces) /\ call.candidate = 0 /\ call.sent = 0
      /\ call.op \in {"bind", "sendTo"}
      /\ call.pc = "begin" /\ owned = call.before
  BY DEF UdpTyped, UdpOwner, UdpWaiting, Udp!Resolve, Udp!In
<1>2. CASE \E out \in {"cancelled", "resolution"} : Udp!Return(out)
  BY <1>1, <1>2, UdpKeeps, UdpEnds DEF Udp!Resolve, Outcomes, Udp!Outcomes
<1>3. CASE \E n \in 1..MaxAddresses : call' = [call EXCEPT !.pc = "address", !.address = n]
  <2>1. PICK n \in 1..MaxAddresses : call' = [call EXCEPT !.pc = "address", !.address = n]
    BY <1>3
  <2>2. "address" \in UdpPlaces /\ n \in 0..MaxAddresses /\ n # 0
    BY Bounds DEF UdpPlaces
  <2>3. /\ call' \in Calls(Udp!Operations, UdpPlaces) /\ call'.op = call.op /\ call'.pc = "address"
           /\ call'.address # 0
        /\ call'.candidate = 0 /\ call'.sent = 0 /\ call'.before = call.before
    BY <1>1, <2>1, <2>2 DEF Calls
  <2>4. Ranges' /\ Open' /\ Heeded'
    BY <1>1, <2>3 DEF Udp!Resolve, Ranges, Open, Heeded
  <2>5. UdpTyped' /\ UdpPlaced' /\ UdpOwner'
    BY <1>1, <2>3 DEF Udp!Resolve, UdpTyped, UdpPlaced, UdpOwner, UdpWaiting
  <2>6. UdpExact'
    BY <1>1, <2>3 DEF Udp!Resolve, UdpExact
  <2> QED BY <2>4, <2>5, <2>6
<1> QED BY <1>2, <1>3 DEF Udp!Resolve

LEMMA UdpBinds == ASSUME UdpInv, Udp!BindSucceeds PROVE UdpInv'
<1> USE UdpSame
<1> USE DEF UdpInv, Udp!context, Udp!BindSucceeds, Udp!NewStream, Udp!At
<1>1. /\ call' \in Calls(Udp!Operations, UdpPlaces) /\ call'.pc = "none" /\ call'.op = "none"
         /\ call'.sent = call.sent
      /\ call'.candidate = 0
  <2>1. call.sent \in 0..MaxBytes
    BY DEF UdpTyped, Calls
  <2> QED BY <2>1, Reports DEF Udp!Return, Over, Outcomes, Udp!Outcomes
<1>2. call.candidate # 0 /\ call.candidate # owned /\ call.candidate \in Names
  BY DEF UdpOwner, UdpTyped, Calls
<1>3. Ranges' /\ Open' /\ Heeded'
  BY <1>1, <1>2, Bounds DEF Ranges, Open, Heeded
<1>4. UdpTyped' /\ UdpPlaced' /\ UdpOwner'
  BY <1>1 DEF UdpTyped, UdpPlaced, UdpOwner, UdpWaiting
<1>5. UdpExact'
  <2>1. got' = <<>> /\ Len(got') = 0 /\ got' \in Seq(1..taken')
    OBVIOUS
  <2> QED BY <1>1, <2>1 DEF UdpExact
<1> QED BY <1>3, <1>4, <1>5

LEMMA UdpSends == ASSUME UdpInv, Udp!SendSucceeds PROVE UdpInv'
<1> USE UdpSame
<1> USE DEF UdpInv, Udp!context, Udp!stream, Udp!SendSucceeds, Udp!At
<1>1. call \in Calls(Udp!Operations, UdpPlaces) /\ call.sent = 0
  BY DEF UdpTyped, UdpOwner
<1>2. Udp!Progress(1).sent = 1 /\ 1 \in 0..MaxBytes
  BY <1>1, Bounds DEF Udp!Progress, Calls
<1>3. /\ call' \in Calls(Udp!Operations, UdpPlaces) /\ call'.pc = "none" /\ call'.op = "none" /\ call'.sent = 1
      /\ call'.candidate = 0
  BY <1>2, Reports DEF Over, Outcomes, Udp!Outcomes
<1>4. Open'
  <2>1. owned \in Names /\ call.candidate \in Names /\ (call.candidate # 0 <=> owned = 0)
    BY <1>1 DEF Open, UdpOwner, UdpWaiting, Calls
  <2> QED BY <1>3, <2>1 DEF Open, Udp!Kept
<1>5. Ranges' /\ Heeded'
  BY <1>3 DEF Ranges, Heeded, Udp!NativeBegins
<1>6. UdpTyped' /\ UdpPlaced' /\ UdpOwner'
  BY <1>3 DEF UdpTyped, UdpPlaced, UdpOwner, UdpWaiting
<1>7. UdpExact'
  <2>1. wire' = Numbers(0) \o Piece(0, 1)
    BY <1>1 DEF UdpExact, Udp!Written, Piece
  <2>2. wire' = Numbers(0 + 1)
    BY <2>1, NumbersGrow
  <2> QED BY <1>3, <2>2 DEF UdpExact
<1> QED BY <1>4, <1>5, <1>6, <1>7

LEMMA UdpReceives == ASSUME UdpInv, Udp!Receive PROVE UdpInv'
<1> USE UdpSame
<1> USE DEF UdpInv, Udp!context, Udp!Receive, Udp!At
<1>1. call.candidate = 0 /\ call.sent \in 0..MaxBytes
  BY DEF UdpTyped, UdpOwner, UdpWaiting, Calls
<1>2. /\ call' \in Calls(Udp!Operations, UdpPlaces) /\ call'.pc = "none" /\ call'.op = "none"
         /\ call'.sent = call.sent
      /\ call'.candidate = 0
  <2>1. \E out \in Outcomes : Udp!Return(out)
    BY DEF Outcomes, Udp!Outcomes
  <2> QED BY <1>1, <2>1, Reports DEF Udp!Return, Over
<1>3. taken \in Nat /\ taken' = taken + 1 /\ taken' \in 0..arrived
  BY Bounds DEF Ranges
<1>4. Ranges' /\ Open' /\ Heeded'
  BY <1>1, <1>2, <1>3 DEF Ranges, Open, Heeded, Udp!NativeBegins
<1>5. UdpTyped' /\ UdpPlaced' /\ UdpOwner'
  BY <1>2 DEF UdpTyped, UdpPlaced, UdpOwner, UdpWaiting
<1>6. got \in Seq(1..taken') /\ taken' \in 1..taken'
  <2>1. 1..taken \subseteq 1..taken'
    BY <1>3
  <2> QED BY <1>3, <2>1, SeqMonotonic DEF UdpExact
<1>7. UdpExact'
  <2>1. taken \in Nat /\ got \in Seq(1..taken) /\ Increasing(got)
    BY <1>3 DEF UdpExact, Increasing
  <2>2. Append(got, taken + 1) \in Seq(1..taken') /\ Increasing(Append(got, taken + 1))
    BY <1>3, <2>1, IncreasingAppend
  <2> QED BY <1>2, <1>6, <2>1, <2>2 DEF UdpExact, Increasing
<1> QED BY <1>4, <1>5, <1>7

LEMMA UdpStepKeeps == ASSUME UdpInv, Udp!Next PROVE UdpInv'
<1> USE UdpSame
<1> USE DEF UdpInv, Udp!context, Udp!stream
<1>0. call.op \in Udp!Operations \cup {"none"} /\ call.pc \in UdpPlaces \cup {"none"} /\ late \in {0, 1}
      /\ (call.op # "sendTo" /\ call.op # "bind" => call.candidate = 0)
      /\ (call.pc \in {"begin", "address"} => call.candidate = 0)
  BY DEF UdpTyped, Calls, Ranges, UdpOwner, UdpWaiting
<1>1. CASE Udp!CandidateFails \/ Udp!BindFails \/ Udp!SendFails
  <2>1. Udp!NextAddress /\ call.address # 0 /\ call.op \in {"bind", "sendTo"}
        /\ call.pc \in {"address", "bind", "io"}
    BY <1>1 DEF Udp!CandidateFails, Udp!BindFails, Udp!SendFails, Udp!At, UdpPlaced
  <2> QED BY <2>1, UdpNext
<1>2. CASE Udp!BindStops \/ Udp!ReceiveFails
  <2>1. call.candidate = 0 /\ \E out \in Outcomes : Udp!TransferReturns(out)
    BY <1>0, <1>2, UdpReasons DEF Udp!BindStops, Udp!ReceiveFails, Udp!At, Outcomes, Udp!Outcomes
  <2> QED BY <2>1, UdpEnds, UdpKeeps DEF Udp!TransferReturns
<1>3. CASE Udp!BindCandidate
  BY <1>3, UdpTries DEF Udp!BindCandidate, Udp!At
<1>4. CASE Udp!SendCandidate
  BY <1>4, UdpTries DEF Udp!SendCandidate, Udp!At
<1>5. CASE Udp!SendOwned
  <2>1. late = 0 /\ call.op = "sendTo" /\ call.pc = "address" /\ owned # 0
    BY <1>0, <1>5 DEF Udp!SendOwned, Udp!At, Heeded
  <2>2. Udp!GoTo("wait") /\ UNCHANGED <<Udp!context, owned, handles, late, Udp!stream, wire>>
    BY <1>5 DEF Udp!SendOwned
  <2> QED BY <2>1, <2>2, UdpGoes DEF UdpWaiting
<1>6. CASE Udp!WaitBegins \/ Udp!WaitSlice(Udp!Ready)
  <2>1. PICK place \in UdpWaiting : Udp!GoTo(place)
             /\ UNCHANGED <<Udp!context, owned, handles, late, Udp!stream, wire>>
    BY <1>6 DEF Udp!WaitBegins, Udp!WaitSlice, UdpWaiting
  <2>2. late = 0 /\ call.op \in {"sendTo", "receiveFrom"} /\ call.pc \in UdpWaiting
    BY <1>0, <1>6 DEF Udp!WaitBegins, Udp!WaitSlice, Udp!Stops, Heeded, UdpPlaced, Udp!Operations, UdpWaiting
  <2> QED BY <2>1, <2>2, UdpGoes
<1>7. CASE Udp!WaitStops
  <2>1. \E out \in Outcomes : Udp!Return(out)
    BY <1>7, UdpReasons DEF Udp!WaitStops, Outcomes, Udp!Outcomes
  <2> QED BY <1>7, <2>1, UdpEnds DEF Udp!WaitStops
<1>8. CASE Udp!Again
  <2>1. late' \in {0, 1} /\ (late' = 1 => cancelled)
    BY <1>0, <1>8 DEF Udp!Again, Udp!NativeBegins, Heeded
  <2>2. call.op \in {"sendTo", "receiveFrom"} /\ call.pc \in UdpWaiting
    BY <1>0, <1>8 DEF Udp!Again, UdpPlaced, Udp!Operations, UdpWaiting
  <2> QED BY <1>8, <2>1, <2>2, UdpGoes DEF Udp!Again, UdpWaiting
<1>9. CASE Udp!ReceiveBegins
  <2>1. late = 0 /\ call.candidate = 0 /\ call.op = "receiveFrom" /\ call.pc = "begin"
    BY <1>0, <1>9 DEF Udp!ReceiveBegins, Udp!At, Heeded
  <2>2. UNCHANGED <<Udp!context, owned, handles, late, Udp!stream, wire>>
    BY <1>9 DEF Udp!ReceiveBegins
  <2>3. CASE Udp!GoTo("wait")
    BY <2>1, <2>2, <2>3, UdpGoes DEF UdpWaiting
  <2>4. CASE Udp!Return("exhausted")
    BY <2>1, <2>2, <2>4, UdpEnds, UdpKeeps DEF Outcomes, Udp!Outcomes
  <2> QED BY <1>9, <2>3, <2>4 DEF Udp!ReceiveBegins
<1>10. CASE Udp!Step
  <2> HIDE DEF UdpInv, Udp!context, Udp!stream
  <2> QED BY <1>1, <1>2, <1>3, <1>4, <1>5, <1>6, <1>7, <1>8, <1>9, <1>10, UdpCloses, UdpResolves, UdpBinds,
          UdpSends, UdpReceives
       DEF Udp!Step
<1> HIDE DEF UdpInv, Udp!context, Udp!stream
<1> QED BY <1>10, UdpBegins, UdpWorld DEF Udp!Next

\* What it says of a state, and of a return.
LEMMA UdpSound ==
  ASSUME UdpInv
  PROVE  Udp!TypeOK /\ ProgressExact /\ late <= 1 /\ (Quiet => handles = {owned} \ {0})
         /\ \A i, j \in 1..Len(got) : i < j => got[i] < got[j]
<1> USE UdpSame
<1> USE DEF UdpInv
<1>1. call \in Calls(Udp!Operations, UdpPlaces) /\ (Quiet => call.candidate = 0)
  BY DEF UdpTyped, UdpOwner, Quiet, Udp!Quiet
<1>2. got \in Seq(1..MaxBytes) /\ wire \in Seq(1..MaxBytes) /\ wire = Numbers(Len(wire))
      /\ call.sent = Len(wire)
  <2>1. call.sent \in 0..MaxBytes /\ call.sent \in Nat /\ taken \in Nat /\ taken <= MaxBytes
    BY <1>1, Bounds DEF Ranges, Calls
  <2>2. got \in Seq(1..taken) /\ wire \in Seq(1..call.sent) /\ Len(wire) = call.sent
    BY <2>1, NumbersAre DEF UdpExact
  <2>3. 1..taken \subseteq 1..MaxBytes /\ 1..call.sent \subseteq 1..MaxBytes
    BY <2>1, Bounds
  <2>4. got \in Seq(1..MaxBytes) /\ wire \in Seq(1..MaxBytes)
    BY <2>2, <2>3, SeqMonotonic
  <2> QED BY <2>2, <2>4 DEF UdpExact
<1>3. handles \subseteq Handles /\ owned \in {0} \cup handles /\ call.candidate \in {0} \cup handles
  BY <1>1 DEF Open, Names, Calls
<1>4. Udp!BaseTypeOK
  BY <1>1, <1>2, <1>3 DEF Udp!BaseTypeOK, Ranges, Calls, Names
<1>5. Udp!TypeOK
  BY <1>1, <1>4 DEF Udp!TypeOK, Calls, UdpPlaces
<1>6. Quiet => handles = {owned} \ {0}
  BY <1>1 DEF Open
<1>7. late <= 1
  BY DEF Ranges
<1> QED BY <1>2, <1>5, <1>6, <1>7 DEF ProgressExact, Udp!ProgressExact, UdpExact

\* A return with this outcome keeps the socket.
LEMMA UdpKept ==
  ASSUME UdpInv, call.op # "none", NEW out \in Outcomes, NEW sent \in 0..MaxBytes,
         call' = [Idle EXCEPT !.out = out, !.sent = sent], owned' = owned,
         out = "ok" => call.op = "receiveFrom" \/ (call.op = "sendTo" /\ owned # 0), call.op # "close"
  PROVE  owned' \in Udp!OwnerAfter(call'.out)
<1> USE UdpSame
<1>1. call'.out = out
  BY Reports
<1>2. owned = call.before
  BY DEF UdpInv, UdpOwner
<1> QED BY <1>1, <1>2 DEF Udp!OwnerAfter

LEMMA UdpReturns ==
  ASSUME UdpInv, Udp!Next, Returns
  PROVE  owned' \in Udp!OwnerAfter(call'.out)
<1> USE UdpSame
<1> USE DEF UdpInv, Returns, Udp!Returns, Quiet, Udp!Quiet
<1>1. call \in Calls(Udp!Operations, UdpPlaces) /\ call.op \in Udp!Operations /\ call.op # "none"
      /\ call'.op = "none" /\ call.sent \in 0..MaxBytes
      /\ owned = call.before /\ call.sent = 0
  BY DEF UdpTyped, Calls, UdpOwner
<1>2. CASE Udp!Close
  BY <1>2 DEF Udp!Close, Udp!TransferCloses, Udp!Closed, Udp!At, Udp!OwnerAfter
<1>3. CASE Udp!BindSucceeds
  <2>1. call'.out = "ok" /\ owned' = call.candidate /\ call.op = "bind"
    BY <1>1, <1>3, Reports DEF Udp!BindSucceeds, Udp!Return, Udp!At, Outcomes, Udp!Outcomes
  <2> QED BY <2>1 DEF Udp!OwnerAfter
<1>4. CASE Udp!SendSucceeds
  <2>1. call.op = "sendTo" /\ owned' = Udp!Kept
    BY <1>4 DEF Udp!SendSucceeds, Udp!At
  <2>2. call'.out = "ok"
    <3>1. Udp!Progress(1).sent = 1 /\ 1 \in 0..MaxBytes
      BY <1>1, Bounds DEF Udp!Progress, Calls
    <3> QED BY <1>4, <3>1, Reports DEF Udp!SendSucceeds, Outcomes, Udp!Outcomes
  <2> QED BY <1>1, <2>1, <2>2 DEF Udp!OwnerAfter, Udp!Kept
<1>5. CASE Udp!Resolve
  <2>1. call.op \in {"bind", "sendTo"} /\ owned' = owned
    BY <1>5 DEF Udp!Resolve, Udp!In
  <2>2. \A n \in 1..MaxAddresses : ~(call' = [call EXCEPT !.pc = "address", !.address = n])
    BY <1>1 DEF Calls
  <2>3. \E out \in {"cancelled", "resolution"} : Udp!Return(out)
    BY <1>5, <2>2 DEF Udp!Resolve
  <2> QED BY <1>1, <2>1, <2>3, UdpKept DEF Udp!Return, Outcomes, Udp!Outcomes
<1>6. CASE Udp!CandidateFails \/ Udp!BindFails \/ Udp!SendFails
  <2>1. call.op \in {"bind", "sendTo"} /\ owned' = owned /\ Udp!NextAddress
    BY <1>6 DEF Udp!CandidateFails, Udp!BindFails, Udp!SendFails, Udp!NextAddress, Udp!At
  <2>2. call' = [Idle EXCEPT !.out = "connection", !.sent = call.sent]
    BY <1>1, <2>1 DEF Udp!NextAddress, Calls
  <2> QED BY <1>1, <2>1, <2>2, UdpKept DEF Outcomes, Udp!Outcomes
<1>7. CASE Udp!BindStops \/ Udp!ReceiveFails \/ Udp!WaitStops
  <2>1. /\ owned' = owned /\ call.op # "close"
        /\ \E out \in {"cancelled", "timeout", "io"} : Udp!Return(out)
    BY <1>7 DEF Udp!BindStops, Udp!ReceiveFails, Udp!WaitStops, Udp!TransferReturns, Udp!At, Udp!StopReason,
       UdpPlaced
  <2> QED BY <1>1, <2>1, UdpKept DEF Udp!Return, Outcomes, Udp!Outcomes
<1>8. CASE Udp!ReceiveBegins
  <2>1. call.op = "receiveFrom" /\ owned' = owned /\ ~Udp!GoTo("wait")
    BY <1>1, <1>8 DEF Udp!ReceiveBegins, Udp!At, Udp!GoTo, Calls
  <2>2. Udp!Return("exhausted")
    BY <1>8, <2>1 DEF Udp!ReceiveBegins
  <2> QED BY <1>1, <2>1, <2>2, UdpKept DEF Udp!Return, Outcomes, Udp!Outcomes
<1>9. CASE Udp!Receive
  <2>1. call.op = "receiveFrom" /\ owned' = owned /\ \E out \in {"ok", "truncated", "io"} : Udp!Return(out)
    BY <1>9 DEF Udp!Receive, Udp!At
  <2> QED BY <1>1, <2>1, UdpKept DEF Udp!Return, Outcomes, Udp!Outcomes
<1>10. ~(Udp!BindCandidate \/ Udp!SendCandidate \/ Udp!SendOwned \/ Udp!WaitBegins \/ Udp!WaitSlice(Udp!Ready) \/ Udp!Again)
  <2>1. \A place \in {"bind", "wait"} : ~Udp!Candidate(place)
    BY <1>1 DEF Udp!Candidate, Calls, Udp!Operations
  <2>2. \A place \in UdpWaiting : ~Udp!GoTo(place)
    BY <1>1 DEF Udp!GoTo, Calls, Udp!Operations
  <2> QED BY <2>1, <2>2 DEF Udp!BindCandidate, Udp!SendCandidate, Udp!SendOwned, Udp!WaitBegins, Udp!WaitSlice,
          Udp!Again, UdpWaiting
<1>11. ASSUME NEW op \in Udp!Operations, Udp!Call(op) PROVE FALSE
  BY <1>1, <1>11 DEF Udp!Call, Udp!Begin
<1>12. ~(Udp!Arrives \/ Udp!Cancel \/ Udp!Tick)
  BY <1>1 DEF Udp!Arrives, Udp!Cancel, Udp!Tick
<1> HIDE DEF UdpInv, Returns, Udp!Returns, Quiet, Udp!Quiet
<1>13. CASE Udp!Step
  BY <1>2, <1>3, <1>4, <1>5, <1>6, <1>7, <1>8, <1>9, <1>10, <1>13 DEF Udp!Step
<1> QED BY <1>11, <1>12, <1>13 DEF Udp!Next

-----------------------------------------------------------------------------
(***************************************************************************)
(* SerialPort.                                                             *)
(***************************************************************************)
\* The operators of Transport are the same in an instance of it.
LEMMA SerialSame == Serial!Idle = Idle /\ Serial!Outcomes = Outcomes /\ Serial!Handles = Handles
      /\ Serial!Fresh = Fresh
  BY DEF Idle, Serial!Idle, Outcomes, Serial!Outcomes, Handles, Serial!Handles, Fresh, Serial!Fresh

SerialPlaces == {"begin", "configure", "wait", "select", "io", "loop", "collect", "written"}
SerialStates == {"none", "active", "done"}

SerialTyped ==
  /\ call \in Calls(Serial!Operations, SerialPlaces)
  /\ is_read_pending \in BOOLEAN
  /\ read \in [state : SerialStates, bytes : Seq(Nat)]
  /\ write \in [state : SerialStates, count : 0..MaxBytes]

\* Where an operation can stand, on either platform.
SerialStands(op, place) ==
  /\ op = "none" <=> place = "none"
  /\ op = "close" => place = "begin"
  /\ op = "open" => place \in {"begin", "configure"}
  /\ op = "send" => place \in {"begin", "wait", "select", "io", "written"}
  /\ op = "receive" => place \in {"begin", "wait", "select", "io", "loop", "collect"}
  /\ place \in {"loop", "collect", "written"} => windows
  /\ place \in {"select", "io"} => ~windows
  /\ op = "receive" /\ place = "wait" => ~windows

\* The candidate is the handle open() is setting up; the others keep theirs.
SerialOwner ==
  /\ call.candidate # 0 <=> call.pc = "configure"
  /\ call.candidate # 0 => call.candidate # owned
  /\ call.op # "none" => owned = call.before
  /\ call.op \in {"send", "receive"} => owned # 0

\* The driver's work: a read that may outlive its call, a write that may not.
SerialDriver ==
  /\ is_read_pending => windows /\ owned # 0 /\ buffer = <<>> /\ read.state # "none"
  /\ ~is_read_pending => read = Serial!None
  /\ call.pc = "collect" => is_read_pending
  /\ write.state # "none" <=> call.pc = "written"
  /\ write.state = "none" => write.count = 0
  /\ ~windows => buffer = <<>>

\* The caller has the first of the bytes that were taken, the port the others.
SerialBytes ==
  /\ Len(got) \in 0..taken
  /\ got = Numbers(Len(got))
  /\ Serial!Collected = Piece(Len(got), taken - Len(got))

\* What the native side took is what the call counted, and what the write counted since.
SerialWire ==
  /\ Len(wire) \in 0..MaxBytes
  /\ wire = Numbers(Len(wire))
  /\ (call.op = "none" /\ call.out = "threw") \/ Len(wire) = call.sent + write.count
  /\ call.op = "send" => call.sent + write.count <= call.size
  /\ call.op \notin {"send", "none"} => call.sent = 0

SerialInv ==
  /\ Ranges /\ Open /\ Heeded /\ SerialTyped /\ SerialStands(call.op, call.pc) /\ SerialOwner /\ SerialDriver
  /\ SerialBytes /\ SerialWire

LEMMA NoRead == Serial!None \in [state : SerialStates, bytes : Seq(Nat)] /\ Serial!None.state = "none"
      /\ Serial!None.bytes = <<>>
  BY SerialSame DEF Serial!None, SerialStates

LEMMA NoWrite ==
  /\ Serial!Unwritten \in [state : SerialStates, count : 0..MaxBytes] /\ Serial!Unwritten.state = "none"
     /\ Serial!Unwritten.count = 0
  BY SerialSame, Bounds DEF Serial!Unwritten, SerialStates

LEMMA SerialInitHolds == Serial!SerialInit => SerialInv
<1> USE SerialSame
<1> SUFFICES ASSUME Serial!SerialInit PROVE SerialInv
  OBVIOUS
<1> USE DEF Serial!SerialInit
<1>1. Ranges /\ Heeded
  <2>1. windows \in BOOLEAN /\ cancelled \in BOOLEAN
    BY DEF Serial!Init
  <2>2. budget = 0 /\ late = 0 /\ arrived = 0 /\ taken = 0
    BY DEF Serial!Init
  <2> QED BY <2>1, <2>2, Bounds DEF Ranges, Heeded
<1>2. Open
  BY DEF Serial!Init, Idle, Serial!Idle, Open, Names
<1>3. SerialTyped
  BY IdleIs, NoRead, NoWrite DEF Serial!Init, SerialTyped
<1>4. SerialStands(call.op, call.pc) /\ SerialOwner /\ SerialDriver
  BY IdleIs, NoRead, NoWrite DEF Serial!Init, Over, SerialStands, SerialOwner, SerialDriver
<1>5. SerialBytes
  <2>1. got = <<>> /\ Len(got) = 0 /\ taken = 0 /\ Serial!Collected = <<>> /\ taken - Len(got) = 0
    <3>1. ~is_read_pending
      OBVIOUS
    <3>2. Serial!Collected = <<>>
      BY <3>1 DEF Serial!Collected
    <3>3. got = <<>> /\ taken = 0 /\ Len(got) = 0
      BY DEF Serial!Init
    <3>4. taken - Len(got) = 0 - 0
      BY <3>3
    <3> QED BY <3>2, <3>3, <3>4
  <2> QED BY <2>1, NumbersAre, PieceNone DEF SerialBytes
<1>6. SerialWire
  <2>1. wire = <<>> /\ Len(wire) = 0 /\ call.sent = 0 /\ write.count = 0 /\ call.op = "none"
    BY IdleIs, NoWrite DEF Serial!Init, Over
  <2> QED BY <2>1, NumbersAre, Bounds DEF SerialWire
<1> QED BY <1>1, <1>2, <1>3, <1>4, <1>5, <1>6 DEF SerialInv

\* The bytes stay where they are.
LEMMA SerialBytesStay == ASSUME SerialBytes, UNCHANGED <<Serial!stream, Serial!readVars>> PROVE SerialBytes'
  BY SerialSame DEF SerialBytes, Serial!Collected, Serial!stream, Serial!readVars

\* The port is new, or closed.
LEMMA SerialBytesGo ==
  ASSUME Serial!NewStream, is_read_pending' = FALSE, buffer' = <<>>
  PROVE  SerialBytes' /\ taken' \in 0..arrived' /\ arrived' \in 0..MaxBytes
<1> USE SerialSame
<1>1. got' = <<>> /\ taken' = 0 /\ Len(got') = 0 /\ Serial!Collected' = <<>> /\ taken' - Len(got') = 0
  <2>1. ~is_read_pending'
    OBVIOUS
  <2>2. Serial!Collected' = <<>>
    BY <2>1 DEF Serial!Collected
  <2>3. got' = <<>> /\ taken' = 0 /\ Len(got') = 0
    BY DEF Serial!NewStream
  <2>4. taken' - Len(got') = 0 - 0
    BY <2>3
  <2> QED BY <2>2, <2>3, <2>4
<1> QED BY <1>1, NumbersAre, PieceNone, Bounds DEF SerialBytes, Serial!NewStream

\* A step to another place of the call.
LEMMA SerialGoes ==
  ASSUME SerialInv, NEW place \in SerialPlaces \ {"configure", "written"}, Serial!GoTo(place),
         UNCHANGED <<Serial!context, owned, handles, Serial!stream, wire, Serial!readVars, write>>,
         SerialStands(call.op, place), call.pc \notin {"none", "configure", "written"},
         place = "collect" => is_read_pending,
         late' \in {0, 1}, late' = 1 => cancelled /\ place = "wait"
  PROVE  SerialInv'
<1> USE SerialSame
<1> USE DEF SerialInv, Serial!context, Serial!stream, Serial!readVars
<1>1. call \in Calls(Serial!Operations, SerialPlaces) /\ place \in SerialPlaces
  BY DEF SerialTyped
<1>2. /\ call' \in Calls(Serial!Operations, SerialPlaces)
      /\ call'.pc = place /\ call'.op = call.op /\ call'.sent = call.sent /\ call'.before = call.before
         /\ call'.out = call.out
      /\ call'.size = call.size /\ call'.candidate = call.candidate /\ call'.address = call.address
  BY <1>1 DEF Serial!GoTo, Calls
<1>3. Ranges' /\ Open' /\ Heeded'
  BY <1>2 DEF Ranges, Open, Heeded
<1>4. SerialTyped' /\ SerialStands(call.op, call.pc)'
  BY <1>2 DEF SerialTyped, SerialStands
<1>5. SerialOwner' /\ SerialDriver'
  BY <1>2 DEF SerialOwner, SerialDriver
<1>6. SerialBytes' /\ SerialWire'
  BY <1>2, SerialBytesStay DEF SerialWire
<1> QED BY <1>3, <1>4, <1>5, <1>6

\* A call that ends as it found the port, and its candidate closed.
LEMMA SerialEnds ==
  ASSUME SerialInv, NEW out \in Outcomes, Serial!Return(out), handles' = handles \ {call.candidate},
         call.pc \notin {"none", "written"},
         UNCHANGED <<Serial!context, owned, late, Serial!stream, wire, Serial!readVars, write>>
  PROVE  SerialInv'
<1> USE SerialSame
<1> USE DEF SerialInv, Serial!context, Serial!stream, Serial!readVars
<1>1. call.sent \in 0..MaxBytes /\ call.candidate \in Names
  BY DEF SerialTyped, Calls
<1>2. /\ call' \in Calls(Serial!Operations, SerialPlaces) /\ call'.pc = "none" /\ call'.op = "none"
         /\ call'.sent = call.sent
      /\ call'.candidate = 0 /\ call'.out = out
  BY <1>1, Reports DEF Serial!Return, Over
<1>3. Ranges' /\ Heeded'
  BY <1>2 DEF Ranges, Heeded
<1>4. Open'
  BY <1>1, <1>2 DEF Open, SerialOwner
<1>5. SerialTyped' /\ SerialStands(call.op, call.pc)'
  BY <1>2 DEF SerialTyped, SerialStands
<1>6. SerialOwner' /\ SerialDriver'
  BY <1>2 DEF SerialOwner, SerialDriver
<1>7. SerialBytes' /\ SerialWire'
  <2>1. Len(wire) = call.sent + write.count
    BY DEF SerialWire, SerialStands
  <2> QED BY <1>2, <2>1, SerialBytesStay DEF SerialWire
<1> QED BY <1>3, <1>4, <1>5, <1>6, <1>7

\* A call that ends and closes the port.
LEMMA SerialCloses ==
  ASSUME SerialInv, NEW out \in Outcomes, NEW sent \in 0..MaxBytes,
         call' = [Idle EXCEPT !.out = out, !.sent = sent],
         Serial!CloseImpl, call.candidate = 0, call.op # "none",
         UNCHANGED <<Serial!context, wire>>, late' = late, sent = call.sent + write.count,
         write' = Serial!Unwritten \/ (UNCHANGED write /\ call.pc # "written")
  PROVE  SerialInv'
<1> USE SerialSame
<1> USE DEF SerialInv, Serial!context, Serial!CloseImpl, Serial!Closed, Serial!CloseRead
<1>1. /\ call' \in Calls(Serial!Operations, SerialPlaces) /\ call'.pc = "none" /\ call'.op = "none"
         /\ call'.sent = sent
      /\ call'.candidate = 0 /\ call'.out = out
  BY Reports DEF Over
<1>2. Ranges' /\ Heeded'
  BY <1>1, SerialBytesGo DEF Ranges, Heeded
<1>3. Open'
  BY <1>1, Zeros DEF Open
<1>4. ~is_read_pending' /\ read' = Serial!None /\ buffer' = <<>>
  OBVIOUS
<1>9. write' \in [state : SerialStates, count : 0..MaxBytes] /\ write'.state = "none" /\ write'.count = 0
  BY NoWrite DEF SerialDriver, SerialTyped
<1>5. SerialTyped' /\ SerialStands(call.op, call.pc)'
  BY <1>1, <1>4, <1>9, NoRead DEF SerialTyped, SerialStands
<1>6. SerialOwner' /\ SerialDriver'
  BY <1>1, <1>4, <1>9, NoRead DEF SerialOwner, SerialDriver
<1>7. SerialBytes'
  BY SerialBytesGo
<1>8. SerialWire'
  <2>1. Len(wire) = sent /\ sent \in Nat /\ sent + 0 = sent
    BY Bounds DEF SerialWire
  <2> QED BY <1>1, <1>9, <2>1 DEF SerialWire
<1> QED BY <1>2, <1>3, <1>5, <1>6, <1>7, <1>8

\* send() goes on to the next piece, or ends.
LEMMA SerialSentIs ==
  ASSUME SerialInv, call.op = "send", NEW n \in Nat, call.sent + n <= call.size,
         call' = Serial!Sent(Serial!Progress(n))
  PROVE  /\ call' \in Calls(Serial!Operations, SerialPlaces) /\ call'.sent = call.sent + n
            /\ call'.candidate = 0
         /\ \/ call'.op = "none" /\ call'.pc = "none" /\ call'.out = "ok"
            \/ call'.op = "send" /\ call'.pc = "wait" /\ call'.size = call.size /\ call'.before = call.before
               /\ call'.out = call.out
<1> USE SerialSame
<1> USE DEF SerialInv
<1>1. call \in Calls(Serial!Operations, SerialPlaces) /\ call.candidate = 0
  BY DEF SerialTyped, SerialOwner, SerialStands
<1>2. call.sent \in Nat /\ call.size \in 0..MaxBytes /\ call.sent + n \in 0..MaxBytes
  BY <1>1, Bounds DEF Calls
<1>3. /\ Serial!Progress(n) \in Calls(Serial!Operations, SerialPlaces)
         /\ Serial!Progress(n).sent = call.sent + n /\ Serial!Progress(n).op = "send"
      /\ Serial!Progress(n).candidate = 0 /\ Serial!Progress(n).before = call.before
         /\ Serial!Progress(n).size = call.size /\ Serial!Progress(n).out = call.out
  BY <1>1, <1>2 DEF Serial!Progress, Calls
<1>4. CASE Serial!Progress(n).sent = call.size
  BY <1>2, <1>3, <1>4, Reports DEF Over, Outcomes, Serial!Outcomes, Serial!Sent
<1>5. CASE Serial!Progress(n).sent # call.size
  <2>1. call' = [Serial!Progress(n) EXCEPT !.pc = "wait"] /\ "wait" \in SerialPlaces
    BY <1>5 DEF Serial!Sent, SerialPlaces
  <2> HIDE DEF Serial!Progress
  <2> QED BY <1>3, <2>1 DEF Calls
<1> QED BY <1>4, <1>5

\* ... or ends with what it sent so far.
SerialMoved(c, total) ==
  /\ c \in Calls(Serial!Operations, SerialPlaces) /\ c.candidate = 0 /\ c.sent = total
  /\ \/ c.op = "none" /\ c.pc = "none"
     \/ c.op = "send" /\ c.pc = "wait" /\ c.size = call.size /\ c.before = call.before

LEMMA SerialMovedIs ==
  ASSUME SerialInv, call.op = "send", NEW n \in Nat, call.sent + n <= call.size
  PROVE  /\ call.sent + n \in 0..MaxBytes
         /\ call' = Serial!Sent(Serial!Progress(n)) => SerialMoved(call', call.sent + n)
         /\ \A out \in Outcomes :
              call' = [Idle EXCEPT !.out = out, !.sent = Serial!Progress(n).sent] => SerialMoved(call', call.sent + n) /\ call'.out = out
<1> USE SerialSame
<1>1. call.sent + n \in 0..MaxBytes /\ Serial!Progress(n).sent = call.sent + n
  BY Bounds DEF SerialInv, SerialTyped, Calls, Serial!Progress
<1>2. call' = Serial!Sent(Serial!Progress(n)) => SerialMoved(call', call.sent + n)
  BY SerialSentIs DEF SerialMoved
<1>3. ASSUME NEW out \in Outcomes, call' = [Idle EXCEPT !.out = out, !.sent = Serial!Progress(n).sent]
      PROVE SerialMoved(call', call.sent + n) /\ call'.out = out
  <2>1. Serial!Progress(n).sent \in 0..MaxBytes
    BY <1>1
  <2>2. call' \in Calls(Serial!Operations, SerialPlaces) /\ Over(call', Serial!Progress(n).sent)
        /\ call'.out = out
    BY <1>3, <2>1, Reports
  <2> QED BY <1>1, <2>2 DEF SerialMoved, Over
<1> QED BY <1>1, <1>2, <1>3

LEMMA SerialMoves ==
  ASSUME SerialInv, call.op = "send", NEW total \in 0..MaxBytes, total <= call.size, SerialMoved(call', total),
         wire' = Numbers(total), write' = Serial!Unwritten \/ (UNCHANGED write /\ call.pc # "written"),
         UNCHANGED <<Serial!context, owned, handles, Serial!stream, Serial!readVars>>,
         late' \in {0, 1}, late' = 1 => cancelled
  PROVE  SerialInv'
<1> USE SerialSame
<1> USE DEF SerialInv, Serial!context, Serial!stream
<1>1. call.candidate = 0 /\ call.op # "none" /\ call.pc \notin {"configure", "collect"}
  BY DEF SerialOwner, SerialStands
<1>8. write' \in [state : SerialStates, count : 0..MaxBytes] /\ write'.state = "none" /\ write'.count = 0
  BY NoWrite DEF SerialDriver, SerialTyped
<1>2. /\ call' \in Calls(Serial!Operations, SerialPlaces) /\ call'.candidate = 0 /\ call'.sent = total
      /\ \/ call'.op = "none" /\ call'.pc = "none"
         \/ call'.op = "send" /\ call'.pc = "wait" /\ call'.size = call.size /\ call'.before = call.before
  BY DEF SerialMoved
<1>3. Ranges' /\ Open' /\ Heeded'
  BY <1>1, <1>2 DEF Ranges, Open, Heeded
<1>4. SerialTyped' /\ SerialStands(call.op, call.pc)'
  BY <1>2, <1>8 DEF SerialTyped, SerialStands, Serial!readVars
<1>5. SerialOwner' /\ SerialDriver'
  BY <1>1, <1>2, <1>8 DEF SerialOwner, SerialDriver, Serial!readVars
<1>6. SerialBytes'
  BY SerialBytesStay
<1>7. SerialWire'
  <2>1. total \in Nat /\ Len(wire') = total
    BY Bounds, NumbersAre
  <2>2. write'.count = 0 /\ total + 0 = total
    BY <1>8, <2>1
  <2> QED BY <1>2, <2>1, <2>2 DEF SerialWire
<1> QED BY <1>3, <1>4, <1>5, <1>6, <1>7

\* The caller is given the first of the bytes that are there.
LEMMA SerialTakes ==
  ASSUME SerialInv, call.op = "receive", NEW out \in Outcomes, Serial!Take(Serial!Collected, out),
         is_read_pending' = FALSE, read' = IF is_read_pending THEN Serial!None ELSE read,
         UNCHANGED <<Serial!context, owned, handles, late, arrived, taken, wire, write>>, windows
  PROVE  SerialInv'
<1> USE SerialSame
<1> USE DEF SerialInv, Serial!context, Serial!Take
<1>1. call \in Calls(Serial!Operations, SerialPlaces) /\ call.candidate = 0 /\ call.sent \in 0..MaxBytes
      /\ call.size \in Nat /\ call.op # "none"
      /\ call.pc # "written"
  BY Bounds DEF SerialTyped, SerialOwner, SerialStands, Calls
<1>2. /\ call' \in Calls(Serial!Operations, SerialPlaces) /\ call'.pc = "none" /\ call'.op = "none"
         /\ call'.sent = call.sent
      /\ call'.candidate = 0 /\ call'.out = out
  BY <1>1, Reports DEF Serial!Return, Over
<1>3. ~is_read_pending' /\ read' = Serial!None
  BY DEF SerialDriver
<1>4. Ranges' /\ Open' /\ Heeded'
  BY <1>1, <1>2 DEF Ranges, Open, Heeded
<1>5. SerialTyped' /\ SerialStands(call.op, call.pc)'
  BY <1>2, <1>3, NoRead DEF SerialTyped, SerialStands
<1>6. SerialOwner' /\ SerialDriver'
  BY <1>1, <1>2, <1>3 DEF SerialOwner, SerialDriver
<1>7. SerialBytes'
  <2> DEFINE g == Len(got)
             m == taken - Len(got)
             k == Serial!LesserOf(call.size, m)
  <2>1. g \in Nat /\ m \in Nat /\ k \in 0..m /\ k \in Nat /\ g + k \in 0..taken /\ taken - (g + k) = m - k
        /\ taken \in Nat
    BY <1>1, Bounds DEF SerialBytes, Ranges, Serial!LesserOf
  <2>2. got = Numbers(g) /\ Serial!Collected = Piece(g, m)
    BY DEF SerialBytes
  <2> HIDE DEF g, m
  <2>3. Len(Serial!Collected) = m
    BY <2>1, <2>2, PieceIs
  <2>4. Serial!Given(Serial!Collected) = Piece(g, k)
    <3>1. Serial!Given(Serial!Collected) = SubSeq(Piece(g, m), 1, k)
      BY <2>2, <2>3 DEF Serial!Given
    <3> HIDE DEF k
    <3> QED BY <2>1, <3>1, PieceSplit
  <2>5. Serial!Suffix(Serial!Collected) = Piece(g + k, m - k)
    <3>1. Len(Serial!Given(Serial!Collected)) = k
      BY <2>1, <2>4, PieceIs
    <3>2. Serial!Suffix(Serial!Collected) = SubSeq(Piece(g, m), k + 1, m)
      BY <2>2, <2>3, <3>1 DEF Serial!Suffix
    <3> QED BY <2>1, <3>2, PieceSplit
  <2> HIDE DEF k
  <2>6. got' = Numbers(g + k) /\ Len(got') = g + k
    <3>1. got' = Numbers(g) \o Piece(g, k)
      BY <2>2, <2>4
    <3> HIDE DEF k
    <3>0. g \in Nat /\ k \in Nat /\ g + k \in Nat
      BY <2>1
    <3>3. Numbers(g) \o Piece(g, k) = Numbers(g + k)
      BY <3>0, NumbersGrow
    <3>2. got' = Numbers(g + k) /\ g + k \in Nat
      BY <3>0, <3>1, <3>3
    <3> QED BY <3>2, NumbersAre
  <2>7. Serial!Collected' = Piece(g + k, m - k)
    BY <1>3, <2>5 DEF Serial!Collected
  <2> QED BY <2>1, <2>6, <2>7 DEF SerialBytes
<1>8. SerialWire'
  BY <1>1, <1>2 DEF SerialWire
<1> QED BY <1>4, <1>5, <1>6, <1>7, <1>8

-----------------------------------------------------------------------------
LEMMA SerialReasons == Serial!StopReason \in Outcomes
  BY SerialSame DEF Serial!StopReason, Outcomes, Serial!Outcomes

LEMMA SerialBegins ==
  ASSUME SerialInv, NEW op \in Serial!Operations, NEW size \in 0..MaxBytes, Serial!Call(op, size)
  PROVE  SerialInv'
<1> USE SerialSame
<1> USE DEF SerialInv, Serial!Call, Serial!Begin, Serial!context, Serial!stream, Serial!readVars
<1>1. owned \in Names /\ call.candidate = 0 /\ call.pc = "none" /\ op # "none"
  BY DEF Open, SerialOwner, SerialStands, Quiet, Serial!Quiet, Serial!Operations
<1>2. /\ call' \in Calls(Serial!Operations, SerialPlaces) /\ call'.op = op /\ call'.pc = "begin"
         /\ call'.before = owned
      /\ call'.size = size /\ call'.sent = 0 /\ call'.candidate = 0
  <2>1. "begin" \in SerialPlaces
    BY DEF SerialPlaces
  <2> QED BY <1>1, <2>1, Zeros DEF Idle, Serial!Idle, Calls
<1>3. Ranges' /\ Open' /\ Heeded'
  BY <1>1, <1>2 DEF Ranges, Open, Heeded
<1>4. SerialTyped' /\ SerialStands(call.op, call.pc)'
  BY <1>1, <1>2 DEF SerialTyped, SerialStands
<1>5. SerialOwner' /\ SerialDriver'
  BY <1>1, <1>2 DEF SerialOwner, SerialDriver, Serial!Operations
<1>6. SerialBytes'
  BY SerialBytesStay
<1>7. SerialWire'
  <2>1. write.count = 0 /\ write' = write /\ wire' = <<>> /\ Len(wire') = 0
    BY <1>1 DEF SerialDriver
  <2>2. size \in Nat /\ 0 <= size /\ 0 + 0 = 0
    BY Bounds
  <2>3. wire' = Numbers(Len(wire')) /\ Len(wire') \in 0..MaxBytes
    BY <2>1, NumbersAre, Bounds
  <2> QED BY <1>2, <2>1, <2>2, <2>3 DEF SerialWire
<1> QED BY <1>3, <1>4, <1>5, <1>6, <1>7

LEMMA SerialOpens == ASSUME SerialInv, Serial!OpenCandidate \/ Serial!OpenFails PROVE SerialInv'
<1> USE SerialSame
<1> USE DEF SerialInv, Serial!context, Serial!stream, Serial!readVars
<1>1. call \in Calls(Serial!Operations, SerialPlaces) /\ owned \in Names /\ call.op = "open"
      /\ call.pc \in {"begin", "configure"}
  BY DEF SerialTyped, Open, Serial!OpenCandidate, Serial!OpenFails, Serial!At
<1>2. UNCHANGED <<Serial!context, owned, late, Serial!stream, wire, Serial!readVars, write>>
  BY DEF Serial!OpenCandidate, Serial!OpenFails
<1>3. CASE \E out \in Outcomes : Serial!Return(out)
  <2>1. handles' = handles \ {call.candidate}
    <3>1. CASE Serial!OpenFails
      BY <3>1 DEF Serial!OpenFails
    <3>2. CASE Serial!OpenCandidate
      <4>1. call'.op = "none" /\ call.candidate = 0
        <5>1. call.sent \in 0..MaxBytes
          BY <1>1 DEF Calls
        <5> QED BY <1>3, <3>2, <5>1, Reports DEF Serial!Return, Over, Serial!OpenCandidate, Serial!At,
                SerialOwner
      <4>2. UNCHANGED handles
        BY <1>1, <3>2, <4>1 DEF Serial!OpenCandidate, Calls
      <4> QED BY <4>1, <4>2 DEF Open
    <3> QED BY <3>1, <3>2
  <2> QED BY <1>1, <1>2, <1>3, <2>1, SerialEnds
<1>4. CASE Serial!OpenCandidate /\ call' = [call EXCEPT !.pc = "configure", !.candidate = Fresh]
           /\ handles' = handles \cup {Fresh}
  <2>1. call.candidate = 0 /\ handles = {owned} \ {0}
    BY <1>4 DEF Serial!OpenCandidate, Serial!At, SerialOwner, Open
  <2>2. Fresh # 0 /\ Fresh # owned /\ Fresh \in Names /\ "configure" \in SerialPlaces
    BY <1>1, <2>1, FreshIs DEF SerialPlaces
  <2>3. /\ call' \in Calls(Serial!Operations, SerialPlaces)
        /\ call'.op = "open" /\ call'.pc = "configure" /\ call'.candidate = Fresh
        /\ call'.sent = call.sent /\ call'.before = call.before /\ call'.out = call.out
           /\ call'.size = call.size
    BY <1>1, <1>4, <2>2 DEF Calls
  <2>4. Open'
    BY <1>1, <1>2, <1>4, <2>1, <2>2, <2>3 DEF Open
  <2>5. Ranges' /\ Heeded'
    BY <1>1, <1>2, <2>3 DEF Ranges, Heeded
  <2>6. SerialTyped' /\ SerialStands(call.op, call.pc)'
    BY <1>2, <2>3 DEF SerialTyped, SerialStands
  <2>7. SerialOwner' /\ SerialDriver'
    BY <1>1, <1>2, <2>2, <2>3 DEF SerialOwner, SerialDriver
  <2>8. SerialBytes' /\ SerialWire'
    BY <1>1, <1>2, <2>3, SerialBytesStay DEF SerialWire
  <2> QED BY <2>4, <2>5, <2>6, <2>7, <2>8
<1> HIDE DEF SerialInv
<1> QED BY <1>3, <1>4, SerialReasons DEF Serial!OpenCandidate, Serial!OpenFails, Outcomes, Serial!Outcomes

LEMMA SerialOpened == ASSUME SerialInv, Serial!OpenSucceeds PROVE SerialInv'
<1> USE SerialSame
<1> USE DEF SerialInv, Serial!context, Serial!OpenSucceeds, Serial!At, Serial!CloseRead
<1>1. /\ call' \in Calls(Serial!Operations, SerialPlaces) /\ call'.pc = "none" /\ call'.op = "none"
         /\ call'.sent = call.sent
      /\ call'.candidate = 0 /\ call'.out = "ok"
  <2>1. call.sent \in 0..MaxBytes
    BY DEF SerialTyped, Calls
  <2> QED BY <2>1, Reports DEF Serial!Return, Over, Outcomes, Serial!Outcomes
<1>2. call.candidate # 0 /\ call.candidate # owned /\ call.candidate \in Names
  BY DEF SerialOwner, SerialTyped, Calls
<1>3. Ranges' /\ Heeded'
  BY <1>1, SerialBytesGo DEF Ranges, Heeded
<1>4. Open'
  BY <1>1, <1>2, Zeros DEF Open
<1>5. ~is_read_pending' /\ read' = Serial!None /\ buffer' = <<>>
  OBVIOUS
<1>6. SerialTyped' /\ SerialStands(call.op, call.pc)'
  BY <1>1, <1>5, NoRead DEF SerialTyped, SerialStands
<1>7. SerialOwner' /\ SerialDriver'
  BY <1>1, <1>5 DEF SerialOwner, SerialDriver
<1>8. SerialBytes'
  BY SerialBytesGo
<1>9. SerialWire'
  BY <1>1 DEF SerialWire
<1> QED BY <1>3, <1>4, <1>6, <1>7, <1>8, <1>9

LEMMA SerialStarts == ASSUME SerialInv, Serial!StartRead PROVE SerialInv'
<1> USE SerialSame
<1> USE DEF SerialInv, Serial!context, Serial!stream, Serial!readVars, Serial!At
<1>1. /\ call \in Calls(Serial!Operations, SerialPlaces) /\ call.op = "receive" /\ call.pc = "loop"
         /\ call.candidate = 0 /\ late = 0 /\ late' = 0
      /\ ~is_read_pending /\ buffer = <<>> /\ windows /\ owned # 0 /\ read = Serial!None /\ write.count = 0
         /\ call.sent \in 0..MaxBytes
  BY DEF Serial!StartRead, Serial!NativeBegins, SerialTyped, SerialOwner, SerialDriver, Heeded, Ranges, Calls
<1>2. UNCHANGED <<Serial!context, wire, write>>
  BY DEF Serial!StartRead
<1>3. taken \in Nat /\ Len(got) = taken /\ got = Numbers(taken)
  <2>1. Serial!Collected = <<>> /\ Len(got) \in Nat /\ taken - Len(got) \in Nat /\ taken \in Nat
    BY <1>1, Bounds DEF Serial!Collected, SerialBytes, Ranges
  <2>2. taken - Len(got) = 0
    BY <2>1, PieceIs DEF SerialBytes
  <2> QED BY <2>1, <2>2 DEF SerialBytes
<1>4. CASE /\ \E n \in 0..(arrived - taken) : taken' = taken + n /\ buffer' = [i \in 1..n |-> taken + i]
           /\ UNCHANGED <<call, owned, handles, arrived, got, is_read_pending, read>>
  <2>1. PICK n \in 0..(arrived - taken) : taken' = taken + n /\ buffer' = Piece(taken, n)
    BY <1>4 DEF Piece
  <2>2. n \in Nat /\ taken' \in 0..arrived /\ taken' - taken = n /\ taken \in 0..taken'
    BY <1>3, <2>1, Bounds DEF Ranges
  <2>3. Ranges' /\ Open' /\ Heeded'
    BY <1>1, <1>2, <1>4, <2>2 DEF Ranges, Open, Heeded
  <2>4. SerialTyped' /\ SerialStands(call.op, call.pc)'
    BY <1>2, <1>4 DEF SerialTyped, SerialStands
  <2>5. SerialOwner' /\ SerialDriver'
    BY <1>1, <1>2, <1>4 DEF SerialOwner, SerialDriver
  <2>6. SerialBytes'
    <3>1. Serial!Collected' = Piece(taken, n)
      BY <1>1, <1>4, <2>1 DEF Serial!Collected
    <3> QED BY <1>3, <1>4, <2>1, <2>2, <3>1 DEF SerialBytes
  <2>7. SerialWire'
    BY <1>2, <1>4 DEF SerialWire
  <2> QED BY <2>3, <2>4, <2>5, <2>6, <2>7
<1>5. CASE /\ is_read_pending' = TRUE /\ read' = [state |-> "active", bytes |-> <<>>] /\ Serial!GoTo("collect")
           /\ UNCHANGED <<owned, handles, Serial!stream, buffer>>
  <2>1. /\ call' \in Calls(Serial!Operations, SerialPlaces)
        /\ call'.pc = "collect" /\ call'.op = call.op /\ call'.sent = call.sent /\ call'.before = call.before
           /\ call'.out = call.out
        /\ call'.size = call.size /\ call'.candidate = call.candidate
    <3>1. "collect" \in SerialPlaces
      BY DEF SerialPlaces
    <3> QED BY <1>1, <1>5, <3>1 DEF Serial!GoTo, Calls
  <2>2. is_read_pending' /\ read'.state = "active" /\ read'.bytes = <<>>
        /\ read' \in [state : SerialStates, bytes : Seq(Nat)]
    BY <1>5 DEF SerialStates
  <2>3. Ranges' /\ Open' /\ Heeded'
    BY <1>1, <1>2, <1>5, <2>1 DEF Ranges, Open, Heeded
  <2>4. SerialTyped' /\ SerialStands(call.op, call.pc)'
    BY <1>1, <1>2, <1>5, <2>1, <2>2 DEF SerialTyped, SerialStands
  <2>5. SerialOwner' /\ SerialDriver'
    BY <1>1, <1>2, <1>5, <2>1, <2>2 DEF SerialOwner, SerialDriver
  <2>6. SerialBytes'
    <3>1. Serial!Collected' = <<>> /\ Piece(taken, 0) = <<>> /\ taken - taken = 0
      BY <1>3, <2>2, PieceNone DEF Serial!Collected
    <3> QED BY <1>3, <1>5, <3>1 DEF SerialBytes
  <2>7. SerialWire'
    BY <1>1, <1>2, <1>5, <2>1 DEF SerialWire
  <2> QED BY <2>3, <2>4, <2>5, <2>6, <2>7
<1>6. CASE Serial!Return("exhausted") /\ UNCHANGED <<owned, handles, Serial!stream, Serial!readVars>>
  <2>1. handles' = handles \ {call.candidate}
    BY <1>1, <1>6 DEF Open
  <2> QED BY <1>1, <1>2, <1>6, <2>1, SerialEnds DEF Outcomes, Serial!Outcomes
<1>7. CASE Serial!TakeAndClose("io")
  <2>1. call' = [Idle EXCEPT !.out = "io", !.sent = call.sent] /\ Serial!CloseImpl
    BY <1>7 DEF Serial!TakeAndClose, Serial!Return
  <2>2. call.sent = call.sent + write.count
    BY <1>1, Bounds
  <2> QED BY <1>1, <1>2, <2>1, <2>2, SerialCloses DEF Outcomes, Serial!Outcomes
<1> HIDE DEF SerialInv
<1> QED BY <1>4, <1>5, <1>6, <1>7 DEF Serial!StartRead

LEMMA SerialReads == ASSUME SerialInv, Serial!ReceiveWindows PROVE SerialInv'
<1> USE SerialSame
<1> USE DEF SerialInv, Serial!context, Serial!stream, Serial!readVars, Serial!At
<1>0. call \in Calls(Serial!Operations, SerialPlaces) /\ call.sent \in 0..MaxBytes
      /\ (call.op = "receive" => call.candidate = 0)
      /\ late \in {0, 1} /\ (call.op = "receive" => write.count = 0)
  BY DEF SerialTyped, SerialOwner, SerialDriver, SerialStands, Calls, Ranges
<1>1. CASE Serial!ReceiveCancelled
  BY <1>1, SerialTakes DEF Serial!ReceiveCancelled, Outcomes, Serial!Outcomes
<1>2. CASE Serial!ReceiveBuffered
  <2>1. ~is_read_pending /\ Serial!Collected = buffer /\ is_read_pending' = FALSE
        /\ read' = IF is_read_pending THEN Serial!None ELSE read
    <3>1. ~is_read_pending
      BY <1>2 DEF Serial!ReceiveBuffered, SerialDriver
    <3> QED BY <1>2, <3>1 DEF Serial!ReceiveBuffered, Serial!Collected, SerialTyped
  <2>2. Serial!Take(Serial!Collected, "ok") /\ "ok" \in Outcomes /\ windows /\ call.op = "receive"
    BY <1>2, <2>1 DEF Serial!ReceiveBuffered, Outcomes, Serial!Outcomes
  <2>3. UNCHANGED <<Serial!context, owned, handles, late, arrived, taken, wire, write>>
    BY <1>2 DEF Serial!ReceiveBuffered
  <2> HIDE DEF SerialInv
  <2> QED BY <2>1, <2>2, <2>3, SerialTakes
<1>3. CASE Serial!ReceiveExpired
  <2>1. call.candidate = 0 /\ call.pc \notin {"none", "written"} /\ Serial!Return("timeout")
        /\ UNCHANGED <<Serial!context, owned, handles, late, Serial!stream, wire, Serial!readVars, write>>
    BY <1>0, <1>3 DEF Serial!ReceiveExpired, Serial!TransferReturns
  <2>2. handles' = handles \ {call.candidate}
    BY <2>1 DEF Open
  <2> QED BY <2>1, <2>2, SerialEnds DEF Outcomes, Serial!Outcomes
<1>4. CASE Serial!JoinRead
  <2>1. Serial!GoTo("collect")
        /\ UNCHANGED <<Serial!context, owned, handles, late, Serial!stream, wire, Serial!readVars, write>>
           /\ is_read_pending
        /\ call.op = "receive" /\ call.pc = "loop" /\ windows /\ late = 0
    BY <1>0, <1>4 DEF Serial!JoinRead, Heeded
  <2>2. SerialStands(call.op, "collect") /\ "collect" \in SerialPlaces \ {"configure", "written"}
    BY <2>1 DEF SerialStands, SerialPlaces
  <2> HIDE DEF SerialInv
  <2> QED BY <2>1, <2>2, SerialGoes
<1>5. CASE Serial!CollectRead
  <2>1. /\ call.op = "receive" /\ call.pc = "collect" /\ is_read_pending /\ windows /\ owned # 0 /\ late = 0
        /\ ~is_read_pending' /\ read' = Serial!None /\ buffer' = Serial!Collected
           /\ is_read_pending' \in BOOLEAN
    <3>1. call.op = "receive" /\ call.pc = "collect" /\ is_read_pending /\ windows /\ owned # 0 /\ late = 0
      BY <1>0, <1>5 DEF Serial!CollectRead, SerialDriver, Heeded
    <3> QED BY <1>5, <3>1 DEF Serial!CollectRead, Serial!Collected
  <2>2. UNCHANGED <<Serial!context, owned, handles, late, Serial!stream, wire, write>> /\ Serial!GoTo("loop")
    BY <1>5 DEF Serial!CollectRead
  <2>3. /\ call' \in Calls(Serial!Operations, SerialPlaces)
        /\ call'.pc = "loop" /\ call'.op = call.op /\ call'.sent = call.sent /\ call'.before = call.before
           /\ call'.out = call.out
        /\ call'.size = call.size /\ call'.candidate = call.candidate
    <3>1. "loop" \in SerialPlaces
      BY DEF SerialPlaces
    <3> QED BY <1>0, <2>2, <3>1 DEF Serial!GoTo, Calls
  <2>4. Ranges' /\ Open' /\ Heeded'
    BY <2>1, <2>2, <2>3 DEF Ranges, Open, Heeded
  <2>5. SerialTyped' /\ SerialStands(call.op, call.pc)'
    BY <2>1, <2>2, <2>3, NoRead DEF SerialTyped, SerialStands
  <2>6. SerialOwner' /\ SerialDriver'
    BY <2>1, <2>2, <2>3 DEF SerialOwner, SerialDriver
  <2>7. SerialBytes'
    <3>1. Serial!Collected' = Serial!Collected
      BY <2>1 DEF Serial!Collected
    <3> QED BY <2>2, <3>1 DEF SerialBytes
  <2>8. SerialWire'
    BY <2>1, <2>2, <2>3 DEF SerialWire
  <2> QED BY <2>4, <2>5, <2>6, <2>7, <2>8
<1>6. CASE Serial!CollectFails
  <2>1. call' = [Idle EXCEPT !.out = "io", !.sent = call.sent] /\ Serial!CloseImpl
        /\ UNCHANGED <<Serial!context, late, wire, write>>
        /\ call.op = "receive" /\ call.pc = "collect"
    BY <1>6 DEF Serial!CollectFails, Serial!TakeAndClose, Serial!Return
  <2>2. call.sent = call.sent + write.count
    BY <1>0, <2>1, Bounds
  <2> HIDE DEF SerialInv
  <2> QED BY <1>0, <2>1, <2>2, SerialCloses DEF Outcomes, Serial!Outcomes
<1> HIDE DEF SerialInv
<1> QED BY <1>1, <1>2, <1>3, <1>4, <1>5, <1>6, SerialStarts DEF Serial!ReceiveWindows

\* What a send stands at, and what the native side has of it.
LEMMA SerialSending ==
  ASSUME SerialInv, call.op = "send"
  PROVE  /\ call.candidate = 0 /\ call.sent \in Nat /\ call.size \in Nat /\ write.count \in Nat
            /\ late \in {0, 1}
         /\ call.sent + write.count <= call.size /\ wire = Numbers(call.sent + write.count)
         /\ (call.pc # "written" => write.count = 0 /\ call.sent + write.count = call.sent)
         /\ call.sent \in 0..MaxBytes /\ 0 \notin handles
<1> USE SerialSame
<1> USE DEF SerialInv
<1>1. call.sent \in 0..MaxBytes /\ call.sent \in Nat /\ call.size \in Nat /\ write.count \in Nat
      /\ late \in {0, 1}
  BY Bounds DEF SerialTyped, Calls, Ranges
<1>2. call.candidate = 0
  BY DEF SerialOwner, SerialStands
<1>3. call.sent + write.count <= call.size /\ wire = Numbers(call.sent + write.count)
  BY DEF SerialWire
<1>4. call.pc # "written" => write.count = 0 /\ call.sent + write.count = call.sent
  BY <1>1 DEF SerialDriver
<1>5. 0 \notin handles
  BY DEF Open
<1> QED BY <1>1, <1>2, <1>3, <1>4, <1>5

\* Part of the buffer is written at once.
LEMMA SerialWrites ==
  ASSUME SerialInv, call.op = "send", call.pc # "written", NEW n \in Nat, call.sent + n <= call.size,
         Serial!Written(n), call' = Serial!Sent(Serial!Progress(n)),
         UNCHANGED <<Serial!context, owned, handles, Serial!stream, Serial!readVars, write>>,
         late' \in {0, 1}, late' = 1 => cancelled
  PROVE  SerialInv'
<1> USE SerialSame
<1>2. SerialMoved(call', call.sent + n) /\ call.sent + n \in 0..MaxBytes
  BY SerialMovedIs
<1>3. wire' = Numbers(call.sent + n)
  <2>1. wire' = Numbers(call.sent) \o Piece(call.sent, n) /\ call.sent \in Nat
    BY SerialSending DEF Serial!Written, Piece
  <2> QED BY <2>1, NumbersGrow
<1> QED BY <1>2, <1>3, SerialMoves

LEMMA SerialSends == ASSUME SerialInv, Serial!SendWindows PROVE SerialInv'
<1> USE SerialSame
<1> USE DEF Serial!context, Serial!stream, Serial!readVars, Serial!At
<1>0. call.op = "send" /\ call.op # "none" /\ call.pc \in {"wait", "written"}
  BY DEF Serial!SendWindows, Serial!WriteWindows, Serial!WriteDone, Serial!WriteCancelled, Serial!WriteFails,
     Serial!WriteThrows
<1>1. CASE Serial!WriteWindows
  <2>1. call.pc = "wait" /\ windows /\ UNCHANGED Serial!context /\ late' = late /\ late = 0
    BY <1>1, SerialSending DEF Serial!WriteWindows, Serial!NativeBegins, Serial!Stops, SerialInv, Heeded
  <2>2. CASE Serial!Return("exhausted")
             /\ UNCHANGED <<owned, handles, Serial!stream, wire, Serial!readVars, write>>
    <3>1. handles' = handles \ {call.candidate}
      BY <1>0, <2>2, SerialSending
    <3> QED BY <2>1, <2>2, <3>1, SerialEnds DEF Outcomes, Serial!Outcomes
  <2>3. CASE /\ \E n \in 0..(call.size - call.sent) : Serial!Written(n)
                /\ call' = Serial!Sent(Serial!Progress(n))
             /\ UNCHANGED <<owned, handles, Serial!stream, Serial!readVars, write>>
    <3>1. PICK n \in 0..(call.size - call.sent) : Serial!Written(n) /\ call' = Serial!Sent(Serial!Progress(n))
      BY <2>3
    <3>2. n \in Nat /\ call.sent + n <= call.size
      BY <1>0, <3>1, SerialSending
    <3> QED BY <1>0, <2>1, <2>3, <3>1, <3>2, SerialWrites
  <2>4. CASE /\ write' = [state |-> "active", count |-> 0] /\ Serial!GoTo("written")
             /\ UNCHANGED <<owned, handles, Serial!stream, wire, Serial!readVars>>
    <3> USE DEF SerialInv
    <3>1. /\ call' \in Calls(Serial!Operations, SerialPlaces)
          /\ call'.pc = "written" /\ call'.op = call.op /\ call'.sent = call.sent /\ call'.before = call.before
          /\ call'.size = call.size /\ call'.candidate = call.candidate /\ call.candidate = 0
      <4>1. "written" \in SerialPlaces /\ call \in Calls(Serial!Operations, SerialPlaces) /\ call.candidate = 0
        BY <1>0, SerialSending DEF SerialPlaces, SerialTyped
      <4> QED BY <2>4, <4>1 DEF Serial!GoTo, Calls
    <3>2. write' \in [state : SerialStates, count : 0..MaxBytes] /\ write'.state = "active" /\ write'.count = 0
          /\ write.count = 0
      BY <1>0, <2>1, <2>4, SerialSending, Bounds DEF SerialStates
    <3>3. Ranges' /\ Open' /\ Heeded'
      BY <2>1, <2>4, <3>1 DEF Ranges, Open, Heeded
    <3>4. SerialTyped' /\ SerialStands(call.op, call.pc)'
      BY <1>0, <2>1, <2>4, <3>1, <3>2 DEF SerialTyped, SerialStands
    <3>5. SerialOwner' /\ SerialDriver'
      BY <1>0, <2>1, <2>4, <3>1, <3>2 DEF SerialOwner, SerialDriver
    <3>6. SerialBytes'
      BY <2>4, SerialBytesStay
    <3>7. SerialWire'
      BY <1>0, <2>4, <3>1, <3>2 DEF SerialWire
    <3> QED BY <3>3, <3>4, <3>5, <3>6, <3>7
  <2>5. CASE Serial!Return("io") /\ Serial!CloseImpl /\ UNCHANGED <<wire, write>>
    <3>1. call' = [Idle EXCEPT !.out = "io", !.sent = call.sent] /\ call.sent = call.sent + write.count
      BY <1>0, <2>1, <2>5, SerialSending DEF Serial!Return
    <3> QED BY <1>0, <2>1, <2>5, <3>1, SerialSending, SerialCloses DEF Outcomes, Serial!Outcomes
  <2> QED BY <1>1, <2>2, <2>3, <2>4, <2>5 DEF Serial!WriteWindows
<1>2. CASE Serial!WriteDone \/ (Serial!WriteCancelled /\ call' = Serial!Sent(Serial!Progress(write.count)))
  <2>1. /\ call' = Serial!Sent(Serial!Progress(write.count)) /\ write' = Serial!Unwritten /\ call.pc = "written"
        /\ UNCHANGED <<Serial!context, owned, handles, late, Serial!stream, wire, Serial!readVars>>
    BY <1>2 DEF Serial!WriteDone, Serial!WriteCancelled
  <2>2. SerialMoved(call', call.sent + write.count) /\ call.sent + write.count \in 0..MaxBytes
    BY <1>0, <2>1, SerialSending, SerialMovedIs
  <2>3. late' \in {0, 1} /\ (late' = 1 => cancelled)
    BY <1>0, <2>1, SerialSending DEF SerialInv, Heeded
  <2>4. call.sent + write.count <= call.size /\ wire' = Numbers(call.sent + write.count)
    BY <1>0, <2>1, SerialSending
  <2> QED BY <1>0, <2>1, <2>2, <2>3, <2>4, SerialMoves
<1>3. CASE Serial!WriteCancelled
           /\ call' = [Idle EXCEPT !.out = Serial!StopReason, !.sent = Serial!Progress(write.count).sent]
  <2>1. write' = Serial!Unwritten
        /\ UNCHANGED <<Serial!context, owned, handles, late, Serial!stream, wire, Serial!readVars>>
           /\ call.pc = "written"
    BY <1>3 DEF Serial!WriteCancelled
  <2>2. SerialMoved(call', call.sent + write.count) /\ call.sent + write.count \in 0..MaxBytes
    BY <1>0, <1>3, SerialSending, SerialMovedIs, SerialReasons
  <2>3. late' \in {0, 1} /\ (late' = 1 => cancelled)
    BY <1>0, <2>1, SerialSending DEF SerialInv, Heeded
  <2>4. call.sent + write.count <= call.size /\ wire' = Numbers(call.sent + write.count)
    BY <1>0, <2>1, SerialSending
  <2> QED BY <1>0, <2>1, <2>2, <2>3, <2>4, SerialMoves
<1>4. CASE Serial!WriteFails
  <2> DEFINE total == call.sent + write.count
  <2>1. Serial!Progress(write.count).sent = total /\ total \in 0..MaxBytes
    BY <1>0, SerialSending, SerialMovedIs DEF Serial!Progress, SerialInv, SerialTyped, Calls
  <2>2. /\ call' = [Idle EXCEPT !.out = "io", !.sent = total] /\ write' = Serial!Unwritten /\ Serial!CloseImpl
        /\ UNCHANGED <<Serial!context, wire>> /\ late' = late
    BY <1>4, <2>1 DEF Serial!WriteFails
  <2>3. call.candidate = 0
    BY <1>0, SerialSending
  <2> QED BY <1>0, <2>1, <2>2, <2>3, SerialCloses DEF Outcomes, Serial!Outcomes
<1>5. CASE Serial!WriteThrows
  <2> USE DEF SerialInv
  <2>1. /\ Serial!Return("threw") /\ write' = Serial!Unwritten
           /\ UNCHANGED <<Serial!context, owned, handles, late, Serial!stream, wire, Serial!readVars>>
        /\ call.candidate = 0 /\ call.sent \in 0..MaxBytes
    BY <1>0, <1>5, SerialSending DEF Serial!WriteThrows
  <2>2. /\ call' \in Calls(Serial!Operations, SerialPlaces) /\ call'.pc = "none" /\ call'.op = "none"
           /\ call'.sent = call.sent
        /\ call'.candidate = 0 /\ call'.out = "threw"
    BY <2>1, Reports DEF Serial!Return, Over, Outcomes, Serial!Outcomes
  <2>3. Ranges' /\ Open' /\ Heeded'
    BY <2>1, <2>2 DEF Ranges, Open, Heeded
  <2>4. SerialTyped' /\ SerialStands(call.op, call.pc)'
    BY <2>1, <2>2, NoWrite DEF SerialTyped, SerialStands
  <2>5. SerialOwner' /\ SerialDriver'
    BY <1>0, <2>1, <2>2, NoWrite DEF SerialOwner, SerialDriver
  <2>6. SerialBytes'
    BY <2>1, SerialBytesStay
  <2>7. SerialWire'
    BY <2>1, <2>2 DEF SerialWire
  <2> QED BY <2>3, <2>4, <2>5, <2>6, <2>7
<1> QED BY <1>1, <1>2, <1>3, <1>4, <1>5 DEF Serial!SendWindows, Serial!WriteCancelled

LEMMA SerialPosix == ASSUME SerialInv, Serial!Posix PROVE SerialInv'
<1> USE SerialSame
<1> USE DEF Serial!context, Serial!stream, Serial!readVars, Serial!At
<1>0. /\ call \in Calls(Serial!Operations, SerialPlaces) /\ call.sent \in 0..MaxBytes /\ call.size \in Nat
         /\ late \in {0, 1}
      /\ call.op \in {"send", "receive"} /\ call.op # "none" /\ call.candidate = 0
         /\ call.pc \in {"wait", "select", "io"} /\ write.count = 0
  BY Bounds DEF SerialInv, SerialTyped, SerialOwner, SerialDriver, SerialStands, Calls, Ranges,
     Serial!Operations, Serial!Posix, Serial!WaitStops, Serial!PosixFails,
     Serial!Again, Serial!ReadPosix, Serial!WritePosix
<1>1. CASE Serial!WaitStops
  <2>1. Serial!Return(Serial!StopReason)
        /\ UNCHANGED <<Serial!context, owned, handles, late, Serial!stream, wire, Serial!readVars, write>>
    BY <1>1 DEF Serial!WaitStops, Serial!TransferReturns
  <2>2. handles' = handles \ {call.candidate}
    BY <1>0, <2>1 DEF SerialInv, Open
  <2> QED BY <1>0, <2>1, <2>2, SerialReasons, SerialEnds
<1>2. CASE Serial!PosixFails
  <2>1. call' = [Idle EXCEPT !.out = "io", !.sent = call.sent] /\ Serial!CloseImpl
        /\ UNCHANGED <<Serial!context, late, wire, write>>
    BY <1>2 DEF Serial!PosixFails, Serial!Return
  <2>2. call.sent = call.sent + write.count
    BY <1>0, Bounds
  <2> QED BY <1>0, <2>1, <2>2, SerialCloses DEF Outcomes, Serial!Outcomes
<1>3. CASE Serial!Again
  <2>1. /\ Serial!GoTo("wait")
           /\ UNCHANGED <<Serial!context, owned, handles, Serial!stream, wire, Serial!readVars, write>>
        /\ late' \in {0, 1} /\ (late' = 1 => cancelled) /\ ~windows
    BY <1>0, <1>3 DEF Serial!Again, Serial!NativeBegins, SerialInv, Heeded
  <2>2. SerialStands(call.op, "wait") /\ "wait" \in SerialPlaces \ {"configure", "written"}
    BY <1>0, <2>1 DEF SerialStands, SerialPlaces
  <2> QED BY <1>0, <2>1, <2>2, SerialGoes
<1>4. CASE Serial!WritePosix
  <2>1. PICK n \in 1..(call.size - call.sent) : Serial!Written(n) /\ call' = Serial!Sent(Serial!Progress(n))
    BY <1>4 DEF Serial!WritePosix
  <2>2. n \in Nat /\ call.sent + n <= call.size /\ call.op = "send" /\ call.pc = "io"
    BY <1>0, <1>4, <2>1, Bounds DEF Serial!WritePosix
  <2>3. UNCHANGED <<Serial!context, owned, handles, Serial!stream, Serial!readVars, write>> /\ late' \in {0, 1}
        /\ (late' = 1 => cancelled)
    BY <1>0, <1>4 DEF Serial!WritePosix, Serial!NativeBegins, SerialInv, Heeded
  <2> QED BY <2>1, <2>2, <2>3, SerialWrites
<1>5. CASE Serial!ReadPosix
  <2> USE DEF SerialInv
  <2>1. /\ Serial!Return("ok")
           /\ UNCHANGED <<Serial!context, owned, handles, arrived, wire, Serial!readVars, write>>
        /\ late' \in {0, 1} /\ (late' = 1 => cancelled) /\ call.pc = "io" /\ call.op = "receive"
    BY <1>0, <1>5 DEF Serial!ReadPosix, Serial!NativeBegins, Heeded
  <2>2. PICK n \in 1..Serial!LesserOf(call.size, arrived - taken) : taken' = taken + n
             /\ got' = got \o Piece(taken, n)
    BY <1>5 DEF Serial!ReadPosix, Piece
  <2>3. n \in Nat /\ taken \in Nat /\ taken + n \in 0..arrived /\ taken + n \in Nat
    BY <1>0, <2>2, Bounds DEF Serial!LesserOf, Ranges
  <2>4. /\ call' \in Calls(Serial!Operations, SerialPlaces) /\ call'.pc = "none" /\ call'.op = "none"
           /\ call'.sent = call.sent
        /\ call'.candidate = 0 /\ call'.out = "ok"
    BY <1>0, <2>1, Reports DEF Serial!Return, Over, Outcomes, Serial!Outcomes
  <2>5. Ranges' /\ Open' /\ Heeded'
    BY <1>0, <2>1, <2>2, <2>3, <2>4 DEF Ranges, Open, Heeded
  <2>6. SerialTyped' /\ SerialStands(call.op, call.pc)'
    BY <2>1, <2>4 DEF SerialTyped, SerialStands
  <2>7. SerialOwner' /\ SerialDriver'
    BY <1>0, <2>1, <2>4 DEF SerialOwner, SerialDriver
  <2>8. SerialBytes'
    <3>1. ~is_read_pending /\ buffer = <<>> /\ ~is_read_pending' /\ buffer' = <<>>
      BY <2>1 DEF SerialDriver, SerialStands
    <3>2. Serial!Collected = <<>> /\ Serial!Collected' = <<>>
      BY <3>1 DEF Serial!Collected
    <3>3. Len(got) = taken /\ got = Numbers(taken)
      <4>1. Len(got) \in Nat /\ taken - Len(got) \in Nat
        BY <2>3 DEF SerialBytes
      <4>2. taken - Len(got) = 0
        BY <3>2, <4>1, PieceIs DEF SerialBytes
      <4> QED BY <2>3, <4>1, <4>2 DEF SerialBytes
    <3>4. got' = Numbers(taken') /\ Len(got') = taken'
      <4>1. Numbers(taken) \o Piece(taken, n) = Numbers(taken + n)
        BY <2>3, NumbersGrow
      <4> QED BY <2>2, <2>3, <3>3, <4>1, NumbersAre
    <3>5. taken' - taken' = 0 /\ taken' \in 0..taken' /\ Piece(taken', 0) = <<>>
      BY <2>2, <2>3, PieceNone
    <3> QED BY <3>2, <3>4, <3>5 DEF SerialBytes
  <2>9. SerialWire'
    BY <1>0, <2>1, <2>4 DEF SerialWire
  <2> QED BY <2>5, <2>6, <2>7, <2>8, <2>9
<1> QED BY <1>1, <1>2, <1>3, <1>4, <1>5 DEF Serial!Posix

-----------------------------------------------------------------------------
LEMMA SerialDrives == ASSUME SerialInv, Serial!Driver PROVE SerialInv'
<1> USE SerialSame
<1> USE DEF SerialInv, Serial!context, Serial!stream, Serial!readVars, Serial!base, Serial!At
<1>0. /\ read \in [state : SerialStates, bytes : Seq(Nat)]
         /\ write \in [state : SerialStates, count : 0..MaxBytes]
      /\ taken \in Nat /\ is_read_pending \in BOOLEAN
  BY Bounds DEF SerialTyped, Ranges
<1>1. CASE Serial!DriverReads
  <2>1. /\ is_read_pending /\ taken' = taken + 1 /\ read.state = "active" /\ read.bytes \in Seq(Nat)
           /\ taken + 1 \in Nat
        /\ read' = [read EXCEPT !.bytes = Append(read.bytes, taken + 1)]
        /\ UNCHANGED <<Serial!context, owned, handles, call, late, arrived, got, wire, is_read_pending, buffer, write>>
        /\ taken + 1 \in 0..arrived
    BY <1>0, <1>1, NoRead, Bounds DEF Serial!DriverReads, SerialDriver, Ranges
  <2>2. read'.state = "active" /\ read'.bytes = Append(read.bytes, taken + 1)
        /\ read' \in [state : SerialStates, bytes : Seq(Nat)]
    <3>1. Append(read.bytes, taken + 1) \in Seq(Nat)
      BY <2>1
    <3> QED BY <1>0, <2>1, <3>1
  <2>3. Ranges' /\ Open' /\ Heeded'
    BY <2>1 DEF Ranges, Open, Heeded
  <2>4. SerialTyped' /\ SerialStands(call.op, call.pc)' /\ SerialOwner' /\ SerialDriver'
    BY <2>1, <2>2 DEF SerialTyped, SerialStands, SerialOwner, SerialDriver
  <2>5. SerialBytes'
    <3> DEFINE g == Len(got)
               m == taken - Len(got)
    <3>1. g \in Nat /\ m \in Nat /\ g + m + 1 = taken + 1 /\ (taken + 1) - g = m + 1 /\ g \in 0..(taken + 1)
      BY <1>0 DEF SerialBytes
    <3>2. Serial!Collected = Piece(g, m) /\ got = Numbers(g)
      BY DEF SerialBytes
    <3>3. Serial!Collected = read.bytes /\ Serial!Collected' = Append(read.bytes, taken + 1)
      BY <2>1, <2>2 DEF Serial!Collected
    <3>4. Serial!Collected' = Piece(g, m + 1)
      <4>1. Append(Piece(g, m), g + m + 1) = Piece(g, m + 1)
        <5> HIDE DEF g, m
        <5> QED BY <3>1, PieceAppend
      <4> QED BY <3>1, <3>2, <3>3, <4>1
    <3> QED BY <2>1, <3>1, <3>2, <3>4 DEF SerialBytes
  <2>6. SerialWire'
    BY <2>1 DEF SerialWire
  <2> QED BY <2>3, <2>4, <2>5, <2>6
<1>2. CASE Serial!ReadCompletes
  <2>1. is_read_pending /\ UNCHANGED <<Serial!base, is_read_pending, buffer, write>>
    BY <1>2, NoRead DEF Serial!ReadCompletes, SerialDriver
  <2>2. read'.state = "done" /\ read'.bytes = read.bytes /\ read' \in [state : SerialStates, bytes : Seq(Nat)]
    BY <1>0, <1>2 DEF Serial!ReadCompletes, SerialStates
  <2>3. Ranges' /\ Open' /\ Heeded'
    BY <2>1 DEF Ranges, Open, Heeded
  <2>4. SerialTyped' /\ SerialStands(call.op, call.pc)' /\ SerialOwner' /\ SerialDriver'
    BY <2>1, <2>2 DEF SerialTyped, SerialStands, SerialOwner, SerialDriver
  <2>5. Serial!Collected' = Serial!Collected
    BY <2>1, <2>2 DEF Serial!Collected
  <2>6. SerialBytes' /\ SerialWire'
    BY <2>1, <2>5 DEF SerialBytes, SerialWire
  <2> QED BY <2>3, <2>4, <2>6
<1>3. CASE Serial!DriverWrites
  <2>1. call.op = "send" /\ call.pc = "written" /\ call \in Calls(Serial!Operations, SerialPlaces)
        /\ write.state = "active"
    BY <1>3 DEF Serial!DriverWrites, SerialDriver, SerialStands, SerialTyped, Calls, Serial!Operations
  <2>2. /\ call.sent + write.count \in Nat /\ call.sent + write.count < call.size
           /\ write.count + 1 \in 0..MaxBytes
        /\ call.sent + (write.count + 1) = call.sent + write.count + 1
           /\ call.sent + write.count + 1 <= call.size
        /\ call.sent + write.count + 1 \in 0..MaxBytes
    <3>1. call.sent \in 0..MaxBytes /\ call.size \in 0..MaxBytes /\ write.count \in 0..MaxBytes
          /\ call.sent + write.count < call.size
      BY <1>0, <1>3, <2>1 DEF Calls, Serial!DriverWrites
    <3> QED BY <3>1, Bounds
  <2>3. UNCHANGED <<Serial!context, owned, handles, call, late, Serial!stream, Serial!readVars>>
    BY <1>3 DEF Serial!DriverWrites
  <2>4. write'.state = "active" /\ write'.count = write.count + 1
        /\ write' \in [state : SerialStates, count : 0..MaxBytes]
    BY <1>0, <1>3, <2>1, <2>2 DEF Serial!DriverWrites
  <2>5. Ranges' /\ Open' /\ Heeded'
    BY <2>3 DEF Ranges, Open, Heeded
  <2>6. SerialTyped' /\ SerialStands(call.op, call.pc)' /\ SerialOwner' /\ SerialDriver'
    BY <2>1, <2>3, <2>4 DEF SerialTyped, SerialStands, SerialOwner, SerialDriver
  <2>7. SerialBytes'
    BY <2>3, SerialBytesStay
  <2>8. SerialWire'
    <3> DEFINE total == call.sent + write.count
    <3>1. wire = Numbers(total) /\ wire' = Append(wire, total + 1)
      BY <1>3, <2>1 DEF Serial!DriverWrites, SerialWire
    <3>2. wire' = Numbers(total + 1) /\ Len(wire') = total + 1
      <4>1. total \in Nat /\ total + 1 \in Nat
        BY <2>2
      <4> HIDE DEF total
      <4>2. Append(Numbers(total), total + 1) = Numbers(total + 1)
        BY <4>1, NumbersAppend
      <4> QED BY <3>1, <4>1, <4>2, NumbersAre
    <3> QED BY <2>1, <2>2, <2>3, <2>4, <3>2 DEF SerialWire
  <2> QED BY <2>5, <2>6, <2>7, <2>8
<1>4. CASE Serial!WriteCompletes
  <2>1. UNCHANGED <<Serial!base, Serial!readVars>> /\ write.state = "active"
    BY <1>4 DEF Serial!WriteCompletes
  <2>2. write'.state = "done" /\ write'.count = write.count
        /\ write' \in [state : SerialStates, count : 0..MaxBytes]
    BY <1>0, <1>4 DEF Serial!WriteCompletes, SerialStates
  <2>3. Ranges' /\ Open' /\ Heeded'
    BY <2>1 DEF Ranges, Open, Heeded
  <2>4. SerialTyped' /\ SerialStands(call.op, call.pc)' /\ SerialOwner' /\ SerialDriver'
    BY <2>1, <2>2 DEF SerialTyped, SerialStands, SerialOwner, SerialDriver
  <2>5. SerialBytes' /\ SerialWire'
    BY <2>1, <2>2, SerialBytesStay DEF SerialWire
  <2> QED BY <2>3, <2>4, <2>5
<1> QED BY <1>1, <1>2, <1>3, <1>4 DEF Serial!Driver

LEMMA SerialWorld == ASSUME SerialInv, (Serial!Arrives \/ Serial!Cancel \/ Serial!Tick)
      /\ UNCHANGED <<Serial!readVars, write>> PROVE SerialInv'
<1> USE SerialSame
<1> USE DEF SerialInv, Serial!context, Serial!stream
<1>1. UNCHANGED <<windows, owned, handles, call, late, taken, got, wire, Serial!readVars, write>>
  BY DEF Serial!Cancel, Serial!Tick, Serial!Arrives
<1>2. Ranges'
  <2>1. Serial!Tick => budget - 1 \in 0..MaxTimeout
    BY Bounds DEF Serial!Tick, Serial!Expired, Ranges
  <2>2. CASE Serial!Cancel \/ Serial!Tick
    BY <1>1, <2>1, <2>2 DEF Serial!Cancel, Serial!Tick, Ranges
  <2>3. CASE Serial!Arrives
    BY <1>1, <2>3, Bounds DEF Serial!Arrives, Ranges
  <2> QED BY <2>2, <2>3
<1>3. Open' /\ SerialTyped' /\ SerialStands(call.op, call.pc)' /\ SerialOwner' /\ SerialDriver' /\ SerialBytes'
      /\ SerialWire'
  BY <1>1 DEF Open, SerialTyped, SerialStands, SerialOwner, SerialDriver, SerialBytes, SerialWire,
     Serial!Collected, Serial!readVars
<1>4. Heeded'
  <2>1. cancelled => cancelled'
    BY DEF Serial!Cancel, Serial!Tick, Serial!Arrives
  <2> QED BY <1>1, <2>1 DEF Heeded
<1> QED BY <1>2, <1>3, <1>4

LEMMA SerialStepKeeps == ASSUME SerialInv, Serial!Next PROVE SerialInv'
<1> USE SerialSame
<1> USE DEF Serial!context, Serial!stream, Serial!readVars, Serial!At
<1>0. late \in {0, 1} /\ call \in Calls(Serial!Operations, SerialPlaces) /\ call.sent \in 0..MaxBytes
      /\ 0 \notin handles
  BY DEF SerialInv, SerialTyped, Ranges, Open, Calls
<1>1. CASE Serial!Close
  <2>1. call' = [Idle EXCEPT !.out = "ok", !.sent = call.sent] /\ Serial!CloseImpl
        /\ UNCHANGED <<Serial!context, late, wire, write>>
        /\ call.op = "close" /\ call.pc = "begin" /\ call.candidate = 0
    BY <1>1 DEF Serial!Close, Serial!Return, SerialInv, SerialOwner
  <2>2. call.sent = call.sent + write.count
    <3>1. write.count = 0 /\ call.sent \in Nat
      BY <1>0, <2>1, Bounds DEF SerialInv, SerialDriver
    <3> QED BY <3>1
  <2> QED BY <1>0, <2>1, <2>2, SerialCloses DEF Outcomes, Serial!Outcomes
<1>2. CASE Serial!ReceiveBegins
  <2>1. call.op = "receive" /\ call.pc = "begin" /\ late = 0 /\ call.candidate = 0
        /\ UNCHANGED <<Serial!context, owned, handles, late, Serial!stream, wire, Serial!readVars, write>>
    BY <1>0, <1>2 DEF Serial!ReceiveBegins, SerialInv, Heeded, SerialOwner
  <2>2. \/ windows /\ Serial!GoTo("loop")
        \/ ~windows /\ Serial!GoTo("wait")
        \/ Serial!Return("exhausted")
    BY <1>2 DEF Serial!ReceiveBegins
  <2>3. CASE windows /\ Serial!GoTo("loop")
    <3>1. SerialStands(call.op, "loop") /\ "loop" \in SerialPlaces \ {"configure", "written"}
      BY <2>1, <2>3 DEF SerialStands, SerialPlaces
    <3> QED BY <2>1, <2>3, <3>1, SerialGoes
  <2>4. CASE ~windows /\ Serial!GoTo("wait")
    <3>1. SerialStands(call.op, "wait") /\ "wait" \in SerialPlaces \ {"configure", "written"}
      BY <2>1, <2>4 DEF SerialStands, SerialPlaces
    <3> QED BY <2>1, <2>4, <3>1, SerialGoes
  <2>5. CASE Serial!Return("exhausted")
    <3>1. handles' = handles \ {call.candidate}
      BY <1>0, <2>1
    <3> QED BY <2>1, <2>5, <3>1, SerialEnds DEF Outcomes, Serial!Outcomes
  <2> QED BY <2>2, <2>3, <2>4, <2>5
<1>3. CASE Serial!SendBegins
  <2>1. call.op = "send" /\ call.pc = "begin" /\ late = 0 /\ call.candidate = 0
        /\ UNCHANGED <<Serial!context, owned, handles, late, Serial!stream, wire, Serial!readVars, write>>
    BY <1>0, <1>3 DEF Serial!SendBegins, SerialInv, Heeded, SerialOwner
  <2>2. Serial!Return("ok") \/ Serial!GoTo("wait")
    BY <1>3 DEF Serial!SendBegins
  <2>3. CASE Serial!GoTo("wait")
    <3>1. SerialStands(call.op, "wait") /\ "wait" \in SerialPlaces \ {"configure", "written"}
      BY <2>1 DEF SerialStands, SerialPlaces
    <3> QED BY <2>1, <2>3, <3>1, SerialGoes
  <2>4. CASE Serial!Return("ok")
    <3>1. handles' = handles \ {call.candidate}
      BY <1>0, <2>1
    <3> QED BY <2>1, <2>4, <3>1, SerialEnds DEF Outcomes, Serial!Outcomes
  <2> QED BY <2>2, <2>3, <2>4
<1>4. CASE ~windows /\ (Serial!WaitBegins \/ Serial!WaitSlice(Serial!Ready))
           /\ UNCHANGED <<Serial!readVars, write>>
  <2>1. PICK place \in {"wait", "select", "io"} : Serial!GoTo(place)
             /\ UNCHANGED <<Serial!context, owned, handles, late, Serial!stream, wire, Serial!readVars, write>>
    BY <1>4 DEF Serial!WaitBegins, Serial!WaitSlice
  <2>2. late = 0 /\ call.op \in {"send", "receive"} /\ call.pc \in {"wait", "select"}
    BY <1>0, <1>4 DEF Serial!WaitBegins, Serial!WaitSlice, Serial!Stops, SerialInv, Heeded, SerialStands, Calls,
       Serial!Operations
  <2>3. SerialStands(call.op, place) /\ place \in SerialPlaces \ {"configure", "written"} /\ place # "collect"
    BY <1>4, <2>2 DEF SerialStands, SerialPlaces
  <2> QED BY <2>1, <2>2, <2>3, SerialGoes
<1>5. CASE Serial!Step
  BY <1>1, <1>2, <1>3, <1>4, <1>5, SerialOpens, SerialOpened, SerialReads, SerialSends,
     SerialPosix DEF Serial!Step
<1> QED BY <1>5, SerialBegins, SerialDrives, SerialWorld DEF Serial!Next

\* What it says of a state.
LEMMA SerialSound ==
  ASSUME SerialInv
  PROVE  Serial!TypeOK /\ Serial!IoOwned /\ Serial!BytesKept /\ ProgressExact /\ late <= 1
         /\ (Quiet => handles = {owned} \ {0})
<1> USE SerialSame
<1> USE DEF SerialInv
<1> DEFINE g == Len(got)
           m == taken - Len(got)
<1>1. call \in Calls(Serial!Operations, SerialPlaces) /\ (Quiet => call.candidate = 0)
      /\ is_read_pending \in BOOLEAN
      /\ read \in [state : SerialStates, bytes : Seq(Nat)]
         /\ write \in [state : SerialStates, count : 0..MaxBytes]
  BY DEF SerialTyped, SerialOwner, SerialStands, Quiet, Serial!Quiet
<1>2. g \in Nat /\ m \in Nat /\ g + m = taken /\ taken \in Nat /\ g <= taken /\ taken <= MaxBytes
  BY Bounds DEF SerialBytes, Ranges
<1>3. got = Numbers(g) /\ Serial!Collected = Piece(g, m)
  BY DEF SerialBytes
<1>4. got \in Seq(1..MaxBytes) /\ Serial!Collected \in Seq(1..MaxBytes) /\ got \in Seq(Nat)
      /\ Serial!Collected \in Seq(Nat)
      /\ got \o Serial!Collected = Numbers(taken)
  <2> HIDE DEF g, m
  <2>1. got \in Seq(1..g) /\ Serial!Collected \in Seq(1..(g + m)) /\ got \in Seq(Nat)
        /\ Serial!Collected \in Seq(Nat)
    BY <1>2, <1>3, NumbersAre, PieceIs
  <2>2. 1..g \subseteq 1..MaxBytes /\ 1..(g + m) \subseteq 1..MaxBytes
    BY <1>2, Bounds
  <2>3. got \in Seq(1..MaxBytes) /\ Serial!Collected \in Seq(1..MaxBytes)
    BY <2>1, <2>2, SeqMonotonic
  <2>4. got \o Serial!Collected = Numbers(taken)
    BY <1>2, <1>3, NumbersGrow
  <2> QED BY <2>1, <2>3, <2>4
<1> HIDE DEF g, m
<1>5. \/ is_read_pending /\ buffer = <<>> /\ read.bytes = Serial!Collected /\ read.state # "none" /\ owned # 0
      \/ ~is_read_pending /\ buffer = Serial!Collected /\ read.bytes = <<>> /\ read.state = "none"
         /\ read = Serial!None
  BY NoRead DEF Serial!Collected, SerialDriver
<1>6. Serial!BytesKept
  <2>1. got \o <<>> = got /\ got \o Serial!Collected \o <<>> = got \o Serial!Collected
    <3>1. got \o Serial!Collected \in Seq(Nat)
      <4> HIDE DEF SerialInv
      <4> QED BY <1>4, ConcatProperties
    <3> QED BY <1>4, <3>1, ConcatEmptySeq
  <2>2. CASE buffer = <<>> /\ read.bytes = Serial!Collected
    BY <1>4, <2>1, <2>2 DEF Serial!BytesKept, Numbers, Serial!Numbers
  <2>3. CASE buffer = Serial!Collected /\ read.bytes = <<>>
    BY <1>4, <2>1, <2>3 DEF Serial!BytesKept, Numbers, Serial!Numbers
  <2> QED BY <1>5, <2>2, <2>3
<1>7. buffer \in Seq(1..MaxBytes) /\ read.bytes \in Seq(1..MaxBytes)
  <2>1. <<>> \in Seq(1..MaxBytes)
    OBVIOUS
  <2>2. (buffer = <<>> \/ buffer = Serial!Collected) /\ (read.bytes = <<>> \/ read.bytes = Serial!Collected)
    BY <1>5
  <2> QED BY <1>4, <2>1, <2>2
<1>8. Serial!IoOwned
  <2>1. read.state # "none" <=> is_read_pending
    BY <1>5
  <2>2. is_read_pending => owned # 0 /\ buffer = <<>>
    BY <1>5
  <2>3. write.state # "none" => Serial!At("send", "written")
    BY <1>1 DEF SerialDriver, SerialStands, Serial!At, Calls, Serial!Operations
  <2> QED BY <2>1, <2>2, <2>3 DEF Serial!IoOwned
<1>9. wire \in Seq(1..MaxBytes) /\ wire = Numbers(Len(wire))
      /\ (Quiet /\ call.out # "threw" => call.sent = Len(wire))
  <2>1. wire = Numbers(Len(wire)) /\ Len(wire) \in Nat /\ 1..Len(wire) \subseteq 1..MaxBytes
    BY Bounds DEF SerialWire
  <2>2. wire \in Seq(1..Len(wire))
    <3> DEFINE l == Len(wire)
    <3>1. wire = Numbers(l) /\ l \in Nat
      BY <2>1
    <3> HIDE DEF l
    <3>2. wire \in Seq(1..l)
      BY <3>1, NumbersAre
    <3> QED BY <3>2 DEF l
  <2>3. wire \in Seq(1..MaxBytes)
    BY <2>1, <2>2, SeqMonotonic
  <2>4. Quiet /\ call.out # "threw" => call.sent = Len(wire)
    <3>1. Quiet => write.count = 0
      BY DEF Quiet, Serial!Quiet, SerialStands, SerialDriver
    <3>2. call.sent \in Nat
      BY <1>1, Bounds DEF Calls
    <3> QED BY <3>1, <3>2 DEF Quiet, Serial!Quiet, SerialWire
  <2> QED BY <2>1, <2>3, <2>4
<1>10. handles \subseteq Handles /\ owned \in {0} \cup handles /\ call.candidate \in {0} \cup handles
  BY <1>1 DEF Open, Names, Calls
<1>11. Serial!BaseTypeOK
  BY <1>1, <1>4, <1>9, <1>10 DEF Serial!BaseTypeOK, Ranges, Calls, Names
<1>12. Serial!TypeOK
  BY <1>1, <1>7, <1>11 DEF Serial!TypeOK, Calls, SerialPlaces, SerialStates
<1>13. Quiet => handles = {owned} \ {0}
  BY <1>1 DEF Open
<1>14. late <= 1
  BY DEF Ranges
<1> QED BY <1>6, <1>8, <1>9, <1>12, <1>13, <1>14 DEF ProgressExact, Serial!ProgressExact

\* A return that keeps the port, and one that closes it.
LEMMA SerialKept ==
  ASSUME SerialInv, call.op # "none", NEW out \in Outcomes, NEW sent \in 0..MaxBytes,
         call' = [Idle EXCEPT !.out = out, !.sent = sent], owned' = owned, call.op # "close",
         call.op = "open" => out # "ok", call.op # "open" => out # "io"
  PROVE  owned' \in Serial!OwnerAfter(call'.out)
<1> USE SerialSame
<1>1. call'.out = out
  BY Reports
<1>2. owned = call.before
  BY DEF SerialInv, SerialOwner
<1> QED BY <1>1, <1>2 DEF Serial!OwnerAfter

LEMMA SerialShut ==
  ASSUME NEW sent \in 0..MaxBytes, call' = [Idle EXCEPT !.out = "io", !.sent = sent], owned' = 0,
         call.op \in {"send", "receive"}
  PROVE  owned' \in Serial!OwnerAfter(call'.out)
<1> USE SerialSame
<1>1. call'.out = "io"
  BY Reports DEF Outcomes, Serial!Outcomes
<1> QED BY <1>1 DEF Serial!OwnerAfter

LEMMA SerialReturns ==
  ASSUME SerialInv, Serial!Next, Returns
  PROVE  owned' \in Serial!OwnerAfter(call'.out)
<1> USE SerialSame
<1> USE DEF Returns, Serial!Returns, Quiet, Serial!Quiet, Serial!At
<1>1. call \in Calls(Serial!Operations, SerialPlaces) /\ call.op \in Serial!Operations /\ call.op # "none"
      /\ call'.op = "none" /\ call.sent \in 0..MaxBytes
      /\ owned = call.before
  BY DEF SerialInv, SerialTyped, Calls, SerialOwner
<1>2. CASE Serial!Close
  BY <1>2 DEF Serial!Close, Serial!CloseImpl, Serial!Closed, Serial!OwnerAfter
<1>3. CASE Serial!OpenSucceeds
  <2>1. call'.out = "ok" /\ owned' = call.candidate /\ call.op = "open"
    BY <1>1, <1>3, Reports DEF Serial!OpenSucceeds, Serial!Return, Outcomes, Serial!Outcomes
  <2> QED BY <2>1 DEF Serial!OwnerAfter
<1>4. CASE Serial!OpenCandidate \/ Serial!OpenFails
  <2>1. call.op = "open" /\ owned' = owned
    BY <1>4 DEF Serial!OpenCandidate, Serial!OpenFails
  <2>2. ~(call' = [call EXCEPT !.pc = "configure", !.candidate = Fresh])
    BY <1>1 DEF Calls
  <2>3. \E out \in {"cancelled", "timeout", "connection", "io"} : Serial!Return(out)
    BY <1>4, <2>2 DEF Serial!OpenCandidate, Serial!OpenFails, Serial!StopReason
  <2> QED BY <1>1, <2>1, <2>3, SerialKept DEF Serial!Return, Outcomes, Serial!Outcomes
<1>5. ASSUME NEW place \in SerialPlaces, Serial!GoTo(place) PROVE FALSE
  BY <1>1, <1>5 DEF Serial!GoTo, Calls
<1>6. CASE Serial!ReceiveBegins \/ Serial!SendBegins
  <2>1. call.op \in {"send", "receive"} /\ owned' = owned /\ \E out \in {"ok", "exhausted"} : Serial!Return(out)
    BY <1>5, <1>6 DEF Serial!ReceiveBegins, Serial!SendBegins, SerialPlaces
  <2> QED BY <1>1, <2>1, SerialKept DEF Serial!Return, Outcomes, Serial!Outcomes
<1>7. CASE Serial!ReceiveWindows
  <2>0. call.op = "receive"
    BY <1>7 DEF Serial!ReceiveWindows, Serial!ReceiveCancelled, Serial!ReceiveBuffered, Serial!ReceiveExpired,
       Serial!StartRead, Serial!JoinRead, Serial!CollectRead, Serial!CollectFails
  <2>1. CASE Serial!CollectFails \/ (Serial!StartRead /\ Serial!TakeAndClose("io"))
    <3>1. Serial!Return("io") /\ owned' = 0
      BY <2>1 DEF Serial!CollectFails, Serial!TakeAndClose, Serial!CloseImpl, Serial!Closed
    <3> QED BY <1>1, <2>0, <3>1, SerialShut DEF Serial!Return
  <2>2. CASE Serial!ReceiveCancelled \/ Serial!ReceiveBuffered \/ Serial!ReceiveExpired \/ (Serial!StartRead /\ Serial!Return("exhausted") /\ UNCHANGED owned)
    <3>1. owned' = owned /\ \E out \in {"cancelled", "ok", "timeout", "exhausted"} : Serial!Return(out)
      BY <2>2 DEF Serial!ReceiveCancelled, Serial!ReceiveBuffered, Serial!ReceiveExpired, Serial!Take,
         Serial!TransferReturns
    <3> QED BY <1>1, <2>0, <3>1, SerialKept DEF Serial!Return, Outcomes, Serial!Outcomes
  <2>3. ~(UNCHANGED call) /\ ~Serial!GoTo("collect") /\ ~Serial!GoTo("loop")
    BY <1>1, <1>5 DEF SerialPlaces
  <2>4. CASE Serial!StartRead
    <3>1. Serial!TakeAndClose("io") \/ (Serial!Return("exhausted") /\ UNCHANGED owned)
      BY <2>3, <2>4 DEF Serial!StartRead
    <3> QED BY <2>1, <2>2, <2>4, <3>1
  <2>5. ~Serial!JoinRead /\ ~Serial!CollectRead
    BY <2>3 DEF Serial!JoinRead, Serial!CollectRead
  <2> QED BY <1>7, <2>1, <2>2, <2>4, <2>5 DEF Serial!ReceiveWindows
<1>8. ASSUME call.op = "send", NEW n \in Nat, call.sent + n <= call.size,
             call' = Serial!Sent(Serial!Progress(n)), owned' = owned
      PROVE owned' \in Serial!OwnerAfter(call'.out)
  <2>1. call'.out = "ok"
    BY <1>1, <1>8, SerialSentIs
  <2> QED BY <1>1, <1>8, <2>1 DEF Serial!OwnerAfter
<1>9. ASSUME call.op = "send", NEW n \in Nat, call.sent + n <= call.size
      PROVE Serial!Progress(n).sent \in 0..MaxBytes
  BY <1>1, <1>9, SerialMovedIs, Bounds DEF Serial!Progress, Calls
<1>10. CASE Serial!SendWindows
  <2>0. call.op = "send"
    BY <1>10 DEF Serial!SendWindows, Serial!WriteWindows, Serial!WriteDone, Serial!WriteCancelled,
       Serial!WriteFails, Serial!WriteThrows
  <2>1. write.count \in Nat /\ call.sent + write.count <= call.size /\ call.sent \in Nat /\ call.size \in Nat
    BY <2>0, SerialSending
  <2>2. CASE Serial!WriteWindows
    <3>1. CASE \E out \in {"exhausted"} : Serial!Return(out) /\ UNCHANGED owned
      BY <1>1, <2>0, <3>1, SerialKept DEF Serial!Return, Outcomes, Serial!Outcomes
    <3>2. CASE Serial!Return("io") /\ Serial!CloseImpl
      BY <1>1, <2>0, <3>2, SerialShut DEF Serial!Return, Serial!CloseImpl, Serial!Closed
    <3>3. CASE (\E n \in 0..(call.size - call.sent) : call' = Serial!Sent(Serial!Progress(n)))
               /\ UNCHANGED owned
      BY <1>8, <2>0, <2>1, <3>3
    <3>4. ~Serial!GoTo("written")
      BY <1>5 DEF SerialPlaces
    <3> QED BY <2>2, <3>1, <3>2, <3>3, <3>4 DEF Serial!WriteWindows
  <2>3. CASE Serial!WriteDone \/ (Serial!WriteCancelled /\ call' = Serial!Sent(Serial!Progress(write.count)))
    BY <1>8, <2>0, <2>1, <2>3 DEF Serial!WriteDone, Serial!WriteCancelled
  <2>4. CASE Serial!WriteCancelled
             /\ call' = [Idle EXCEPT !.out = Serial!StopReason, !.sent = Serial!Progress(write.count).sent]
    <3>1. Serial!StopReason \in {"cancelled", "timeout"} /\ owned' = owned
      BY <2>4 DEF Serial!WriteCancelled, Serial!StopReason
    <3> QED BY <1>1, <1>9, <2>0, <2>1, <2>4, <3>1, SerialKept DEF Outcomes, Serial!Outcomes
  <2>5. CASE Serial!WriteFails
    BY <1>9, <2>0, <2>1, <2>5, SerialShut DEF Serial!WriteFails, Serial!CloseImpl, Serial!Closed
  <2>6. CASE Serial!WriteThrows
    BY <1>1, <2>0, <2>6, SerialKept DEF Serial!WriteThrows, Serial!Return, Outcomes, Serial!Outcomes
  <2> QED BY <1>10, <2>2, <2>3, <2>4, <2>5, <2>6 DEF Serial!SendWindows, Serial!WriteCancelled
<1>11. CASE Serial!Posix
  <2>0. call.op \in {"send", "receive"} /\ (call.op = "send" => call.sent \in Nat /\ call.size \in Nat)
    BY <1>1, <1>11, SerialSending DEF Serial!Posix, Serial!WaitStops, Serial!PosixFails, Serial!Again,
       Serial!ReadPosix, Serial!WritePosix, SerialInv, SerialStands, Serial!Operations
  <2>1. CASE Serial!WaitStops \/ Serial!ReadPosix
    <3>1. owned' = owned /\ \E out \in {"cancelled", "timeout", "ok"} : Serial!Return(out)
      BY <2>1 DEF Serial!WaitStops, Serial!ReadPosix, Serial!TransferReturns, Serial!StopReason
    <3> QED BY <1>1, <2>0, <3>1, SerialKept DEF Serial!Return, Outcomes, Serial!Outcomes
  <2>2. CASE Serial!PosixFails
    BY <1>1, <2>0, <2>2, SerialShut DEF Serial!PosixFails, Serial!Return, Serial!CloseImpl, Serial!Closed
  <2>3. CASE Serial!WritePosix
    <3>1. call.op = "send" /\ owned' = owned
          /\ \E n \in 1..(call.size - call.sent) : call' = Serial!Sent(Serial!Progress(n))
      BY <2>3 DEF Serial!WritePosix
    <3>2. \A n \in 1..(call.size - call.sent) : n \in Nat /\ call.sent + n <= call.size
      BY <2>0, <3>1
    <3> QED BY <1>8, <3>1, <3>2
  <2>4. ~Serial!Again
    BY <1>5 DEF Serial!Again, SerialPlaces
  <2> QED BY <1>11, <2>1, <2>2, <2>3, <2>4 DEF Serial!Posix
<1>12. ~(Serial!WaitBegins \/ Serial!WaitSlice(Serial!Ready))
  BY <1>5 DEF Serial!WaitBegins, Serial!WaitSlice, SerialPlaces
<1>13. ASSUME NEW op \in Serial!Operations, NEW size \in 0..MaxBytes, Serial!Call(op, size) PROVE FALSE
  BY <1>1, <1>13 DEF Serial!Call, Serial!Begin
<1>14. ~(Serial!Arrives \/ Serial!Cancel \/ Serial!Tick \/ Serial!Driver)
  BY <1>1 DEF Serial!Arrives, Serial!Cancel, Serial!Tick, Serial!Driver, Serial!DriverReads,
     Serial!ReadCompletes, Serial!DriverWrites, Serial!WriteCompletes, Serial!base
<1> HIDE DEF Returns, Serial!Returns, Quiet, Serial!Quiet
<1>15. CASE Serial!Step
  BY <1>2, <1>3, <1>4, <1>6, <1>7, <1>10, <1>11, <1>12, <1>15 DEF Serial!Step
<1> QED BY <1>13, <1>14, <1>15 DEF Serial!Next

-----------------------------------------------------------------------------
(***************************************************************************)
(* The delays of RetryPolicy.                                              *)
(***************************************************************************)
\* A set of numbers that holds 0, and with each number the next, holds them all.
LEMMA Induction ==
  ASSUME NEW S \in SUBSET Nat, 0 \in S, \A n \in Nat : n \in S => n + 1 \in S
  PROVE  Nat \subseteq S
<1> SUFFICES ASSUME Nat \ S # {} PROVE FALSE
  OBVIOUS
<1> DEFINE R == OpToRel(<, Nat)
<1>1. PICK x \in Nat \ S : \A y \in Nat \ S : ~(<<y, x>> \in R)
  BY NatLessThanWellFounded, WFMin, Zenon
<1>2. R = {ss \in Nat \X Nat : ss[1] < ss[2]}
  BY Zenon DEF OpToRel
<1>3. \A y \in Nat \ S : ~(y < x)
  BY <1>1, <1>2
<1>4. x - 1 \in Nat /\ x - 1 \in S
  BY <1>3
<1> QED BY <1>4

\* The powers of two, counted as subsets.
LEMMA PowerDoubles ==
  ASSUME NEW n \in Nat
  PROVE  2 ^ 0 = 1 /\ 2 ^ n \in Nat /\ 2 ^ (n + 1) = 2 * 2 ^ n
<1> DEFINE S == 1..n
           T == 1..(n + 1)
           Old == SUBSET S
           New == {t \cup {n + 1} : t \in Old}
<1>1. IsFiniteSet(S) /\ Cardinality(S) = n /\ IsFiniteSet(T) /\ Cardinality(T) = n + 1
  <2>1. n + 1 \in Int
    OBVIOUS
  <2> QED BY <2>1, FS_Interval
<1>2. IsFiniteSet(Old) /\ Cardinality(Old) = 2 ^ n /\ IsFiniteSet(SUBSET T)
      /\ Cardinality(SUBSET T) = 2 ^ (n + 1)
  BY <1>1, FS_SUBSET
<1>3. SUBSET T = Old \cup New /\ Old \cap New = {}
  <2>1. T = S \cup {n + 1} /\ n + 1 \notin S
    OBVIOUS
  <2> HIDE DEF S, T
  <2>2. ASSUME NEW t \in SUBSET T PROVE t \in Old \cup New
    <3>1. CASE n + 1 \in t
      <4>1. t \ {n + 1} \in Old /\ t = (t \ {n + 1}) \cup {n + 1}
        BY <2>1, <3>1
      <4> QED BY <4>1
    <3>2. CASE n + 1 \notin t
      BY <2>1, <3>2
    <3> QED BY <3>1, <3>2
  <2> QED BY <2>1, <2>2
<1>4. IsFiniteSet(New) /\ Cardinality(New) = Cardinality(Old)
  <2> DEFINE f == [t \in Old |-> t \cup {n + 1}]
  <2>1. n + 1 \notin S
    OBVIOUS
  <2> HIDE DEF S
  <2>2. f \in [Old -> New] /\ (\A u \in New : \E t \in Old : f[t] = u)
    OBVIOUS
  <2>3. \A t, u \in Old : f[t] = f[u] => t = u
    BY <2>1
  <2>4. f \in Bijection(Old, New)
    BY <2>2, <2>3 DEF Bijection, Injection, Surjection, IsInjective
  <2>5. ExistsBijection(Old, New)
    BY <2>4 DEF ExistsBijection
  <2> QED BY <1>2, <2>5, FS_Bijection
<1>5. 2 ^ (n + 1) = 2 * 2 ^ n /\ 2 ^ n \in Nat
  <2>1. Cardinality(Old) \in Nat /\ Cardinality({}) = 0
    BY <1>2, FS_CardinalityType, FS_EmptySet
  <2> HIDE DEF Old, New
  <2>2. Cardinality(SUBSET T) = Cardinality(Old) + Cardinality(New) - Cardinality(Old \cap New)
    BY <1>2, <1>3, <1>4, FS_Union
  <2>3. Cardinality(SUBSET T) = Cardinality(Old) + Cardinality(Old) - 0
    BY <1>3, <1>4, <2>1, <2>2
  <2> DEFINE c == Cardinality(Old)
  <2>4. c \in Nat /\ c = 2 ^ n /\ 2 ^ (n + 1) = c + c - 0
    BY <1>2, <2>1, <2>3
  <2> HIDE DEF c
  <2> QED BY <2>4
<1>6. 2 ^ 0 = 1
  <2>1. IsFiniteSet({}) /\ Cardinality({}) = 0
    BY FS_EmptySet
  <2>2. Cardinality(SUBSET {}) = 2 ^ 0
    BY <2>1, FS_SUBSET
  <2>3. SUBSET {} = {{}}
    OBVIOUS
  <2> QED BY <2>2, <2>3, FS_Singleton
<1> QED BY <1>5, <1>6

-----------------------------------------------------------------------------
LEMMA LeastOfTwo ==
  ASSUME NEW a \in Int, NEW b \in Int
  PROVE  Http!Min({a, b}) = IF b <= a THEN b ELSE a
<1> DEFINE least == IF b <= a THEN b ELSE a
<1>1. least \in {a, b} /\ \A y \in {a, b} : least <= y
  OBVIOUS
<1>2. \A x \in {a, b} : (\A y \in {a, b} : x <= y) => x = least
  OBVIOUS
<1>3. Http!Min({a, b}) \in {a, b} /\ \A y \in {a, b} : Http!Min({a, b}) <= y
  <2> HIDE DEF least
  <2> QED BY <1>1 DEF Http!Min
<1> QED BY <1>2, <1>3

\* Within the word nothing wraps.
LEMMA WrapIs == ASSUME WordMax \in Nat, NEW n \in 0..WordMax PROVE Http!Wrap(n) = n
<1>1. n + WordMax + 1 \in 0..(2 * (WordMax + 1) - 1)
  OBVIOUS
<1>2. (n + WordMax + 1) % (2 * (WordMax + 1)) = n + WordMax + 1
  <2> DEFINE m == 2 * (WordMax + 1)
             k == n + WordMax + 1
  <2>1. m \in Nat \ {0} /\ k \in Nat /\ k < m
    OBVIOUS
  <2> HIDE DEF m, k
  <2>2. k % m = k
    BY <2>1
  <2> QED BY <2>2 DEF m, k
<1> QED BY <1>2 DEF Http!Wrap

\* The delay after n attempts, from the one before.
Doubled(p, d) ==
  CASE d >= p.maximum_delay -> d
    [] d < p.maximum_delay /\ Http!AtLimit(d, p.maximum_delay) -> p.maximum_delay
    [] OTHER -> Http!Wrap(2 * d)

\* What it comes to.
Capped(p, n) == IF p.initial_delay * 2 ^ (n - 1) >= p.maximum_delay THEN p.maximum_delay ELSE p.initial_delay * 2 ^ (n - 1)

LEMMA CappedDoubles ==
  ASSUME WordMax \in Nat, NEW p, p.initial_delay \in 0..WordMax \ {0}, p.maximum_delay \in 0..WordMax,
         p.maximum_delay >= p.initial_delay,
         NEW n \in Nat \ {0}
  PROVE  /\ Capped(p, 1) = p.initial_delay
         /\ Capped(p, n) \in 0..p.maximum_delay
         /\ Capped(p, n + 1) = Doubled(p, Capped(p, n))
<1> DEFINE i == p.initial_delay
           m == p.maximum_delay
           P == 2 ^ (n - 1)
           v == i * P
<1>1. P \in Nat /\ 2 ^ n = 2 * P /\ 2 ^ 0 = 1
  <2>1. n - 1 \in Nat /\ (n - 1) + 1 = n
    OBVIOUS
  <2> QED BY <2>1, PowerDoubles
<1>2. i \in Nat \ {0} /\ m \in Nat /\ m <= WordMax /\ m >= i /\ v \in Nat
  BY <1>1
<1>3. Capped(p, n) = IF v >= m THEN m ELSE v
  BY DEF Capped
<1>4. Capped(p, n + 1) = IF 2 * v >= m THEN m ELSE 2 * v
  <2>1. (n + 1) - 1 = n /\ i * 2 ^ n = 2 * v
    BY <1>1, <1>2
  <2> QED BY <2>1 DEF Capped
<1>5. Capped(p, 1) = i
  <2>1. 1 - 1 = 0 /\ i * 1 = i
    BY <1>2
  <2> QED BY <1>1, <1>2, <2>1 DEF Capped
<1> HIDE DEF v
<1>6. Capped(p, n + 1) = Doubled(p, Capped(p, n))
  <2> DEFINE d == Capped(p, n)
  <2>1. d \in Nat /\ d <= m /\ d = IF v >= m THEN m ELSE v
    BY <1>2, <1>3
  <2> HIDE DEF d
  <2>2. Capped(p, n + 1) = Doubled(p, d)
    <3>1. CASE d >= m
      BY <1>2, <1>4, <2>1, <3>1 DEF Doubled
    <3>2. CASE d < m /\ d > m \div 2
      <4>1. 2 * v >= m
        BY <1>2, <2>1, <3>2
      <4> QED BY <1>2, <1>4, <2>1, <3>2, <4>1 DEF Doubled, Http!AtLimit
    <3>3. CASE d < m /\ ~(d > m \div 2)
      <4>1. 2 * d <= m /\ 2 * d \in 0..WordMax /\ d = v
        BY <1>2, <2>1, <3>3
      <4>2. Http!Wrap(2 * d) = 2 * d
        BY <4>1, WrapIs
      <4>3. Doubled(p, d) = 2 * d
        BY <1>2, <2>1, <3>3, <4>2 DEF Doubled, Http!AtLimit
      <4> QED BY <1>2, <1>4, <4>1, <4>3
    <3> QED BY <1>2, <2>1, <3>1, <3>2, <3>3
  <2> QED BY <2>2 DEF d
<1>7. Capped(p, n) \in 0..m
  BY <1>2, <1>3
<1> QED BY <1>5, <1>6, <1>7

\* The doubling computes the documented delay, whatever the policy and the attempt.
THEOREM DelayDocumented ==
  ASSUME WordMax \in Nat, NEW p \in Http!Policies(Nat, 0..WordMax), Http!IsValid(p), NEW attempts \in Nat \ {0}
  PROVE  Http!CalculateDelay(p, attempts) = Http!DocumentedDelay(p, attempts)
         /\ Http!CalculateDelay(p, attempts) \in 0..p.maximum_delay
<1> DEFINE i == p.initial_delay
           m == p.maximum_delay
<1>1. i \in 0..WordMax /\ m \in 0..WordMax /\ m >= i /\ p.strategy \in Http!Strategies
  BY DEF Http!Policies, Http!IsValid
<1>2. CASE p.strategy = "fixed"
  BY <1>1, <1>2 DEF Http!CalculateDelay, Http!DocumentedDelay
<1>3. CASE p.strategy # "fixed" /\ i = 0
  <2>1. i * 2 ^ (attempts - 1) = 0
    <3>1. attempts - 1 \in Nat
      OBVIOUS
    <3>2. 2 ^ (attempts - 1) \in Nat
      BY <3>1, PowerDoubles
    <3> QED BY <1>3, <3>2
  <2>2. Http!DocumentedDelay(p, attempts) = 0
    BY <1>1, <1>3, <2>1, LeastOfTwo DEF Http!DocumentedDelay
  <2>3. Http!CalculateDelay(p, attempts) = i
    BY <1>3 DEF Http!CalculateDelay
  <2> QED BY <1>1, <1>3, <2>2, <2>3
<1>4. CASE p.strategy # "fixed" /\ i # 0
  <2> DEFINE body(f) == [n \in 1..attempts |-> IF n = 1 THEN p.initial_delay ELSE Doubled(p, f[n - 1])]
             delay == CHOOSE f : f = body(f)
             capped == [n \in 1..attempts |-> Capped(p, n)]
  <2>0. i \in 0..WordMax \ {0}
    BY <1>1, <1>4
  <2>1. \A n \in Nat \ {0} : Capped(p, 1) = i /\ Capped(p, n) \in 0..m
        /\ Capped(p, n + 1) = Doubled(p, Capped(p, n))
    BY <1>1, <2>0, CappedDoubles
  <2>2. capped = body(capped)
    <3> SUFFICES ASSUME NEW n \in 1..attempts PROVE Capped(p, n) = IF n = 1 THEN i ELSE Doubled(p, capped[n - 1])
      OBVIOUS
    <3>1. n # 1 => n - 1 \in 1..attempts /\ n - 1 \in Nat \ {0} /\ (n - 1) + 1 = n
      OBVIOUS
    <3> QED BY <2>1, <3>1
  <2>3. delay = body(delay)
    BY <2>2
  <2>4. Http!CalculateDelay(p, attempts) = delay[attempts]
    BY <1>4 DEF Http!CalculateDelay, Doubled
  <2> HIDE DEF delay
  <2>8. \A n \in 1..attempts : delay[n] = IF n = 1 THEN i ELSE Doubled(p, delay[n - 1])
    <3> DEFINE f == body(delay)
    <3>1. \A n \in 1..attempts : f[n] = IF n = 1 THEN i ELSE Doubled(p, delay[n - 1])
      OBVIOUS
    <3> HIDE DEF f
    <3> QED BY <2>3, <3>1 DEF f
  <2> HIDE DEF body, capped
  <2>5. \A n \in 1..attempts : delay[n] = Capped(p, n)
    <3> DEFINE S == {n \in Nat : n + 1 \in 1..attempts => delay[n + 1] = Capped(p, n + 1)}
    <3>1. 0 \in S
      <4>1. 1 \in 1..attempts /\ 0 + 1 = 1
        OBVIOUS
      <4>2. delay[1] = i /\ Capped(p, 1) = i
        BY <2>1, <2>8, <4>1
      <4> QED BY <4>1, <4>2
    <3>2. ASSUME NEW n \in Nat, n \in S PROVE n + 1 \in S
      <4> SUFFICES ASSUME n + 2 \in 1..attempts PROVE delay[n + 2] = Capped(p, n + 2)
        OBVIOUS
      <4>1. n + 1 \in 1..attempts /\ delay[n + 1] = Capped(p, n + 1)
        BY <3>2
      <4>2. delay[n + 2] = Doubled(p, delay[n + 1])
        <5>1. n + 2 # 1 /\ (n + 2) - 1 = n + 1
          OBVIOUS
        <5> QED BY <2>8, <5>1
      <4>3. Capped(p, n + 2) = Doubled(p, Capped(p, n + 1))
        BY <2>1
      <4> QED BY <4>1, <4>2, <4>3
    <3>3. S \in SUBSET Nat
      OBVIOUS
    <3> HIDE DEF S
    <3>4. Nat \subseteq S
      BY <3>1, <3>2, <3>3, Induction
    <3>5. \A n \in 1..attempts : n - 1 \in Nat /\ (n - 1) + 1 = n
      OBVIOUS
    <3> QED BY <3>4, <3>5 DEF S
  <2>6. Http!CalculateDelay(p, attempts) = Capped(p, attempts)
    BY <2>4, <2>5
  <2>7. Http!DocumentedDelay(p, attempts) = Capped(p, attempts)
    <3>1. attempts - 1 \in Nat
      OBVIOUS
    <3>2. 2 ^ (attempts - 1) \in Nat
      BY <3>1, PowerDoubles
    <3>3. i * 2 ^ (attempts - 1) \in Int /\ m \in Int
      BY <1>1, <3>2
    <3>4. Http!Min({m, i * 2 ^ (attempts - 1)}) = IF i * 2 ^ (attempts - 1) <= m THEN i * 2 ^ (attempts - 1) ELSE m
      BY <3>3, LeastOfTwo
    <3> QED BY <1>4, <3>3, <3>4 DEF Http!DocumentedDelay, Capped
  <2> QED BY <2>1, <2>6, <2>7
<1> QED BY <1>2, <1>3, <1>4

-----------------------------------------------------------------------------
(***************************************************************************)
(* HttpClient.                                                             *)
(***************************************************************************)
Words == -(WordMax + 1)..WordMax
ValidPolicies == {p \in Http!Policies(1..MaxAttempts, Delays) : Http!IsValid(p)}

\* No delay takes the clock to the end of its word.
DelaysFit == \A d \in Delays : MaxNow + d * PerMillisecond < WordMax

HttpTyped ==
  /\ options \in [policy : ValidPolicies, idempotent : BOOLEAN, transient : BOOLEAN] /\ timeout \in Timeouts
  /\ now \in 0..MaxNow /\ deadline \in Words /\ since \in 0..MaxNow /\ resume \in Words
  /\ cancelled \in BOOLEAN
  /\ pc \in {"begin", "attempt", "transfer", "decide", "wait", "done"}
  /\ outcome \in Http!Outcomes
  /\ attempt \in 0..options.policy.maximum_attempts

Repeating == pc = "wait" \/ (pc = "attempt" /\ attempt > 0)

\* There is an attempt left, and the one before allowed it.
HttpRepeats ==
  /\ pc = "begin" => attempt = 0
  /\ pc = "attempt" => attempt < options.policy.maximum_attempts
  /\ pc \in {"transfer", "decide"} => attempt > 0
  /\ Repeating =>
       /\ attempt > 0 /\ attempt < options.policy.maximum_attempts
       /\ options.idempotent /\ options.transient
       /\ outcome \in {"status", "io", "timeout"}
       /\ DelaysFit => resume - since = PerMillisecond * Http!DocumentedDelay(options.policy, attempt)
  /\ pc = "attempt" /\ attempt > 0 => now >= resume

\* The transfer that was begun after the cancellation is the last.
HttpHeeded ==
  /\ late \in {0, 1} /\ late <= attempt
  /\ late = 1 => cancelled /\ (pc \in {"transfer", "done"} \/ (pc = "decide" /\ outcome = "cancelled"))

HttpInv == HttpTyped /\ HttpRepeats /\ HttpHeeded

\* A word holds what the conversion to ticks makes of any number.
LEMMA WordsHold ==
  ASSUME NEW ms \in Int, now \in 0..MaxNow
  PROVE  Http!After(ms) \in Words
<1> DEFINE n == ms * PerMillisecond
           m == 2 * (WordMax + 1)
<1>1. WordMax \in Nat /\ PerMillisecond \in Nat /\ MaxNow \in Nat
  BY HttpAssumption
<1>2. n \in Int /\ m \in Nat \ {0} /\ n + WordMax + 1 \in Int
  BY <1>1
<1> HIDE DEF n
<1>3. (n + WordMax + 1) % m \in 0..(m - 1)
  <2> DEFINE k == n + WordMax + 1
  <2>1. k \in Int
    BY <1>2
  <2> HIDE DEF m, k
  <2>2. k % m \in 0..(m - 1)
    BY <1>2, <2>1
  <2> QED BY <2>2 DEF k
<1>4. Http!ToTicks(ms) = ((n + WordMax + 1) % m) - (WordMax + 1)
  BY DEF Http!ToTicks, Http!Wrap, n
<1> DEFINE q == (n + WordMax + 1) % m
<1>5. q \in 0..(2 * (WordMax + 1) - 1)
  BY <1>3
<1> HIDE DEF q
<1>6. Http!ToTicks(ms) \in Words
  BY <1>1, <1>4, <1>5 DEF Words, q
<1> QED BY <1>1, <1>6 DEF Http!After, Words

\* A delay of a policy is one after which the clock still counts.
LEMMA DelayIsExact ==
  ASSUME DelaysFit, NEW d \in Nat, NEW p \in Delays, d <= p, now \in 0..MaxNow
  PROVE  Http!After(d) = now + PerMillisecond * d
<1> DEFINE n == d * PerMillisecond
<1>1. WordMax \in Nat /\ PerMillisecond \in Nat \ {0} /\ MaxNow \in Nat /\ p \in Nat
  BY HttpAssumption
<1>2. MaxNow + p * PerMillisecond < WordMax
  BY DEF DelaysFit
<1>3. n \in Nat /\ n <= p * PerMillisecond /\ p * PerMillisecond \in Nat /\ n = PerMillisecond * d
  BY <1>1
<1> HIDE DEF n
<1>4. n \in 0..WordMax /\ n < WordMax - now
  BY <1>1, <1>2, <1>3
<1>5. Http!ToTicks(d) = n
  BY <1>1, <1>4, WrapIs DEF Http!ToTicks, n
<1> QED BY <1>1, <1>3, <1>4, <1>5 DEF Http!After

LEMMA HttpInitHolds == Http!Init => HttpInv
<1> SUFFICES ASSUME Http!Init PROVE HttpInv
  OBVIOUS
<1>1. WordMax \in Nat /\ MaxNow \in Nat
  BY HttpAssumption
<1>2. options.policy.maximum_attempts \in Nat \ {0}
  BY DEF Http!Init, Http!Policies
<1>3. 0 \in Words /\ 0 \in 0..MaxNow /\ 0 \in 0..options.policy.maximum_attempts
  BY <1>1, <1>2 DEF Words
<1>4. ~cancelled /\ cancelled \in BOOLEAN
  BY DEF Http!Init
<1>5. HttpTyped
  BY <1>3, <1>4 DEF Http!Init, HttpTyped, ValidPolicies, Http!Outcomes
<1> QED BY <1>2, <1>5 DEF Http!Init, HttpInv, HttpRepeats, Repeating, HttpHeeded

\* What a policy of the caller is.
LEMMA PolicyIs ==
  ASSUME HttpTyped
  PROVE  /\ options.policy \in Http!Policies(Nat, 0..WordMax) /\ Http!IsValid(options.policy)
         /\ options.policy.maximum_attempts \in Nat /\ options.policy.maximum_delay \in Delays
         /\ attempt \in Nat /\ options.idempotent \in BOOLEAN /\ options.transient \in BOOLEAN
<1>1. options.policy \in ValidPolicies
  BY DEF HttpTyped
<1>2. Delays \subseteq 0..WordMax
  BY HttpAssumption
<1>3. options.policy \in Http!Policies(1..MaxAttempts, Delays) /\ Http!IsValid(options.policy)
  BY <1>1 DEF ValidPolicies
<1>4. /\ options.policy \in Http!Policies(Nat, 0..WordMax)
      /\ options.policy.maximum_attempts \in Nat /\ options.policy.maximum_delay \in Delays
  <2> DEFINE p == options.policy
  <2>1. 1..MaxAttempts \subseteq Nat
    BY HttpAssumption
  <2>2. p \in Http!Policies(1..MaxAttempts, Delays)
    BY <1>3
  <2> HIDE DEF p
  <2>3. p \in Http!Policies(Nat, 0..WordMax) /\ p.maximum_attempts \in Nat /\ p.maximum_delay \in Delays
    BY <1>2, <2>1, <2>2 DEF Http!Policies
  <2> QED BY <2>3 DEF p
<1> QED BY <1>3, <1>4 DEF HttpTyped

LEMMA HttpStepKeeps == HttpInv /\ [Http!Next]_(Http!vars) => HttpInv'
<1> SUFFICES ASSUME HttpInv, [Http!Next]_(Http!vars) PROVE HttpInv'
  OBVIOUS
<1> USE DEF HttpInv
<1>a. WordMax \in Nat /\ MaxNow \in Nat /\ PerMillisecond \in Nat
  BY HttpAssumption
<1>b. /\ options.policy \in Http!Policies(Nat, 0..WordMax) /\ Http!IsValid(options.policy)
      /\ options.policy.maximum_attempts \in Nat /\ options.policy.maximum_delay \in Delays
      /\ attempt \in Nat /\ options.idempotent \in BOOLEAN /\ options.transient \in BOOLEAN
  BY PolicyIs
<1>1. CASE Http!Execute
  <2>1. timeout \in Int
    BY <1>a, HttpAssumption DEF HttpTyped
  <2>2. Http!After(timeout) \in Words
    BY <2>1, WordsHold DEF HttpTyped
  <2>3. HttpTyped'
    BY <1>1, <2>2 DEF Http!Execute, Http!caller, HttpTyped, Http!Outcomes
  <2>4. HttpRepeats'
    BY <1>1, <1>b DEF Http!Execute, Http!caller, HttpRepeats, Repeating, Http!Policies, Http!IsValid
  <2>5. HttpHeeded'
    BY <1>1, <1>b DEF Http!Execute, Http!caller, HttpHeeded, HttpRepeats
  <2> QED BY <2>3, <2>4, <2>5
<1>2. CASE Http!AttemptBegins
  <2>1. attempt + 1 \in 0..options.policy.maximum_attempts /\ attempt < options.policy.maximum_attempts
    BY <1>2, <1>b DEF Http!AttemptBegins, HttpRepeats
  <2>2. HttpTyped'
    BY <1>2, <2>1 DEF Http!AttemptBegins, Http!caller, HttpTyped, Http!Outcomes
  <2>3. HttpRepeats'
    BY <1>2, <1>b DEF Http!AttemptBegins, Http!caller, HttpRepeats, Repeating
  <2>4. HttpHeeded'
    BY <1>2, <1>b DEF Http!AttemptBegins, Http!caller, HttpHeeded, HttpTyped
  <2> QED BY <2>2, <2>3, <2>4
<1>3. ASSUME NEW o \in Http!Outcomes, pc = "transfer", Http!AttemptEnds(o) PROVE HttpInv'
  <2>1. HttpTyped'
    BY <1>3 DEF Http!AttemptEnds, Http!Outcome, Http!caller, HttpTyped, Http!Outcomes
  <2>2. HttpRepeats'
    BY <1>3 DEF Http!AttemptEnds, Http!caller, HttpRepeats, Repeating
  <2>3. HttpHeeded'
    BY <1>3 DEF Http!AttemptEnds, Http!Outcome, Http!caller, HttpHeeded
  <2> QED BY <2>1, <2>2, <2>3
<1>4. CASE Http!TransferEnds
  BY <1>3, <1>4 DEF Http!TransferEnds
<1>5. CASE Http!TransferAborted
  <2>1. "timeout" \in Http!Outcomes
    BY DEF Http!Outcomes
  <2> QED BY <1>3, <1>5, <2>1 DEF Http!TransferAborted
<1>6. CASE Http!Decide
  <2> DEFINE retryable == options.transient /\ Http!IsTransientFailure(outcome)
             reason == Http!StopReason(options.policy, attempt, options.idempotent, retryable, outcome)
             delay == Http!CalculateDelay(options.policy, attempt)
  <2>1. attempt \in Nat \ {0}
    BY <1>6, <1>b DEF Http!Decide, HttpRepeats
  <2>2. delay = Http!DocumentedDelay(options.policy, attempt) /\ delay \in 0..options.policy.maximum_delay
    BY <1>a, <1>b, <2>1, DelayDocumented
  <2>3. options.policy.maximum_delay \in Nat
    BY <1>a, <1>b, HttpAssumption
  <2>4. delay \in Nat /\ delay <= options.policy.maximum_delay
    BY <2>2, <2>3
  <2> HIDE DEF delay
  <2>5. Http!After(delay) \in Words
    BY <2>4, WordsHold DEF HttpTyped
  <2>6. DelaysFit => Http!After(delay) - now = PerMillisecond * delay
    <3> SUFFICES ASSUME DelaysFit PROVE Http!After(delay) - now = PerMillisecond * delay
      OBVIOUS
    <3>1. Http!After(delay) = now + PerMillisecond * delay
      BY <1>b, <2>4, DelayIsExact DEF HttpTyped
    <3>2. PerMillisecond * delay \in Int /\ now \in Int
      BY <1>a, <2>4 DEF HttpTyped
    <3> QED BY <3>1, <3>2
  <2>7. CASE pc' = "done" /\ UNCHANGED <<since, resume>>
    BY <1>6, <2>7 DEF Http!Decide, Http!caller, HttpTyped, HttpRepeats, Repeating, HttpHeeded
  <2>8. CASE /\ reason = "none"
             /\ pc' = "wait" /\ since' = now /\ resume' = Http!After(delay)
    <3>1. /\ options.idempotent /\ retryable
          /\ outcome # "cancelled" /\ ~Http!LimitReached(options.policy, attempt)
      BY <2>8 DEF Http!StopReason
    <3>2. /\ options.idempotent /\ options.transient /\ outcome \in {"status", "io", "timeout"}
          /\ attempt < options.policy.maximum_attempts
      BY <1>b, <3>1 DEF Http!LimitReached, Http!IsTransientFailure
    <3> HIDE DEF reason, retryable
    <3>3. HttpTyped'
      BY <1>6, <2>5, <2>8 DEF Http!Decide, Http!caller, HttpTyped
    <3>4. HttpRepeats'
      <4>1. DelaysFit => resume' - since' = PerMillisecond * Http!DocumentedDelay(options'.policy, attempt')
        BY <1>6, <2>2, <2>6, <2>8 DEF Http!Decide, Http!caller, delay
      <4>2. options' = options /\ attempt' = attempt /\ outcome' = outcome
        BY <1>6 DEF Http!Decide, Http!caller
      <4> QED BY <1>b, <2>1, <2>8, <3>2, <4>1, <4>2 DEF HttpRepeats, Repeating
    <3>5. HttpHeeded'
      BY <1>6, <2>8, <3>1 DEF Http!Decide, HttpHeeded
    <3> QED BY <3>3, <3>4, <3>5
  <2> QED BY <1>6, <2>7, <2>8 DEF Http!Decide, delay
<1>7. CASE Http!BackoffEnds
  <2>1. HttpTyped'
    BY <1>7 DEF Http!BackoffEnds, Http!caller, HttpTyped
  <2>2. HttpRepeats'
    BY <1>7 DEF Http!BackoffEnds, Http!caller, HttpRepeats, Repeating
  <2>3. HttpHeeded'
    BY <1>7 DEF Http!BackoffEnds, Http!caller, HttpHeeded
  <2> QED BY <2>1, <2>2, <2>3
<1>8. CASE Http!BackoffFails
  BY <1>8 DEF Http!BackoffFails, Http!caller, HttpTyped, Http!Outcomes, HttpRepeats, Repeating, HttpHeeded
<1>9. CASE Http!Cancel
  BY <1>9 DEF Http!Cancel, Http!caller, HttpTyped, HttpRepeats, Repeating, HttpHeeded
<1>10. CASE Http!Tick
  <2>1. now \in 0..MaxNow /\ now' = now + 1 /\ now < MaxNow /\ resume \in Int
    BY <1>10, <1>a DEF Http!Tick, HttpTyped, Words
  <2>2. HttpTyped'
    BY <1>10, <1>a, <2>1 DEF Http!Tick, Http!caller, HttpTyped
  <2>3. HttpRepeats'
    BY <1>10, <1>a, <2>1 DEF Http!Tick, Http!caller, HttpRepeats, Repeating
  <2>4. HttpHeeded'
    BY <1>10 DEF Http!Tick, HttpHeeded
  <2> QED BY <2>2, <2>3, <2>4
<1>11. CASE UNCHANGED Http!vars
  BY <1>11 DEF Http!vars, HttpTyped, HttpRepeats, Repeating, HttpHeeded
<1>12. CASE Http!Finished
  BY <1>11, <1>12 DEF Http!Finished
<1> QED BY <1>1, <1>2, <1>4, <1>5, <1>6, <1>7, <1>8, <1>9, <1>10, <1>11, <1>12 DEF Http!Next, Http!Step

LEMMA HttpSound == HttpInv => Http!TypeOK /\ late <= 1
<1> SUFFICES ASSUME HttpInv PROVE Http!TypeOK /\ late <= 1
  OBVIOUS
<1>1. attempt \in Nat
  BY PolicyIs DEF HttpInv
<1> QED BY <1>1 DEF HttpInv, HttpTyped, HttpHeeded, Http!TypeOK, Words

\* What a step that repeats a request finds.
HttpRepeated ==
  attempt' > attempt /\ attempt > 0 =>
    /\ options.idempotent /\ options.transient
    /\ outcome \in {"status", "io", "timeout"}
    /\ attempt < options.policy.maximum_attempts
    /\ now >= resume
    /\ resume - since = PerMillisecond * Http!DocumentedDelay(options.policy, attempt)

LEMMA HttpStepRepeats == DelaysFit /\ HttpInv /\ [Http!Next]_(Http!vars) => HttpRepeated
<1> SUFFICES ASSUME DelaysFit, HttpInv, [Http!Next]_(Http!vars), attempt' > attempt,
             attempt > 0 PROVE HttpRepeated
  BY DEF HttpRepeated
<1>1. attempt \in Nat
  BY PolicyIs DEF HttpInv
<1>2. Http!AttemptBegins
  BY <1>1 DEF Http!Next, Http!Step, Http!Execute, Http!TransferEnds, Http!TransferAborted, Http!AttemptEnds,
     Http!Decide, Http!BackoffEnds, Http!BackoffFails,
     Http!Cancel, Http!Tick, Http!Finished, Http!vars
<1> QED BY <1>2 DEF Http!AttemptBegins, HttpInv, HttpRepeats, Repeating, HttpRepeated

-----------------------------------------------------------------------------
(***************************************************************************)
(* The one transport of a behaviour.                                       *)
(***************************************************************************)
DevicesInv ==
  /\ transport \in {"tcp", "udp", "serial", "http"}
  /\ transport = "tcp" => TcpInv
  /\ transport = "udp" => UdpInv
  /\ transport = "serial" => SerialInv
  /\ transport = "http" => HttpInv /\ owned = 0 /\ handles = {} /\ call = Idle /\ wire = <<>>
  /\ transport # "http" => attempt = 0

LEMMA DevicesInitHolds == DevicesInit => DevicesInv
<1> SUFFICES ASSUME DevicesInit PROVE DevicesInv
  OBVIOUS
<1>1. TransportsInit
  BY DEF DevicesInit
<1>2. TcpInv /\ SerialInv
  BY <1>1, TcpInitHolds, SerialInitHolds DEF TransportsInit
<1>3. UdpInv
  <2>1. Udp!Init
    BY <1>1, TcpSame, UdpSame DEF TransportsInit, Tcp!TcpInit, Tcp!Init, Udp!Init
  <2> QED BY <2>1, UdpInitHolds
<1>4. transport = "http" => HttpInv
  BY <1>1, HttpInitHolds DEF TransportsInit
<1>5. owned = 0 /\ handles = {} /\ call = Idle /\ wire = <<>>
  BY <1>1, TcpSame DEF TransportsInit, Tcp!TcpInit, Tcp!Init
<1>6. transport \in {"tcp", "udp", "serial", "http"} /\ (transport # "http" => attempt = 0)
  BY <1>1 DEF TransportsInit
<1> QED BY <1>2, <1>3, <1>4, <1>5, <1>6 DEF DevicesInv

\* What happens to the transport in a step.
LEMMA TransportsMove ==
  ASSUME [DevicesNext]_all
  PROVE  \/ UNCHANGED vars
         \/ OfTcp(Tcp!Next) \/ OfUdp(Udp!Next) \/ OfSerial(Serial!Next) \/ OfHttp(Http!Next)
  BY DEF DevicesNext, OfCamera, OfTransport, all, Next

LEMMA TcpStays == ASSUME TcpInv, UNCHANGED <<base, tcp>> PROVE TcpInv'
  BY DEF base, tcp, TcpInv, Ranges, Open, Heeded, TcpTyped, TcpPlaced, TcpOwner, TcpExact

LEMMA UdpStays == ASSUME UdpInv, UNCHANGED base PROVE UdpInv'
  BY DEF base, UdpInv, Ranges, Open, Heeded, UdpTyped, UdpPlaced, UdpOwner, UdpExact

LEMMA SerialStays == ASSUME SerialInv, UNCHANGED <<base, serial>> PROVE SerialInv'
  BY DEF base, serial, SerialInv, Ranges, Open, Heeded, SerialTyped, SerialStands, SerialOwner, SerialDriver,
     SerialBytes, SerialWire, Serial!Collected

LEMMA DevicesStepKeeps == DevicesInv /\ [DevicesNext]_all => DevicesInv'
<1> SUFFICES ASSUME DevicesInv, [DevicesNext]_all PROVE DevicesInv'
  OBVIOUS
<1>1. CASE UNCHANGED vars
  <2>1. UNCHANGED <<transport, base, tcp, serial, http>> /\ UNCHANGED <<call, owned, handles, wire, attempt>>
    BY <1>1 DEF vars, base, http
  <2>2. transport = "http" => HttpInv'
    <3>1. UNCHANGED Http!vars
      BY <2>1 DEF base, http, Http!vars
    <3> QED BY <3>1, HttpStepKeeps DEF DevicesInv
  <2> QED BY <2>1, <2>2, TcpStays, UdpStays, SerialStays DEF DevicesInv
<1>2. CASE OfTcp(Tcp!Next)
  <2>1. transport = "tcp" /\ Tcp!Next /\ UNCHANGED <<transport, attempt>>
    BY <1>2 DEF OfTcp, http
  <2> QED BY <2>1, TcpStepKeeps DEF DevicesInv
<1>3. CASE OfUdp(Udp!Next)
  <2>1. transport = "udp" /\ Udp!Next /\ UNCHANGED <<transport, attempt>>
    BY <1>3 DEF OfUdp, http
  <2> QED BY <2>1, UdpStepKeeps DEF DevicesInv
<1>4. CASE OfSerial(Serial!Next)
  <2>1. transport = "serial" /\ Serial!Next /\ UNCHANGED <<transport, attempt>>
    BY <1>4 DEF OfSerial, http
  <2> QED BY <2>1, SerialStepKeeps DEF DevicesInv
<1>5. CASE OfHttp(Http!Next)
  <2>1. transport = "http" /\ Http!Next /\ UNCHANGED <<transport, owned, handles, call, wire>>
    BY <1>5 DEF OfHttp, native
  <2> QED BY <2>1, HttpStepKeeps DEF DevicesInv
<1> QED BY <1>1, <1>2, <1>3, <1>4, <1>5, TransportsMove

LEMMA DevicesInvAlways == DevicesSpec => []DevicesInv
<1>1. DevicesInit => DevicesInv
  BY DevicesInitHolds
<1>2. DevicesInv /\ [DevicesNext]_all => DevicesInv'
  BY DevicesStepKeeps
<1> QED BY <1>1, <1>2, PTL DEF DevicesSpec

LEMMA DevicesSound == DevicesInv => NativeOwned /\ TransferExact /\ CancelHeeded
<1> SUFFICES ASSUME DevicesInv PROVE NativeOwned /\ TransferExact /\ CancelHeeded
  OBVIOUS
<1> USE DEF NativeOwned, TransferExact, CancelHeeded
<1>1. CASE transport = "tcp"
  BY <1>1, TcpSound DEF DevicesInv
<1>2. CASE transport = "udp"
  BY <1>2, UdpSound DEF DevicesInv
<1>3. CASE transport = "serial"
  BY <1>3, SerialSound DEF DevicesInv
<1>4. CASE transport = "http"
  <2>1. Http!TypeOK /\ late <= 1
    BY <1>4, HttpSound DEF DevicesInv
  <2>2. handles = {owned} \ {0} /\ wire = <<>> /\ call.sent = 0
    BY <1>4 DEF DevicesInv, Idle
  <2>3. ProgressExact
    <3>1. Len(wire) = 0
      BY <2>2
    <3> QED BY <2>2, <3>1, NumbersAre DEF ProgressExact
  <2> QED BY <1>4, <2>1, <2>2, <2>3
<1> QED BY <1>1, <1>2, <1>3, <1>4 DEF DevicesInv

\* Between calls a transport has no native handle open but its own, whatever failed
\* on the way, and the driver has no operation whose buffer is gone.
THEOREM NativeOwnedAlways == DevicesSpec => []NativeOwned
  BY DevicesInvAlways, DevicesSound, PTL

\* What arrived is returned in order and at most once, and a send reports what the
\* native side took, whatever ended the call.
THEOREM TransferExactAlways == DevicesSpec => []TransferExact
  BY DevicesInvAlways, DevicesSound, PTL

\* At most one native operation, or transfer, begins after a cancellation.
THEOREM CancelHeededAlways == DevicesSpec => []CancelHeeded
  BY DevicesInvAlways, DevicesSound, PTL

\* Each outcome of a call leaves the connection, socket or port that the
\* documentation's table says.
THEOREM OwnerKeptAlways == DevicesSpec => OwnerKept
<1> DEFINE Keeps == Returns => owned' \in CASE transport = "tcp"    -> Tcp!OwnerAfter(call'.out)
                                            [] transport = "udp"    -> Udp!OwnerAfter(call'.out)
                                            [] transport = "serial" -> Serial!OwnerAfter(call'.out)
                                            [] OTHER                -> {0}
<1>1. DevicesInv /\ [DevicesNext]_all => [Keeps]_vars
  <2> SUFFICES ASSUME DevicesInv, [DevicesNext]_all, ~(UNCHANGED vars), Returns PROVE Keeps
    OBVIOUS
  <2>1. CASE OfTcp(Tcp!Next)
    <3>1. transport = "tcp" /\ Tcp!Next /\ TcpInv
      BY <2>1 DEF OfTcp, DevicesInv
    <3> QED BY <3>1, TcpReturns
  <2>2. CASE OfUdp(Udp!Next)
    <3>1. transport = "udp" /\ Udp!Next /\ UdpInv
      BY <2>2 DEF OfUdp, DevicesInv
    <3> QED BY <3>1, UdpReturns
  <2>3. CASE OfSerial(Serial!Next)
    <3>1. transport = "serial" /\ Serial!Next /\ SerialInv
      BY <2>3 DEF OfSerial, DevicesInv
    <3> QED BY <3>1, SerialReturns
  <2>4. ~OfHttp(Http!Next)
    BY DEF OfHttp, native, DevicesInv, Returns, Quiet, Idle
  <2> QED BY <2>1, <2>2, <2>3, <2>4, TransportsMove
<1> QED BY <1>1, DevicesInvAlways, PTL DEF DevicesSpec, OwnerKept

\* With a clock that reaches beyond every delay, a request is repeated only with both
\* consents, within the limit, and after the documented delay to the tick.
THEOREM RetryAuthorizedAlways == ASSUME DelaysFit PROVE DevicesSpec => RetryAuthorized
<1>1. DevicesInv /\ [DevicesNext]_all => [HttpRepeated]_(Http!vars)
  <2> SUFFICES ASSUME DevicesInv, [DevicesNext]_all PROVE HttpRepeated \/ UNCHANGED Http!vars
    OBVIOUS
  <2>1. CASE OfHttp(Http!Next)
    BY <2>1, HttpStepRepeats DEF OfHttp, DevicesInv
  <2>2. CASE OfTcp(Tcp!Next) \/ OfUdp(Udp!Next) \/ OfSerial(Serial!Next)
    <3>1. attempt = 0 /\ attempt' = 0
      BY <2>2 DEF OfTcp, OfUdp, OfSerial, http, DevicesInv
    <3> QED BY <3>1 DEF HttpRepeated
  <2>3. CASE UNCHANGED vars
    BY <2>3 DEF vars, base, http, Http!vars
  <2> QED BY <2>1, <2>2, <2>3, TransportsMove
<1> QED BY <1>1, DevicesInvAlways, PTL DEF DevicesSpec, RetryAuthorized, Http!RetryAuthorized, HttpRepeated

-----------------------------------------------------------------------------
(***************************************************************************)
(* The camera adapters.                                                    *)
(***************************************************************************)
LEMMA CameraBounds ==
  /\ MaxBuffers \in Nat \ {0, 1} /\ MaxCapture \in Nat
  /\ IntMax \in Nat \ {0} /\ Buffers \in Nat \ {0}
  BY CameraAssumption

-----------------------------------------------------------------------------
(***************************************************************************)
(* The V4L2 adapter: which buffers are mapped, and which of them the       *)
(* driver has.                                                             *)
(***************************************************************************)
V4L2Closing == {"close", "native", "unmap"}
V4L2Reading == {"deadline", "poll", "dequeue", "leased", "release", "unwind"}
V4L2Leased == {"leased", "release", "unwind"}

\* Where each operation can stand, and the state it found.
V4L2Places ==
  /\ camera_call.op = "none" <=> camera_call.pc = "none"
  /\ camera_call.pc \in {"configure", "map"} =>
       camera_call.op = "open" /\ camera_call.before = "closed" /\ camera_call.out = "ok"
  /\ camera_call.pc = "queue" =>
       camera_call.op = "start" /\ camera_call.before = "open" /\ camera_call.out = "ok"
  /\ camera_call.pc \in V4L2Reading => camera_call.op = "read" /\ camera_call.before = "streaming"
  /\ camera_call.pc = "begin" =>
       camera_call.op # "close" /\ camera_call.before = Cameras!V4L2!State /\ camera_call.out = "ok"
  /\ camera_call.pc \in {"begin", "configure"} => camera_call.i = 0
  /\ camera_call.op = "close" => camera_call.pc \in V4L2Closing
  /\ camera_call.pc \in V4L2Closing /\ camera_call.op # "close" => camera_call.out # "ok"
  /\ camera_call.pc = "unwind" /\ lease.active => camera_call.out # "ok"

\* What is open, and what a stream or a start has asked of the driver.
V4L2Owner ==
  /\ ~fd => ~streaming /\ ~dirty /\ camera_call.pc \notin V4L2Reading \cup {"configure", "map", "queue"}
  /\ camera_call.pc = "unmap" => ~fd
  /\ ~dirty => driver = Cameras!V4L2!Stopped /\ ~streaming
  /\ dirty /\ ~streaming => camera_call.pc \in {"queue", "close", "native"}
  /\ camera_call.pc \in V4L2Reading => streaming
  /\ camera_call.pc = "queue" => dirty /\ ~streaming
  /\ camera_call.pc \in {"configure", "map"} => ~dirty

\* Which buffers are mapped.
V4L2Mapped ==
  /\ ~fd /\ camera_call.pc # "unmap" => mapped = {} /\ count = 0
  /\ camera_call.pc = "configure" => mapped = {} /\ count = 0
  /\ camera_call.pc = "map" => count >= 2 /\ camera_call.i \in 0..count /\ mapped = 0..(camera_call.i - 1)
  /\ fd /\ camera_call.pc \notin V4L2Closing \cup {"configure", "map"} =>
       count >= 2 /\ mapped = Cameras!V4L2!Opened
  /\ driver.queued \subseteq mapped

\* Which buffers the driver has, and which one a read.
V4L2Lent ==
  /\ camera_call.pc = "queue" =>
       camera_call.i \in 0..count /\ driver = [on |-> FALSE, queued |-> 0..(camera_call.i - 1)]
  /\ streaming /\ camera_call.pc \notin V4L2Closing \cup V4L2Leased =>
       driver.on /\ driver.queued = Cameras!V4L2!Opened
  /\ camera_call.pc \in {"leased", "release"} => lease.active
  /\ lease.active => camera_call.pc \in V4L2Leased /\ lease.index \in Cameras!V4L2!Opened
  /\ camera_call.pc \in V4L2Leased =>
       driver.on /\ driver.queued = Cameras!V4L2!Opened \ (IF lease.active THEN {lease.index} ELSE {})

V4L2Inv == Cameras!V4L2!TypeOK /\ V4L2Places /\ V4L2Owner /\ V4L2Mapped /\ V4L2Lent

V4L2Points == {"close", "native", "unmap", "configure", "map", "queue", "deadline",
               "poll", "dequeue", "leased", "release", "unwind"}

V4L2Rest ==
  /\ fd \in BOOLEAN /\ streaming \in BOOLEAN /\ dirty \in BOOLEAN
  /\ count \in 0..MaxBuffers
  /\ mapped \subseteq Cameras!V4L2!Indices
  /\ driver \in [on : BOOLEAN, queued : SUBSET Cameras!V4L2!Indices]
  /\ lease \in [index : Cameras!V4L2!Indices, active : BOOLEAN]
  /\ left \in 0..MaxCapture
  /\ expiry \in 0..MaxCapture

V4L2Returns ==
  Cameras!V4L2!Returns =>
    Cameras!V4L2!State' \in Cameras!V4L2!After(camera_call.op, camera_call.before, camera_call'.out)

\* What each step does to the camera_call.
V4L2Calls == Cameras!V4L2!CallType(V4L2Points, 0..MaxBuffers)

LEMMA V4L2Stopped == Cameras!V4L2!Stopped \in [on : BOOLEAN, queued : SUBSET Cameras!V4L2!Indices]
                     /\ ~Cameras!V4L2!Stopped.on /\ Cameras!V4L2!Stopped.queued = {}
  BY DEF Cameras!V4L2!Stopped

LEMMA V4L2Type == Cameras!V4L2!TypeOK => camera_call \in V4L2Calls
  BY DEF Cameras!V4L2!TypeOK, V4L2Calls, V4L2Points

LEMMA V4L2Enters ==
  ASSUME NEW op \in Cameras!V4L2!Operations, NEW place, NEW state \in Cameras!V4L2!States,
         Cameras!V4L2!Enter(op, place, state)
  PROVE  /\ camera_call'.op = op /\ camera_call'.pc = place /\ camera_call'.i = 0
              /\ camera_call'.before = state /\ camera_call'.out = "ok"
         /\ place \in V4L2Points \cup {"none", "begin"} => camera_call' \in V4L2Calls
  BY CameraBounds DEF V4L2Calls, Cameras!V4L2!CallType, Cameras!V4L2!Enter, Cameras!V4L2!Outcomes

LEMMA V4L2Goes ==
  ASSUME camera_call \in V4L2Calls, NEW place, Cameras!V4L2!GoTo(place)
  PROVE  /\ camera_call'.op = camera_call.op /\ camera_call'.pc = place /\ camera_call'.i = camera_call.i
              /\ camera_call'.before = camera_call.before /\ camera_call'.out = camera_call.out
         /\ place \in V4L2Points \cup {"none", "begin"} => camera_call' \in V4L2Calls
  BY DEF V4L2Calls, Cameras!V4L2!CallType, Cameras!V4L2!GoTo

LEMMA V4L2Ends ==
  ASSUME NEW out, Cameras!V4L2!Return(out)
  PROVE  /\ camera_call'.op = "none" /\ camera_call'.pc = "none" /\ camera_call'.out = out
              /\ camera_call'.i = 0
         /\ out \in Cameras!V4L2!Outcomes \cup {"none"} => camera_call' \in V4L2Calls
  BY CameraBounds DEF V4L2Calls, Cameras!V4L2!CallType, Cameras!V4L2!Return, Cameras!V4L2!Idle,
       Cameras!V4L2!States, Cameras!V4L2!Operations

LEMMA V4L2Falls ==
  ASSUME camera_call \in V4L2Calls, NEW place, NEW out, Cameras!V4L2!Fail(out, place)
  PROVE  /\ camera_call'.op = camera_call.op /\ camera_call'.pc = place /\ camera_call'.i = camera_call.i
              /\ camera_call'.before = camera_call.before /\ camera_call'.out = out
         /\ place \in V4L2Points /\ out \in Cameras!V4L2!Outcomes => camera_call' \in V4L2Calls
  BY DEF V4L2Calls, Cameras!V4L2!CallType, Cameras!V4L2!Fail

LEMMA V4L2Next ==
  ASSUME camera_call \in V4L2Calls, camera_call' = [camera_call EXCEPT !.i = @ + 1],
         camera_call.i + 1 \in 0..MaxBuffers
  PROVE  /\ camera_call'.op = camera_call.op /\ camera_call'.pc = camera_call.pc
              /\ camera_call'.i = camera_call.i + 1 /\ camera_call'.before = camera_call.before
         /\ camera_call'.out = camera_call.out /\ camera_call' \in V4L2Calls
  BY DEF V4L2Calls, Cameras!V4L2!CallType

LEMMA V4L2Begin ==
  ASSUME V4L2Inv, NEW op \in Cameras!V4L2!Operations, Cameras!V4L2!Begin(op)
  PROVE  V4L2Inv' /\ V4L2Returns
<1> USE DEF V4L2Closing, V4L2Reading, V4L2Leased
<1> DEFINE place == IF op = "close" THEN "close" ELSE "begin"
<1>1. camera_call.op = "none" /\ camera_call.pc = "none"
  BY DEF Cameras!V4L2!Begin, Cameras!V4L2!Quiet, V4L2Inv, V4L2Places
<1>2. /\ camera_call'.op = op /\ camera_call'.pc = place /\ camera_call'.i = 0
           /\ camera_call'.before = Cameras!V4L2!State /\ camera_call'.out = "ok"
      /\ camera_call' \in V4L2Calls
  <2>1. Cameras!V4L2!State \in Cameras!V4L2!States /\ place \in V4L2Points \cup {"begin"}
        /\ Cameras!V4L2!Enter(op, place, Cameras!V4L2!State)
    BY DEF Cameras!V4L2!State, Cameras!V4L2!States, V4L2Points, Cameras!V4L2!Begin
  <2> HIDE DEF place
  <2> QED BY <2>1, V4L2Enters
<1>3. UNCHANGED <<fd, streaming, dirty, count, mapped, driver, lease, expiry>>
      /\ Cameras!V4L2!State' = Cameras!V4L2!State /\ op # "none"
  BY DEF Cameras!V4L2!Begin, Cameras!V4L2!adapter, Cameras!V4L2!State, Cameras!V4L2!Operations
<1>4. V4L2Rest'
  BY <1>3 DEF V4L2Inv, Cameras!V4L2!TypeOK, V4L2Rest, Cameras!V4L2!Indices, Cameras!V4L2!Begin
<1>5. Cameras!V4L2!TypeOK'
  BY <1>2, <1>4 DEF Cameras!V4L2!TypeOK, V4L2Rest, V4L2Calls, V4L2Points
<1>6. V4L2Places'
  BY <1>1, <1>2, <1>3 DEF V4L2Inv, V4L2Places, V4L2Lent
<1>7. V4L2Owner'
  BY <1>1, <1>2, <1>3 DEF V4L2Inv, V4L2Owner
<1>8. V4L2Mapped'
  BY <1>1, <1>2, <1>3 DEF V4L2Inv, V4L2Mapped, Cameras!V4L2!Opened
<1>9. V4L2Lent'
  BY <1>1, <1>2, <1>3 DEF V4L2Inv, V4L2Lent, Cameras!V4L2!Opened
<1> QED BY <1>1, <1>5, <1>6, <1>7, <1>8, <1>9 DEF V4L2Inv, V4L2Returns, Cameras!V4L2!Returns,
     Cameras!V4L2!Quiet

LEMMA V4L2CloseReset == ASSUME V4L2Inv, Cameras!V4L2!CloseReset PROVE V4L2Inv' /\ V4L2Returns
<1> USE DEF V4L2Closing, V4L2Reading, V4L2Leased
<1>1. camera_call.pc = "close" /\ camera_call'.pc = "native" /\ camera_call'.op = camera_call.op
      /\ camera_call'.out = camera_call.out
      /\ camera_call'.before = camera_call.before /\ camera_call' \in V4L2Calls
  BY V4L2Type, V4L2Goes DEF V4L2Inv, Cameras!V4L2!CloseReset, V4L2Points
<1>2. /\ UNCHANGED <<fd, count, mapped, lease, left, expiry>>
      /\ \/ UNCHANGED <<driver, dirty, streaming>>
         \/ driver' = Cameras!V4L2!Stopped /\ ~dirty' /\ dirty' \in BOOLEAN /\ ~streaming'
              /\ streaming' \in BOOLEAN
  BY DEF Cameras!V4L2!CloseReset, Cameras!V4L2!ResetSucceeds, Cameras!V4L2!ResetFails, Cameras!V4L2!clock,
       V4L2Inv, V4L2Owner
<1>3. V4L2Rest'
  BY <1>2, V4L2Stopped DEF V4L2Inv, Cameras!V4L2!TypeOK, V4L2Rest, Cameras!V4L2!Indices
<1>4. Cameras!V4L2!TypeOK'
  BY <1>1, <1>3 DEF Cameras!V4L2!TypeOK, V4L2Rest, V4L2Calls, V4L2Points
<1>5. V4L2Places'
  BY <1>1, <1>2 DEF V4L2Inv, V4L2Places
<1>6. V4L2Owner'
  BY <1>1, <1>2 DEF V4L2Inv, V4L2Owner
<1>7. V4L2Mapped'
  BY <1>1, <1>2 DEF V4L2Inv, V4L2Mapped, Cameras!V4L2!Stopped, Cameras!V4L2!Opened
<1>8. V4L2Lent'
  BY <1>1, <1>2 DEF V4L2Inv, V4L2Lent
<1> QED BY <1>1, <1>4, <1>5, <1>6, <1>7, <1>8 DEF V4L2Inv, V4L2Returns, Cameras!V4L2!Returns,
     Cameras!V4L2!Quiet, V4L2Places

LEMMA V4L2CloseNative == ASSUME V4L2Inv, Cameras!V4L2!CloseNative PROVE V4L2Inv' /\ V4L2Returns
<1> USE DEF V4L2Closing, V4L2Reading, V4L2Leased
<1>1. camera_call.pc = "native" /\ camera_call'.pc = "unmap" /\ camera_call'.op = camera_call.op
      /\ camera_call'.out = camera_call.out
      /\ camera_call'.before = camera_call.before /\ camera_call' \in V4L2Calls
  BY V4L2Type, V4L2Goes DEF V4L2Inv, Cameras!V4L2!CloseNative, V4L2Points
<1>2. UNCHANGED <<count, mapped, lease, left, expiry>> /\ driver' = Cameras!V4L2!Stopped
      /\ fd' = FALSE /\ streaming' = FALSE /\ dirty' = FALSE
  BY DEF Cameras!V4L2!CloseNative, Cameras!V4L2!clock, V4L2Inv, V4L2Owner
<1>3. V4L2Rest'
  BY <1>2 DEF V4L2Inv, Cameras!V4L2!TypeOK, V4L2Rest, Cameras!V4L2!Indices, Cameras!V4L2!Stopped
<1>4. Cameras!V4L2!TypeOK'
  BY <1>1, <1>3 DEF Cameras!V4L2!TypeOK, V4L2Rest, V4L2Calls, V4L2Points
<1>5. V4L2Places'
  BY <1>1, <1>2 DEF V4L2Inv, V4L2Places
<1>6. V4L2Owner'
  BY <1>1, <1>2 DEF V4L2Inv, V4L2Owner
<1>7. V4L2Mapped'
  BY <1>1, <1>2 DEF V4L2Inv, V4L2Mapped, Cameras!V4L2!Stopped, Cameras!V4L2!Opened
<1>8. V4L2Lent'
  BY <1>1, <1>2 DEF V4L2Inv, V4L2Lent
<1> QED BY <1>1, <1>4, <1>5, <1>6, <1>7, <1>8 DEF V4L2Inv, V4L2Returns, Cameras!V4L2!Returns,
     Cameras!V4L2!Quiet, V4L2Places

LEMMA V4L2Unmap == ASSUME V4L2Inv, Cameras!V4L2!Unmap PROVE V4L2Inv' /\ V4L2Returns
<1> USE DEF V4L2Closing, V4L2Reading, V4L2Leased
<1>1. camera_call.pc = "unmap" /\ camera_call'.pc = "none" /\ camera_call'.op = "none"
      /\ camera_call'.out = camera_call.out /\ camera_call' \in V4L2Calls
  <2>1. camera_call.out \in Cameras!V4L2!Outcomes \cup {"none"}
    BY V4L2Type DEF V4L2Inv, V4L2Calls, Cameras!V4L2!CallType
  <2> QED BY <2>1, V4L2Ends DEF Cameras!V4L2!Unmap
<1>2. UNCHANGED <<fd, streaming, dirty, driver, lease, left, expiry>> /\ mapped' = {} /\ count' = 0
  BY DEF Cameras!V4L2!Unmap, Cameras!V4L2!clock
<1>3. ~fd /\ ~streaming /\ ~dirty /\ driver = Cameras!V4L2!Stopped
  BY <1>1 DEF V4L2Inv, V4L2Owner
<1>4. V4L2Rest'
  BY <1>2, CameraBounds DEF V4L2Inv, Cameras!V4L2!TypeOK, V4L2Rest, Cameras!V4L2!Indices
<1>5. Cameras!V4L2!TypeOK'
  BY <1>1, <1>4 DEF Cameras!V4L2!TypeOK, V4L2Rest, V4L2Calls, V4L2Points
<1>6. V4L2Places'
  BY <1>1, <1>2 DEF V4L2Inv, V4L2Places
<1>7. V4L2Owner'
  BY <1>1, <1>2, <1>3 DEF V4L2Inv, V4L2Owner, Cameras!V4L2!Stopped
<1>8. V4L2Mapped'
  BY <1>1, <1>2, <1>3 DEF V4L2Inv, V4L2Mapped, Cameras!V4L2!Stopped
<1>9. V4L2Lent'
  BY <1>1, <1>2, <1>3 DEF V4L2Inv, V4L2Lent
<1>10. V4L2Returns
  BY <1>1, <1>2, <1>3 DEF V4L2Inv, V4L2Places, V4L2Returns, Cameras!V4L2!State, Cameras!V4L2!After,
       Cameras!V4L2!Success
<1> QED BY <1>5, <1>6, <1>7, <1>8, <1>9, <1>10 DEF V4L2Inv

LEMMA V4L2OpenDevice == ASSUME V4L2Inv, Cameras!V4L2!OpenDevice PROVE V4L2Inv' /\ V4L2Returns
<1> USE DEF Cameras!V4L2!OpenDevice, Cameras!V4L2!At, Cameras!V4L2!CloseAndReturn, Cameras!V4L2!adapter,
     Cameras!V4L2!clock, V4L2Closing, V4L2Reading, V4L2Leased
<1> camera_call \in V4L2Calls
  BY V4L2Type DEF V4L2Inv
<1>1. camera_call' \in V4L2Calls
  BY V4L2Goes, V4L2Ends, CameraBounds DEF V4L2Inv, V4L2Points, Cameras!V4L2!Outcomes, V4L2Places, V4L2Lent,
       V4L2Mapped, Cameras!V4L2!TypeOK
<1>2. V4L2Rest'
  BY CameraBounds DEF V4L2Inv, Cameras!V4L2!TypeOK, V4L2Rest, Cameras!V4L2!Indices, Cameras!V4L2!Stopped,
       Cameras!V4L2!Opened, V4L2Mapped, V4L2Lent
<1>3. Cameras!V4L2!TypeOK'
  BY <1>1, <1>2 DEF Cameras!V4L2!TypeOK, V4L2Rest, V4L2Calls, V4L2Points
<1>4. V4L2Places'
  BY V4L2Goes, V4L2Ends DEF V4L2Inv, V4L2Places, V4L2Owner, Cameras!V4L2!State, V4L2Lent, Cameras!V4L2!Quiet
<1>5. V4L2Owner'
  BY V4L2Goes, V4L2Ends DEF V4L2Inv, V4L2Places, V4L2Owner, V4L2Lent, Cameras!V4L2!State, Cameras!V4L2!Stopped
<1>6. V4L2Mapped'
  BY V4L2Goes, V4L2Ends, CameraBounds DEF V4L2Inv, Cameras!V4L2!TypeOK, V4L2Places, V4L2Owner, V4L2Mapped,
       V4L2Lent, Cameras!V4L2!Opened, Cameras!V4L2!Indices, Cameras!V4L2!Stopped
<1>7. V4L2Lent'
  BY V4L2Goes, V4L2Ends, CameraBounds DEF V4L2Inv, Cameras!V4L2!TypeOK, V4L2Places, V4L2Owner, V4L2Mapped,
       V4L2Lent, Cameras!V4L2!Opened, Cameras!V4L2!Indices, Cameras!V4L2!Stopped
<1>8. V4L2Returns
  BY V4L2Goes, V4L2Ends DEF V4L2Inv, V4L2Places, V4L2Owner, V4L2Returns, Cameras!V4L2!Returns,
       Cameras!V4L2!Quiet, Cameras!V4L2!State, Cameras!V4L2!After, Cameras!V4L2!Success
<1> QED BY <1>3, <1>4, <1>5, <1>6, <1>7, <1>8 DEF V4L2Inv

LEMMA V4L2OpenFails == ASSUME V4L2Inv, Cameras!V4L2!OpenFails PROVE V4L2Inv' /\ V4L2Returns
<1> USE DEF Cameras!V4L2!OpenFails, Cameras!V4L2!OpenRollback, Cameras!V4L2!At, Cameras!V4L2!CloseAndReturn,
     Cameras!V4L2!adapter, Cameras!V4L2!clock, V4L2Closing, V4L2Reading, V4L2Leased
<1> camera_call \in V4L2Calls
  BY V4L2Type DEF V4L2Inv
<1>1. camera_call' \in V4L2Calls
  BY V4L2Falls, CameraBounds DEF V4L2Inv, V4L2Points, Cameras!V4L2!Outcomes, V4L2Places, V4L2Lent, V4L2Mapped,
       Cameras!V4L2!TypeOK
<1>2. V4L2Rest'
  BY CameraBounds DEF V4L2Inv, Cameras!V4L2!TypeOK, V4L2Rest, Cameras!V4L2!Indices, Cameras!V4L2!Stopped,
       Cameras!V4L2!Opened, V4L2Mapped, V4L2Lent
<1>3. Cameras!V4L2!TypeOK'
  BY <1>1, <1>2 DEF Cameras!V4L2!TypeOK, V4L2Rest, V4L2Calls, V4L2Points
<1>4. V4L2Places'
  BY V4L2Falls DEF V4L2Inv, V4L2Places, V4L2Owner, Cameras!V4L2!State, V4L2Lent, Cameras!V4L2!Quiet
<1>5. V4L2Owner'
  BY V4L2Falls DEF V4L2Inv, V4L2Places, V4L2Owner, V4L2Lent, Cameras!V4L2!State, Cameras!V4L2!Stopped
<1>6. V4L2Mapped'
  BY V4L2Falls, CameraBounds DEF V4L2Inv, Cameras!V4L2!TypeOK, V4L2Places, V4L2Owner, V4L2Mapped, V4L2Lent,
       Cameras!V4L2!Opened, Cameras!V4L2!Indices, Cameras!V4L2!Stopped
<1>7. V4L2Lent'
  BY V4L2Falls, CameraBounds DEF V4L2Inv, Cameras!V4L2!TypeOK, V4L2Places, V4L2Owner, V4L2Mapped, V4L2Lent,
       Cameras!V4L2!Opened, Cameras!V4L2!Indices, Cameras!V4L2!Stopped
<1>8. V4L2Returns
  BY V4L2Falls DEF V4L2Inv, V4L2Places, V4L2Owner, V4L2Returns, Cameras!V4L2!Returns, Cameras!V4L2!Quiet,
       Cameras!V4L2!State, Cameras!V4L2!After, Cameras!V4L2!Success
<1> QED BY <1>3, <1>4, <1>5, <1>6, <1>7, <1>8 DEF V4L2Inv

LEMMA V4L2OpenConfigure == ASSUME V4L2Inv, Cameras!V4L2!OpenConfigure PROVE V4L2Inv' /\ V4L2Returns
<1> USE DEF V4L2Closing, V4L2Reading, V4L2Leased
<1>1. /\ camera_call.pc = "configure" /\ camera_call.op = "open" /\ camera_call'.pc = "map"
           /\ camera_call'.op = "open" /\ camera_call'.i = camera_call.i
      /\ camera_call'.out = camera_call.out /\ camera_call'.before = camera_call.before
           /\ camera_call' \in V4L2Calls
  BY V4L2Type, V4L2Goes DEF V4L2Inv, Cameras!V4L2!OpenConfigure, Cameras!V4L2!At, V4L2Points
<1>2. UNCHANGED <<fd, streaming, dirty, mapped, driver, lease, left, expiry>> /\ count' \in 2..MaxBuffers
  BY DEF Cameras!V4L2!OpenConfigure, Cameras!V4L2!clock
<1>3. fd /\ mapped = {} /\ count = 0 /\ camera_call.i = 0 /\ ~streaming /\ ~dirty
      /\ driver = Cameras!V4L2!Stopped
  BY <1>1 DEF V4L2Inv, V4L2Places, V4L2Mapped, V4L2Owner
<1>4. V4L2Rest'
  BY <1>2, CameraBounds DEF V4L2Inv, Cameras!V4L2!TypeOK, V4L2Rest, Cameras!V4L2!Indices
<1>5. Cameras!V4L2!TypeOK'
  BY <1>1, <1>4 DEF Cameras!V4L2!TypeOK, V4L2Rest, V4L2Calls, V4L2Points
<1>6. V4L2Places'
  BY <1>1, <1>2 DEF V4L2Inv, V4L2Places
<1>7. V4L2Owner'
  BY <1>1, <1>2, <1>3 DEF V4L2Inv, V4L2Owner, Cameras!V4L2!Stopped
<1>8. V4L2Mapped'
  <2>1. count' >= 2 /\ camera_call'.i \in 0..count' /\ 0..(camera_call'.i - 1) = {}
    BY <1>1, <1>2, <1>3, CameraBounds
  <2> QED BY <1>1, <1>2, <1>3, <2>1, V4L2Stopped DEF V4L2Inv, V4L2Mapped
<1>9. V4L2Lent'
  BY <1>1, <1>2, <1>3 DEF V4L2Inv, V4L2Lent
<1> QED BY <1>1, <1>5, <1>6, <1>7, <1>8, <1>9 DEF V4L2Inv, V4L2Returns, Cameras!V4L2!Returns,
     Cameras!V4L2!Quiet

LEMMA V4L2MapBuffer == ASSUME V4L2Inv, Cameras!V4L2!MapBuffer PROVE V4L2Inv' /\ V4L2Returns
<1> USE DEF V4L2Closing, V4L2Reading, V4L2Leased
<1>1. camera_call.pc = "map" /\ camera_call.op = "open" /\ camera_call.before = "closed"
  BY DEF Cameras!V4L2!MapBuffer, Cameras!V4L2!At, V4L2Inv, V4L2Places
<1>2. UNCHANGED <<fd, streaming, dirty, count, driver, lease, left, expiry>>
  BY DEF Cameras!V4L2!MapBuffer, Cameras!V4L2!clock
<1>3. ~streaming /\ ~dirty /\ driver = Cameras!V4L2!Stopped /\ fd
  BY <1>1 DEF V4L2Inv, V4L2Owner
<1>4. count \in 2..MaxBuffers /\ camera_call.i \in 0..count /\ mapped = 0..(camera_call.i - 1)
  BY <1>1 DEF V4L2Inv, V4L2Mapped, Cameras!V4L2!TypeOK
<1>5. ~lease.active
  BY <1>1 DEF V4L2Inv, V4L2Lent
<1>6. CASE camera_call.i < count
  <2>1. mapped' = mapped \cup {camera_call.i} /\ camera_call' = [camera_call EXCEPT !.i = @ + 1]
    BY <1>6 DEF Cameras!V4L2!MapBuffer
  <2>2. /\ camera_call'.op = "open" /\ camera_call'.pc = "map" /\ camera_call'.i = camera_call.i + 1
             /\ camera_call'.before = camera_call.before
        /\ camera_call'.out = camera_call.out /\ camera_call' \in V4L2Calls
    <3>1. camera_call.i + 1 \in 0..MaxBuffers
      BY <1>4, <1>6, CameraBounds
    <3> QED BY <1>1, <2>1, <3>1, V4L2Type, V4L2Next DEF V4L2Inv
  <2>3. mapped' = 0..(camera_call'.i - 1) /\ camera_call'.i \in 0..count
    BY <1>4, <1>6, <2>1, <2>2, CameraBounds
  <2>4. V4L2Rest'
    <3>1. mapped' \subseteq Cameras!V4L2!Indices
      BY <1>4, <1>6, <2>2, <2>3, CameraBounds DEF Cameras!V4L2!Indices
    <3> QED BY <1>2, <3>1 DEF V4L2Inv, Cameras!V4L2!TypeOK, V4L2Rest, Cameras!V4L2!Indices
  <2>5. Cameras!V4L2!TypeOK'
    BY <2>2, <2>4 DEF Cameras!V4L2!TypeOK, V4L2Rest, V4L2Calls, V4L2Points
  <2>6. V4L2Places'
    BY <1>1, <1>2, <2>2 DEF V4L2Inv, V4L2Places
  <2>7. V4L2Owner'
    BY <1>1, <1>2, <1>3, <2>2 DEF V4L2Inv, V4L2Owner, Cameras!V4L2!Stopped
  <2>8. V4L2Mapped'
    BY <1>2, <1>3, <1>4, <2>2, <2>3, CameraBounds DEF V4L2Mapped, Cameras!V4L2!Stopped
  <2>9. V4L2Lent'
    BY <1>2, <1>3, <1>5, <2>2 DEF V4L2Lent
  <2> QED BY <2>2, <2>5, <2>6, <2>7, <2>8, <2>9 DEF V4L2Inv, V4L2Returns, Cameras!V4L2!Returns,
       Cameras!V4L2!Quiet
<1>7. CASE camera_call.i = count
  <2>1. UNCHANGED mapped /\ Cameras!V4L2!Return("ok")
    BY <1>7, <1>4, CameraBounds DEF Cameras!V4L2!MapBuffer
  <2>2. camera_call'.op = "none" /\ camera_call'.pc = "none" /\ camera_call'.out = "ok"
        /\ camera_call' \in V4L2Calls
    BY <2>1, V4L2Ends DEF Cameras!V4L2!Outcomes
  <2>3. mapped' = Cameras!V4L2!Opened'
    BY <1>2, <1>4, <1>7, <2>1 DEF Cameras!V4L2!Opened
  <2>4. Cameras!V4L2!TypeOK'
    BY <1>2, <2>1, <2>2 DEF V4L2Inv, Cameras!V4L2!TypeOK, V4L2Rest, V4L2Calls, V4L2Points,
         Cameras!V4L2!Indices
  <2>5. V4L2Places'
    BY <2>2 DEF V4L2Places
  <2>6. V4L2Owner'
    BY <1>2, <1>3, <2>2 DEF V4L2Owner, Cameras!V4L2!Stopped
  <2>7. V4L2Mapped'
    BY <1>2, <1>3, <1>4, <2>2, <2>3, CameraBounds DEF V4L2Mapped, Cameras!V4L2!Stopped
  <2>8. V4L2Lent'
    BY <1>2, <1>3, <1>5, <2>2 DEF V4L2Lent
  <2>9. Cameras!V4L2!State' = "open" /\ V4L2Returns
    BY <1>1, <1>2, <1>3, <2>2 DEF Cameras!V4L2!State, V4L2Returns, Cameras!V4L2!After, Cameras!V4L2!Success
  <2> QED BY <2>4, <2>5, <2>6, <2>7, <2>8, <2>9 DEF V4L2Inv
<1> QED BY <1>4, <1>6, <1>7, CameraBounds

LEMMA V4L2StartBegin == ASSUME V4L2Inv, Cameras!V4L2!StartBegin PROVE V4L2Inv' /\ V4L2Returns
<1> USE DEF V4L2Closing, V4L2Reading, V4L2Leased
<1>1. camera_call.pc = "begin" /\ camera_call.op = "start" /\ camera_call.before = Cameras!V4L2!State
      /\ camera_call.out = "ok" /\ ~lease.active
  BY DEF Cameras!V4L2!StartBegin, Cameras!V4L2!At, V4L2Inv, V4L2Places, V4L2Lent
<1>2. UNCHANGED <<fd, streaming, count, mapped, driver, lease, left, expiry>>
  BY DEF Cameras!V4L2!StartBegin, Cameras!V4L2!clock
<1>3. CASE fd /\ ~streaming
  <2>1. dirty' = TRUE /\ Cameras!V4L2!GoTo("queue")
    BY <1>3 DEF Cameras!V4L2!StartBegin
  <2>2. /\ camera_call'.op = "start" /\ camera_call'.pc = "queue" /\ camera_call'.i = camera_call.i
             /\ camera_call'.before = "open"
        /\ camera_call'.out = "ok" /\ camera_call' \in V4L2Calls
    BY <1>1, <1>3, <2>1, V4L2Type, V4L2Goes DEF V4L2Inv, V4L2Points, Cameras!V4L2!State
  <2>3. driver = Cameras!V4L2!Stopped /\ camera_call.i = 0 /\ count >= 2 /\ mapped = Cameras!V4L2!Opened
    BY <1>1, <1>3 DEF V4L2Inv, V4L2Places, V4L2Owner, V4L2Mapped
  <2>4. Cameras!V4L2!TypeOK'
    BY <1>2, <2>1, <2>2 DEF V4L2Inv, Cameras!V4L2!TypeOK, V4L2Calls, V4L2Points, Cameras!V4L2!Indices
  <2>5. V4L2Places'
    BY <1>1, <1>2, <2>2 DEF V4L2Inv, V4L2Places
  <2>6. V4L2Owner'
    BY <1>2, <1>3, <2>1, <2>2 DEF V4L2Owner
  <2>7. V4L2Mapped'
    BY <1>2, <1>3, <2>2, <2>3 DEF V4L2Mapped, Cameras!V4L2!Opened, Cameras!V4L2!Stopped
  <2>8. V4L2Lent'
    <3>1. camera_call'.i \in 0..count /\ 0..(camera_call'.i - 1) = {} /\ count \in Nat
      BY <2>2, <2>3, CameraBounds DEF V4L2Inv, Cameras!V4L2!TypeOK
    <3> QED BY <1>1, <1>2, <1>3, <2>2, <2>3, <3>1 DEF V4L2Lent, Cameras!V4L2!Stopped
  <2> QED BY <2>2, <2>4, <2>5, <2>6, <2>7, <2>8 DEF V4L2Inv, V4L2Returns, Cameras!V4L2!Returns,
       Cameras!V4L2!Quiet
<1>4. CASE ~(fd /\ ~streaming)
  <2>1. UNCHANGED dirty /\ Cameras!V4L2!Return("failed")
    BY <1>4 DEF Cameras!V4L2!StartBegin
  <2>2. camera_call'.op = "none" /\ camera_call'.pc = "none" /\ camera_call'.out = "failed"
        /\ camera_call' \in V4L2Calls
    BY <2>1, V4L2Ends DEF Cameras!V4L2!Outcomes
  <2>3. Cameras!V4L2!TypeOK'
    BY <1>2, <2>1, <2>2 DEF V4L2Inv, Cameras!V4L2!TypeOK, V4L2Calls, V4L2Points, Cameras!V4L2!Indices
  <2>4. V4L2Places' /\ V4L2Owner'
    BY <1>1, <1>2, <2>1, <2>2 DEF V4L2Inv, V4L2Places, V4L2Owner
  <2>5. V4L2Mapped' /\ V4L2Lent'
    BY <1>1, <1>2, <2>2 DEF V4L2Inv, V4L2Mapped, V4L2Lent, Cameras!V4L2!Opened
  <2>6. V4L2Returns
    BY <1>1, <1>2, <2>2 DEF V4L2Returns, Cameras!V4L2!State, Cameras!V4L2!After
  <2> QED BY <2>3, <2>4, <2>5, <2>6 DEF V4L2Inv
<1> QED BY <1>3, <1>4

LEMMA V4L2StartQueue == ASSUME V4L2Inv, Cameras!V4L2!StartQueue PROVE V4L2Inv' /\ V4L2Returns
<1> USE DEF V4L2Closing, V4L2Reading, V4L2Leased
<1>1. /\ camera_call.pc = "queue" /\ camera_call.op = "start" /\ ~lease.active /\ count \in 2..MaxBuffers
           /\ camera_call.i \in 0..count
      /\ camera_call.i < count /\ mapped = Cameras!V4L2!Opened
           /\ driver = [on |-> FALSE, queued |-> 0..(camera_call.i - 1)]
      /\ fd /\ dirty /\ ~streaming
  BY DEF Cameras!V4L2!StartQueue, Cameras!V4L2!At, V4L2Inv, V4L2Places, V4L2Lent, V4L2Owner, V4L2Mapped,
       Cameras!V4L2!TypeOK
<1>2. UNCHANGED <<fd, streaming, dirty, count, mapped, lease, left, expiry>>
      /\ driver' = [driver EXCEPT !.queued = @ \cup {camera_call.i}]
           /\ camera_call' = [camera_call EXCEPT !.i = @ + 1]
  BY DEF Cameras!V4L2!StartQueue, Cameras!V4L2!Queue, Cameras!V4L2!adapter, Cameras!V4L2!clock
<1>3. /\ camera_call'.op = camera_call.op /\ camera_call'.pc = camera_call.pc
           /\ camera_call'.i = camera_call.i + 1 /\ camera_call'.before = camera_call.before
      /\ camera_call'.out = camera_call.out /\ camera_call' \in V4L2Calls
  <2>1. camera_call.i + 1 \in 0..MaxBuffers
    BY <1>1, CameraBounds
  <2> QED BY <1>2, <2>1, V4L2Type, V4L2Next DEF V4L2Inv
<1>4. driver' = [on |-> FALSE, queued |-> 0..(camera_call'.i - 1)] /\ camera_call'.i \in 0..count
      /\ 0..(camera_call'.i - 1) \subseteq Cameras!V4L2!Opened
  <2>1. (0..(camera_call.i - 1)) \cup {camera_call.i} = 0..(camera_call'.i - 1)
    BY <1>1, <1>3, CameraBounds
  <2>2. driver' = [on |-> FALSE, queued |-> (0..(camera_call.i - 1)) \cup {camera_call.i}]
    BY <1>1, <1>2
  <2>3. camera_call'.i \in 0..count /\ 0..(camera_call'.i - 1) \subseteq Cameras!V4L2!Opened
    BY <1>1, <1>3, CameraBounds DEF Cameras!V4L2!Opened
  <2> QED BY <2>1, <2>2, <2>3
<1>5. V4L2Rest'
  <2>1. 0..(camera_call'.i - 1) \subseteq Cameras!V4L2!Indices
    BY <1>1, <1>4, CameraBounds DEF Cameras!V4L2!Indices, Cameras!V4L2!Opened
  <2>2. driver' \in [on : BOOLEAN, queued : SUBSET Cameras!V4L2!Indices]
    BY <1>4, <2>1
  <2> QED BY <1>2, <2>2 DEF V4L2Inv, Cameras!V4L2!TypeOK, V4L2Rest, Cameras!V4L2!Indices
<1>6. Cameras!V4L2!TypeOK'
  BY <1>3, <1>5 DEF Cameras!V4L2!TypeOK, V4L2Rest, V4L2Calls, V4L2Points
<1>7. V4L2Places'
  BY <1>1, <1>2, <1>3 DEF V4L2Inv, V4L2Places
<1>8. V4L2Owner'
  BY <1>1, <1>2, <1>3 DEF V4L2Owner
<1>9. V4L2Mapped'
  <2>1. driver'.queued \subseteq mapped'
    BY <1>1, <1>2, <1>4
  <2> QED BY <1>1, <1>2, <1>3, <2>1 DEF V4L2Mapped, Cameras!V4L2!Opened
<1>10. V4L2Lent'
  BY <1>1, <1>2, <1>3, <1>4 DEF V4L2Lent
<1> QED BY <1>1, <1>3, <1>6, <1>7, <1>8, <1>9, <1>10 DEF V4L2Inv, V4L2Returns, Cameras!V4L2!Returns,
     Cameras!V4L2!Quiet

LEMMA V4L2StreamOn == ASSUME V4L2Inv, Cameras!V4L2!StreamOn PROVE V4L2Inv' /\ V4L2Returns
<1> USE DEF Cameras!V4L2!StreamOn, Cameras!V4L2!At, Cameras!V4L2!CloseAndReturn, Cameras!V4L2!adapter,
     Cameras!V4L2!clock, V4L2Closing, V4L2Reading, V4L2Leased
<1> camera_call \in V4L2Calls
  BY V4L2Type DEF V4L2Inv
<1>1. camera_call' \in V4L2Calls
  BY V4L2Ends, CameraBounds DEF V4L2Inv, V4L2Points, Cameras!V4L2!Outcomes, V4L2Places, V4L2Lent, V4L2Mapped,
       Cameras!V4L2!TypeOK
<1>2. V4L2Rest'
  BY CameraBounds DEF V4L2Inv, Cameras!V4L2!TypeOK, V4L2Rest, Cameras!V4L2!Indices, Cameras!V4L2!Stopped,
       Cameras!V4L2!Opened, V4L2Mapped, V4L2Lent
<1>3. Cameras!V4L2!TypeOK'
  BY <1>1, <1>2 DEF Cameras!V4L2!TypeOK, V4L2Rest, V4L2Calls, V4L2Points
<1>4. V4L2Places'
  BY V4L2Ends DEF V4L2Inv, V4L2Places, V4L2Owner, Cameras!V4L2!State, V4L2Lent, Cameras!V4L2!Quiet
<1>5. V4L2Owner'
  BY V4L2Ends DEF V4L2Inv, V4L2Places, V4L2Owner, V4L2Lent, Cameras!V4L2!State, Cameras!V4L2!Stopped
<1>6. V4L2Mapped'
  BY V4L2Ends, CameraBounds DEF V4L2Inv, Cameras!V4L2!TypeOK, V4L2Places, V4L2Owner, V4L2Mapped, V4L2Lent,
       Cameras!V4L2!Opened, Cameras!V4L2!Indices, Cameras!V4L2!Stopped
<1>7. V4L2Lent'
  BY V4L2Ends, CameraBounds DEF V4L2Inv, Cameras!V4L2!TypeOK, V4L2Places, V4L2Owner, V4L2Mapped, V4L2Lent,
       Cameras!V4L2!Opened, Cameras!V4L2!Indices, Cameras!V4L2!Stopped
<1>8. V4L2Returns
  BY V4L2Ends DEF V4L2Inv, V4L2Places, V4L2Owner, V4L2Returns, Cameras!V4L2!Returns, Cameras!V4L2!Quiet,
       Cameras!V4L2!State, Cameras!V4L2!After, Cameras!V4L2!Success
<1> QED BY <1>3, <1>4, <1>5, <1>6, <1>7, <1>8 DEF V4L2Inv

LEMMA V4L2StartFails == ASSUME V4L2Inv, Cameras!V4L2!StartFails PROVE V4L2Inv' /\ V4L2Returns
<1> USE DEF V4L2Closing, V4L2Reading, V4L2Leased
<1>1. camera_call.pc = "queue" /\ camera_call.op = "start" /\ camera_call.before = "open" /\ ~lease.active
      /\ fd /\ dirty /\ ~streaming
      /\ count >= 2 /\ mapped = Cameras!V4L2!Opened
  BY DEF Cameras!V4L2!StartFails, Cameras!V4L2!At, V4L2Inv, V4L2Places, V4L2Lent, V4L2Owner, V4L2Mapped
<1>2. UNCHANGED <<fd, count, mapped, lease, left, expiry>>
  BY DEF Cameras!V4L2!StartFails, Cameras!V4L2!clock
<1>3. CASE Cameras!V4L2!ResetSucceeds /\ Cameras!V4L2!Return("failed")
  <2>1. driver' = Cameras!V4L2!Stopped /\ dirty' = FALSE /\ streaming' = FALSE
    BY <1>1, <1>3 DEF Cameras!V4L2!ResetSucceeds, V4L2Inv, Cameras!V4L2!TypeOK
  <2>2. camera_call'.op = "none" /\ camera_call'.pc = "none" /\ camera_call'.out = "failed"
        /\ camera_call' \in V4L2Calls
    BY <1>3, V4L2Ends DEF Cameras!V4L2!Outcomes
  <2>3. V4L2Rest'
    BY <1>2, <2>1 DEF V4L2Inv, Cameras!V4L2!TypeOK, V4L2Rest, Cameras!V4L2!Indices, Cameras!V4L2!Stopped
  <2>4. Cameras!V4L2!TypeOK'
    BY <2>2, <2>3 DEF Cameras!V4L2!TypeOK, V4L2Rest, V4L2Calls, V4L2Points
  <2>5. V4L2Places' /\ V4L2Owner'
    BY <1>1, <1>2, <2>1, <2>2 DEF V4L2Places, V4L2Owner
  <2>6. V4L2Mapped' /\ V4L2Lent'
    BY <1>1, <1>2, <2>1, <2>2 DEF V4L2Mapped, V4L2Lent, Cameras!V4L2!Opened, Cameras!V4L2!Stopped
  <2>7. V4L2Returns
    BY <1>1, <1>2, <2>1, <2>2 DEF V4L2Returns, Cameras!V4L2!State, Cameras!V4L2!After
  <2> QED BY <2>4, <2>5, <2>6, <2>7 DEF V4L2Inv
<1>4. CASE Cameras!V4L2!ResetFails /\ Cameras!V4L2!CloseAndReturn("failed")
  <2>1. UNCHANGED <<driver, dirty, streaming>>
    BY <1>4 DEF Cameras!V4L2!ResetFails
  <2>2. /\ camera_call'.op = "start" /\ camera_call'.pc = "close" /\ camera_call'.before = camera_call.before
             /\ camera_call'.out = "failed"
        /\ camera_call' \in V4L2Calls
    BY <1>1, <1>4, V4L2Type, V4L2Falls DEF V4L2Inv, V4L2Points, Cameras!V4L2!Outcomes,
         Cameras!V4L2!CloseAndReturn
  <2>3. Cameras!V4L2!TypeOK'
    BY <1>2, <2>1, <2>2 DEF V4L2Inv, Cameras!V4L2!TypeOK, V4L2Calls, V4L2Points, Cameras!V4L2!Indices
  <2>4. V4L2Places' /\ V4L2Owner'
    BY <1>1, <1>2, <2>1, <2>2 DEF V4L2Inv, V4L2Places, V4L2Owner
  <2>5. V4L2Mapped' /\ V4L2Lent'
    BY <1>1, <1>2, <2>1, <2>2 DEF V4L2Inv, V4L2Mapped, V4L2Lent
  <2> QED BY <2>2, <2>3, <2>4, <2>5 DEF V4L2Inv, V4L2Returns, Cameras!V4L2!Returns, Cameras!V4L2!Quiet
<1> QED BY <1>3, <1>4 DEF Cameras!V4L2!StartFails, Cameras!V4L2!FailStart

LEMMA V4L2Stop == ASSUME V4L2Inv, Cameras!V4L2!Stop PROVE V4L2Inv' /\ V4L2Returns
<1> USE DEF V4L2Closing, V4L2Reading, V4L2Leased
<1>1. camera_call.pc = "begin" /\ camera_call.op = "stop" /\ camera_call.before = Cameras!V4L2!State
      /\ ~lease.active
  BY DEF Cameras!V4L2!Stop, Cameras!V4L2!At, V4L2Inv, V4L2Places, V4L2Lent
<1>2. UNCHANGED <<fd, count, mapped, lease, left, expiry>>
  BY DEF Cameras!V4L2!Stop, Cameras!V4L2!clock
<1>3. /\ camera_call' \in V4L2Calls
      /\ \/ /\ camera_call'.op = "none" /\ camera_call'.pc = "none" /\ camera_call'.out = "ok"
            /\ \/ ~streaming /\ UNCHANGED <<driver, dirty, streaming>>
               \/ streaming /\ fd /\ driver' = Cameras!V4L2!Stopped /\ dirty' = FALSE /\ streaming' = FALSE
         \/ /\ camera_call'.op = "stop" /\ camera_call'.pc = "close"
                 /\ camera_call'.before = camera_call.before /\ camera_call'.out = "failed"
            /\ UNCHANGED <<driver, dirty, streaming>>
  BY <1>1, V4L2Type, V4L2Ends, V4L2Falls
     DEF Cameras!V4L2!Stop, V4L2Inv, V4L2Owner, V4L2Points, Cameras!V4L2!Outcomes, Cameras!V4L2!CloseAndReturn, Cameras!V4L2!ResetSucceeds, Cameras!V4L2!ResetFails
<1>4. V4L2Rest'
  BY <1>2, <1>3, V4L2Stopped DEF V4L2Inv, Cameras!V4L2!TypeOK, V4L2Rest, Cameras!V4L2!Indices
<1>5. Cameras!V4L2!TypeOK'
  BY <1>3, <1>4 DEF Cameras!V4L2!TypeOK, V4L2Rest, V4L2Calls, V4L2Points
<1>6. V4L2Places'
  BY <1>1, <1>2, <1>3 DEF V4L2Inv, V4L2Places
<1>7. V4L2Owner'
  BY <1>1, <1>2, <1>3 DEF V4L2Inv, V4L2Owner
<1>8. V4L2Mapped'
  BY <1>1, <1>2, <1>3 DEF V4L2Inv, V4L2Mapped, Cameras!V4L2!Opened, Cameras!V4L2!Stopped
<1>9. V4L2Lent'
  BY <1>1, <1>2, <1>3 DEF V4L2Inv, V4L2Lent, Cameras!V4L2!Opened
<1>10. V4L2Returns
  BY <1>1, <1>2, <1>3 DEF V4L2Returns, Cameras!V4L2!Returns, Cameras!V4L2!Quiet, Cameras!V4L2!State,
       Cameras!V4L2!After, Cameras!V4L2!Success
<1> QED BY <1>5, <1>6, <1>7, <1>8, <1>9, <1>10 DEF V4L2Inv

LEMMA V4L2ReadBegin == ASSUME V4L2Inv, Cameras!V4L2!ReadBegin PROVE V4L2Inv' /\ V4L2Returns
<1> USE DEF Cameras!V4L2!ReadBegin, Cameras!V4L2!At, Cameras!V4L2!CloseAndReturn, Cameras!V4L2!adapter,
     Cameras!V4L2!clock, V4L2Closing, V4L2Reading, V4L2Leased
<1> camera_call \in V4L2Calls
  BY V4L2Type DEF V4L2Inv
<1>1. camera_call' \in V4L2Calls
  BY V4L2Goes, V4L2Ends, CameraBounds DEF V4L2Inv, V4L2Points, Cameras!V4L2!Outcomes, V4L2Places, V4L2Lent,
       V4L2Mapped, Cameras!V4L2!TypeOK
<1>2. V4L2Rest'
  BY CameraBounds DEF V4L2Inv, Cameras!V4L2!TypeOK, V4L2Rest, Cameras!V4L2!Indices, Cameras!V4L2!Stopped,
       Cameras!V4L2!Opened, V4L2Mapped, V4L2Lent
<1>3. Cameras!V4L2!TypeOK'
  BY <1>1, <1>2 DEF Cameras!V4L2!TypeOK, V4L2Rest, V4L2Calls, V4L2Points
<1>4. V4L2Places'
  BY V4L2Goes, V4L2Ends DEF V4L2Inv, V4L2Places, V4L2Owner, Cameras!V4L2!State, V4L2Lent, Cameras!V4L2!Quiet
<1>5. V4L2Owner'
  BY V4L2Goes, V4L2Ends DEF V4L2Inv, V4L2Places, V4L2Owner, V4L2Lent, Cameras!V4L2!State, Cameras!V4L2!Stopped
<1>6. V4L2Mapped'
  BY V4L2Goes, V4L2Ends, CameraBounds DEF V4L2Inv, Cameras!V4L2!TypeOK, V4L2Places, V4L2Owner, V4L2Mapped,
       V4L2Lent, Cameras!V4L2!Opened, Cameras!V4L2!Indices, Cameras!V4L2!Stopped
<1>7. V4L2Lent'
  BY V4L2Goes, V4L2Ends, CameraBounds DEF V4L2Inv, Cameras!V4L2!TypeOK, V4L2Places, V4L2Owner, V4L2Mapped,
       V4L2Lent, Cameras!V4L2!Opened, Cameras!V4L2!Indices, Cameras!V4L2!Stopped
<1>8. V4L2Returns
  BY V4L2Goes, V4L2Ends DEF V4L2Inv, V4L2Places, V4L2Owner, V4L2Returns, Cameras!V4L2!Returns,
       Cameras!V4L2!Quiet, Cameras!V4L2!State, Cameras!V4L2!After, Cameras!V4L2!Success
<1> QED BY <1>3, <1>4, <1>5, <1>6, <1>7, <1>8 DEF V4L2Inv

LEMMA V4L2PollBegin == ASSUME V4L2Inv, Cameras!V4L2!PollBegin PROVE V4L2Inv' /\ V4L2Returns
<1> USE DEF V4L2Closing, V4L2Reading, V4L2Leased
<1>1. camera_call.pc = "deadline" /\ camera_call.op = "read" /\ camera_call.before = "streaming"
      /\ ~lease.active /\ streaming /\ fd
  BY DEF Cameras!V4L2!PollBegin, Cameras!V4L2!At, V4L2Inv, V4L2Places, V4L2Lent, V4L2Owner
<1>2. UNCHANGED <<fd, streaming, dirty, count, mapped, driver, lease, left>>
  BY DEF Cameras!V4L2!PollBegin, Cameras!V4L2!adapter
<1>3. expiry' \in 0..MaxCapture
  <2>1. left \in 0..MaxCapture /\ expiry \in 0..MaxCapture
    BY DEF V4L2Inv, Cameras!V4L2!TypeOK
  <2>2. Cameras!V4L2!Min({left, IntMax}) = IF left < IntMax THEN left ELSE IntMax
    BY <2>1, CameraBounds DEF Cameras!V4L2!Min
  <2>3. left # 0 => Cameras!V4L2!Wait \in 1..left
    BY <2>1, <2>2, CameraBounds DEF Cameras!V4L2!Wait, Cameras!V4L2!ToInt
  <2> QED BY <2>1, <2>3, CameraBounds DEF Cameras!V4L2!PollBegin
<1>4. /\ camera_call' \in V4L2Calls
      /\ \/ camera_call'.op = "none" /\ camera_call'.pc = "none" /\ camera_call'.out = "timeout"
         \/ camera_call'.op = "read" /\ camera_call'.pc = "poll" /\ camera_call'.before = "streaming"
  BY <1>1, V4L2Type, V4L2Goes, V4L2Ends DEF Cameras!V4L2!PollBegin, V4L2Inv, V4L2Points, Cameras!V4L2!Outcomes
<1>5. Cameras!V4L2!TypeOK'
  BY <1>2, <1>3, <1>4 DEF V4L2Inv, Cameras!V4L2!TypeOK, V4L2Calls, V4L2Points, Cameras!V4L2!Indices
<1>6. V4L2Places' /\ V4L2Owner'
  BY <1>1, <1>2, <1>4 DEF V4L2Inv, V4L2Places, V4L2Owner
<1>7. V4L2Mapped' /\ V4L2Lent'
  BY <1>1, <1>2, <1>4 DEF V4L2Inv, V4L2Mapped, V4L2Lent, Cameras!V4L2!Opened
<1>8. V4L2Returns
  BY <1>1, <1>2, <1>4 DEF V4L2Returns, Cameras!V4L2!Returns, Cameras!V4L2!Quiet, Cameras!V4L2!State,
       Cameras!V4L2!After
<1> QED BY <1>5, <1>6, <1>7, <1>8 DEF V4L2Inv

LEMMA V4L2PollExpires == ASSUME V4L2Inv, Cameras!V4L2!PollExpires PROVE V4L2Inv' /\ V4L2Returns
<1> USE DEF Cameras!V4L2!PollExpires, Cameras!V4L2!At, Cameras!V4L2!CloseAndReturn, Cameras!V4L2!adapter,
     Cameras!V4L2!clock, V4L2Closing, V4L2Reading, V4L2Leased
<1> camera_call \in V4L2Calls
  BY V4L2Type DEF V4L2Inv
<1>1. camera_call' \in V4L2Calls
  BY V4L2Goes, CameraBounds DEF V4L2Inv, V4L2Points, Cameras!V4L2!Outcomes, V4L2Places, V4L2Lent, V4L2Mapped,
       Cameras!V4L2!TypeOK
<1>2. V4L2Rest'
  BY CameraBounds DEF V4L2Inv, Cameras!V4L2!TypeOK, V4L2Rest, Cameras!V4L2!Indices, Cameras!V4L2!Stopped,
       Cameras!V4L2!Opened, V4L2Mapped, V4L2Lent
<1>3. Cameras!V4L2!TypeOK'
  BY <1>1, <1>2 DEF Cameras!V4L2!TypeOK, V4L2Rest, V4L2Calls, V4L2Points
<1>4. V4L2Places'
  BY V4L2Goes DEF V4L2Inv, V4L2Places, V4L2Owner, Cameras!V4L2!State, V4L2Lent, Cameras!V4L2!Quiet
<1>5. V4L2Owner'
  BY V4L2Goes DEF V4L2Inv, V4L2Places, V4L2Owner, V4L2Lent, Cameras!V4L2!State, Cameras!V4L2!Stopped
<1>6. V4L2Mapped'
  BY V4L2Goes, CameraBounds DEF V4L2Inv, Cameras!V4L2!TypeOK, V4L2Places, V4L2Owner, V4L2Mapped, V4L2Lent,
       Cameras!V4L2!Opened, Cameras!V4L2!Indices, Cameras!V4L2!Stopped
<1>7. V4L2Lent'
  BY V4L2Goes, CameraBounds DEF V4L2Inv, Cameras!V4L2!TypeOK, V4L2Places, V4L2Owner, V4L2Mapped, V4L2Lent,
       Cameras!V4L2!Opened, Cameras!V4L2!Indices, Cameras!V4L2!Stopped
<1>8. V4L2Returns
  BY V4L2Goes DEF V4L2Inv, V4L2Places, V4L2Owner, V4L2Returns, Cameras!V4L2!Returns, Cameras!V4L2!Quiet,
       Cameras!V4L2!State, Cameras!V4L2!After, Cameras!V4L2!Success
<1> QED BY <1>3, <1>4, <1>5, <1>6, <1>7, <1>8 DEF V4L2Inv

LEMMA V4L2PollEvent == ASSUME V4L2Inv, Cameras!V4L2!PollEvent PROVE V4L2Inv' /\ V4L2Returns
<1> USE DEF Cameras!V4L2!PollEvent, Cameras!V4L2!At, Cameras!V4L2!CloseAndReturn, Cameras!V4L2!adapter,
     Cameras!V4L2!clock, V4L2Closing, V4L2Reading, V4L2Leased
<1> camera_call \in V4L2Calls
  BY V4L2Type DEF V4L2Inv
<1>1. camera_call' \in V4L2Calls
  BY V4L2Goes, V4L2Ends, V4L2Falls, CameraBounds DEF V4L2Inv, V4L2Points, Cameras!V4L2!Outcomes, V4L2Places,
       V4L2Lent, V4L2Mapped, Cameras!V4L2!TypeOK
<1>2. V4L2Rest'
  BY CameraBounds DEF V4L2Inv, Cameras!V4L2!TypeOK, V4L2Rest, Cameras!V4L2!Indices, Cameras!V4L2!Stopped,
       Cameras!V4L2!Opened, V4L2Mapped, V4L2Lent
<1>3. Cameras!V4L2!TypeOK'
  BY <1>1, <1>2 DEF Cameras!V4L2!TypeOK, V4L2Rest, V4L2Calls, V4L2Points
<1>4. V4L2Places'
  BY V4L2Goes, V4L2Ends, V4L2Falls DEF V4L2Inv, V4L2Places, V4L2Owner, Cameras!V4L2!State, V4L2Lent,
       Cameras!V4L2!Quiet
<1>5. V4L2Owner'
  BY V4L2Goes, V4L2Ends, V4L2Falls DEF V4L2Inv, V4L2Places, V4L2Owner, V4L2Lent, Cameras!V4L2!State,
       Cameras!V4L2!Stopped
<1>6. V4L2Mapped'
  BY V4L2Goes, V4L2Ends, V4L2Falls, CameraBounds DEF V4L2Inv, Cameras!V4L2!TypeOK, V4L2Places, V4L2Owner,
       V4L2Mapped, V4L2Lent, Cameras!V4L2!Opened, Cameras!V4L2!Indices, Cameras!V4L2!Stopped
<1>7. V4L2Lent'
  BY V4L2Goes, V4L2Ends, V4L2Falls, CameraBounds DEF V4L2Inv, Cameras!V4L2!TypeOK, V4L2Places, V4L2Owner,
       V4L2Mapped, V4L2Lent, Cameras!V4L2!Opened, Cameras!V4L2!Indices, Cameras!V4L2!Stopped
<1>8. V4L2Returns
  BY V4L2Goes, V4L2Ends, V4L2Falls DEF V4L2Inv, V4L2Places, V4L2Owner, V4L2Returns, Cameras!V4L2!Returns,
       Cameras!V4L2!Quiet, Cameras!V4L2!State, Cameras!V4L2!After, Cameras!V4L2!Success
<1> QED BY <1>3, <1>4, <1>5, <1>6, <1>7, <1>8 DEF V4L2Inv

LEMMA V4L2Tick == ASSUME V4L2Inv, Cameras!V4L2!Tick PROVE V4L2Inv' /\ V4L2Returns
<1> USE DEF Cameras!V4L2!Tick, Cameras!V4L2!At, Cameras!V4L2!CloseAndReturn, Cameras!V4L2!adapter,
     Cameras!V4L2!clock, V4L2Closing, V4L2Reading, V4L2Leased
<1> camera_call \in V4L2Calls
  BY V4L2Type DEF V4L2Inv
<1>1. camera_call' \in V4L2Calls
  BY CameraBounds DEF V4L2Inv, V4L2Points, Cameras!V4L2!Outcomes, V4L2Places, V4L2Lent, V4L2Mapped,
       Cameras!V4L2!TypeOK
<1>2. V4L2Rest'
  BY CameraBounds DEF V4L2Inv, Cameras!V4L2!TypeOK, V4L2Rest, Cameras!V4L2!Indices, Cameras!V4L2!Stopped,
       Cameras!V4L2!Opened, V4L2Mapped, V4L2Lent
<1>3. Cameras!V4L2!TypeOK'
  BY <1>1, <1>2 DEF Cameras!V4L2!TypeOK, V4L2Rest, V4L2Calls, V4L2Points
<1>4. V4L2Places'
  BY DEF V4L2Inv, V4L2Places, V4L2Owner, Cameras!V4L2!State, V4L2Lent, Cameras!V4L2!Quiet
<1>5. V4L2Owner'
  BY DEF V4L2Inv, V4L2Places, V4L2Owner, V4L2Lent, Cameras!V4L2!State, Cameras!V4L2!Stopped
<1>6. V4L2Mapped'
  BY CameraBounds DEF V4L2Inv, Cameras!V4L2!TypeOK, V4L2Places, V4L2Owner, V4L2Mapped, V4L2Lent,
       Cameras!V4L2!Opened, Cameras!V4L2!Indices, Cameras!V4L2!Stopped
<1>7. V4L2Lent'
  BY CameraBounds DEF V4L2Inv, Cameras!V4L2!TypeOK, V4L2Places, V4L2Owner, V4L2Mapped, V4L2Lent,
       Cameras!V4L2!Opened, Cameras!V4L2!Indices, Cameras!V4L2!Stopped
<1>8. V4L2Returns
  BY DEF V4L2Inv, V4L2Places, V4L2Owner, V4L2Returns, Cameras!V4L2!Returns, Cameras!V4L2!Quiet,
       Cameras!V4L2!State, Cameras!V4L2!After, Cameras!V4L2!Success
<1> QED BY <1>3, <1>4, <1>5, <1>6, <1>7, <1>8 DEF V4L2Inv

LEMMA V4L2Dequeue == ASSUME V4L2Inv, Cameras!V4L2!Dequeue PROVE V4L2Inv' /\ V4L2Returns
<1> USE DEF V4L2Closing, V4L2Reading, V4L2Leased
<1>1. /\ camera_call.pc = "dequeue" /\ camera_call.op = "read" /\ camera_call.before = "streaming"
           /\ ~lease.active /\ streaming /\ fd /\ dirty
      /\ driver.on /\ driver.queued = Cameras!V4L2!Opened /\ count \in 2..MaxBuffers
           /\ mapped = Cameras!V4L2!Opened
      /\ driver \in [on : BOOLEAN, queued : SUBSET Cameras!V4L2!Indices]
  BY DEF Cameras!V4L2!Dequeue, Cameras!V4L2!At, V4L2Inv, V4L2Places, V4L2Lent, V4L2Owner, V4L2Mapped,
       Cameras!V4L2!TypeOK
<1>2. UNCHANGED <<fd, streaming, dirty, count, mapped, left, expiry>>
  BY DEF Cameras!V4L2!Dequeue, Cameras!V4L2!adapter, Cameras!V4L2!clock
<1>3. PICK i \in Cameras!V4L2!Opened : \E n \in {i, count} :
        /\ Cameras!V4L2!Consume(i)
        /\ IF Cameras!V4L2!BadIndex(n) THEN Cameras!V4L2!CloseAndReturn("failed") /\ UNCHANGED lease
           ELSE Cameras!V4L2!GoTo("leased") /\ lease' = [index |-> n, active |-> TRUE]
  BY <1>1 DEF Cameras!V4L2!Dequeue
<1>4. driver'.on /\ driver'.queued = Cameras!V4L2!Opened \ {i}
      /\ driver' \in [on : BOOLEAN, queued : SUBSET Cameras!V4L2!Indices]
  BY <1>1, <1>3 DEF Cameras!V4L2!Consume
<1>5. V4L2Mapped'
  <2>1. camera_call'.pc \in {"close", "leased"}
    BY <1>3, V4L2Type, V4L2Goes, V4L2Falls DEF V4L2Inv, Cameras!V4L2!CloseAndReturn
  <2> QED BY <1>1, <1>2, <1>4, <2>1, CameraBounds DEF V4L2Mapped, Cameras!V4L2!Opened
<1>6. CASE Cameras!V4L2!CloseAndReturn("failed") /\ UNCHANGED lease
  <2>1. /\ camera_call'.op = "read" /\ camera_call'.pc = "close" /\ camera_call'.before = camera_call.before
             /\ camera_call'.out = "failed"
        /\ camera_call' \in V4L2Calls
    BY <1>1, <1>6, V4L2Type, V4L2Falls DEF V4L2Inv, V4L2Points, Cameras!V4L2!Outcomes,
         Cameras!V4L2!CloseAndReturn
  <2>2. Cameras!V4L2!TypeOK'
    BY <1>2, <1>4, <1>6, <2>1 DEF V4L2Inv, Cameras!V4L2!TypeOK, V4L2Calls, V4L2Points, Cameras!V4L2!Indices
  <2>3. V4L2Places' /\ V4L2Owner' /\ V4L2Lent'
    BY <1>1, <1>2, <1>6, <2>1 DEF V4L2Places, V4L2Owner, V4L2Lent
  <2> QED BY <1>5, <2>1, <2>2, <2>3 DEF V4L2Inv, V4L2Returns, Cameras!V4L2!Returns, Cameras!V4L2!Quiet
<1>7. CASE Cameras!V4L2!GoTo("leased") /\ lease' = [index |-> i, active |-> TRUE]
  <2>1. /\ camera_call'.op = "read" /\ camera_call'.pc = "leased" /\ camera_call'.before = camera_call.before
             /\ camera_call' \in V4L2Calls
    BY <1>1, <1>7, V4L2Type, V4L2Goes DEF V4L2Inv, V4L2Points
  <2>2. V4L2Rest'
    <3>1. i \in Cameras!V4L2!Indices
      BY <1>1, CameraBounds DEF Cameras!V4L2!Opened, Cameras!V4L2!Indices
    <3> QED BY <1>2, <1>4, <1>7, <3>1 DEF V4L2Inv, Cameras!V4L2!TypeOK, V4L2Rest, Cameras!V4L2!Indices
  <2>3. Cameras!V4L2!TypeOK'
    BY <2>1, <2>2 DEF Cameras!V4L2!TypeOK, V4L2Rest, V4L2Calls, V4L2Points
  <2>4. V4L2Places' /\ V4L2Owner'
    BY <1>1, <1>2, <2>1 DEF V4L2Places, V4L2Owner
  <2>5. V4L2Lent'
    BY <1>1, <1>2, <1>4, <1>7, <2>1 DEF V4L2Lent, Cameras!V4L2!Opened
  <2> QED BY <1>5, <2>1, <2>3, <2>4, <2>5 DEF V4L2Inv, V4L2Returns, Cameras!V4L2!Returns, Cameras!V4L2!Quiet
<1> QED
  <2>1. i < count /\ count >= count
    BY <1>1, CameraBounds DEF Cameras!V4L2!Opened
  <2>2. ~Cameras!V4L2!BadIndex(i) /\ Cameras!V4L2!BadIndex(count)
    BY <2>1, <1>1, CameraBounds DEF Cameras!V4L2!BadIndex, Cameras!V4L2!Opened
  <2> QED BY <1>3, <1>6, <1>7, <2>2

LEMMA V4L2DequeueFails == ASSUME V4L2Inv, Cameras!V4L2!DequeueFails PROVE V4L2Inv' /\ V4L2Returns
<1> USE DEF Cameras!V4L2!DequeueFails, Cameras!V4L2!DequeueError, Cameras!V4L2!Consume, Cameras!V4L2!At,
     Cameras!V4L2!CloseAndReturn, Cameras!V4L2!adapter, Cameras!V4L2!clock, V4L2Closing, V4L2Reading,
     V4L2Leased
<1> camera_call \in V4L2Calls
  BY V4L2Type DEF V4L2Inv
<1>1. camera_call' \in V4L2Calls
  BY V4L2Goes, V4L2Falls, CameraBounds DEF V4L2Inv, V4L2Points, Cameras!V4L2!Outcomes, V4L2Places, V4L2Lent,
       V4L2Mapped, Cameras!V4L2!TypeOK
<1>2. V4L2Rest'
  BY CameraBounds DEF V4L2Inv, Cameras!V4L2!TypeOK, V4L2Rest, Cameras!V4L2!Indices, Cameras!V4L2!Stopped,
       Cameras!V4L2!Opened, V4L2Mapped, V4L2Lent
<1>3. Cameras!V4L2!TypeOK'
  BY <1>1, <1>2 DEF Cameras!V4L2!TypeOK, V4L2Rest, V4L2Calls, V4L2Points
<1>4. V4L2Places'
  BY V4L2Goes, V4L2Falls DEF V4L2Inv, V4L2Places, V4L2Owner, Cameras!V4L2!State, V4L2Lent, Cameras!V4L2!Quiet
<1>5. V4L2Owner'
  BY V4L2Goes, V4L2Falls DEF V4L2Inv, V4L2Places, V4L2Owner, V4L2Lent, Cameras!V4L2!State,
       Cameras!V4L2!Stopped
<1>6. V4L2Mapped'
  BY V4L2Goes, V4L2Falls, CameraBounds DEF V4L2Inv, Cameras!V4L2!TypeOK, V4L2Places, V4L2Owner, V4L2Mapped,
       V4L2Lent, Cameras!V4L2!Opened, Cameras!V4L2!Indices, Cameras!V4L2!Stopped
<1>7. V4L2Lent'
  BY V4L2Goes, V4L2Falls, CameraBounds DEF V4L2Inv, Cameras!V4L2!TypeOK, V4L2Places, V4L2Owner, V4L2Mapped,
       V4L2Lent, Cameras!V4L2!Opened, Cameras!V4L2!Indices, Cameras!V4L2!Stopped
<1>8. V4L2Returns
  BY V4L2Goes, V4L2Falls DEF V4L2Inv, V4L2Places, V4L2Owner, V4L2Returns, Cameras!V4L2!Returns,
       Cameras!V4L2!Quiet, Cameras!V4L2!State, Cameras!V4L2!After, Cameras!V4L2!Success
<1> QED BY <1>3, <1>4, <1>5, <1>6, <1>7, <1>8 DEF V4L2Inv

LEMMA V4L2Copy == ASSUME V4L2Inv, Cameras!V4L2!Copy PROVE V4L2Inv' /\ V4L2Returns
<1> USE DEF Cameras!V4L2!Copy, Cameras!V4L2!At, Cameras!V4L2!CloseAndReturn, Cameras!V4L2!adapter,
     Cameras!V4L2!clock, V4L2Closing, V4L2Reading, V4L2Leased
<1> camera_call \in V4L2Calls
  BY V4L2Type DEF V4L2Inv
<1>1. camera_call' \in V4L2Calls
  BY V4L2Goes, V4L2Falls, CameraBounds DEF V4L2Inv, V4L2Points, Cameras!V4L2!Outcomes, V4L2Places, V4L2Lent,
       V4L2Mapped, Cameras!V4L2!TypeOK
<1>2. V4L2Rest'
  BY CameraBounds DEF V4L2Inv, Cameras!V4L2!TypeOK, V4L2Rest, Cameras!V4L2!Indices, Cameras!V4L2!Stopped,
       Cameras!V4L2!Opened, V4L2Mapped, V4L2Lent
<1>3. Cameras!V4L2!TypeOK'
  BY <1>1, <1>2 DEF Cameras!V4L2!TypeOK, V4L2Rest, V4L2Calls, V4L2Points
<1>4. V4L2Places'
  BY V4L2Goes, V4L2Falls DEF V4L2Inv, V4L2Places, V4L2Owner, Cameras!V4L2!State, V4L2Lent, Cameras!V4L2!Quiet
<1>5. V4L2Owner'
  BY V4L2Goes, V4L2Falls DEF V4L2Inv, V4L2Places, V4L2Owner, V4L2Lent, Cameras!V4L2!State,
       Cameras!V4L2!Stopped
<1>6. V4L2Mapped'
  BY V4L2Goes, V4L2Falls, CameraBounds DEF V4L2Inv, Cameras!V4L2!TypeOK, V4L2Places, V4L2Owner, V4L2Mapped,
       V4L2Lent, Cameras!V4L2!Opened, Cameras!V4L2!Indices, Cameras!V4L2!Stopped
<1>7. V4L2Lent'
  BY V4L2Goes, V4L2Falls, CameraBounds DEF V4L2Inv, Cameras!V4L2!TypeOK, V4L2Places, V4L2Owner, V4L2Mapped,
       V4L2Lent, Cameras!V4L2!Opened, Cameras!V4L2!Indices, Cameras!V4L2!Stopped
<1>8. V4L2Returns
  BY V4L2Goes, V4L2Falls DEF V4L2Inv, V4L2Places, V4L2Owner, V4L2Returns, Cameras!V4L2!Returns,
       Cameras!V4L2!Quiet, Cameras!V4L2!State, Cameras!V4L2!After, Cameras!V4L2!Success
<1> QED BY <1>3, <1>4, <1>5, <1>6, <1>7, <1>8 DEF V4L2Inv

LEMMA V4L2Release ==
  ASSUME V4L2Inv, NEW place \in {"release", "unwind"}, Cameras!V4L2!Release(place)
  PROVE  V4L2Inv' /\ V4L2Returns
<1> USE DEF V4L2Closing, V4L2Reading, V4L2Leased
<1>1. /\ camera_call.pc = place /\ camera_call.op = "read" /\ camera_call.before = "streaming" /\ streaming
           /\ fd /\ dirty
      /\ (lease.active => lease.index \in Cameras!V4L2!Opened) /\ driver.on
      /\ driver.queued = Cameras!V4L2!Opened \ (IF lease.active THEN {lease.index} ELSE {})
      /\ (place = "release" => lease.active) /\ (place = "unwind" /\ lease.active => camera_call.out # "ok")
      /\ count \in 2..MaxBuffers /\ mapped = Cameras!V4L2!Opened
  BY DEF Cameras!V4L2!Release, Cameras!V4L2!At, V4L2Inv, V4L2Places, V4L2Lent, V4L2Owner, V4L2Mapped,
       Cameras!V4L2!TypeOK
<1>2. UNCHANGED <<fd, streaming, dirty, count, mapped, left, expiry>>
  BY DEF Cameras!V4L2!Release, Cameras!V4L2!adapter, Cameras!V4L2!clock
<1>3. lease \in [index : Cameras!V4L2!Indices, active : BOOLEAN]
      /\ driver \in [on : BOOLEAN, queued : SUBSET Cameras!V4L2!Indices]
      /\ camera_call.out \in Cameras!V4L2!Outcomes \cup {"none"}
           /\ Cameras!V4L2!Opened \subseteq Cameras!V4L2!Indices
  <2>1. camera_call.out \in Cameras!V4L2!Outcomes \cup {"none"}
    BY V4L2Type DEF V4L2Inv, V4L2Calls, Cameras!V4L2!CallType
  <2> QED BY <1>1, <2>1, CameraBounds DEF V4L2Inv, Cameras!V4L2!TypeOK, Cameras!V4L2!Opened,
       Cameras!V4L2!Indices
<1>4. ~lease'.active /\ lease' \in [index : Cameras!V4L2!Indices, active : BOOLEAN]
  BY <1>3 DEF Cameras!V4L2!Release, Cameras!V4L2!Releases
<1>5. /\ driver'.on = driver.on /\ driver' \in [on : BOOLEAN, queued : SUBSET Cameras!V4L2!Indices]
      /\ \/ driver'.queued = Cameras!V4L2!Opened
         \/ driver'.queued = driver.queued /\ camera_call'.pc = "close"
  <2>1. CASE lease.active /\ Cameras!V4L2!Queue(lease.index)
    BY <1>1, <1>3, <2>1 DEF Cameras!V4L2!Queue
  <2>2. CASE lease.active
        /\ Cameras!V4L2!CloseAndReturn(IF place = "release" THEN "failed" ELSE camera_call.out)
             /\ UNCHANGED driver
    BY <1>3, <2>2, V4L2Type, V4L2Falls DEF V4L2Inv, Cameras!V4L2!CloseAndReturn
  <2>3. CASE ~lease.active /\ UNCHANGED driver
    BY <1>1, <1>3, <2>3
  <2> QED BY <2>1, <2>2, <2>3 DEF Cameras!V4L2!Release, Cameras!V4L2!Releases
<1>6. /\ camera_call' \in V4L2Calls
      /\ \/ camera_call'.op = "none" /\ camera_call'.pc = "none"
         \/ camera_call'.op = "read" /\ camera_call'.pc = "unwind" /\ camera_call'.before = "streaming"
         \/ camera_call'.op = "read" /\ camera_call'.pc = "close" /\ camera_call'.before = "streaming"
              /\ camera_call'.out # "ok"
  <2>1. CASE Cameras!V4L2!GoTo("unwind")
    BY <1>1, <2>1, V4L2Type, V4L2Goes DEF V4L2Inv, V4L2Points
  <2>2. CASE Cameras!V4L2!Return(camera_call.out)
    BY <1>3, <2>2, V4L2Ends
  <2>3. CASE lease.active
        /\ Cameras!V4L2!CloseAndReturn(IF place = "release" THEN "failed" ELSE camera_call.out)
    <3>1. (IF place = "release" THEN "failed" ELSE camera_call.out) \in {"failed", "threw", "timeout", "none"}
      BY <1>1, <1>3, <2>3 DEF Cameras!V4L2!Outcomes
    <3>2. camera_call' \in V4L2Calls
      BY <1>3, <2>3, V4L2Type DEF Cameras!V4L2!CloseAndReturn, Cameras!V4L2!Fail, V4L2Inv, V4L2Calls,
           Cameras!V4L2!CallType, V4L2Points, Cameras!V4L2!Outcomes
    <3> QED BY <1>1, <2>3, <3>1, <3>2, V4L2Type, V4L2Falls DEF V4L2Inv, Cameras!V4L2!CloseAndReturn
  <2> QED BY <2>1, <2>2, <2>3 DEF Cameras!V4L2!Release, Cameras!V4L2!Releases
<1>7. Cameras!V4L2!TypeOK'
  BY <1>2, <1>4, <1>5, <1>6 DEF V4L2Inv, Cameras!V4L2!TypeOK, V4L2Calls, V4L2Points, Cameras!V4L2!Indices
<1>8. V4L2Places'
  BY <1>1, <1>2, <1>4, <1>6 DEF V4L2Places
<1>9. V4L2Owner'
  BY <1>1, <1>2, <1>6 DEF V4L2Owner
<1>10. V4L2Mapped'
  BY <1>1, <1>2, <1>5, <1>6 DEF V4L2Mapped, Cameras!V4L2!Opened
<1>11. V4L2Lent'
  BY <1>1, <1>2, <1>4, <1>5, <1>6 DEF V4L2Lent, Cameras!V4L2!Opened
<1>12. V4L2Returns
  BY <1>1, <1>2, <1>6 DEF V4L2Returns, Cameras!V4L2!Returns, Cameras!V4L2!Quiet, Cameras!V4L2!State,
       Cameras!V4L2!After, Cameras!V4L2!Success
<1> QED BY <1>7, <1>8, <1>9, <1>10, <1>11, <1>12 DEF V4L2Inv

LEMMA V4L2InitHolds == Cameras!V4L2!Init => V4L2Inv
<1> SUFFICES ASSUME Cameras!V4L2!Init PROVE V4L2Inv
  OBVIOUS
<1>1. camera_call.op = "none" /\ camera_call.pc = "none" /\ camera_call \in V4L2Calls
  BY CameraBounds DEF Cameras!V4L2!Init, Cameras!V4L2!Idle, V4L2Calls, Cameras!V4L2!CallType,
       Cameras!V4L2!States, Cameras!V4L2!Operations
<1>2. V4L2Rest
  <2>1. Cameras!V4L2!NoLease \in [index : Cameras!V4L2!Indices, active : BOOLEAN] /\ 0 \in 0..MaxBuffers
        /\ 0 \in 0..MaxCapture
    BY CameraBounds DEF Cameras!V4L2!NoLease, Cameras!V4L2!Indices
  <2> QED BY <2>1, V4L2Stopped DEF Cameras!V4L2!Init, V4L2Rest
<1>3. Cameras!V4L2!TypeOK
  BY <1>1, <1>2 DEF Cameras!V4L2!TypeOK, V4L2Rest, V4L2Calls, V4L2Points
<1>4. V4L2Places /\ V4L2Owner /\ V4L2Mapped /\ V4L2Lent
  BY <1>1 DEF Cameras!V4L2!Init, V4L2Places, V4L2Owner, V4L2Mapped, V4L2Lent, Cameras!V4L2!NoLease,
       Cameras!V4L2!Stopped, V4L2Closing, V4L2Reading, V4L2Leased
<1> QED BY <1>3, <1>4 DEF V4L2Inv

LEMMA V4L2StepKeeps == V4L2Inv /\ Cameras!V4L2!Next => V4L2Inv' /\ V4L2Returns
<1> SUFFICES ASSUME V4L2Inv, Cameras!V4L2!Next PROVE V4L2Inv' /\ V4L2Returns
  OBVIOUS
<1>1. CASE \E op \in Cameras!V4L2!Operations : Cameras!V4L2!Begin(op)
  BY <1>1, V4L2Begin
<1>2. CASE Cameras!V4L2!Step
  BY <1>2, V4L2CloseReset, V4L2CloseNative, V4L2Unmap, V4L2OpenDevice, V4L2OpenFails, V4L2OpenConfigure,
       V4L2MapBuffer,
     V4L2StartBegin, V4L2StartQueue, V4L2StreamOn, V4L2StartFails, V4L2Stop, V4L2ReadBegin, V4L2PollBegin, V4L2PollExpires,
     V4L2Dequeue, V4L2DequeueFails, V4L2Copy, V4L2Release DEF Cameras!V4L2!Step
<1>3. CASE Cameras!V4L2!PollEvent \/ Cameras!V4L2!Tick
  BY <1>3, V4L2PollEvent, V4L2Tick
<1> QED BY <1>1, <1>2, <1>3 DEF Cameras!V4L2!Next

LEMMA V4L2Sound == V4L2Inv => Cameras!V4L2!TypeOK /\ Cameras!V4L2!BuffersOwned /\ Cameras!V4L2!BetweenCalls
<1> SUFFICES ASSUME V4L2Inv PROVE Cameras!V4L2!TypeOK /\ Cameras!V4L2!BuffersOwned
      /\ Cameras!V4L2!BetweenCalls
  OBVIOUS
<1>1. Cameras!V4L2!BuffersOwned
  BY DEF Cameras!V4L2!BuffersOwned, V4L2Inv, V4L2Lent, V4L2Mapped, V4L2Owner, V4L2Closing, V4L2Leased,
       V4L2Reading
<1>2. ASSUME Cameras!V4L2!Quiet PROVE Cameras!V4L2!BetweenCalls
  <2>1. camera_call.pc = "none"
    BY <1>2 DEF Cameras!V4L2!Quiet, V4L2Inv, V4L2Places
  <2> QED BY <2>1 DEF Cameras!V4L2!BetweenCalls, Cameras!V4L2!WholeOrClosed, Cameras!V4L2!RestartClean,
       Cameras!V4L2!StreamKeepsBuffers, Cameras!V4L2!State, Cameras!V4L2!Stopped, V4L2Inv, V4L2Owner,
             V4L2Mapped, V4L2Lent, V4L2Closing, V4L2Reading, V4L2Leased
<1>3. ~Cameras!V4L2!Quiet => Cameras!V4L2!BetweenCalls
  BY DEF Cameras!V4L2!BetweenCalls, Cameras!V4L2!WholeOrClosed, Cameras!V4L2!RestartClean,
       Cameras!V4L2!StreamKeepsBuffers
<1> QED BY <1>1, <1>2, <1>3 DEF V4L2Inv

-----------------------------------------------------------------------------
(***************************************************************************)
(* The Windows adapter: what the reader owes, and what a stop has yet to   *)
(* take back of it.                                                        *)
(***************************************************************************)
WindowsFlushing == {"flush", "flushing", "giveup"}
WindowsReading == {"loop", "request", "wait"}

\* Where each operation can stand, on which path, and the state it found.
WindowsPlaces ==
  /\ camera_call.op = "none" <=> camera_call.pc = "none"
  /\ camera_call.pc = "begin" => camera_call.before = Cameras!Windows!State
  /\ camera_call.pc = "run" => camera_call.op = "start" /\ camera_call.before = "open" /\ direct /\ ~streaming
  /\ camera_call.pc = "halt" => camera_call.op \in {"start", "stop", "close"} /\ direct /\ ~streaming
  /\ camera_call.pc = "halt" /\ camera_call.op = "start" =>
       camera_call.before = "open" /\ camera_call.out # "ok"
  /\ camera_call.pc = "halt" /\ camera_call.op = "stop" => camera_call.before \in {"open", "streaming"}
  /\ camera_call.pc \in WindowsFlushing =>
       camera_call.op \in {"stop", "close"} /\ opened /\ ~direct /\ ~streaming
  /\ camera_call.pc \in WindowsFlushing /\ camera_call.op = "stop" => camera_call.before = "streaming"
  /\ camera_call.pc = "release" => camera_call.op = "close" /\ ~streaming
  /\ camera_call.pc \in WindowsReading =>
       camera_call.op = "read" /\ camera_call.before = "streaming" /\ streaming /\ ~direct
  /\ camera_call.pc = "grab" =>
       camera_call.op = "read" /\ camera_call.before = Cameras!Windows!State /\ direct

\* What a closed adapter and the other path keep: nothing.
WindowsPaths ==
  /\ streaming \/ direct \/ failed => opened
  /\ ~opened \/ direct =>
       callback = Cameras!Windows!NoCallback /\ reader = Cameras!Windows!NoReader /\ ~failed
  /\ ~direct => capture = Cameras!Windows!NoCapture

\* The graph pushes frames into an active slot.
WindowsCapture ==
  /\ capture.latest => capture.active
  /\ camera_call.pc = "run" => capture.active
  /\ direct /\ streaming => capture.active /\ capture.graph

\* The reader owes a sample exactly when one is in flight, and a stopped one has no
\* way to publish.
WindowsReader ==
  /\ ~streaming =>
       callback.sample = "none" /\ (reader.request = "none" \/ ~callback.accepting \/ callback.closed)
  /\ callback.sample # "none" => callback.age = "current" /\ reader.request = "none"
  /\ streaming /\ ~direct =>
       /\ callback.accepting /\ ~callback.closed /\ ~callback.flushing /\ ~failed
       /\ ~reader.flush /\ reader.request # "stale"
       /\ callback.inflight = (reader.request # "none" \/ camera_call.pc = "request")
  /\ camera_call.pc = "request" => reader.request = "none" /\ callback.sample = "none"

\* What a flush has yet to take back.
WindowsFlush ==
  /\ camera_call.pc \in WindowsFlushing => ~failed /\ ~callback.closed /\ ~callback.accepting
  /\ camera_call.pc = "flush" => callback.flushing /\ ~reader.flush
  /\ camera_call.pc \in {"flushing", "giveup"} /\ ~callback.flushing =>
       reader = Cameras!Windows!NoReader /\ ~callback.inflight
  /\ ~streaming /\ ~failed /\ camera_call.pc \notin WindowsFlushing =>
       reader = Cameras!Windows!NoReader /\ ~callback.inflight /\ ~callback.flushing /\ ~callback.closed

WindowsInv == Cameras!Windows!TypeOK /\ WindowsPlaces /\ WindowsPaths /\ WindowsCapture /\ WindowsReader
              /\ WindowsFlush

WindowsReturns ==
  Cameras!Windows!Returns =>
    Cameras!Windows!State' \in Cameras!Windows!After(camera_call.op, camera_call.before, camera_call'.out)

\* What a step does to the call.
WindowsPoints == {"run", "halt", "flush", "flushing", "giveup", "release", "loop", "request",
                  "wait", "grab"}
WindowsCalls == Cameras!Windows!CallType(WindowsPoints, {0})

WindowsFlags ==
  opened \in BOOLEAN /\ streaming \in BOOLEAN /\ failed \in BOOLEAN /\ direct \in BOOLEAN
  /\ late_flush \in BOOLEAN
WindowsRest ==
  /\ WindowsFlags
  /\ callback \in [accepting : BOOLEAN, flushing : BOOLEAN, closed : BOOLEAN, inflight : BOOLEAN,
                   sample : {"none", "frame", "tick", "error"}, age : Cameras!Windows!Ages]
  /\ reader \in [request : Cameras!Windows!Ages, flush : BOOLEAN]
  /\ capture \in [active : BOOLEAN, latest : BOOLEAN, failure : BOOLEAN, graph : BOOLEAN]

LEMMA WindowsType == Cameras!Windows!TypeOK <=> camera_call \in WindowsCalls /\ WindowsRest
  BY DEF Cameras!Windows!TypeOK, WindowsCalls, WindowsPoints, WindowsRest, WindowsFlags

LEMMA WindowsEnters ==
  ASSUME NEW op \in Cameras!Windows!Operations, NEW place \in WindowsPoints \cup {"none", "begin"},
         NEW state \in Cameras!Windows!States, Cameras!Windows!Enter(op, place, state)
  PROVE  /\ camera_call'.op = op /\ camera_call'.pc = place /\ camera_call'.i = 0
              /\ camera_call'.before = state /\ camera_call'.out = "ok"
         /\ camera_call' \in WindowsCalls
  BY DEF WindowsCalls, Cameras!Windows!CallType, Cameras!Windows!Enter, Cameras!Windows!Outcomes

LEMMA WindowsGoes ==
  ASSUME camera_call \in WindowsCalls, NEW place, Cameras!Windows!GoTo(place)
  PROVE  /\ camera_call'.op = camera_call.op /\ camera_call'.pc = place /\ camera_call'.i = camera_call.i
              /\ camera_call'.before = camera_call.before /\ camera_call'.out = camera_call.out
         /\ place \in WindowsPoints \cup {"none", "begin"} => camera_call' \in WindowsCalls
  BY DEF WindowsCalls, Cameras!Windows!CallType, Cameras!Windows!GoTo

LEMMA WindowsEnds ==
  ASSUME NEW out, Cameras!Windows!Return(out)
  PROVE  /\ camera_call'.op = "none" /\ camera_call'.pc = "none" /\ camera_call'.out = out
              /\ camera_call'.i = 0
         /\ out \in Cameras!Windows!Outcomes \cup {"none"} => camera_call' \in WindowsCalls
  BY DEF WindowsCalls, Cameras!Windows!CallType, Cameras!Windows!Return, Cameras!Windows!Idle,
       Cameras!Windows!States, Cameras!Windows!Operations

LEMMA WindowsFalls ==
  ASSUME camera_call \in WindowsCalls, NEW place, NEW out, Cameras!Windows!Fail(out, place)
  PROVE  /\ camera_call'.op = camera_call.op /\ camera_call'.pc = place /\ camera_call'.i = camera_call.i
              /\ camera_call'.before = camera_call.before /\ camera_call'.out = out
         /\ place \in WindowsPoints /\ out \in Cameras!Windows!Outcomes => camera_call' \in WindowsCalls
  BY DEF WindowsCalls, Cameras!Windows!CallType, Cameras!Windows!Fail

LEMMA WindowsBegin ==
  ASSUME WindowsInv, NEW op \in Cameras!Windows!Operations, Cameras!Windows!Begin(op)
  PROVE  WindowsInv' /\ WindowsReturns
<1> USE DEF WindowsFlushing, WindowsReading
<1>1. camera_call.op = "none" /\ camera_call.pc = "none"
  BY DEF Cameras!Windows!Begin, Cameras!Windows!Quiet, WindowsInv, WindowsPlaces
<1>2. /\ camera_call'.op = op /\ camera_call'.pc = "begin" /\ camera_call'.before = Cameras!Windows!State
           /\ camera_call'.out = "ok"
      /\ camera_call' \in WindowsCalls
  <2>1. Cameras!Windows!State \in Cameras!Windows!States
        /\ Cameras!Windows!Enter(op, "begin", Cameras!Windows!State)
    BY DEF Cameras!Windows!State, Cameras!Windows!States, Cameras!Windows!Begin
  <2> QED BY <2>1, WindowsEnters
<1>3. UNCHANGED <<opened, failed, direct, streaming, callback, reader, capture>> /\ late_flush' = FALSE
      /\ Cameras!Windows!State' = Cameras!Windows!State /\ op # "none"
  BY DEF Cameras!Windows!Begin, Cameras!Windows!State, Cameras!Windows!Operations
<1>4. Cameras!Windows!TypeOK'
  <2>1. WindowsRest'
    <3>1. WindowsRest
      BY WindowsType DEF WindowsInv
    <3>2. WindowsFlags'
      BY <1>3, <3>1 DEF WindowsRest, WindowsFlags
    <3> QED BY <1>3, <3>1, <3>2 DEF WindowsRest, Cameras!Windows!Ages
  <2> QED BY <1>2, <2>1 DEF Cameras!Windows!TypeOK, WindowsFlags, WindowsRest, WindowsCalls, WindowsPoints
<1>5. WindowsPlaces' /\ WindowsPaths'
  BY <1>1, <1>2, <1>3 DEF WindowsInv, WindowsPlaces, WindowsPaths, Cameras!Windows!NoCallback,
       Cameras!Windows!NoReader, Cameras!Windows!NoCapture
<1>6. WindowsCapture' /\ WindowsReader' /\ WindowsFlush'
  BY <1>1, <1>2, <1>3 DEF WindowsInv, WindowsCapture, WindowsReader, WindowsFlush, Cameras!Windows!NoReader
<1> QED BY <1>1, <1>4, <1>5, <1>6 DEF WindowsInv, WindowsReturns, Cameras!Windows!Returns,
     Cameras!Windows!Quiet

LEMMA WindowsOpen == ASSUME WindowsInv, Cameras!Windows!Open PROVE WindowsInv' /\ WindowsReturns
<1> USE DEF Cameras!Windows!Open, Cameras!Windows!At, Cameras!Windows!Stopping, Cameras!Windows!camera,
     WindowsFlushing, WindowsReading
<1> camera_call \in WindowsCalls
  BY WindowsType DEF WindowsInv
<1>1. camera_call' \in WindowsCalls
  BY WindowsEnds DEF WindowsInv, WindowsPoints, Cameras!Windows!Outcomes, WindowsPlaces,
       Cameras!Windows!TypeOK
<1>2. WindowsRest'
  <2>1. WindowsRest
    BY WindowsType DEF WindowsInv
  <2>2. WindowsFlags'
    BY <2>1 DEF WindowsRest, WindowsFlags
  <2> QED BY <2>1, <2>2 DEF WindowsRest
<1>3. Cameras!Windows!TypeOK'
  BY <1>1, <1>2 DEF Cameras!Windows!TypeOK, WindowsRest, WindowsCalls, WindowsPoints, WindowsFlags
<1>4. WindowsPlaces'
  BY WindowsEnds DEF WindowsInv, WindowsPlaces, WindowsPaths, Cameras!Windows!State, Cameras!Windows!Quiet
<1>5. WindowsPaths'
  BY WindowsEnds DEF WindowsInv, WindowsPlaces, WindowsPaths, WindowsCapture, WindowsReader, WindowsFlush,
       Cameras!Windows!TypeOK, Cameras!Windows!Quiet, Cameras!Windows!NoCallback, Cameras!Windows!NoReader,
       Cameras!Windows!NoCapture
<1>6. WindowsCapture'
  BY WindowsEnds DEF WindowsInv, WindowsPlaces, WindowsPaths, WindowsCapture, Cameras!Windows!TypeOK,
       Cameras!Windows!Quiet, Cameras!Windows!NoCapture
<1>7. WindowsReader'
  BY WindowsEnds DEF WindowsInv, WindowsPlaces, WindowsPaths, WindowsReader, WindowsFlush,
       Cameras!Windows!TypeOK, Cameras!Windows!Quiet, Cameras!Windows!NoCallback, Cameras!Windows!NoReader,
       Cameras!Windows!Ages, Cameras!Windows!Aged
<1>8. WindowsFlush'
  BY WindowsEnds DEF WindowsInv, WindowsPlaces, WindowsPaths, WindowsReader, WindowsFlush,
       Cameras!Windows!TypeOK, Cameras!Windows!Quiet, Cameras!Windows!NoCallback, Cameras!Windows!NoReader,
       Cameras!Windows!Ages
<1>9. WindowsReturns
  BY WindowsEnds DEF WindowsInv, WindowsPlaces, WindowsPaths, WindowsReturns, Cameras!Windows!Returns,
       Cameras!Windows!Quiet, Cameras!Windows!State, Cameras!Windows!After, Cameras!Windows!Success
<1> QED BY <1>3, <1>4, <1>5, <1>6, <1>7, <1>8, <1>9 DEF WindowsInv

LEMMA WindowsStart == ASSUME WindowsInv, Cameras!Windows!Start PROVE WindowsInv' /\ WindowsReturns
<1> USE DEF WindowsFlushing, WindowsReading
<1>1. camera_call.pc = "begin" /\ camera_call.op = "start" /\ camera_call.before = Cameras!Windows!State
      /\ camera_call \in WindowsCalls
  BY WindowsType DEF Cameras!Windows!Start, Cameras!Windows!At, WindowsInv, WindowsPlaces
<1>2. UNCHANGED <<opened, failed, direct, late_flush, reader>>
  BY DEF Cameras!Windows!Start, Cameras!Windows!camera
<1>3. CASE ~Cameras!Windows!MayStart
  <2>1. UNCHANGED <<streaming, callback, capture>>
    BY <1>3 DEF Cameras!Windows!Start
  <2>2. camera_call'.op = "none" /\ camera_call'.pc = "none" /\ camera_call'.out = "failed"
        /\ camera_call' \in WindowsCalls
    BY <1>3, WindowsEnds DEF Cameras!Windows!Start, Cameras!Windows!Outcomes
  <2>3. Cameras!Windows!TypeOK'
    BY <1>2, <2>1, <2>2 DEF WindowsInv, Cameras!Windows!TypeOK, WindowsCalls, WindowsPoints,
         Cameras!Windows!Ages
  <2>4. WindowsPlaces' /\ WindowsPaths' /\ WindowsCapture'
    BY <1>1, <1>2, <2>1, <2>2 DEF WindowsInv, WindowsPlaces, WindowsPaths, WindowsCapture,
         Cameras!Windows!NoCallback, Cameras!Windows!NoReader, Cameras!Windows!NoCapture
  <2>5. WindowsReader' /\ WindowsFlush'
    BY <1>1, <1>2, <2>1, <2>2 DEF WindowsInv, WindowsReader, WindowsFlush, Cameras!Windows!NoReader
  <2>6. WindowsReturns
    BY <1>1, <1>2, <2>1, <2>2 DEF WindowsReturns, Cameras!Windows!State, Cameras!Windows!After
  <2> QED BY <2>3, <2>4, <2>5, <2>6 DEF WindowsInv
<1>4. CASE Cameras!Windows!MayStart /\ direct
  <2>1. /\ UNCHANGED <<streaming, callback>>
        /\ capture' = [capture EXCEPT !.active = TRUE, !.latest = FALSE, !.failure = FALSE]
    BY <1>4 DEF Cameras!Windows!Start
  <2>2. camera_call'.op = "start" /\ camera_call'.pc = "run" /\ camera_call'.before = "open"
        /\ camera_call' \in WindowsCalls
    BY <1>1, <1>4, WindowsGoes DEF Cameras!Windows!Start, WindowsPoints, Cameras!Windows!MayStart,
         Cameras!Windows!State
  <2>3. /\ capture' \in [active : BOOLEAN, latest : BOOLEAN, failure : BOOLEAN, graph : BOOLEAN]
        /\ capture'.active /\ ~streaming'
    BY <1>4, <2>1 DEF WindowsInv, Cameras!Windows!TypeOK, Cameras!Windows!MayStart
  <2>4. Cameras!Windows!TypeOK'
    BY <1>2, <2>1, <2>2, <2>3 DEF WindowsInv, Cameras!Windows!TypeOK, WindowsCalls, WindowsPoints,
         Cameras!Windows!Ages
  <2>5. WindowsPlaces' /\ WindowsPaths' /\ WindowsCapture'
    BY <1>2, <1>4, <2>1, <2>2, <2>3 DEF WindowsInv, WindowsPlaces, WindowsPaths, WindowsCapture,
         Cameras!Windows!MayStart, Cameras!Windows!NoCallback, Cameras!Windows!NoReader
  <2>6. WindowsReader' /\ WindowsFlush'
    BY <1>1, <1>2, <1>4, <2>1, <2>2 DEF WindowsInv, WindowsReader, WindowsFlush, Cameras!Windows!NoReader
  <2> QED BY <2>2, <2>4, <2>5, <2>6 DEF WindowsInv, WindowsReturns, Cameras!Windows!Returns,
       Cameras!Windows!Quiet
<1>5. CASE Cameras!Windows!MayStart /\ ~direct
  <2>1. UNCHANGED capture /\ streaming' = TRUE
    BY <1>5 DEF Cameras!Windows!Start
  <2>2. camera_call'.op = "none" /\ camera_call'.pc = "none" /\ camera_call'.out = "ok"
        /\ camera_call' \in WindowsCalls
    BY <1>5, WindowsEnds DEF Cameras!Windows!Start, Cameras!Windows!Outcomes
  <2>3. reader = Cameras!Windows!NoReader
        /\ callback' = [Cameras!Windows!NoCallback EXCEPT !.accepting = TRUE] /\ ~failed /\ opened
    BY <1>1, <1>5 DEF Cameras!Windows!Start, Cameras!Windows!Reset, Cameras!Windows!MayStart, WindowsInv,
         WindowsFlush
  <2>4. Cameras!Windows!TypeOK'
    BY <1>2, <2>1, <2>2, <2>3 DEF WindowsInv, Cameras!Windows!TypeOK, WindowsCalls, WindowsPoints,
         Cameras!Windows!Ages, Cameras!Windows!NoCallback
  <2>5. WindowsPlaces' /\ WindowsPaths' /\ WindowsCapture'
    BY <1>1, <1>2, <1>5, <2>1, <2>2, <2>3 DEF WindowsInv, WindowsPlaces, WindowsPaths, WindowsCapture
  <2>6. WindowsReader' /\ WindowsFlush'
    BY <1>2, <2>1, <2>2, <2>3 DEF WindowsReader, WindowsFlush, Cameras!Windows!NoCallback,
         Cameras!Windows!NoReader
  <2>7. WindowsReturns
    BY <1>1, <1>2, <1>5, <2>1, <2>2 DEF WindowsReturns, Cameras!Windows!State, Cameras!Windows!After,
         Cameras!Windows!Success, Cameras!Windows!MayStart
  <2> QED BY <2>4, <2>5, <2>6, <2>7 DEF WindowsInv
<1> QED BY <1>3, <1>4, <1>5

LEMMA WindowsRun == ASSUME WindowsInv, Cameras!Windows!Run PROVE WindowsInv' /\ WindowsReturns
<1> USE DEF WindowsFlushing, WindowsReading
<1>1. camera_call.pc = "run" /\ camera_call.op = "start" /\ camera_call.before = "open" /\ direct /\ opened
      /\ ~streaming
      /\ capture.active
  BY DEF Cameras!Windows!Run, Cameras!Windows!At, WindowsInv, WindowsPlaces, WindowsPaths, WindowsCapture
<1>2. UNCHANGED <<opened, failed, direct, late_flush, callback, reader>>
  BY DEF Cameras!Windows!Run, Cameras!Windows!camera
<1>3. \/ /\ capture' = [capture EXCEPT !.graph = TRUE] /\ streaming' = TRUE
         /\ camera_call'.op = "none" /\ camera_call'.pc = "none" /\ camera_call'.out = "ok"
              /\ camera_call' \in WindowsCalls
      \/ /\ capture' = [capture EXCEPT !.active = FALSE, !.latest = FALSE] /\ UNCHANGED streaming
         /\ camera_call'.op = "start" /\ camera_call'.pc = "halt" /\ camera_call'.before = "open"
              /\ camera_call'.out = "failed" /\ camera_call' \in WindowsCalls
  BY <1>1, WindowsType, WindowsEnds, WindowsFalls DEF Cameras!Windows!Run, WindowsInv, WindowsPoints,
       Cameras!Windows!Outcomes
<1>4. /\ capture' \in [active : BOOLEAN, latest : BOOLEAN, failure : BOOLEAN, graph : BOOLEAN]
      /\ capture'.latest => capture'.active
      /\ streaming' => capture'.active /\ capture'.graph
  <2>1. capture \in [active : BOOLEAN, latest : BOOLEAN, failure : BOOLEAN, graph : BOOLEAN]
        /\ streaming = FALSE
    BY <1>1, WindowsType DEF WindowsInv, WindowsRest, WindowsFlags
  <2> QED BY <1>1, <1>3, <2>1 DEF WindowsInv, WindowsCapture
<1>5. Cameras!Windows!TypeOK'
  <2>1. WindowsRest'
    <3>1. WindowsRest
      BY WindowsType DEF WindowsInv
    <3>2. WindowsFlags'
      BY <1>2, <1>3, <3>1 DEF WindowsRest, WindowsFlags
    <3> QED BY <1>2, <1>4, <3>1, <3>2 DEF WindowsRest, Cameras!Windows!Ages
  <2> QED BY <1>3, <2>1 DEF Cameras!Windows!TypeOK, WindowsRest, WindowsFlags, WindowsCalls, WindowsPoints
<1>6. WindowsPlaces' /\ WindowsPaths'
  BY <1>1, <1>2, <1>3 DEF WindowsInv, WindowsPlaces, WindowsPaths, Cameras!Windows!NoCallback,
       Cameras!Windows!NoReader
<1>7. WindowsCapture' /\ WindowsReader' /\ WindowsFlush'
  BY <1>1, <1>2, <1>3, <1>4 DEF WindowsInv, WindowsPaths, WindowsCapture, WindowsReader, WindowsFlush,
       Cameras!Windows!NoCallback, Cameras!Windows!NoReader
<1>8. WindowsReturns
  BY <1>1, <1>2, <1>3 DEF WindowsReturns, Cameras!Windows!Returns, Cameras!Windows!Quiet,
       Cameras!Windows!State, Cameras!Windows!After, Cameras!Windows!Success
<1> QED BY <1>5, <1>6, <1>7, <1>8 DEF WindowsInv

LEMMA WindowsStopIdle == ASSUME WindowsInv, Cameras!Windows!StopIdle PROVE WindowsInv' /\ WindowsReturns
<1> USE DEF Cameras!Windows!StopIdle, Cameras!Windows!AfterStop, Cameras!Windows!At, Cameras!Windows!Stopping,
     Cameras!Windows!camera, WindowsFlushing, WindowsReading
<1> camera_call \in WindowsCalls
  BY WindowsType DEF WindowsInv
<1>1. camera_call' \in WindowsCalls
  BY WindowsGoes, WindowsEnds DEF WindowsInv, WindowsPoints, Cameras!Windows!Outcomes, WindowsPlaces,
       Cameras!Windows!TypeOK
<1>2. WindowsRest'
  BY DEF WindowsInv, Cameras!Windows!TypeOK, WindowsRest, WindowsFlags, Cameras!Windows!Ages,
       Cameras!Windows!Aged, Cameras!Windows!NoCallback, Cameras!Windows!NoReader, Cameras!Windows!NoCapture
<1>3. Cameras!Windows!TypeOK'
  BY <1>1, <1>2 DEF Cameras!Windows!TypeOK, WindowsRest, WindowsCalls, WindowsPoints, WindowsFlags
<1>4. WindowsPlaces'
  BY WindowsGoes, WindowsEnds DEF WindowsInv, WindowsPlaces, WindowsPaths, Cameras!Windows!State,
       Cameras!Windows!Quiet
<1>5. WindowsPaths'
  BY WindowsGoes, WindowsEnds DEF WindowsInv, WindowsPlaces, WindowsPaths, WindowsCapture, WindowsReader,
       WindowsFlush, Cameras!Windows!TypeOK, Cameras!Windows!Quiet, Cameras!Windows!NoCallback,
       Cameras!Windows!NoReader, Cameras!Windows!NoCapture
<1>6. WindowsCapture'
  BY WindowsGoes, WindowsEnds DEF WindowsInv, WindowsPlaces, WindowsPaths, WindowsCapture,
       Cameras!Windows!TypeOK, Cameras!Windows!Quiet, Cameras!Windows!NoCapture
<1>7. WindowsReader'
  BY WindowsGoes, WindowsEnds DEF WindowsInv, WindowsPlaces, WindowsPaths, WindowsReader, WindowsFlush,
       Cameras!Windows!TypeOK, Cameras!Windows!Quiet, Cameras!Windows!NoCallback, Cameras!Windows!NoReader,
       Cameras!Windows!Ages, Cameras!Windows!Aged
<1>8. WindowsFlush'
  BY WindowsGoes, WindowsEnds DEF WindowsInv, WindowsPlaces, WindowsPaths, WindowsReader, WindowsFlush,
       Cameras!Windows!TypeOK, Cameras!Windows!Quiet, Cameras!Windows!NoCallback, Cameras!Windows!NoReader,
       Cameras!Windows!Ages
<1>9. WindowsReturns
  BY WindowsGoes, WindowsEnds DEF WindowsInv, WindowsPlaces, WindowsPaths, WindowsReturns,
       Cameras!Windows!Returns, Cameras!Windows!Quiet, Cameras!Windows!State, Cameras!Windows!After,
       Cameras!Windows!Success
<1> QED BY <1>3, <1>4, <1>5, <1>6, <1>7, <1>8, <1>9 DEF WindowsInv

LEMMA WindowsStopCapture == ASSUME WindowsInv, Cameras!Windows!StopCapture PROVE WindowsInv' /\ WindowsReturns
<1> USE DEF Cameras!Windows!StopCapture, Cameras!Windows!At, Cameras!Windows!Stopping, Cameras!Windows!camera,
     WindowsFlushing, WindowsReading
<1> camera_call \in WindowsCalls
  BY WindowsType DEF WindowsInv
<1>1. camera_call' \in WindowsCalls
  BY WindowsGoes DEF WindowsInv, WindowsPoints, Cameras!Windows!Outcomes, WindowsPlaces,
       Cameras!Windows!TypeOK
<1>2. WindowsRest'
  <2>1. WindowsRest
    BY WindowsType DEF WindowsInv
  <2>2. WindowsFlags'
    BY <2>1 DEF WindowsRest, WindowsFlags
  <2>3. capture' \in [active : BOOLEAN, latest : BOOLEAN, failure : BOOLEAN, graph : BOOLEAN]
    BY <2>1 DEF WindowsRest
  <2> QED BY <2>1, <2>2, <2>3 DEF WindowsRest
<1>3. Cameras!Windows!TypeOK'
  BY <1>1, <1>2 DEF Cameras!Windows!TypeOK, WindowsRest, WindowsCalls, WindowsPoints, WindowsFlags
<1>4. WindowsPlaces'
  BY WindowsGoes DEF WindowsInv, WindowsPlaces, WindowsPaths, Cameras!Windows!State, Cameras!Windows!Quiet
<1>5. WindowsPaths'
  BY WindowsGoes DEF WindowsInv, WindowsPlaces, WindowsPaths, WindowsCapture, WindowsReader, WindowsFlush,
       Cameras!Windows!TypeOK, Cameras!Windows!Quiet, Cameras!Windows!NoCallback, Cameras!Windows!NoReader,
       Cameras!Windows!NoCapture
<1>6. WindowsCapture'
  BY WindowsGoes DEF WindowsInv, WindowsPlaces, WindowsPaths, WindowsCapture, Cameras!Windows!TypeOK,
       Cameras!Windows!Quiet, Cameras!Windows!NoCapture
<1>7. WindowsReader'
  BY WindowsGoes DEF WindowsInv, WindowsPlaces, WindowsPaths, WindowsReader, WindowsFlush,
       Cameras!Windows!TypeOK, Cameras!Windows!Quiet, Cameras!Windows!NoCallback, Cameras!Windows!NoReader,
       Cameras!Windows!Ages, Cameras!Windows!Aged
<1>8. WindowsFlush'
  BY WindowsGoes DEF WindowsInv, WindowsPlaces, WindowsPaths, WindowsReader, WindowsFlush,
       Cameras!Windows!TypeOK, Cameras!Windows!Quiet, Cameras!Windows!NoCallback, Cameras!Windows!NoReader,
       Cameras!Windows!Ages
<1>9. WindowsReturns
  BY WindowsGoes DEF WindowsInv, WindowsPlaces, WindowsPaths, WindowsReturns, Cameras!Windows!Returns,
       Cameras!Windows!Quiet, Cameras!Windows!State, Cameras!Windows!After, Cameras!Windows!Success
<1> QED BY <1>3, <1>4, <1>5, <1>6, <1>7, <1>8, <1>9 DEF WindowsInv

LEMMA WindowsHalt == ASSUME WindowsInv, Cameras!Windows!Halt PROVE WindowsInv' /\ WindowsReturns
<1> USE DEF WindowsFlushing, WindowsReading
<1>1. camera_call.pc = "halt" /\ camera_call.op \in {"start", "stop", "close"} /\ direct /\ opened
      /\ ~streaming
      /\ callback = Cameras!Windows!NoCallback /\ reader = Cameras!Windows!NoReader /\ ~failed
           /\ camera_call \in WindowsCalls
      /\ (camera_call.op = "start" => camera_call.before = "open" /\ camera_call.out # "ok")
      /\ (camera_call.op = "stop" => camera_call.before \in {"open", "streaming"})
  BY WindowsType DEF Cameras!Windows!Halt, WindowsInv, WindowsPlaces, WindowsPaths
<1>2. UNCHANGED <<opened, failed, direct, late_flush, streaming, callback, reader>>
  BY DEF Cameras!Windows!Halt, Cameras!Windows!camera
<1>3. /\ capture' \in [active : BOOLEAN, latest : BOOLEAN, failure : BOOLEAN, graph : BOOLEAN]
      /\ capture'.latest => capture'.active
  <2>1. capture \in [active : BOOLEAN, latest : BOOLEAN, failure : BOOLEAN, graph : BOOLEAN]
        /\ (capture.latest => capture.active)
    BY WindowsType DEF WindowsInv, WindowsRest, WindowsFlags, WindowsCapture
  <2>2. capture' = capture \/ capture' = [capture EXCEPT !.graph = FALSE]
    BY DEF Cameras!Windows!Halt
  <2> QED BY <2>1, <2>2
<1>4. /\ camera_call' \in WindowsCalls
      /\ \/ camera_call.op = "close" /\ camera_call'.op = "close" /\ camera_call'.pc = "release"
         \/ /\ camera_call'.op = "none" /\ camera_call'.pc = "none"
            /\ ((camera_call.op = "start" /\ camera_call'.out # "ok") \/ camera_call.op = "stop")
  <2>1. CASE Cameras!Windows!Return(camera_call.out) /\ camera_call.op = "start"
    <3>1. camera_call.out \in Cameras!Windows!Outcomes \cup {"none"}
      BY <1>1 DEF WindowsCalls, Cameras!Windows!CallType
    <3> QED BY <1>1, <2>1, <3>1, WindowsEnds
  <2>2. CASE Cameras!Windows!GoTo("release") /\ camera_call.op = "close"
    BY <1>1, <2>2, WindowsGoes DEF WindowsPoints
  <2>3. CASE (Cameras!Windows!Return("ok") \/ Cameras!Windows!Return("failed")) /\ camera_call.op = "stop"
    BY <2>3, WindowsEnds DEF Cameras!Windows!Outcomes
  <2> QED BY <1>1, <2>1, <2>2, <2>3 DEF Cameras!Windows!Halt, Cameras!Windows!AfterStop
<1>5. Cameras!Windows!TypeOK'
  <2>1. WindowsRest'
    BY <1>2, <1>3, WindowsType DEF WindowsInv, WindowsRest, WindowsFlags, Cameras!Windows!Ages
  <2> QED BY <1>4, <2>1 DEF Cameras!Windows!TypeOK, WindowsRest, WindowsFlags, WindowsCalls, WindowsPoints
<1>6. WindowsPlaces' /\ WindowsPaths'
  BY <1>1, <1>2, <1>4 DEF WindowsPlaces, WindowsPaths, Cameras!Windows!NoCallback, Cameras!Windows!NoReader
<1>7. WindowsCapture' /\ WindowsReader' /\ WindowsFlush'
  BY <1>1, <1>2, <1>3, <1>4 DEF WindowsCapture, WindowsReader, WindowsFlush, Cameras!Windows!NoCallback,
       Cameras!Windows!NoReader
<1>8. WindowsReturns
  BY <1>1, <1>2, <1>4 DEF WindowsReturns, Cameras!Windows!Returns, Cameras!Windows!Quiet,
       Cameras!Windows!State, Cameras!Windows!After, Cameras!Windows!Success
<1> QED BY <1>5, <1>6, <1>7, <1>8 DEF WindowsInv

LEMMA WindowsStopReader == ASSUME WindowsInv, Cameras!Windows!StopReader PROVE WindowsInv' /\ WindowsReturns
<1> USE DEF WindowsFlushing, WindowsReading
<1>1. /\ camera_call.pc = "begin" /\ camera_call.op \in {"stop", "close"} /\ camera_call.before = "streaming"
           /\ ~direct /\ opened /\ streaming
      /\ ~callback.closed /\ ~failed /\ ~reader.flush /\ capture = Cameras!Windows!NoCapture
           /\ camera_call \in WindowsCalls
  BY WindowsType DEF Cameras!Windows!StopReader, Cameras!Windows!Stopping, WindowsInv, WindowsPlaces,
       WindowsPaths, WindowsReader, Cameras!Windows!State
<1>2. /\ UNCHANGED <<opened, direct, late_flush, capture, failed>> /\ streaming' = FALSE
      /\ reader' = [reader EXCEPT !.request = Cameras!Windows!Aged(@)]
      /\ callback' = [callback EXCEPT !.accepting = FALSE, !.sample = "none", !.age = "none", !.flushing = TRUE]
      /\ Cameras!Windows!GoTo("flush")
  BY <1>1 DEF Cameras!Windows!StopReader, Cameras!Windows!Gate
<1>3. camera_call'.op = camera_call.op /\ camera_call'.pc = "flush" /\ camera_call'.before = "streaming"
      /\ camera_call' \in WindowsCalls
  BY <1>1, <1>2, WindowsGoes DEF WindowsPoints
<1>4. /\ ~callback'.accepting /\ callback'.sample = "none" /\ callback'.flushing /\ ~callback'.closed
      /\ ~reader'.flush
  BY <1>1, <1>2, WindowsType DEF WindowsInv, WindowsRest, WindowsFlags
<1>5. Cameras!Windows!TypeOK'
  <2>1. WindowsRest'
    BY <1>2, WindowsType DEF WindowsInv, WindowsRest, WindowsFlags, Cameras!Windows!Ages, Cameras!Windows!Aged
  <2> QED BY <1>3, <2>1 DEF Cameras!Windows!TypeOK, WindowsRest, WindowsFlags, WindowsCalls, WindowsPoints
<1>6. WindowsPlaces' /\ WindowsPaths' /\ WindowsCapture'
  BY <1>1, <1>2, <1>3 DEF WindowsPlaces, WindowsPaths, WindowsCapture, Cameras!Windows!NoCapture
<1>7. WindowsReader' /\ WindowsFlush'
  BY <1>1, <1>2, <1>3, <1>4 DEF WindowsReader, WindowsFlush
<1> QED BY <1>1, <1>3, <1>5, <1>6, <1>7 DEF WindowsInv, WindowsReturns, Cameras!Windows!Returns,
     Cameras!Windows!Quiet

LEMMA WindowsFlushFails == ASSUME WindowsInv, Cameras!Windows!FlushFails PROVE WindowsInv' /\ WindowsReturns
<1> USE DEF Cameras!Windows!FlushFails, Cameras!Windows!AfterStop, Cameras!Windows!Closed, Cameras!Windows!At,
     Cameras!Windows!Stopping, Cameras!Windows!camera, WindowsFlushing, WindowsReading
<1> camera_call \in WindowsCalls
  BY WindowsType DEF WindowsInv
<1>1. camera_call' \in WindowsCalls
  BY WindowsGoes, WindowsEnds DEF WindowsInv, WindowsPoints, Cameras!Windows!Outcomes, WindowsPlaces,
       Cameras!Windows!TypeOK
<1>2. WindowsRest'
  BY DEF WindowsInv, Cameras!Windows!TypeOK, WindowsRest, WindowsFlags, Cameras!Windows!Ages,
       Cameras!Windows!Aged, Cameras!Windows!NoCallback, Cameras!Windows!NoReader, Cameras!Windows!NoCapture
<1>3. Cameras!Windows!TypeOK'
  BY <1>1, <1>2 DEF Cameras!Windows!TypeOK, WindowsRest, WindowsCalls, WindowsPoints, WindowsFlags
<1>4. WindowsPlaces'
  BY WindowsGoes, WindowsEnds DEF WindowsInv, WindowsPlaces, WindowsPaths, Cameras!Windows!State,
       Cameras!Windows!Quiet
<1>5. WindowsPaths'
  BY WindowsGoes, WindowsEnds DEF WindowsInv, WindowsPlaces, WindowsPaths, WindowsCapture, WindowsReader,
       WindowsFlush, Cameras!Windows!TypeOK, Cameras!Windows!Quiet, Cameras!Windows!NoCallback,
       Cameras!Windows!NoReader, Cameras!Windows!NoCapture
<1>6. WindowsCapture'
  BY WindowsGoes, WindowsEnds DEF WindowsInv, WindowsPlaces, WindowsPaths, WindowsCapture,
       Cameras!Windows!TypeOK, Cameras!Windows!Quiet, Cameras!Windows!NoCapture
<1>7. WindowsReader'
  BY WindowsGoes, WindowsEnds DEF WindowsInv, WindowsPlaces, WindowsPaths, WindowsReader, WindowsFlush,
       Cameras!Windows!TypeOK, Cameras!Windows!Quiet, Cameras!Windows!NoCallback, Cameras!Windows!NoReader,
       Cameras!Windows!Ages, Cameras!Windows!Aged
<1>8. WindowsFlush'
  BY WindowsGoes, WindowsEnds DEF WindowsInv, WindowsPlaces, WindowsPaths, WindowsReader, WindowsFlush,
       Cameras!Windows!TypeOK, Cameras!Windows!Quiet, Cameras!Windows!NoCallback, Cameras!Windows!NoReader,
       Cameras!Windows!Ages
<1>9. WindowsReturns
  BY WindowsGoes, WindowsEnds DEF WindowsInv, WindowsPlaces, WindowsPaths, WindowsReturns,
       Cameras!Windows!Returns, Cameras!Windows!Quiet, Cameras!Windows!State, Cameras!Windows!After,
       Cameras!Windows!Success
<1> QED BY <1>3, <1>4, <1>5, <1>6, <1>7, <1>8, <1>9 DEF WindowsInv

LEMMA WindowsFlushBegins == ASSUME WindowsInv, Cameras!Windows!FlushBegins PROVE WindowsInv' /\ WindowsReturns
<1> USE DEF Cameras!Windows!FlushBegins, Cameras!Windows!At, Cameras!Windows!Stopping, Cameras!Windows!camera,
     WindowsFlushing, WindowsReading
<1> camera_call \in WindowsCalls
  BY WindowsType DEF WindowsInv
<1>1. camera_call' \in WindowsCalls
  BY WindowsGoes DEF WindowsInv, WindowsPoints, Cameras!Windows!Outcomes, WindowsPlaces,
       Cameras!Windows!TypeOK
<1>2. WindowsRest'
  BY DEF WindowsInv, Cameras!Windows!TypeOK, WindowsRest, WindowsFlags, Cameras!Windows!Ages,
       Cameras!Windows!Aged, Cameras!Windows!NoCallback, Cameras!Windows!NoReader, Cameras!Windows!NoCapture
<1>3. Cameras!Windows!TypeOK'
  BY <1>1, <1>2 DEF Cameras!Windows!TypeOK, WindowsRest, WindowsCalls, WindowsPoints, WindowsFlags
<1>4. WindowsPlaces'
  BY WindowsGoes DEF WindowsInv, WindowsPlaces, WindowsPaths, Cameras!Windows!State, Cameras!Windows!Quiet
<1>5. WindowsPaths'
  BY WindowsGoes DEF WindowsInv, WindowsPlaces, WindowsPaths, WindowsCapture, WindowsReader, WindowsFlush,
       Cameras!Windows!TypeOK, Cameras!Windows!Quiet, Cameras!Windows!NoCallback, Cameras!Windows!NoReader,
       Cameras!Windows!NoCapture
<1>6. WindowsCapture'
  BY WindowsGoes DEF WindowsInv, WindowsPlaces, WindowsPaths, WindowsCapture, Cameras!Windows!TypeOK,
       Cameras!Windows!Quiet, Cameras!Windows!NoCapture
<1>7. WindowsReader'
  BY WindowsGoes DEF WindowsInv, WindowsPlaces, WindowsPaths, WindowsReader, WindowsFlush,
       Cameras!Windows!TypeOK, Cameras!Windows!Quiet, Cameras!Windows!NoCallback, Cameras!Windows!NoReader,
       Cameras!Windows!Ages, Cameras!Windows!Aged
<1>8. WindowsFlush'
  BY WindowsGoes DEF WindowsInv, WindowsPlaces, WindowsPaths, WindowsReader, WindowsFlush,
       Cameras!Windows!TypeOK, Cameras!Windows!Quiet, Cameras!Windows!NoCallback, Cameras!Windows!NoReader,
       Cameras!Windows!Ages
<1>9. WindowsReturns
  BY WindowsGoes DEF WindowsInv, WindowsPlaces, WindowsPaths, WindowsReturns, Cameras!Windows!Returns,
       Cameras!Windows!Quiet, Cameras!Windows!State, Cameras!Windows!After, Cameras!Windows!Success
<1> QED BY <1>3, <1>4, <1>5, <1>6, <1>7, <1>8, <1>9 DEF WindowsInv

LEMMA WindowsFlushed == ASSUME WindowsInv, Cameras!Windows!Flushed PROVE WindowsInv' /\ WindowsReturns
<1> USE DEF Cameras!Windows!Flushed, Cameras!Windows!AfterStop, Cameras!Windows!FlushEnds, Cameras!Windows!At,
     Cameras!Windows!Stopping, Cameras!Windows!camera, WindowsFlushing, WindowsReading
<1> camera_call \in WindowsCalls
  BY WindowsType DEF WindowsInv
<1>1. camera_call' \in WindowsCalls
  BY WindowsGoes, WindowsEnds DEF WindowsInv, WindowsPoints, Cameras!Windows!Outcomes, WindowsPlaces,
       Cameras!Windows!TypeOK
<1>2. WindowsRest'
  BY DEF WindowsInv, Cameras!Windows!TypeOK, WindowsRest, WindowsFlags, Cameras!Windows!Ages,
       Cameras!Windows!Aged, Cameras!Windows!NoCallback, Cameras!Windows!NoReader, Cameras!Windows!NoCapture
<1>3. Cameras!Windows!TypeOK'
  BY <1>1, <1>2 DEF Cameras!Windows!TypeOK, WindowsRest, WindowsCalls, WindowsPoints, WindowsFlags
<1>4. WindowsPlaces'
  BY WindowsGoes, WindowsEnds DEF WindowsInv, WindowsPlaces, WindowsPaths, Cameras!Windows!State,
       Cameras!Windows!Quiet
<1>5. WindowsPaths'
  BY WindowsGoes, WindowsEnds DEF WindowsInv, WindowsPlaces, WindowsPaths, WindowsCapture, WindowsReader,
       WindowsFlush, Cameras!Windows!TypeOK, Cameras!Windows!Quiet, Cameras!Windows!NoCallback,
       Cameras!Windows!NoReader, Cameras!Windows!NoCapture
<1>6. WindowsCapture'
  BY WindowsGoes, WindowsEnds DEF WindowsInv, WindowsPlaces, WindowsPaths, WindowsCapture,
       Cameras!Windows!TypeOK, Cameras!Windows!Quiet, Cameras!Windows!NoCapture
<1>7. WindowsReader'
  BY WindowsGoes, WindowsEnds DEF WindowsInv, WindowsPlaces, WindowsPaths, WindowsReader, WindowsFlush,
       Cameras!Windows!TypeOK, Cameras!Windows!Quiet, Cameras!Windows!NoCallback, Cameras!Windows!NoReader,
       Cameras!Windows!Ages, Cameras!Windows!Aged
<1>8. WindowsFlush'
  BY WindowsGoes, WindowsEnds DEF WindowsInv, WindowsPlaces, WindowsPaths, WindowsReader, WindowsFlush,
       Cameras!Windows!TypeOK, Cameras!Windows!Quiet, Cameras!Windows!NoCallback, Cameras!Windows!NoReader,
       Cameras!Windows!Ages
<1>9. WindowsReturns
  BY WindowsGoes, WindowsEnds DEF WindowsInv, WindowsPlaces, WindowsPaths, WindowsReturns,
       Cameras!Windows!Returns, Cameras!Windows!Quiet, Cameras!Windows!State, Cameras!Windows!After,
       Cameras!Windows!Success
<1> QED BY <1>3, <1>4, <1>5, <1>6, <1>7, <1>8, <1>9 DEF WindowsInv

LEMMA WindowsFlushTimesOut ==
  ASSUME WindowsInv, Cameras!Windows!FlushTimesOut
  PROVE  WindowsInv' /\ WindowsReturns
<1> USE DEF Cameras!Windows!FlushTimesOut, Cameras!Windows!At, Cameras!Windows!Stopping,
     Cameras!Windows!camera, WindowsFlushing, WindowsReading
<1> camera_call \in WindowsCalls
  BY WindowsType DEF WindowsInv
<1>1. camera_call' \in WindowsCalls
  BY WindowsGoes DEF WindowsInv, WindowsPoints, Cameras!Windows!Outcomes, WindowsPlaces,
       Cameras!Windows!TypeOK
<1>2. WindowsRest'
  BY DEF WindowsInv, Cameras!Windows!TypeOK, WindowsRest, WindowsFlags, Cameras!Windows!Ages,
       Cameras!Windows!Aged, Cameras!Windows!NoCallback, Cameras!Windows!NoReader, Cameras!Windows!NoCapture
<1>3. Cameras!Windows!TypeOK'
  BY <1>1, <1>2 DEF Cameras!Windows!TypeOK, WindowsRest, WindowsCalls, WindowsPoints, WindowsFlags
<1>4. WindowsPlaces'
  BY WindowsGoes DEF WindowsInv, WindowsPlaces, WindowsPaths, Cameras!Windows!State, Cameras!Windows!Quiet
<1>5. WindowsPaths'
  BY WindowsGoes DEF WindowsInv, WindowsPlaces, WindowsPaths, WindowsCapture, WindowsReader, WindowsFlush,
       Cameras!Windows!TypeOK, Cameras!Windows!Quiet, Cameras!Windows!NoCallback, Cameras!Windows!NoReader,
       Cameras!Windows!NoCapture
<1>6. WindowsCapture'
  BY WindowsGoes DEF WindowsInv, WindowsPlaces, WindowsPaths, WindowsCapture, Cameras!Windows!TypeOK,
       Cameras!Windows!Quiet, Cameras!Windows!NoCapture
<1>7. WindowsReader'
  BY WindowsGoes DEF WindowsInv, WindowsPlaces, WindowsPaths, WindowsReader, WindowsFlush,
       Cameras!Windows!TypeOK, Cameras!Windows!Quiet, Cameras!Windows!NoCallback, Cameras!Windows!NoReader,
       Cameras!Windows!Ages, Cameras!Windows!Aged
<1>8. WindowsFlush'
  BY WindowsGoes DEF WindowsInv, WindowsPlaces, WindowsPaths, WindowsReader, WindowsFlush,
       Cameras!Windows!TypeOK, Cameras!Windows!Quiet, Cameras!Windows!NoCallback, Cameras!Windows!NoReader,
       Cameras!Windows!Ages
<1>9. WindowsReturns
  BY WindowsGoes DEF WindowsInv, WindowsPlaces, WindowsPaths, WindowsReturns, Cameras!Windows!Returns,
       Cameras!Windows!Quiet, Cameras!Windows!State, Cameras!Windows!After, Cameras!Windows!Success
<1> QED BY <1>3, <1>4, <1>5, <1>6, <1>7, <1>8, <1>9 DEF WindowsInv

LEMMA WindowsGiveUp == ASSUME WindowsInv, Cameras!Windows!GiveUp PROVE WindowsInv' /\ WindowsReturns
<1> USE DEF Cameras!Windows!GiveUp, Cameras!Windows!AfterStop, Cameras!Windows!Closed, Cameras!Windows!At,
     Cameras!Windows!Stopping, Cameras!Windows!camera, WindowsFlushing, WindowsReading
<1> camera_call \in WindowsCalls
  BY WindowsType DEF WindowsInv
<1>1. camera_call' \in WindowsCalls
  BY WindowsGoes, WindowsEnds DEF WindowsInv, WindowsPoints, Cameras!Windows!Outcomes, WindowsPlaces,
       Cameras!Windows!TypeOK
<1>2. WindowsRest'
  BY DEF WindowsInv, Cameras!Windows!TypeOK, WindowsRest, WindowsFlags, Cameras!Windows!Ages,
       Cameras!Windows!Aged, Cameras!Windows!NoCallback, Cameras!Windows!NoReader, Cameras!Windows!NoCapture
<1>3. Cameras!Windows!TypeOK'
  BY <1>1, <1>2 DEF Cameras!Windows!TypeOK, WindowsRest, WindowsCalls, WindowsPoints, WindowsFlags
<1>4. WindowsPlaces'
  BY WindowsGoes, WindowsEnds DEF WindowsInv, WindowsPlaces, WindowsPaths, Cameras!Windows!State,
       Cameras!Windows!Quiet
<1>5. WindowsPaths'
  BY WindowsGoes, WindowsEnds DEF WindowsInv, WindowsPlaces, WindowsPaths, WindowsCapture, WindowsReader,
       WindowsFlush, Cameras!Windows!TypeOK, Cameras!Windows!Quiet, Cameras!Windows!NoCallback,
       Cameras!Windows!NoReader, Cameras!Windows!NoCapture
<1>6. WindowsCapture'
  BY WindowsGoes, WindowsEnds DEF WindowsInv, WindowsPlaces, WindowsPaths, WindowsCapture,
       Cameras!Windows!TypeOK, Cameras!Windows!Quiet, Cameras!Windows!NoCapture
<1>7. WindowsReader'
  BY WindowsGoes, WindowsEnds DEF WindowsInv, WindowsPlaces, WindowsPaths, WindowsReader, WindowsFlush,
       Cameras!Windows!TypeOK, Cameras!Windows!Quiet, Cameras!Windows!NoCallback, Cameras!Windows!NoReader,
       Cameras!Windows!Ages, Cameras!Windows!Aged
<1>8. WindowsFlush'
  BY WindowsGoes, WindowsEnds DEF WindowsInv, WindowsPlaces, WindowsPaths, WindowsReader, WindowsFlush,
       Cameras!Windows!TypeOK, Cameras!Windows!Quiet, Cameras!Windows!NoCallback, Cameras!Windows!NoReader,
       Cameras!Windows!Ages
<1>9. WindowsReturns
  BY WindowsGoes, WindowsEnds DEF WindowsInv, WindowsPlaces, WindowsPaths, WindowsReturns,
       Cameras!Windows!Returns, Cameras!Windows!Quiet, Cameras!Windows!State, Cameras!Windows!After,
       Cameras!Windows!Success
<1> QED BY <1>3, <1>4, <1>5, <1>6, <1>7, <1>8, <1>9 DEF WindowsInv

LEMMA WindowsRelease == ASSUME WindowsInv, Cameras!Windows!Release PROVE WindowsInv' /\ WindowsReturns
<1> USE DEF Cameras!Windows!Release, Cameras!Windows!At, Cameras!Windows!Stopping, Cameras!Windows!camera,
     WindowsFlushing, WindowsReading
<1> camera_call \in WindowsCalls
  BY WindowsType DEF WindowsInv
<1>1. camera_call' \in WindowsCalls
  BY WindowsEnds DEF WindowsInv, WindowsPoints, Cameras!Windows!Outcomes, WindowsPlaces,
       Cameras!Windows!TypeOK
<1>2. WindowsRest'
  BY DEF WindowsInv, Cameras!Windows!TypeOK, WindowsRest, WindowsFlags, Cameras!Windows!Ages,
       Cameras!Windows!Aged, Cameras!Windows!NoCallback, Cameras!Windows!NoReader, Cameras!Windows!NoCapture
<1>3. Cameras!Windows!TypeOK'
  BY <1>1, <1>2 DEF Cameras!Windows!TypeOK, WindowsRest, WindowsCalls, WindowsPoints, WindowsFlags
<1>4. WindowsPlaces'
  BY WindowsEnds DEF WindowsInv, WindowsPlaces, WindowsPaths, Cameras!Windows!State, Cameras!Windows!Quiet
<1>5. WindowsPaths'
  BY WindowsEnds DEF WindowsInv, WindowsPlaces, WindowsPaths, WindowsCapture, WindowsReader, WindowsFlush,
       Cameras!Windows!TypeOK, Cameras!Windows!Quiet, Cameras!Windows!NoCallback, Cameras!Windows!NoReader,
       Cameras!Windows!NoCapture
<1>6. WindowsCapture'
  BY WindowsEnds DEF WindowsInv, WindowsPlaces, WindowsPaths, WindowsCapture, Cameras!Windows!TypeOK,
       Cameras!Windows!Quiet, Cameras!Windows!NoCapture
<1>7. WindowsReader'
  BY WindowsEnds DEF WindowsInv, WindowsPlaces, WindowsPaths, WindowsReader, WindowsFlush,
       Cameras!Windows!TypeOK, Cameras!Windows!Quiet, Cameras!Windows!NoCallback, Cameras!Windows!NoReader,
       Cameras!Windows!Ages, Cameras!Windows!Aged
<1>8. WindowsFlush'
  BY WindowsEnds DEF WindowsInv, WindowsPlaces, WindowsPaths, WindowsReader, WindowsFlush,
       Cameras!Windows!TypeOK, Cameras!Windows!Quiet, Cameras!Windows!NoCallback, Cameras!Windows!NoReader,
       Cameras!Windows!Ages
<1>9. WindowsReturns
  BY WindowsEnds DEF WindowsInv, WindowsPlaces, WindowsPaths, WindowsReturns, Cameras!Windows!Returns,
       Cameras!Windows!Quiet, Cameras!Windows!State, Cameras!Windows!After, Cameras!Windows!Success
<1> QED BY <1>3, <1>4, <1>5, <1>6, <1>7, <1>8, <1>9 DEF WindowsInv

LEMMA WindowsReadBegin == ASSUME WindowsInv, Cameras!Windows!ReadBegin PROVE WindowsInv' /\ WindowsReturns
<1> USE DEF WindowsFlushing, WindowsReading
<1>1. camera_call.pc = "begin" /\ camera_call.op = "read" /\ camera_call.before = Cameras!Windows!State
      /\ camera_call \in WindowsCalls
  BY WindowsType DEF Cameras!Windows!ReadBegin, Cameras!Windows!At, WindowsInv, WindowsPlaces
<1>2. UNCHANGED <<opened, failed, direct, late_flush, streaming, callback, reader, capture>>
  BY DEF Cameras!Windows!ReadBegin, Cameras!Windows!camera
<1>3. /\ camera_call' \in WindowsCalls
      /\ \/ direct /\ camera_call'.op = "read" /\ camera_call'.pc = "grab"
              /\ camera_call'.before = Cameras!Windows!State
         \/ ~direct /\ streaming /\ camera_call'.op = "read" /\ camera_call'.pc = "loop"
              /\ camera_call'.before = Cameras!Windows!State
         \/ ~direct /\ ~streaming /\ camera_call'.op = "none" /\ camera_call'.pc = "none"
              /\ camera_call'.out = "failed"
  BY <1>1, WindowsGoes, WindowsEnds DEF Cameras!Windows!ReadBegin, WindowsPoints, Cameras!Windows!Outcomes
<1>4. Cameras!Windows!TypeOK'
  <2>1. WindowsRest'
    BY <1>2, WindowsType DEF WindowsInv, WindowsRest, WindowsFlags, Cameras!Windows!Ages
  <2> QED BY <1>3, <2>1 DEF Cameras!Windows!TypeOK, WindowsRest, WindowsFlags, WindowsCalls, WindowsPoints
<1>5. WindowsPlaces'
  BY <1>1, <1>2, <1>3 DEF WindowsInv, WindowsPlaces, WindowsPaths, Cameras!Windows!State
<1>6. WindowsPaths' /\ WindowsCapture'
  BY <1>2, <1>3 DEF WindowsInv, WindowsPaths, WindowsCapture, Cameras!Windows!NoCallback,
       Cameras!Windows!NoReader, Cameras!Windows!NoCapture
<1>7. WindowsReader' /\ WindowsFlush'
  BY <1>1, <1>2, <1>3 DEF WindowsInv, WindowsReader, WindowsFlush, Cameras!Windows!NoReader
<1>8. WindowsReturns
  BY <1>1, <1>2, <1>3 DEF WindowsReturns, Cameras!Windows!Returns, Cameras!Windows!Quiet,
       Cameras!Windows!State, Cameras!Windows!After
<1> QED BY <1>4, <1>5, <1>6, <1>7, <1>8 DEF WindowsInv

LEMMA WindowsReadLoop == ASSUME WindowsInv, Cameras!Windows!ReadLoop PROVE WindowsInv' /\ WindowsReturns
<1> USE DEF Cameras!Windows!ReadLoop, Cameras!Windows!Unrequested, Cameras!Windows!At,
     Cameras!Windows!Stopping, Cameras!Windows!camera, WindowsFlushing, WindowsReading
<1> camera_call \in WindowsCalls
  BY WindowsType DEF WindowsInv
<1>1. camera_call' \in WindowsCalls
  BY WindowsGoes DEF WindowsInv, WindowsPoints, Cameras!Windows!Outcomes, WindowsPlaces,
       Cameras!Windows!TypeOK
<1>2. WindowsRest'
  BY DEF WindowsInv, Cameras!Windows!TypeOK, WindowsRest, WindowsFlags, Cameras!Windows!Ages,
       Cameras!Windows!Aged, Cameras!Windows!NoCallback, Cameras!Windows!NoReader, Cameras!Windows!NoCapture
<1>3. Cameras!Windows!TypeOK'
  BY <1>1, <1>2 DEF Cameras!Windows!TypeOK, WindowsRest, WindowsCalls, WindowsPoints, WindowsFlags
<1>4. WindowsPlaces'
  BY WindowsGoes DEF WindowsInv, WindowsPlaces, WindowsPaths, Cameras!Windows!State, Cameras!Windows!Quiet
<1>5. WindowsPaths'
  BY WindowsGoes DEF WindowsInv, WindowsPlaces, WindowsPaths, WindowsCapture, WindowsReader, WindowsFlush,
       Cameras!Windows!TypeOK, Cameras!Windows!Quiet, Cameras!Windows!NoCallback, Cameras!Windows!NoReader,
       Cameras!Windows!NoCapture
<1>6. WindowsCapture'
  BY WindowsGoes DEF WindowsInv, WindowsPlaces, WindowsPaths, WindowsCapture, Cameras!Windows!TypeOK,
       Cameras!Windows!Quiet, Cameras!Windows!NoCapture
<1>7. WindowsReader'
  BY WindowsGoes DEF WindowsInv, WindowsPlaces, WindowsPaths, WindowsReader, WindowsFlush,
       Cameras!Windows!TypeOK, Cameras!Windows!Quiet, Cameras!Windows!NoCallback, Cameras!Windows!NoReader,
       Cameras!Windows!Ages, Cameras!Windows!Aged
<1>8. WindowsFlush'
  BY WindowsGoes DEF WindowsInv, WindowsPlaces, WindowsPaths, WindowsReader, WindowsFlush,
       Cameras!Windows!TypeOK, Cameras!Windows!Quiet, Cameras!Windows!NoCallback, Cameras!Windows!NoReader,
       Cameras!Windows!Ages
<1>9. WindowsReturns
  BY WindowsGoes DEF WindowsInv, WindowsPlaces, WindowsPaths, WindowsReturns, Cameras!Windows!Returns,
       Cameras!Windows!Quiet, Cameras!Windows!State, Cameras!Windows!After, Cameras!Windows!Success
<1> QED BY <1>3, <1>4, <1>5, <1>6, <1>7, <1>8, <1>9 DEF WindowsInv

LEMMA WindowsRequestSample ==
  ASSUME WindowsInv, Cameras!Windows!RequestSample
  PROVE  WindowsInv' /\ WindowsReturns
<1> USE DEF Cameras!Windows!RequestSample, Cameras!Windows!At, Cameras!Windows!Stopping,
     Cameras!Windows!camera, WindowsFlushing, WindowsReading
<1> camera_call \in WindowsCalls
  BY WindowsType DEF WindowsInv
<1>1. camera_call' \in WindowsCalls
  BY WindowsGoes DEF WindowsInv, WindowsPoints, Cameras!Windows!Outcomes, WindowsPlaces,
       Cameras!Windows!TypeOK
<1>2. WindowsRest'
  BY DEF WindowsInv, Cameras!Windows!TypeOK, WindowsRest, WindowsFlags, Cameras!Windows!Ages,
       Cameras!Windows!Aged, Cameras!Windows!NoCallback, Cameras!Windows!NoReader, Cameras!Windows!NoCapture
<1>3. Cameras!Windows!TypeOK'
  BY <1>1, <1>2 DEF Cameras!Windows!TypeOK, WindowsRest, WindowsCalls, WindowsPoints, WindowsFlags
<1>4. WindowsPlaces'
  BY WindowsGoes DEF WindowsInv, WindowsPlaces, WindowsPaths, Cameras!Windows!State, Cameras!Windows!Quiet
<1>5. WindowsPaths'
  BY WindowsGoes DEF WindowsInv, WindowsPlaces, WindowsPaths, WindowsCapture, WindowsReader, WindowsFlush,
       Cameras!Windows!TypeOK, Cameras!Windows!Quiet, Cameras!Windows!NoCallback, Cameras!Windows!NoReader,
       Cameras!Windows!NoCapture
<1>6. WindowsCapture'
  BY WindowsGoes DEF WindowsInv, WindowsPlaces, WindowsPaths, WindowsCapture, Cameras!Windows!TypeOK,
       Cameras!Windows!Quiet, Cameras!Windows!NoCapture
<1>7. WindowsReader'
  BY WindowsGoes DEF WindowsInv, WindowsPlaces, WindowsPaths, WindowsReader, WindowsFlush,
       Cameras!Windows!TypeOK, Cameras!Windows!Quiet, Cameras!Windows!NoCallback, Cameras!Windows!NoReader,
       Cameras!Windows!Ages, Cameras!Windows!Aged
<1>8. WindowsFlush'
  BY WindowsGoes DEF WindowsInv, WindowsPlaces, WindowsPaths, WindowsReader, WindowsFlush,
       Cameras!Windows!TypeOK, Cameras!Windows!Quiet, Cameras!Windows!NoCallback, Cameras!Windows!NoReader,
       Cameras!Windows!Ages
<1>9. WindowsReturns
  BY WindowsGoes DEF WindowsInv, WindowsPlaces, WindowsPaths, WindowsReturns, Cameras!Windows!Returns,
       Cameras!Windows!Quiet, Cameras!Windows!State, Cameras!Windows!After, Cameras!Windows!Success
<1> QED BY <1>3, <1>4, <1>5, <1>6, <1>7, <1>8, <1>9 DEF WindowsInv

LEMMA WindowsRequestFails ==
  ASSUME WindowsInv, Cameras!Windows!RequestFails
  PROVE  WindowsInv' /\ WindowsReturns
<1> USE DEF Cameras!Windows!RequestFails, Cameras!Windows!ReaderFails, Cameras!Windows!At,
     Cameras!Windows!Stopping, Cameras!Windows!camera, WindowsFlushing, WindowsReading
<1> camera_call \in WindowsCalls
  BY WindowsType DEF WindowsInv
<1>1. camera_call' \in WindowsCalls
  BY WindowsEnds DEF WindowsInv, WindowsPoints, Cameras!Windows!Outcomes, WindowsPlaces,
       Cameras!Windows!TypeOK
<1>2. WindowsRest'
  BY DEF WindowsInv, Cameras!Windows!TypeOK, WindowsRest, WindowsFlags, Cameras!Windows!Ages,
       Cameras!Windows!Aged, Cameras!Windows!NoCallback, Cameras!Windows!NoReader, Cameras!Windows!NoCapture
<1>3. Cameras!Windows!TypeOK'
  BY <1>1, <1>2 DEF Cameras!Windows!TypeOK, WindowsRest, WindowsCalls, WindowsPoints, WindowsFlags
<1>4. WindowsPlaces'
  BY WindowsEnds DEF WindowsInv, WindowsPlaces, WindowsPaths, Cameras!Windows!State, Cameras!Windows!Quiet
<1>5. WindowsPaths'
  BY WindowsEnds DEF WindowsInv, WindowsPlaces, WindowsPaths, WindowsCapture, WindowsReader, WindowsFlush,
       Cameras!Windows!TypeOK, Cameras!Windows!Quiet, Cameras!Windows!NoCallback, Cameras!Windows!NoReader,
       Cameras!Windows!NoCapture
<1>6. WindowsCapture'
  BY WindowsEnds DEF WindowsInv, WindowsPlaces, WindowsPaths, WindowsCapture, Cameras!Windows!TypeOK,
       Cameras!Windows!Quiet, Cameras!Windows!NoCapture
<1>7. WindowsReader'
  BY WindowsEnds DEF WindowsInv, WindowsPlaces, WindowsPaths, WindowsReader, WindowsFlush,
       Cameras!Windows!TypeOK, Cameras!Windows!Quiet, Cameras!Windows!NoCallback, Cameras!Windows!NoReader,
       Cameras!Windows!Ages, Cameras!Windows!Aged
<1>8. WindowsFlush'
  BY WindowsEnds DEF WindowsInv, WindowsPlaces, WindowsPaths, WindowsReader, WindowsFlush,
       Cameras!Windows!TypeOK, Cameras!Windows!Quiet, Cameras!Windows!NoCallback, Cameras!Windows!NoReader,
       Cameras!Windows!Ages
<1>9. WindowsReturns
  BY WindowsEnds DEF WindowsInv, WindowsPlaces, WindowsPaths, WindowsReturns, Cameras!Windows!Returns,
       Cameras!Windows!Quiet, Cameras!Windows!State, Cameras!Windows!After, Cameras!Windows!Success
<1> QED BY <1>3, <1>4, <1>5, <1>6, <1>7, <1>8, <1>9 DEF WindowsInv

LEMMA WindowsDeadlinePasses ==
  ASSUME WindowsInv, Cameras!Windows!DeadlinePasses
  PROVE  WindowsInv' /\ WindowsReturns
<1> USE DEF Cameras!Windows!DeadlinePasses, Cameras!Windows!At, Cameras!Windows!Stopping,
     Cameras!Windows!camera, WindowsFlushing, WindowsReading
<1> camera_call \in WindowsCalls
  BY WindowsType DEF WindowsInv
<1>1. camera_call' \in WindowsCalls
  BY DEF WindowsInv, WindowsPoints, Cameras!Windows!Outcomes, WindowsPlaces, Cameras!Windows!TypeOK
<1>2. WindowsRest'
  BY DEF WindowsInv, Cameras!Windows!TypeOK, WindowsRest, WindowsFlags, Cameras!Windows!Ages,
       Cameras!Windows!Aged, Cameras!Windows!NoCallback, Cameras!Windows!NoReader, Cameras!Windows!NoCapture
<1>3. Cameras!Windows!TypeOK'
  BY <1>1, <1>2 DEF Cameras!Windows!TypeOK, WindowsRest, WindowsCalls, WindowsPoints, WindowsFlags
<1>4. WindowsPlaces'
  BY DEF WindowsInv, WindowsPlaces, WindowsPaths, Cameras!Windows!State, Cameras!Windows!Quiet
<1>5. WindowsPaths'
  BY DEF WindowsInv, WindowsPlaces, WindowsPaths, WindowsCapture, WindowsReader, WindowsFlush,
       Cameras!Windows!TypeOK, Cameras!Windows!Quiet, Cameras!Windows!NoCallback, Cameras!Windows!NoReader,
       Cameras!Windows!NoCapture
<1>6. WindowsCapture'
  BY DEF WindowsInv, WindowsPlaces, WindowsPaths, WindowsCapture, Cameras!Windows!TypeOK,
       Cameras!Windows!Quiet, Cameras!Windows!NoCapture
<1>7. WindowsReader'
  BY DEF WindowsInv, WindowsPlaces, WindowsPaths, WindowsReader, WindowsFlush, Cameras!Windows!TypeOK,
       Cameras!Windows!Quiet, Cameras!Windows!NoCallback, Cameras!Windows!NoReader, Cameras!Windows!Ages,
       Cameras!Windows!Aged
<1>8. WindowsFlush'
  BY DEF WindowsInv, WindowsPlaces, WindowsPaths, WindowsReader, WindowsFlush, Cameras!Windows!TypeOK,
       Cameras!Windows!Quiet, Cameras!Windows!NoCallback, Cameras!Windows!NoReader, Cameras!Windows!Ages
<1>9. WindowsReturns
  BY DEF WindowsInv, WindowsPlaces, WindowsPaths, WindowsReturns, Cameras!Windows!Returns,
       Cameras!Windows!Quiet, Cameras!Windows!State, Cameras!Windows!After, Cameras!Windows!Success
<1> QED BY <1>3, <1>4, <1>5, <1>6, <1>7, <1>8, <1>9 DEF WindowsInv

LEMMA WindowsReadTimesOut ==
  ASSUME WindowsInv, Cameras!Windows!ReadTimesOut
  PROVE  WindowsInv' /\ WindowsReturns
<1> USE DEF Cameras!Windows!ReadTimesOut, Cameras!Windows!At, Cameras!Windows!Stopping,
     Cameras!Windows!camera, WindowsFlushing, WindowsReading
<1> camera_call \in WindowsCalls
  BY WindowsType DEF WindowsInv
<1>1. camera_call' \in WindowsCalls
  BY WindowsEnds DEF WindowsInv, WindowsPoints, Cameras!Windows!Outcomes, WindowsPlaces,
       Cameras!Windows!TypeOK
<1>2. WindowsRest'
  BY DEF WindowsInv, Cameras!Windows!TypeOK, WindowsRest, WindowsFlags, Cameras!Windows!Ages,
       Cameras!Windows!Aged, Cameras!Windows!NoCallback, Cameras!Windows!NoReader, Cameras!Windows!NoCapture
<1>3. Cameras!Windows!TypeOK'
  BY <1>1, <1>2 DEF Cameras!Windows!TypeOK, WindowsRest, WindowsCalls, WindowsPoints, WindowsFlags
<1>4. WindowsPlaces'
  BY WindowsEnds DEF WindowsInv, WindowsPlaces, WindowsPaths, Cameras!Windows!State, Cameras!Windows!Quiet
<1>5. WindowsPaths'
  BY WindowsEnds DEF WindowsInv, WindowsPlaces, WindowsPaths, WindowsCapture, WindowsReader, WindowsFlush,
       Cameras!Windows!TypeOK, Cameras!Windows!Quiet, Cameras!Windows!NoCallback, Cameras!Windows!NoReader,
       Cameras!Windows!NoCapture
<1>6. WindowsCapture'
  BY WindowsEnds DEF WindowsInv, WindowsPlaces, WindowsPaths, WindowsCapture, Cameras!Windows!TypeOK,
       Cameras!Windows!Quiet, Cameras!Windows!NoCapture
<1>7. WindowsReader'
  BY WindowsEnds DEF WindowsInv, WindowsPlaces, WindowsPaths, WindowsReader, WindowsFlush,
       Cameras!Windows!TypeOK, Cameras!Windows!Quiet, Cameras!Windows!NoCallback, Cameras!Windows!NoReader,
       Cameras!Windows!Ages, Cameras!Windows!Aged
<1>8. WindowsFlush'
  BY WindowsEnds DEF WindowsInv, WindowsPlaces, WindowsPaths, WindowsReader, WindowsFlush,
       Cameras!Windows!TypeOK, Cameras!Windows!Quiet, Cameras!Windows!NoCallback, Cameras!Windows!NoReader,
       Cameras!Windows!Ages
<1>9. WindowsReturns
  BY WindowsEnds DEF WindowsInv, WindowsPlaces, WindowsPaths, WindowsReturns, Cameras!Windows!Returns,
       Cameras!Windows!Quiet, Cameras!Windows!State, Cameras!Windows!After, Cameras!Windows!Success
<1> QED BY <1>3, <1>4, <1>5, <1>6, <1>7, <1>8, <1>9 DEF WindowsInv

LEMMA WindowsReadTakes == ASSUME WindowsInv, Cameras!Windows!ReadTakes PROVE WindowsInv' /\ WindowsReturns
<1> USE DEF WindowsFlushing, WindowsReading
<1>1. /\ camera_call.pc = "wait" /\ camera_call.op = "read" /\ camera_call.before = "streaming" /\ ~direct
           /\ opened /\ streaming
      /\ ~failed /\ ~reader.flush /\ reader.request = "none" /\ callback.accepting /\ ~callback.closed
      /\ ~callback.flushing /\ ~callback.inflight /\ capture = Cameras!Windows!NoCapture
           /\ camera_call \in WindowsCalls
  BY WindowsType DEF Cameras!Windows!ReadTakes, Cameras!Windows!At, WindowsInv, WindowsPlaces, WindowsPaths,
       WindowsReader, Cameras!Windows!State, Cameras!Windows!TypeOK
<1>2. /\ UNCHANGED <<opened, direct, late_flush, reader, capture>>
      /\ callback' = [callback EXCEPT !.sample = "none", !.age = "none"]
  BY DEF Cameras!Windows!ReadTakes
<1>3. /\ callback'.sample = "none" /\ callback'.accepting /\ ~callback'.closed /\ ~callback'.flushing
      /\ callback'.inflight = FALSE
  BY <1>1, <1>2, WindowsType DEF WindowsInv, WindowsRest, WindowsFlags
<1>4. /\ camera_call' \in WindowsCalls
      /\ \/ /\ failed' = TRUE /\ streaming' = FALSE
            /\ camera_call'.op = "none" /\ camera_call'.pc = "none" /\ camera_call'.out = "failed"
         \/ UNCHANGED <<failed, streaming>> /\ camera_call'.op = "none" /\ camera_call'.pc = "none"
         \/ UNCHANGED <<failed, streaming>> /\ camera_call'.op = "read" /\ camera_call'.pc = "loop"
              /\ camera_call'.before = "streaming"
  <2>1. callback.sample \in {"frame", "tick", "error"}
    BY WindowsType DEF WindowsInv, WindowsRest, WindowsFlags, Cameras!Windows!ReadTakes
  <2>2. CASE callback.sample = "error"
    BY <2>2, WindowsEnds DEF Cameras!Windows!ReadTakes, Cameras!Windows!ReaderFails, Cameras!Windows!Outcomes
  <2>3. CASE callback.sample = "tick"
    BY <1>1, <2>3, WindowsEnds, WindowsGoes DEF Cameras!Windows!ReadTakes, Cameras!Windows!Outcomes,
         WindowsPoints
  <2>4. CASE callback.sample = "frame"
    BY <2>4, WindowsEnds DEF Cameras!Windows!ReadTakes, Cameras!Windows!Outcomes
  <2> QED BY <2>1, <2>2, <2>3, <2>4
<1>5. Cameras!Windows!TypeOK'
  <2>1. WindowsRest'
    <3>1. WindowsRest
      BY WindowsType DEF WindowsInv
    <3>2. WindowsFlags'
      BY <1>2, <1>4, <3>1 DEF WindowsRest, WindowsFlags
    <3> QED BY <1>2, <3>1, <3>2 DEF WindowsRest, Cameras!Windows!Ages
  <2> QED BY <1>4, <2>1 DEF Cameras!Windows!TypeOK, WindowsRest, WindowsFlags, WindowsCalls, WindowsPoints
<1>6. WindowsPlaces' /\ WindowsPaths' /\ WindowsCapture'
  BY <1>1, <1>2, <1>4 DEF WindowsPlaces, WindowsPaths, WindowsCapture, Cameras!Windows!NoCapture
<1>7. WindowsReader' /\ WindowsFlush'
  <2>1. reader'.request = "none" /\ ~reader'.flush
        /\ ~(camera_call'.pc \in {"flush", "flushing", "giveup", "request"})
    BY <1>1, <1>2, <1>4
  <2>2. ~streaming' => failed'
    BY <1>1, <1>4
  <2>3. streaming' => ~failed'
    BY <1>1, <1>4
  <2> QED BY <1>3, <2>1, <2>2, <2>3 DEF WindowsReader, WindowsFlush
<1>8. WindowsReturns
  BY <1>1, <1>2, <1>4 DEF WindowsReturns, Cameras!Windows!Returns, Cameras!Windows!Quiet,
       Cameras!Windows!State, Cameras!Windows!After, Cameras!Windows!Success
<1> QED BY <1>5, <1>6, <1>7, <1>8 DEF WindowsInv

LEMMA WindowsGrabEnds == ASSUME WindowsInv, Cameras!Windows!GrabEnds PROVE WindowsInv' /\ WindowsReturns
<1> USE DEF WindowsFlushing, WindowsReading
<1>1. camera_call.pc = "grab" /\ camera_call.op = "read" /\ camera_call.before = Cameras!Windows!State
      /\ direct
  BY DEF Cameras!Windows!GrabEnds, Cameras!Windows!At, WindowsInv, WindowsPlaces
<1>2. UNCHANGED <<opened, failed, direct, late_flush, streaming, callback, reader>>
  BY DEF Cameras!Windows!GrabEnds, Cameras!Windows!camera
<1>3. camera_call'.op = "none" /\ camera_call'.pc = "none" /\ camera_call' \in WindowsCalls
  BY WindowsEnds DEF Cameras!Windows!GrabEnds, Cameras!Windows!Outcomes
<1>4. /\ capture' \in [active : BOOLEAN, latest : BOOLEAN, failure : BOOLEAN, graph : BOOLEAN]
      /\ capture'.active = capture.active /\ capture'.graph = capture.graph /\ (capture'.latest =>
           capture.latest)
  <2>1. capture \in [active : BOOLEAN, latest : BOOLEAN, failure : BOOLEAN, graph : BOOLEAN]
    BY WindowsType DEF WindowsInv, WindowsRest, WindowsFlags
  <2>2. capture' = capture \/ capture' = [capture EXCEPT !.latest = FALSE]
    BY DEF Cameras!Windows!GrabEnds
  <2> QED BY <2>1, <2>2
<1>5. Cameras!Windows!TypeOK'
  <2>1. WindowsRest'
    BY <1>2, <1>4, WindowsType DEF WindowsInv, WindowsRest, WindowsFlags, Cameras!Windows!Ages
  <2> QED BY <1>3, <2>1 DEF Cameras!Windows!TypeOK, WindowsRest, WindowsFlags, WindowsCalls, WindowsPoints
<1>6. WindowsPlaces' /\ WindowsPaths' /\ WindowsCapture'
  BY <1>1, <1>2, <1>3, <1>4 DEF WindowsInv, WindowsPlaces, WindowsPaths, WindowsCapture,
       Cameras!Windows!NoCallback, Cameras!Windows!NoReader
<1>7. WindowsReader' /\ WindowsFlush'
  BY <1>1, <1>2, <1>3 DEF WindowsInv, WindowsReader, WindowsFlush, Cameras!Windows!NoReader
<1>8. WindowsReturns
  BY <1>1, <1>2, <1>3 DEF WindowsReturns, Cameras!Windows!State, Cameras!Windows!After,
       Cameras!Windows!Success
<1> QED BY <1>5, <1>6, <1>7, <1>8 DEF WindowsInv

LEMMA WindowsOnReadSample ==
  ASSUME WindowsInv, Cameras!Windows!OnReadSample
  PROVE  WindowsInv' /\ WindowsReturns
<1> USE DEF WindowsFlushing, WindowsReading
<1>1. UNCHANGED <<opened, failed, direct, late_flush, streaming, capture, camera_call>>
      /\ reader.request # "none"
      /\ reader' = [reader EXCEPT !.request = "none"]
  BY DEF Cameras!Windows!OnReadSample, Cameras!Windows!camera
<1>2. ~direct /\ opened /\ camera_call.pc # "request"
  BY <1>1 DEF WindowsInv, WindowsPaths, WindowsReader, Cameras!Windows!NoReader
<1>3. /\ callback \in [accepting : BOOLEAN, flushing : BOOLEAN, closed : BOOLEAN, inflight : BOOLEAN,
                       sample : {"none", "frame", "tick", "error"}, age : Cameras!Windows!Ages]
      /\ reader \in [request : Cameras!Windows!Ages, flush : BOOLEAN]
  BY WindowsType DEF WindowsInv, WindowsRest, WindowsFlags
<1>4. reader'.request = "none" /\ reader'.flush = reader.flush
      /\ reader' \in [request : Cameras!Windows!Ages, flush : BOOLEAN]
  BY <1>1, <1>3 DEF Cameras!Windows!Ages
<1>5. PICK sample \in {"frame", "tick", "error"} :
        callback' = IF Cameras!Windows!Accepts
                    THEN [callback EXCEPT !.sample = sample, !.age = reader.request, !.inflight = FALSE]
                    ELSE callback
  BY DEF Cameras!Windows!OnReadSample
<1>6. callback' \in [accepting : BOOLEAN, flushing : BOOLEAN, closed : BOOLEAN, inflight : BOOLEAN,
                     sample : {"none", "frame", "tick", "error"}, age : Cameras!Windows!Ages]
      /\ callback'.accepting = callback.accepting /\ callback'.closed = callback.closed
      /\ callback'.flushing = callback.flushing
      /\ (IF Cameras!Windows!Accepts THEN callback'.age = reader.request /\ ~callback'.inflight
          ELSE callback'.sample = callback.sample /\ callback'.age = callback.age
          /\ callback'.inflight = callback.inflight)
  BY <1>3, <1>5
<1>7. Cameras!Windows!TypeOK'
  <2>1. WindowsRest'
    BY <1>1, <1>4, <1>6, WindowsType DEF WindowsInv, WindowsRest, WindowsFlags, Cameras!Windows!Ages
  <2> QED BY <1>1, <2>1 DEF WindowsInv, Cameras!Windows!TypeOK, WindowsRest, WindowsFlags
<1>8. WindowsPlaces' /\ WindowsPaths' /\ WindowsCapture'
  BY <1>1, <1>2 DEF WindowsInv, WindowsPlaces, WindowsPaths, WindowsCapture, Cameras!Windows!State,
       Cameras!Windows!NoCapture
<1>9. WindowsReader'
  <2>1. CASE streaming
    <3>1. reader.request = "current" /\ Cameras!Windows!Accepts
      BY <1>1, <1>2, <1>3, <2>1 DEF WindowsInv, WindowsReader, Cameras!Windows!Ages, Cameras!Windows!Accepts
    <3> QED BY <1>1, <1>2, <1>4, <1>6, <2>1, <3>1 DEF WindowsInv, WindowsReader
  <2>2. CASE ~streaming
    <3>1. ~Cameras!Windows!Accepts
      BY <1>1, <2>2 DEF WindowsInv, WindowsReader, Cameras!Windows!Accepts
    <3> QED BY <1>1, <1>2, <1>4, <1>6, <2>2, <3>1 DEF WindowsInv, WindowsReader
  <2> QED BY <2>1, <2>2
<1>10. WindowsFlush'
  <2>1. CASE ~streaming
    <3>1. ~Cameras!Windows!Accepts /\ reader # Cameras!Windows!NoReader
      BY <1>1, <2>1 DEF WindowsInv, WindowsReader, Cameras!Windows!Accepts, Cameras!Windows!NoReader
    <3> QED BY <1>1, <1>4, <1>6, <2>1, <3>1 DEF WindowsInv, WindowsFlush
  <2>2. CASE streaming
    BY <1>1, <2>2 DEF WindowsInv, WindowsFlush, WindowsPlaces
  <2> QED BY <2>1, <2>2
<1> QED BY <1>1, <1>7, <1>8, <1>9, <1>10 DEF WindowsInv, WindowsReturns, Cameras!Windows!Returns,
     Cameras!Windows!Quiet

LEMMA WindowsOnFlush == ASSUME WindowsInv, Cameras!Windows!OnFlush PROVE WindowsInv' /\ WindowsReturns
<1> USE DEF WindowsFlushing, WindowsReading
<1>1. UNCHANGED <<opened, failed, direct, late_flush, streaming, capture, camera_call>> /\ reader.flush
      /\ reader' = Cameras!Windows!NoReader
  BY DEF Cameras!Windows!OnFlush, Cameras!Windows!camera
<1>2. ~direct /\ opened /\ ~streaming
  BY <1>1 DEF WindowsInv, WindowsPaths, WindowsReader, Cameras!Windows!NoReader
<1>3. callback \in [accepting : BOOLEAN, flushing : BOOLEAN, closed : BOOLEAN, inflight : BOOLEAN,
                    sample : {"none", "frame", "tick", "error"}, age : Cameras!Windows!Ages]
  BY WindowsType DEF WindowsInv, WindowsRest, WindowsFlags
<1>4. /\ callback' \in [accepting : BOOLEAN, flushing : BOOLEAN, closed : BOOLEAN, inflight : BOOLEAN,
                        sample : {"none", "frame", "tick", "error"}, age : Cameras!Windows!Ages]
      /\ callback'.accepting = callback.accepting /\ callback'.closed = callback.closed
      /\ callback'.sample = callback.sample /\ callback'.age = callback.age
      /\ IF callback.flushing /\ ~callback.closed THEN ~callback'.flushing /\ ~callback'.inflight
         ELSE callback'.flushing = callback.flushing /\ callback'.inflight = callback.inflight
  BY <1>3 DEF Cameras!Windows!OnFlush
<1>5. Cameras!Windows!TypeOK'
  <2>1. WindowsRest'
    BY <1>1, <1>4, WindowsType DEF WindowsInv, WindowsRest, WindowsFlags, Cameras!Windows!Ages,
         Cameras!Windows!NoReader
  <2> QED BY <1>1, <2>1 DEF WindowsInv, Cameras!Windows!TypeOK, WindowsRest, WindowsFlags
<1>6. WindowsPlaces' /\ WindowsPaths' /\ WindowsCapture'
  BY <1>1, <1>2 DEF WindowsInv, WindowsPlaces, WindowsPaths, WindowsCapture, Cameras!Windows!State,
       Cameras!Windows!NoCapture
<1>7. WindowsReader'
  BY <1>1, <1>2, <1>4 DEF WindowsInv, WindowsReader, Cameras!Windows!NoReader, WindowsPlaces
<1>8. WindowsFlush'
  <2>1. camera_call.pc \in WindowsFlushing \/ failed
    BY <1>1, <1>2 DEF WindowsInv, WindowsFlush, Cameras!Windows!NoReader
  <2>2. camera_call.pc # "flush"
    BY <1>1 DEF WindowsInv, WindowsFlush
  <2> QED BY <1>1, <1>2, <1>4, <2>1, <2>2 DEF WindowsInv, WindowsFlush, Cameras!Windows!NoReader
<1> QED BY <1>1, <1>5, <1>6, <1>7, <1>8 DEF WindowsInv, WindowsReturns, Cameras!Windows!Returns,
     Cameras!Windows!Quiet

LEMMA WindowsBufferCB == ASSUME WindowsInv, Cameras!Windows!BufferCB PROVE WindowsInv' /\ WindowsReturns
<1> USE DEF Cameras!Windows!BufferCB, Cameras!Windows!At, Cameras!Windows!Stopping, Cameras!Windows!camera,
     WindowsFlushing, WindowsReading
<1> camera_call \in WindowsCalls
  BY WindowsType DEF WindowsInv
<1>1. camera_call' \in WindowsCalls
  BY DEF WindowsInv, WindowsPoints, Cameras!Windows!Outcomes, WindowsPlaces, Cameras!Windows!TypeOK
<1>2. WindowsRest'
  BY DEF WindowsInv, Cameras!Windows!TypeOK, WindowsRest, WindowsFlags, Cameras!Windows!Ages,
       Cameras!Windows!Aged, Cameras!Windows!NoCallback, Cameras!Windows!NoReader, Cameras!Windows!NoCapture
<1>3. Cameras!Windows!TypeOK'
  BY <1>1, <1>2 DEF Cameras!Windows!TypeOK, WindowsRest, WindowsCalls, WindowsPoints, WindowsFlags
<1>4. WindowsPlaces'
  BY DEF WindowsInv, WindowsPlaces, WindowsPaths, Cameras!Windows!State, Cameras!Windows!Quiet
<1>5. WindowsPaths'
  BY DEF WindowsInv, WindowsPlaces, WindowsPaths, WindowsCapture, WindowsReader, WindowsFlush,
       Cameras!Windows!TypeOK, Cameras!Windows!Quiet, Cameras!Windows!NoCallback, Cameras!Windows!NoReader,
       Cameras!Windows!NoCapture
<1>6. WindowsCapture'
  BY DEF WindowsInv, WindowsPlaces, WindowsPaths, WindowsCapture, Cameras!Windows!TypeOK,
       Cameras!Windows!Quiet, Cameras!Windows!NoCapture
<1>7. WindowsReader'
  BY DEF WindowsInv, WindowsPlaces, WindowsPaths, WindowsReader, WindowsFlush, Cameras!Windows!TypeOK,
       Cameras!Windows!Quiet, Cameras!Windows!NoCallback, Cameras!Windows!NoReader, Cameras!Windows!Ages,
       Cameras!Windows!Aged
<1>8. WindowsFlush'
  BY DEF WindowsInv, WindowsPlaces, WindowsPaths, WindowsReader, WindowsFlush, Cameras!Windows!TypeOK,
       Cameras!Windows!Quiet, Cameras!Windows!NoCallback, Cameras!Windows!NoReader, Cameras!Windows!Ages
<1>9. WindowsReturns
  BY DEF WindowsInv, WindowsPlaces, WindowsPaths, WindowsReturns, Cameras!Windows!Returns,
       Cameras!Windows!Quiet, Cameras!Windows!State, Cameras!Windows!After, Cameras!Windows!Success
<1> QED BY <1>3, <1>4, <1>5, <1>6, <1>7, <1>8, <1>9 DEF WindowsInv

LEMMA WindowsDeviceLost == ASSUME WindowsInv, Cameras!Windows!DeviceLost PROVE WindowsInv' /\ WindowsReturns
<1> USE DEF Cameras!Windows!DeviceLost, Cameras!Windows!At, Cameras!Windows!Stopping, Cameras!Windows!camera,
     WindowsFlushing, WindowsReading
<1> camera_call \in WindowsCalls
  BY WindowsType DEF WindowsInv
<1>1. camera_call' \in WindowsCalls
  BY DEF WindowsInv, WindowsPoints, Cameras!Windows!Outcomes, WindowsPlaces, Cameras!Windows!TypeOK
<1>2. WindowsRest'
  BY DEF WindowsInv, Cameras!Windows!TypeOK, WindowsRest, WindowsFlags, Cameras!Windows!Ages,
       Cameras!Windows!Aged, Cameras!Windows!NoCallback, Cameras!Windows!NoReader, Cameras!Windows!NoCapture
<1>3. Cameras!Windows!TypeOK'
  BY <1>1, <1>2 DEF Cameras!Windows!TypeOK, WindowsRest, WindowsCalls, WindowsPoints, WindowsFlags
<1>4. WindowsPlaces'
  BY DEF WindowsInv, WindowsPlaces, WindowsPaths, Cameras!Windows!State, Cameras!Windows!Quiet
<1>5. WindowsPaths'
  BY DEF WindowsInv, WindowsPlaces, WindowsPaths, WindowsCapture, WindowsReader, WindowsFlush,
       Cameras!Windows!TypeOK, Cameras!Windows!Quiet, Cameras!Windows!NoCallback, Cameras!Windows!NoReader,
       Cameras!Windows!NoCapture
<1>6. WindowsCapture'
  BY DEF WindowsInv, WindowsPlaces, WindowsPaths, WindowsCapture, Cameras!Windows!TypeOK,
       Cameras!Windows!Quiet, Cameras!Windows!NoCapture
<1>7. WindowsReader'
  BY DEF WindowsInv, WindowsPlaces, WindowsPaths, WindowsReader, WindowsFlush, Cameras!Windows!TypeOK,
       Cameras!Windows!Quiet, Cameras!Windows!NoCallback, Cameras!Windows!NoReader, Cameras!Windows!Ages,
       Cameras!Windows!Aged
<1>8. WindowsFlush'
  BY DEF WindowsInv, WindowsPlaces, WindowsPaths, WindowsReader, WindowsFlush, Cameras!Windows!TypeOK,
       Cameras!Windows!Quiet, Cameras!Windows!NoCallback, Cameras!Windows!NoReader, Cameras!Windows!Ages
<1>9. WindowsReturns
  BY DEF WindowsInv, WindowsPlaces, WindowsPaths, WindowsReturns, Cameras!Windows!Returns,
       Cameras!Windows!Quiet, Cameras!Windows!State, Cameras!Windows!After, Cameras!Windows!Success
<1> QED BY <1>3, <1>4, <1>5, <1>6, <1>7, <1>8, <1>9 DEF WindowsInv

LEMMA WindowsInitHolds == Cameras!Windows!Init => WindowsInv
<1> SUFFICES ASSUME Cameras!Windows!Init PROVE WindowsInv
  OBVIOUS
<1>1. camera_call.op = "none" /\ camera_call.pc = "none" /\ camera_call \in WindowsCalls
  BY DEF Cameras!Windows!Init, Cameras!Windows!Idle, WindowsCalls, Cameras!Windows!CallType,
       Cameras!Windows!States, Cameras!Windows!Operations
<1>2. Cameras!Windows!TypeOK
  BY <1>1, WindowsType DEF Cameras!Windows!Init, WindowsRest, WindowsFlags, Cameras!Windows!NoCallback,
       Cameras!Windows!NoReader, Cameras!Windows!NoCapture, Cameras!Windows!Ages
<1> QED BY <1>1, <1>2 DEF Cameras!Windows!Init, WindowsInv, WindowsPlaces, WindowsPaths, WindowsCapture,
     WindowsReader, WindowsFlush,
           Cameras!Windows!NoCallback, Cameras!Windows!NoReader, Cameras!Windows!NoCapture, WindowsFlushing, WindowsReading

LEMMA WindowsStepKeeps == WindowsInv /\ Cameras!Windows!Next => WindowsInv' /\ WindowsReturns
  BY WindowsBegin, WindowsOpen, WindowsStart, WindowsRun, WindowsStopIdle, WindowsStopCapture,
     WindowsHalt, WindowsStopReader, WindowsFlushFails, WindowsFlushBegins, WindowsFlushed,
     WindowsFlushTimesOut, WindowsGiveUp, WindowsRelease, WindowsReadBegin, WindowsReadLoop,
     WindowsRequestSample, WindowsRequestFails, WindowsReadTimesOut, WindowsReadTakes,
     WindowsGrabEnds, WindowsDeadlinePasses, WindowsOnReadSample, WindowsOnFlush, WindowsBufferCB,
     WindowsDeviceLost DEF Cameras!Windows!Next, Cameras!Windows!Step

LEMMA WindowsSound == WindowsInv => Cameras!Windows!TypeOK /\ Cameras!Windows!SamplesOwned
                      /\ Cameras!Windows!BetweenCalls
<1> SUFFICES ASSUME WindowsInv PROVE Cameras!Windows!TypeOK /\ Cameras!Windows!SamplesOwned
      /\ Cameras!Windows!BetweenCalls
  OBVIOUS
<1>1. Cameras!Windows!SamplesOwned
  <2>1. callback.sample # "none" => callback.age = "current" /\ streaming
    BY DEF WindowsInv, WindowsReader
  <2>2. Cameras!Windows!At("read", "request") => reader.request = "none"
    BY DEF WindowsInv, WindowsReader, Cameras!Windows!At
  <2>3. capture.latest => capture.active
    BY DEF WindowsInv, WindowsCapture
  <2> QED BY <2>1, <2>2, <2>3 DEF Cameras!Windows!SamplesOwned
<1>2. Cameras!Windows!BetweenCalls
  <2>1. SUFFICES ASSUME camera_call.op = "none" PROVE Cameras!Windows!BetweenCalls
    BY DEF Cameras!Windows!BetweenCalls, Cameras!Windows!Quiet
  <2>2. camera_call.pc = "none"
    BY <2>1 DEF WindowsInv, WindowsPlaces
  <2>3. Cameras!Windows!State = "closed" => callback = Cameras!Windows!NoCallback
        /\ reader = Cameras!Windows!NoReader /\ capture = Cameras!Windows!NoCapture
    BY DEF WindowsInv, WindowsPaths, Cameras!Windows!State
  <2>4. Cameras!Windows!State = "open" /\ ~failed => reader = Cameras!Windows!NoReader /\ ~callback.inflight
        /\ ~callback.flushing
    BY <2>2 DEF WindowsInv, WindowsFlush, Cameras!Windows!State, WindowsFlushing
  <2>5. Cameras!Windows!State = "streaming" => streaming
    BY DEF Cameras!Windows!State
  <2>6. streaming /\ ~direct =>
         /\ callback.accepting /\ ~callback.closed /\ ~callback.flushing /\ ~failed
         /\ callback.inflight = (reader.request # "none")
    BY <2>2 DEF WindowsInv, WindowsReader
  <2>7. streaming /\ direct => capture.active /\ capture.graph
    BY DEF WindowsInv, WindowsCapture
  <2> QED BY <2>3, <2>4, <2>5, <2>6, <2>7 DEF Cameras!Windows!BetweenCalls
<1> QED BY <1>1, <1>2 DEF WindowsInv

-----------------------------------------------------------------------------
(***************************************************************************)
(* The libcamera adapter: who has each request of a stream, and what a     *)
(* stop that failed leaves with the pipeline.                              *)
(***************************************************************************)
LibcameraStopping == {"halt", "native", "settle"}
LibcameraLending == {"queue", "queueing", "reject"}
LibcameraPoints == {"halt", "native", "settle", "drain", "prepare", "prepared", "queue", "queueing",
                    "reject", "wait", "copy"}
LibcameraCalls == Cameras!Libcamera!CallType(LibcameraPoints, 0..Buffers)

\* The type, with the record that is the store of the requests.
LibcameraFlags ==
  /\ handle \in BOOLEAN /\ streaming \in BOOLEAN /\ disconnected \in BOOLEAN
  /\ callback_failed \in BOOLEAN /\ native_active \in BOOLEAN /\ stopped \in BOOLEAN

LibcameraStores ==
  [owners : {{}, Cameras!Libcamera!Indices}, pending : SUBSET Cameras!Libcamera!Indices,
   ready : Seq(Cameras!Libcamera!Indices), fault : BOOLEAN]

LibcameraStore == requests \in LibcameraStores /\ Len(requests.ready) <= Buffers

LibcameraTyped == camera_call \in LibcameraCalls /\ LibcameraFlags /\ LibcameraStore

\* Where each operation can stand, and the state it found.
LibcameraPlaces ==
  /\ camera_call.op = "none" <=> camera_call.pc = "none"
  /\ camera_call.op # "none" => camera_call.out # "none"
  /\ camera_call.pc = "begin" =>
       camera_call.before = Cameras!Libcamera!State /\ camera_call.out = "ok" /\ camera_call.i = 0
  /\ camera_call.pc \in {"prepare", "prepared"} =>
       camera_call.op = "start" /\ camera_call.before = "open" /\ camera_call.out = "ok" /\ camera_call.i = 0
       /\ handle /\ ~streaming
  /\ camera_call.pc \in LibcameraLending => camera_call.op \in {"start", "read"} /\ streaming
  /\ camera_call.pc \in LibcameraLending /\ camera_call.op = "start" =>
       camera_call.before = "open" /\ camera_call.out = "ok"
  /\ camera_call.pc \in LibcameraLending /\ camera_call.op = "read" => camera_call.before = "streaming"
  /\ camera_call.pc \in {"wait", "copy"} =>
       camera_call.op = "read" /\ camera_call.before = "streaming" /\ streaming
  /\ camera_call.pc \in LibcameraStopping => camera_call.op \in {"start", "stop", "read", "close"}
  /\ camera_call.pc \in LibcameraStopping /\ camera_call.op = "start" =>
       camera_call.before = "open" /\ camera_call.out # "ok" /\ handle
  /\ camera_call.pc \in LibcameraStopping /\ camera_call.op = "read" =>
       camera_call.before = "streaming" /\ camera_call.out # "ok" /\ handle
  /\ camera_call.pc \in LibcameraStopping
       /\ camera_call.op = "stop" => (camera_call.before = "closed" <=> ~handle)
  /\ camera_call.op = "close" /\ camera_call.pc # "begin" =>
       camera_call.pc \in LibcameraStopping \cup {"drain"} /\ handle
       /\ (camera_call.out = "ok" \/ camera_call.before = "closed")
  /\ camera_call.pc = "drain" => camera_call.op = "close"
  /\ camera_call.pc \in {"native", "settle", "drain"} => ~streaming

\* What a closed adapter keeps, and when the pipeline may hold a request.
LibcameraKept ==
  /\ ~handle => ~streaming /\ ~native_active /\ requests = Cameras!Libcamera!NoRequests
  /\ streaming => native_active /\ requests.owners = Cameras!Libcamera!Indices
  /\ held # {} => native_active \/ disconnected
  /\ camera_call.pc = "native" => ~stopped
  /\ camera_call.pc = "settle" /\ stopped => held = {} \/ disconnected
  /\ camera_call.pc \in {"prepare", "prepared"} => requests.pending = {}
  /\ camera_call.pc = "prepared" => requests.owners = Cameras!Libcamera!Indices /\ requests.ready = <<>>

\* The requests of a stream that nobody has lost, in its ledger or its ring.
LibcameraCirculating ==
  IF camera_call.op = "start" /\ camera_call.pc \in LibcameraLending
  THEN IF camera_call.pc = "queue" THEN 0..(camera_call.i - 1) ELSE 0..camera_call.i
  ELSE Cameras!Libcamera!Indices \ Cameras!Libcamera!Reading

LibcameraLent ==
  /\ camera_call.op = "read" /\ camera_call.pc \in {"copy", "queue"} =>
       camera_call.i \in Cameras!Libcamera!Indices
  /\ camera_call.pc \in {"queueing", "reject"} => camera_call.i \in requests.pending \ held
  /\ streaming /\ camera_call.pc # "halt" =>
       requests.pending \cup Cameras!Libcamera!Range(requests.ready) = LibcameraCirculating

LibcameraInv ==
  LibcameraTyped /\ Cameras!Libcamera!RequestsOwned /\ LibcameraPlaces /\ LibcameraKept /\ LibcameraLent

LEMMA LibcameraEmpty == Cameras!Libcamera!Range(<<>>) = {} /\ Cameras!Libcamera!IsInjective(<<>>)
  BY DEF Cameras!Libcamera!Range, Cameras!Libcamera!IsInjective

LEMMA LibcameraAppend ==
  ASSUME NEW ready \in Seq(Cameras!Libcamera!Indices), Cameras!Libcamera!IsInjective(ready),
         NEW r \in Cameras!Libcamera!Indices \ Cameras!Libcamera!Range(ready)
  PROVE  /\ Append(ready, r) \in Seq(Cameras!Libcamera!Indices) /\ Len(Append(ready, r)) = Len(ready) + 1
         /\ Cameras!Libcamera!IsInjective(Append(ready, r))
         /\ Cameras!Libcamera!Range(Append(ready, r)) = Cameras!Libcamera!Range(ready) \cup {r}
<1> DEFINE longer == Append(ready, r)
<1>1. /\ longer \in Seq(Cameras!Libcamera!Indices) /\ Len(longer) = Len(ready) + 1 /\ Len(ready) \in Nat
      /\ DOMAIN ready = 1..Len(ready) /\ DOMAIN longer = 1..(Len(ready) + 1)
      /\ \A k \in 1..Len(ready) : longer[k] = ready[k]
      /\ longer[Len(ready) + 1] = r
  OBVIOUS
<1> HIDE DEF longer
<1>2. \A k \in 1..Len(ready) : ready[k] # r
  BY <1>1 DEF Cameras!Libcamera!Range
<1>3. Cameras!Libcamera!IsInjective(longer)
  <2> SUFFICES ASSUME NEW k \in 1..(Len(ready) + 1), NEW l \in 1..(Len(ready) + 1), longer[k] = longer[l]
               PROVE  k = l
    BY <1>1 DEF Cameras!Libcamera!IsInjective
  <2>1. CASE k \in 1..Len(ready) /\ l \in 1..Len(ready)
    BY <1>1, <2>1 DEF Cameras!Libcamera!IsInjective
  <2>2. CASE k = Len(ready) + 1 \/ l = Len(ready) + 1
    BY <1>1, <1>2, <2>2
  <2> QED BY <1>1, <2>1, <2>2
<1>4. Cameras!Libcamera!Range(longer) = Cameras!Libcamera!Range(ready) \cup {r}
  <2>1. \A x \in Cameras!Libcamera!Range(longer) : x \in Cameras!Libcamera!Range(ready) \cup {r}
    BY <1>1 DEF Cameras!Libcamera!Range
  <2>2. \A x \in Cameras!Libcamera!Range(ready) : x \in Cameras!Libcamera!Range(longer)
    <3> TAKE x \in Cameras!Libcamera!Range(ready)
    <3>1. PICK k \in 1..Len(ready) : x = ready[k]
      BY <1>1 DEF Cameras!Libcamera!Range
    <3> QED BY <1>1, <3>1 DEF Cameras!Libcamera!Range
  <2>3. r \in Cameras!Libcamera!Range(longer)
    BY <1>1 DEF Cameras!Libcamera!Range
  <2> QED BY <2>1, <2>2, <2>3
<1> QED BY <1>1, <1>3, <1>4 DEF longer

LEMMA LibcameraTail ==
  ASSUME NEW ready \in Seq(Cameras!Libcamera!Indices), ready # <<>>, Cameras!Libcamera!IsInjective(ready)
  PROVE  /\ Tail(ready) \in Seq(Cameras!Libcamera!Indices) /\ Len(Tail(ready)) = Len(ready) - 1
         /\ Cameras!Libcamera!IsInjective(Tail(ready))
         /\ Head(ready) \in Cameras!Libcamera!Range(ready) /\ Head(ready) \in Cameras!Libcamera!Indices
         /\ Cameras!Libcamera!Range(Tail(ready)) = Cameras!Libcamera!Range(ready) \ {Head(ready)}
<1> DEFINE rest == Tail(ready)
<1>1. /\ rest \in Seq(Cameras!Libcamera!Indices) /\ Len(rest) = Len(ready) - 1 /\ Len(ready) \in Nat \ {0}
      /\ DOMAIN ready = 1..Len(ready) /\ DOMAIN rest = 1..(Len(ready) - 1)
      /\ \A k \in 1..(Len(ready) - 1) : rest[k] = ready[k + 1]
      /\ Head(ready) = ready[1]
  OBVIOUS
<1> HIDE DEF rest
<1>2. Cameras!Libcamera!IsInjective(rest)
  <2> SUFFICES ASSUME NEW k \in 1..(Len(ready) - 1), NEW l \in 1..(Len(ready) - 1), rest[k] = rest[l]
               PROVE  k = l
    BY <1>1 DEF Cameras!Libcamera!IsInjective
  <2>1. k + 1 \in 1..Len(ready) /\ l + 1 \in 1..Len(ready) /\ ready[k + 1] = ready[l + 1]
    BY <1>1
  <2>2. k + 1 = l + 1
    BY <1>1, <2>1 DEF Cameras!Libcamera!IsInjective
  <2> QED BY <2>2
<1>3. Head(ready) \in Cameras!Libcamera!Range(ready) /\ Head(ready) \in Cameras!Libcamera!Indices
  BY <1>1 DEF Cameras!Libcamera!Range
<1>4. \A x \in Cameras!Libcamera!Range(rest) : x \in Cameras!Libcamera!Range(ready) /\ x # Head(ready)
  <2> TAKE x \in Cameras!Libcamera!Range(rest)
  <2>1. PICK k \in 1..(Len(ready) - 1) : x = ready[k + 1]
    BY <1>1 DEF Cameras!Libcamera!Range
  <2>2. k + 1 \in 1..Len(ready) /\ 1 \in 1..Len(ready) /\ k + 1 # 1
    BY <1>1
  <2> QED BY <1>1, <2>1, <2>2 DEF Cameras!Libcamera!Range, Cameras!Libcamera!IsInjective
<1>5. \A x \in Cameras!Libcamera!Range(ready) : x # Head(ready) => x \in Cameras!Libcamera!Range(rest)
  <2> SUFFICES ASSUME NEW x \in Cameras!Libcamera!Range(ready),
  x # Head(ready) PROVE x \in Cameras!Libcamera!Range(rest)
    OBVIOUS
  <2>1. PICK k \in 1..Len(ready) : x = ready[k]
    BY <1>1 DEF Cameras!Libcamera!Range
  <2>2. k - 1 \in 1..(Len(ready) - 1) /\ rest[k - 1] = x
    BY <1>1, <2>1
  <2> QED BY <1>1, <2>2 DEF Cameras!Libcamera!Range
<1> QED BY <1>1, <1>2, <1>3, <1>4, <1>5 DEF rest

LEMMA LibcameraSizes == \A S : Cameras!Libcamera!Cardinality(S) = Cardinality(S)
  BY DEF Cameras!Libcamera!Cardinality, Cardinality

LEMMA LibcameraIndices == IsFiniteSet(Cameras!Libcamera!Indices)
                          /\ Cardinality(Cameras!Libcamera!Indices) = Buffers
<1>1. 0 \in Int /\ Buffers - 1 \in Int /\ ~(0 > Buffers - 1) /\ Buffers - 1 - 0 + 1 = Buffers
  BY CameraBounds
<1> QED BY <1>1, FS_Interval DEF Cameras!Libcamera!Indices

\* A ring without r is not full.
LEMMA LibcameraFits ==
  ASSUME NEW ready \in Seq(Cameras!Libcamera!Indices), Cameras!Libcamera!IsInjective(ready),
         NEW r \in Cameras!Libcamera!Indices \ Cameras!Libcamera!Range(ready)
  PROVE  Len(ready) < Buffers
<1>1. ready \in Injection(1..Len(ready), Cameras!Libcamera!Indices \ {r})
  <2>1. DOMAIN ready = 1..Len(ready) /\ ready \in [1..Len(ready) -> Cameras!Libcamera!Indices]
    OBVIOUS
  <2>2. ready \in [1..Len(ready) -> Cameras!Libcamera!Indices \ {r}]
    BY <2>1 DEF Cameras!Libcamera!Range
  <2> QED BY <2>1, <2>2 DEF IsInjective, Cameras!Libcamera!IsInjective, Injection
<1>2. Len(ready) \in Nat /\ Cardinality(1..Len(ready)) = Len(ready)
  <2>1. Len(ready) \in Nat
    OBVIOUS
  <2>2. 1 \in Int /\ Len(ready) \in Int /\ (1 > Len(ready) => Len(ready) = 0)
        /\ Len(ready) - 1 + 1 = Len(ready)
    BY <2>1
  <2> QED BY <2>1, <2>2, FS_Interval
<1>3. IsFiniteSet(Cameras!Libcamera!Indices \ {r})
      /\ Cardinality(Cameras!Libcamera!Indices \ {r}) = Buffers - 1
  BY LibcameraIndices, FS_RemoveElement
<1>4. Cardinality(1..Len(ready)) <= Cardinality(Cameras!Libcamera!Indices \ {r})
  BY <1>1, <1>3, FS_Injection
<1> QED BY <1>2, <1>3, <1>4, CameraBounds

LibcameraReturns ==
  Cameras!Libcamera!Returns =>
    Cameras!Libcamera!State' \in Cameras!Libcamera!After(camera_call.op, camera_call.before, camera_call'.out)

\* What a step does to the call.
LEMMA LibcameraEnters ==
  ASSUME NEW op \in Cameras!Libcamera!Operations, NEW state \in Cameras!Libcamera!States,
         Cameras!Libcamera!Enter(op, "begin", state)
  PROVE  /\ camera_call'.op = op /\ camera_call'.pc = "begin" /\ camera_call'.i = 0
              /\ camera_call'.before = state /\ camera_call'.out = "ok"
         /\ camera_call' \in LibcameraCalls
  BY CameraBounds DEF LibcameraCalls, Cameras!Libcamera!CallType, Cameras!Libcamera!Enter,
       Cameras!Libcamera!Outcomes

LEMMA LibcameraGoes ==
  ASSUME camera_call \in LibcameraCalls, NEW place, Cameras!Libcamera!GoTo(place)
  PROVE  /\ camera_call'.op = camera_call.op /\ camera_call'.pc = place /\ camera_call'.i = camera_call.i
              /\ camera_call'.before = camera_call.before /\ camera_call'.out = camera_call.out
         /\ place \in LibcameraPoints => camera_call' \in LibcameraCalls
  BY DEF LibcameraCalls, Cameras!Libcamera!CallType, Cameras!Libcamera!GoTo

LEMMA LibcameraEnds ==
  ASSUME NEW out, Cameras!Libcamera!Return(out)
  PROVE  /\ camera_call'.op = "none" /\ camera_call'.pc = "none" /\ camera_call'.out = out
              /\ camera_call'.i = 0
         /\ out \in Cameras!Libcamera!Outcomes \cup {"none"} => camera_call' \in LibcameraCalls
  BY CameraBounds DEF LibcameraCalls, Cameras!Libcamera!CallType, Cameras!Libcamera!Return,
       Cameras!Libcamera!Idle, Cameras!Libcamera!States, Cameras!Libcamera!Operations

LEMMA LibcameraFalls ==
  ASSUME camera_call \in LibcameraCalls, NEW place, NEW out, Cameras!Libcamera!Fail(out, place)
  PROVE  /\ camera_call'.op = camera_call.op /\ camera_call'.pc = place /\ camera_call'.i = camera_call.i
              /\ camera_call'.before = camera_call.before /\ camera_call'.out = out
         /\ place \in LibcameraPoints /\ out \in Cameras!Libcamera!Outcomes => camera_call' \in LibcameraCalls
  BY DEF LibcameraCalls, Cameras!Libcamera!CallType, Cameras!Libcamera!Fail

\* What a step does to the store.
LEMMA LibcameraStored ==
  ASSUME LibcameraStore, NEW pending \in SUBSET Cameras!Libcamera!Indices,
         requests' = [requests EXCEPT !.pending = pending]
  PROVE  /\ LibcameraStore' /\ requests'.owners = requests.owners /\ requests'.ready = requests.ready
         /\ requests'.pending = pending
  BY DEF LibcameraStore, LibcameraStores

LEMMA LibcameraFaulty ==
  ASSUME LibcameraStore, requests' = [requests EXCEPT !.fault = TRUE]
  PROVE  /\ LibcameraStore' /\ requests'.owners = requests.owners /\ requests'.ready = requests.ready
         /\ requests'.pending = requests.pending
  BY DEF LibcameraStore, LibcameraStores

LEMMA LibcameraFresh ==
  ASSUME NEW owners \in {{}, Cameras!Libcamera!Indices},
         requests' = [owners |-> owners, pending |-> {}, ready |-> <<>>, fault |-> FALSE]
  PROVE  /\ LibcameraStore' /\ requests'.owners = owners /\ requests'.ready = <<>> /\ requests'.pending = {}
         /\ Cameras!Libcamera!Range(requests'.ready) = {} /\ Cameras!Libcamera!IsInjective(requests'.ready)
<1>2. <<>> \in Seq(Cameras!Libcamera!Indices) /\ Len(<<>>) <= Buffers
  BY CameraBounds
<1>3. requests' \in LibcameraStores
  <2>1. ASSUME NEW o \in {{}, Cameras!Libcamera!Indices}, NEW p \in SUBSET Cameras!Libcamera!Indices,
               NEW q \in Seq(Cameras!Libcamera!Indices), NEW f \in BOOLEAN
        PROVE  [owners |-> o, pending |-> p, ready |-> q, fault |-> f] \in LibcameraStores
    BY DEF LibcameraStores
  <2>2. {} \in SUBSET Cameras!Libcamera!Indices /\ FALSE \in BOOLEAN
    OBVIOUS
  <2>3. [owners |-> owners, pending |-> {}, ready |-> <<>>, fault |-> FALSE] \in LibcameraStores
    BY <1>2, <2>1, <2>2, Zenon
  <2> QED BY <2>3, Zenon
<1>4. requests'.owners = owners /\ requests'.ready = <<>> /\ requests'.pending = {}
  OBVIOUS
<1> QED BY <1>2, <1>3, <1>4, LibcameraEmpty DEF LibcameraStore

\* What a step keeps that leaves the pipeline and the store alone, or empties both.
LEMMA LibcameraEmptied ==
  ASSUME requests' = Cameras!Libcamera!NoRequests, held' = {}, camera_call'.op # "read"
  PROVE  LibcameraStore' /\ Cameras!Libcamera!RequestsOwned' /\ requests'.pending = {}
<1>1. requests' = [owners |-> {}, pending |-> {}, ready |-> <<>>, fault |-> FALSE]
  BY DEF Cameras!Libcamera!NoRequests
<1>2. /\ LibcameraStore' /\ requests'.owners = {} /\ requests'.ready = <<>> /\ requests'.pending = {}
      /\ Cameras!Libcamera!Range(requests'.ready) = {} /\ Cameras!Libcamera!IsInjective(requests'.ready)
  BY <1>1, LibcameraFresh
<1> QED BY <1>2 DEF Cameras!Libcamera!RequestsOwned, Cameras!Libcamera!Reading

\* A stuttering step, and that of StuckInClose.
LEMMA LibcameraStands ==
  ASSUME LibcameraInv, UNCHANGED Cameras!Libcamera!vars
  PROVE  LibcameraInv' /\ LibcameraReturns
<1> USE DEF Cameras!Libcamera!vars
<1>1. LibcameraTyped' /\ Cameras!Libcamera!RequestsOwned'
  BY DEF LibcameraInv, LibcameraTyped, LibcameraFlags, LibcameraStore, Cameras!Libcamera!RequestsOwned,
       Cameras!Libcamera!Reading
<1>2. LibcameraPlaces' /\ LibcameraKept' /\ LibcameraLent'
  BY DEF LibcameraInv, LibcameraPlaces, LibcameraKept, LibcameraLent, LibcameraCirculating,
       Cameras!Libcamera!Reading, Cameras!Libcamera!State, Cameras!Libcamera!Indices
<1> QED BY <1>1, <1>2 DEF LibcameraInv, LibcameraReturns, Cameras!Libcamera!Returns, Cameras!Libcamera!Quiet

LEMMA LibcameraBegin ==
  ASSUME LibcameraInv, NEW op \in Cameras!Libcamera!Operations, Cameras!Libcamera!Begin(op)
  PROVE  LibcameraInv' /\ LibcameraReturns
<1> USE DEF LibcameraStopping, LibcameraLending
<1>1. camera_call.op = "none" /\ camera_call.pc = "none"
  BY DEF Cameras!Libcamera!Begin, Cameras!Libcamera!Quiet, LibcameraInv, LibcameraPlaces
<1>2. UNCHANGED <<handle, disconnected, callback_failed, stopped, streaming, native_active, requests, held>>
  BY DEF Cameras!Libcamera!Begin, Cameras!Libcamera!flags
<1>3. /\ camera_call'.op = op /\ camera_call'.pc = "begin" /\ camera_call'.i = 0
           /\ camera_call'.before = Cameras!Libcamera!State /\ camera_call'.out = "ok"
      /\ camera_call' \in LibcameraCalls
  <2>1. Cameras!Libcamera!State \in Cameras!Libcamera!States
        /\ Cameras!Libcamera!Enter(op, "begin", Cameras!Libcamera!State)
    BY DEF Cameras!Libcamera!State, Cameras!Libcamera!States, Cameras!Libcamera!Begin
  <2> QED BY <2>1, LibcameraEnters
<1>4. Cameras!Libcamera!State' = Cameras!Libcamera!State /\ op # "none"
  BY <1>2 DEF Cameras!Libcamera!State, Cameras!Libcamera!Operations
<1>5. LibcameraTyped'
  BY <1>2, <1>3 DEF LibcameraInv, LibcameraTyped, LibcameraFlags, LibcameraStore
<1>6. Cameras!Libcamera!RequestsOwned' /\ LibcameraPlaces'
  BY <1>1, <1>2, <1>3, <1>4 DEF LibcameraInv, Cameras!Libcamera!RequestsOwned, Cameras!Libcamera!Reading,
       LibcameraPlaces
<1>7. LibcameraKept' /\ LibcameraLent'
  BY <1>1, <1>2, <1>3 DEF LibcameraInv, LibcameraKept, LibcameraLent, LibcameraCirculating,
       Cameras!Libcamera!Reading
<1> QED BY <1>1, <1>5, <1>6, <1>7 DEF LibcameraInv, LibcameraReturns, Cameras!Libcamera!Returns,
     Cameras!Libcamera!Quiet

LEMMA LibcameraHalt == ASSUME LibcameraInv, Cameras!Libcamera!Halt PROVE LibcameraInv' /\ LibcameraReturns
<1> USE DEF Cameras!Libcamera!Halt, Cameras!Libcamera!At, Cameras!Libcamera!flags, LibcameraStopping,
     LibcameraLending
<1> camera_call \in LibcameraCalls
  BY DEF LibcameraInv, LibcameraTyped
<1>1. camera_call' \in LibcameraCalls
  BY LibcameraGoes DEF LibcameraPoints, Cameras!Libcamera!Outcomes, LibcameraInv, LibcameraPlaces,
       LibcameraCalls, Cameras!Libcamera!CallType
<1>2. LibcameraFlags'
  BY DEF LibcameraInv, LibcameraTyped, LibcameraFlags
<1>3. LibcameraStore'
  BY DEF LibcameraInv, LibcameraTyped, LibcameraStore, LibcameraStores, Cameras!Libcamera!NoRequests
<1>4. Cameras!Libcamera!RequestsOwned'
  BY LibcameraGoes DEF LibcameraInv, LibcameraPlaces, LibcameraKept, LibcameraLent,
       Cameras!Libcamera!RequestsOwned, Cameras!Libcamera!Reading
<1>5. LibcameraPlaces'
  BY LibcameraGoes DEF LibcameraInv, LibcameraPlaces, LibcameraKept, Cameras!Libcamera!State
<1>6. LibcameraKept'
  BY LibcameraGoes DEF LibcameraInv, LibcameraPlaces, LibcameraKept, LibcameraLent,
       Cameras!Libcamera!RequestsOwned
<1>7. LibcameraLent'
  BY LibcameraGoes DEF LibcameraInv, LibcameraPlaces, LibcameraKept, LibcameraLent,
       Cameras!Libcamera!RequestsOwned, LibcameraCirculating, Cameras!Libcamera!Reading
<1>8. LibcameraReturns
  BY LibcameraGoes DEF LibcameraInv, LibcameraPlaces, LibcameraKept, LibcameraReturns,
       Cameras!Libcamera!Returns, Cameras!Libcamera!Quiet, Cameras!Libcamera!State, Cameras!Libcamera!After,
       Cameras!Libcamera!Success
<1> QED BY <1>1, <1>2, <1>3, <1>4, <1>5, <1>6, <1>7, <1>8 DEF LibcameraInv, LibcameraTyped

LEMMA LibcameraStopSucceeds ==
  ASSUME LibcameraInv, Cameras!Libcamera!StopSucceeds
  PROVE  LibcameraInv' /\ LibcameraReturns
<1> USE DEF Cameras!Libcamera!StopSucceeds, Cameras!Libcamera!At, Cameras!Libcamera!flags, LibcameraStopping,
     LibcameraLending
<1> camera_call \in LibcameraCalls
  BY DEF LibcameraInv, LibcameraTyped
<1>1. camera_call' \in LibcameraCalls
  BY LibcameraGoes DEF LibcameraPoints, Cameras!Libcamera!Outcomes, LibcameraInv, LibcameraPlaces,
       LibcameraCalls, Cameras!Libcamera!CallType
<1>2. LibcameraFlags'
  BY DEF LibcameraInv, LibcameraTyped, LibcameraFlags
<1>3. LibcameraStore'
  BY DEF LibcameraInv, LibcameraTyped, LibcameraStore, LibcameraStores, Cameras!Libcamera!NoRequests
<1>4. Cameras!Libcamera!RequestsOwned'
  BY LibcameraGoes DEF LibcameraInv, LibcameraPlaces, LibcameraKept, LibcameraLent,
       Cameras!Libcamera!RequestsOwned, Cameras!Libcamera!Reading
<1>5. LibcameraPlaces'
  BY LibcameraGoes DEF LibcameraInv, LibcameraPlaces, LibcameraKept, Cameras!Libcamera!State
<1>6. LibcameraKept'
  BY LibcameraGoes DEF LibcameraInv, LibcameraPlaces, LibcameraKept, LibcameraLent,
       Cameras!Libcamera!RequestsOwned
<1>7. LibcameraLent'
  BY LibcameraGoes DEF LibcameraInv, LibcameraPlaces, LibcameraKept, LibcameraLent,
       Cameras!Libcamera!RequestsOwned, LibcameraCirculating, Cameras!Libcamera!Reading
<1>8. LibcameraReturns
  BY LibcameraGoes DEF LibcameraInv, LibcameraPlaces, LibcameraKept, LibcameraReturns,
       Cameras!Libcamera!Returns, Cameras!Libcamera!Quiet, Cameras!Libcamera!State, Cameras!Libcamera!After,
       Cameras!Libcamera!Success
<1> QED BY <1>1, <1>2, <1>3, <1>4, <1>5, <1>6, <1>7, <1>8 DEF LibcameraInv, LibcameraTyped

LEMMA LibcameraStopFails ==
  ASSUME LibcameraInv, Cameras!Libcamera!StopFails
  PROVE  LibcameraInv' /\ LibcameraReturns
<1> USE DEF Cameras!Libcamera!StopFails, Cameras!Libcamera!At, Cameras!Libcamera!flags, LibcameraStopping,
     LibcameraLending
<1> camera_call \in LibcameraCalls
  BY DEF LibcameraInv, LibcameraTyped
<1>1. camera_call' \in LibcameraCalls
  BY LibcameraGoes DEF LibcameraPoints, Cameras!Libcamera!Outcomes, LibcameraInv, LibcameraPlaces,
       LibcameraCalls, Cameras!Libcamera!CallType
<1>2. LibcameraFlags'
  BY DEF LibcameraInv, LibcameraTyped, LibcameraFlags
<1>3. LibcameraStore'
  BY DEF LibcameraInv, LibcameraTyped, LibcameraStore, LibcameraStores, Cameras!Libcamera!NoRequests
<1>4. Cameras!Libcamera!RequestsOwned'
  BY LibcameraGoes DEF LibcameraInv, LibcameraPlaces, LibcameraKept, LibcameraLent,
       Cameras!Libcamera!RequestsOwned, Cameras!Libcamera!Reading
<1>5. LibcameraPlaces'
  BY LibcameraGoes DEF LibcameraInv, LibcameraPlaces, LibcameraKept, Cameras!Libcamera!State
<1>6. LibcameraKept'
  BY LibcameraGoes DEF LibcameraInv, LibcameraPlaces, LibcameraKept, LibcameraLent,
       Cameras!Libcamera!RequestsOwned
<1>7. LibcameraLent'
  BY LibcameraGoes DEF LibcameraInv, LibcameraPlaces, LibcameraKept, LibcameraLent,
       Cameras!Libcamera!RequestsOwned, LibcameraCirculating, Cameras!Libcamera!Reading
<1>8. LibcameraReturns
  BY LibcameraGoes DEF LibcameraInv, LibcameraPlaces, LibcameraKept, LibcameraReturns,
       Cameras!Libcamera!Returns, Cameras!Libcamera!Quiet, Cameras!Libcamera!State, Cameras!Libcamera!After,
       Cameras!Libcamera!Success
<1> QED BY <1>1, <1>2, <1>3, <1>4, <1>5, <1>6, <1>7, <1>8 DEF LibcameraInv, LibcameraTyped

LEMMA LibcameraSettle == ASSUME LibcameraInv, Cameras!Libcamera!Settle PROVE LibcameraInv' /\ LibcameraReturns
<1> USE DEF LibcameraStopping, LibcameraLending
<1>1. camera_call.pc = "settle" /\ ~streaming /\ camera_call.op \in {"start", "stop", "read", "close"}
      /\ camera_call \in LibcameraCalls
  BY DEF Cameras!Libcamera!Settle, LibcameraInv, LibcameraTyped, LibcameraPlaces
<1>2. UNCHANGED <<handle, disconnected, callback_failed, stopped, streaming, native_active, held>>
  BY DEF Cameras!Libcamera!Settle, Cameras!Libcamera!flags
<1>3. requests' = requests \/ (requests' = Cameras!Libcamera!NoRequests /\ held = {})
  <2> DEFINE pending == IF Cameras!Libcamera!Quiesced THEN {} ELSE requests.pending
  <2>1. requests' = IF stopped THEN Cameras!Libcamera!Cleared(pending) ELSE requests
    BY DEF Cameras!Libcamera!Settle
  <2>2. CASE stopped /\ pending = {}
    <3>1. held = {}
      BY <1>1, <2>2 DEF LibcameraInv, LibcameraKept, Cameras!Libcamera!RequestsOwned,
           Cameras!Libcamera!Quiesced
    <3> QED BY <2>1, <2>2, <3>1 DEF Cameras!Libcamera!Cleared
  <2>3. CASE stopped /\ pending # {}
    <3>1. requests' = [requests EXCEPT !.pending = requests.pending]
      BY <2>1, <2>3 DEF Cameras!Libcamera!Cleared
    <3> QED BY <3>1 DEF LibcameraInv, LibcameraTyped, LibcameraStore, LibcameraStores
  <2> QED BY <2>1, <2>2, <2>3
<1>4. /\ camera_call' \in LibcameraCalls
      /\ \/ /\ camera_call.op = "close" /\ camera_call'.op = "close" /\ camera_call'.pc = "drain"
                 /\ camera_call'.out = camera_call.out
            /\ camera_call'.before = camera_call.before
         \/ camera_call.op = "stop" /\ camera_call'.op = "none" /\ camera_call'.pc = "none"
              /\ camera_call'.out \in {"ok", "failed"}
         \/ camera_call.op \in {"start", "read"} /\ camera_call'.op = "none" /\ camera_call'.pc = "none"
              /\ camera_call'.out = camera_call.out
  <2>1. CASE camera_call.op = "close"
    BY <1>1, <2>1, LibcameraGoes DEF Cameras!Libcamera!Settle, Cameras!Libcamera!AfterStop, LibcameraPoints
  <2>2. CASE camera_call.op = "stop"
    <3>1. PICK out \in {"ok", "failed"} : Cameras!Libcamera!Return(out)
      BY <2>2 DEF Cameras!Libcamera!Settle, Cameras!Libcamera!AfterStop
    <3> QED BY <2>2, <3>1, LibcameraEnds DEF Cameras!Libcamera!Outcomes
  <2>3. CASE camera_call.op \in {"start", "read"}
    <3>1. Cameras!Libcamera!Return(camera_call.out)
          /\ camera_call.out \in Cameras!Libcamera!Outcomes \cup {"none"}
      BY <1>1, <2>3 DEF Cameras!Libcamera!Settle, Cameras!Libcamera!AfterStop, LibcameraCalls,
           Cameras!Libcamera!CallType
    <3> QED BY <2>3, <3>1, LibcameraEnds
  <2> QED BY <1>1, <2>1, <2>2, <2>3
<1>5. LibcameraTyped' /\ Cameras!Libcamera!RequestsOwned'
  <2>1. LibcameraFlags'
    BY <1>2 DEF LibcameraInv, LibcameraTyped, LibcameraFlags
  <2>2. CASE requests' = requests
    BY <1>1, <1>2, <1>4, <2>1, <2>2 DEF LibcameraInv, LibcameraTyped, LibcameraStore,
         Cameras!Libcamera!RequestsOwned, Cameras!Libcamera!Reading
  <2>3. CASE requests' = Cameras!Libcamera!NoRequests /\ held = {}
    BY <1>2, <1>4, <2>1, <2>3, LibcameraEmptied DEF LibcameraTyped
  <2> QED BY <1>3, <2>2, <2>3
<1>6. LibcameraPlaces'
  BY <1>1, <1>2, <1>4 DEF LibcameraInv, LibcameraPlaces
<1>7. LibcameraKept'
  BY <1>1, <1>2, <1>3, <1>4 DEF LibcameraInv, LibcameraKept
<1>8. LibcameraLent'
  BY <1>1, <1>2, <1>4 DEF LibcameraLent
<1>9. LibcameraReturns
  BY <1>1, <1>2, <1>4 DEF LibcameraInv, LibcameraPlaces, LibcameraReturns, Cameras!Libcamera!Returns,
       Cameras!Libcamera!Quiet, Cameras!Libcamera!State, Cameras!Libcamera!After, Cameras!Libcamera!Success,
     LibcameraCalls, Cameras!Libcamera!CallType, Cameras!Libcamera!States
<1> QED BY <1>5, <1>6, <1>7, <1>8, <1>9 DEF LibcameraInv

LEMMA LibcameraStop == ASSUME LibcameraInv, Cameras!Libcamera!Stop PROVE LibcameraInv' /\ LibcameraReturns
<1> USE DEF Cameras!Libcamera!Stop, Cameras!Libcamera!At, Cameras!Libcamera!flags, LibcameraStopping,
     LibcameraLending
<1> camera_call \in LibcameraCalls
  BY DEF LibcameraInv, LibcameraTyped
<1>1. camera_call' \in LibcameraCalls
  BY LibcameraGoes DEF LibcameraPoints, Cameras!Libcamera!Outcomes, LibcameraInv, LibcameraPlaces,
       LibcameraCalls, Cameras!Libcamera!CallType
<1>2. LibcameraFlags'
  BY DEF LibcameraInv, LibcameraTyped, LibcameraFlags
<1>3. LibcameraStore'
  BY DEF LibcameraInv, LibcameraTyped, LibcameraStore, LibcameraStores, Cameras!Libcamera!NoRequests
<1>4. Cameras!Libcamera!RequestsOwned'
  BY LibcameraGoes DEF LibcameraInv, LibcameraPlaces, LibcameraKept, LibcameraLent,
       Cameras!Libcamera!RequestsOwned, Cameras!Libcamera!Reading
<1>5. LibcameraPlaces'
  BY LibcameraGoes DEF LibcameraInv, LibcameraPlaces, LibcameraKept, Cameras!Libcamera!State
<1>6. LibcameraKept'
  BY LibcameraGoes DEF LibcameraInv, LibcameraPlaces, LibcameraKept, LibcameraLent,
       Cameras!Libcamera!RequestsOwned
<1>7. LibcameraLent'
  BY LibcameraGoes DEF LibcameraInv, LibcameraPlaces, LibcameraKept, LibcameraLent,
       Cameras!Libcamera!RequestsOwned, LibcameraCirculating, Cameras!Libcamera!Reading
<1>8. LibcameraReturns
  BY LibcameraGoes DEF LibcameraInv, LibcameraPlaces, LibcameraKept, LibcameraReturns,
       Cameras!Libcamera!Returns, Cameras!Libcamera!Quiet, Cameras!Libcamera!State, Cameras!Libcamera!After,
       Cameras!Libcamera!Success
<1> QED BY <1>1, <1>2, <1>3, <1>4, <1>5, <1>6, <1>7, <1>8 DEF LibcameraInv, LibcameraTyped

LEMMA LibcameraOpen == ASSUME LibcameraInv, Cameras!Libcamera!Open PROVE LibcameraInv' /\ LibcameraReturns
<1> USE DEF LibcameraStopping, LibcameraLending
<1>1. camera_call.pc = "begin" /\ camera_call.op = "open" /\ camera_call.before = Cameras!Libcamera!State
      /\ camera_call \in LibcameraCalls /\ camera_call.i = 0
  BY DEF Cameras!Libcamera!Open, Cameras!Libcamera!At, LibcameraInv, LibcameraTyped, LibcameraPlaces
<1>2. UNCHANGED <<streaming, stopped, callback_failed, native_active, requests, held>>
  BY DEF Cameras!Libcamera!Open
<1>3. /\ camera_call' \in LibcameraCalls
      /\ \/ /\ UNCHANGED <<handle, disconnected>>
            /\ camera_call'.op = "none" /\ camera_call'.pc = "none"
                 /\ camera_call'.out \in {"failed", "threw"}
         \/ /\ ~handle /\ handle' = TRUE /\ disconnected' = FALSE
            /\ camera_call'.op = "none" /\ camera_call'.pc = "none" /\ camera_call'.out = "ok"
         \/ /\ ~handle /\ handle' = TRUE /\ disconnected' = FALSE
            /\ camera_call'.op = "close" /\ camera_call'.pc = "halt" /\ camera_call'.out = "threw"
                 /\ camera_call'.before = camera_call.before
  <2>1. CASE (\E out \in {"failed", "threw"} : Cameras!Libcamera!Return(out))
        /\ UNCHANGED <<handle, disconnected>>
    BY <2>1, LibcameraEnds DEF Cameras!Libcamera!Outcomes
  <2>2. CASE ~handle /\ handle' = TRUE /\ disconnected' = FALSE /\ Cameras!Libcamera!Return("ok")
    BY <2>2, LibcameraEnds DEF Cameras!Libcamera!Outcomes
  <2>3. CASE /\ ~handle /\ handle' = TRUE /\ disconnected' = FALSE
             /\ camera_call' = [camera_call EXCEPT !.op = "close", !.pc = "halt", !.out = "threw"]
    <3>1. camera_call \in LibcameraCalls
      BY <1>1
    <3> QED BY <2>3, <3>1 DEF LibcameraCalls, Cameras!Libcamera!CallType, LibcameraPoints,
         Cameras!Libcamera!Outcomes, Cameras!Libcamera!Operations
  <2> QED BY <2>1, <2>2, <2>3 DEF Cameras!Libcamera!Open
<1>4. CASE UNCHANGED <<handle, disconnected>>
  <2>1. camera_call'.op = "none" /\ camera_call'.pc = "none" /\ camera_call'.out # "ok"
    <3>1. ~(~handle /\ handle' = TRUE)
      BY <1>4
    <3> QED BY <1>3, <3>1
  <2>2. LibcameraTyped'
    BY <1>2, <1>3, <1>4 DEF LibcameraInv, LibcameraTyped, LibcameraFlags, LibcameraStore
  <2>3. Cameras!Libcamera!RequestsOwned' /\ LibcameraPlaces'
    BY <1>1, <1>2, <2>1 DEF LibcameraInv, Cameras!Libcamera!RequestsOwned, Cameras!Libcamera!Reading,
         LibcameraPlaces
  <2>4. LibcameraKept' /\ LibcameraLent'
    BY <1>1, <1>2, <1>4, <2>1 DEF LibcameraInv, LibcameraKept, LibcameraLent, LibcameraCirculating,
         Cameras!Libcamera!Reading
  <2>5. LibcameraReturns
    BY <1>1, <1>2, <1>4, <2>1 DEF LibcameraReturns, Cameras!Libcamera!State, Cameras!Libcamera!After
  <2> QED BY <2>2, <2>3, <2>4, <2>5 DEF LibcameraInv
<1>5. CASE ~handle /\ handle' = TRUE /\ disconnected' = FALSE
  <2>1. ~streaming /\ ~native_active /\ requests = Cameras!Libcamera!NoRequests /\ held = {}
    BY <1>5 DEF LibcameraInv, LibcameraKept, Cameras!Libcamera!RequestsOwned, Cameras!Libcamera!NoRequests
  <2>2. Cameras!Libcamera!State = "closed" /\ Cameras!Libcamera!State' = "open"
    BY <1>2, <1>5, <2>1 DEF Cameras!Libcamera!State
  <2>3. /\ camera_call' \in LibcameraCalls
        /\ \/ camera_call'.op = "none" /\ camera_call'.pc = "none"
           \/ camera_call'.op = "close" /\ camera_call'.pc = "halt" /\ camera_call'.out = "threw"
                /\ camera_call'.before = "closed"
    BY <1>1, <1>3, <2>2
  <2>4. LibcameraTyped'
    <3>1. LibcameraFlags'
      BY <1>2, <1>5 DEF LibcameraInv, LibcameraTyped, LibcameraFlags
    <3> QED BY <1>2, <2>3, <3>1 DEF LibcameraInv, LibcameraTyped, LibcameraStore
  <2>5. Cameras!Libcamera!RequestsOwned'
    BY <1>1, <1>2, <2>3 DEF LibcameraInv, Cameras!Libcamera!RequestsOwned, Cameras!Libcamera!Reading
  <2>6. LibcameraPlaces'
    BY <1>2, <1>5, <2>1, <2>3 DEF LibcameraPlaces
  <2>7. LibcameraKept' /\ LibcameraLent'
    BY <1>2, <1>5, <2>1, <2>3 DEF LibcameraKept, LibcameraLent
  <2>8. LibcameraReturns
    <3>1. Cameras!Libcamera!Returns => camera_call'.out = "ok" \/ (camera_call'.out # "ok" /\ handle' = handle)
      BY <1>3 DEF Cameras!Libcamera!Returns, Cameras!Libcamera!Quiet
    <3> QED BY <1>1, <1>5, <2>2, <3>1 DEF LibcameraReturns, Cameras!Libcamera!After, Cameras!Libcamera!Success
  <2> QED BY <2>4, <2>5, <2>6, <2>7, <2>8 DEF LibcameraInv
<1> QED BY <1>3, <1>4, <1>5

LEMMA LibcameraClose == ASSUME LibcameraInv, Cameras!Libcamera!Close PROVE LibcameraInv' /\ LibcameraReturns
<1> USE DEF Cameras!Libcamera!Close, Cameras!Libcamera!At, Cameras!Libcamera!flags, LibcameraStopping,
     LibcameraLending
<1> camera_call \in LibcameraCalls
  BY DEF LibcameraInv, LibcameraTyped
<1>1. camera_call' \in LibcameraCalls
  BY LibcameraGoes, LibcameraEnds DEF LibcameraPoints, Cameras!Libcamera!Outcomes, LibcameraInv,
       LibcameraPlaces, LibcameraCalls, Cameras!Libcamera!CallType
<1>2. LibcameraFlags'
  BY DEF LibcameraInv, LibcameraTyped, LibcameraFlags
<1>3. LibcameraStore'
  BY DEF LibcameraInv, LibcameraTyped, LibcameraStore, LibcameraStores, Cameras!Libcamera!NoRequests
<1>4. Cameras!Libcamera!RequestsOwned'
  BY LibcameraGoes, LibcameraEnds DEF LibcameraInv, LibcameraPlaces, LibcameraKept, LibcameraLent,
       Cameras!Libcamera!RequestsOwned, Cameras!Libcamera!Reading
<1>5. LibcameraPlaces'
  BY LibcameraGoes, LibcameraEnds DEF LibcameraInv, LibcameraPlaces, LibcameraKept, Cameras!Libcamera!State
<1>6. LibcameraKept'
  BY LibcameraGoes, LibcameraEnds DEF LibcameraInv, LibcameraPlaces, LibcameraKept, LibcameraLent,
       Cameras!Libcamera!RequestsOwned
<1>7. LibcameraLent'
  BY LibcameraGoes, LibcameraEnds DEF LibcameraInv, LibcameraPlaces, LibcameraKept, LibcameraLent,
       Cameras!Libcamera!RequestsOwned, LibcameraCirculating, Cameras!Libcamera!Reading
<1>8. LibcameraReturns
  BY LibcameraGoes, LibcameraEnds DEF LibcameraInv, LibcameraPlaces, LibcameraKept, LibcameraReturns,
       Cameras!Libcamera!Returns, Cameras!Libcamera!Quiet, Cameras!Libcamera!State, Cameras!Libcamera!After,
       Cameras!Libcamera!Success
<1> QED BY <1>1, <1>2, <1>3, <1>4, <1>5, <1>6, <1>7, <1>8 DEF LibcameraInv, LibcameraTyped

LEMMA LibcameraCloseDrained ==
  ASSUME LibcameraInv, Cameras!Libcamera!CloseDrained
  PROVE  LibcameraInv' /\ LibcameraReturns
<1> USE DEF LibcameraStopping, LibcameraLending
<1>1. camera_call.pc = "drain" /\ camera_call.op = "close" /\ ~streaming /\ requests.pending = {}
      /\ camera_call \in LibcameraCalls
      /\ (camera_call.out = "ok" \/ camera_call.before = "closed")
  BY DEF Cameras!Libcamera!CloseDrained, Cameras!Libcamera!At, Cameras!Libcamera!MayFree,
       Cameras!Libcamera!Outstanding, LibcameraInv, LibcameraTyped, LibcameraPlaces
<1>2. /\ requests' = Cameras!Libcamera!NoRequests /\ handle' = FALSE /\ disconnected' = FALSE
      /\ callback_failed' = FALSE /\ native_active' = FALSE
      /\ UNCHANGED <<streaming, stopped, held>>
  BY DEF Cameras!Libcamera!CloseDrained
<1>3. held' = {}
  BY <1>1, <1>2 DEF LibcameraInv, Cameras!Libcamera!RequestsOwned
<1>4. camera_call'.op = "none" /\ camera_call'.pc = "none" /\ camera_call'.out = camera_call.out
      /\ camera_call' \in LibcameraCalls
  <2>1. Cameras!Libcamera!Return(camera_call.out)
        /\ camera_call.out \in Cameras!Libcamera!Outcomes \cup {"none"}
    BY <1>1 DEF Cameras!Libcamera!CloseDrained, LibcameraCalls, Cameras!Libcamera!CallType
  <2> QED BY <2>1, LibcameraEnds
<1>5. LibcameraTyped' /\ Cameras!Libcamera!RequestsOwned'
  <2>1. LibcameraFlags'
    BY <1>2 DEF LibcameraInv, LibcameraTyped, LibcameraFlags
  <2> QED BY <1>2, <1>3, <1>4, <2>1, LibcameraEmptied DEF LibcameraTyped
<1>6. LibcameraPlaces' /\ LibcameraKept' /\ LibcameraLent'
  BY <1>1, <1>2, <1>3, <1>4 DEF LibcameraPlaces, LibcameraKept, LibcameraLent
<1>7. LibcameraReturns
  BY <1>1, <1>2, <1>4 DEF LibcameraReturns, Cameras!Libcamera!State, Cameras!Libcamera!After,
       Cameras!Libcamera!Success
<1> QED BY <1>5, <1>6, <1>7 DEF LibcameraInv

LEMMA LibcameraStartBegin ==
  ASSUME LibcameraInv, Cameras!Libcamera!StartBegin
  PROVE  LibcameraInv' /\ LibcameraReturns
<1> USE DEF Cameras!Libcamera!StartBegin, Cameras!Libcamera!MayStart, Cameras!Libcamera!Outstanding,
     Cameras!Libcamera!At, Cameras!Libcamera!flags, LibcameraStopping, LibcameraLending
<1> camera_call \in LibcameraCalls
  BY DEF LibcameraInv, LibcameraTyped
<1>1. camera_call' \in LibcameraCalls
  BY LibcameraGoes, LibcameraEnds DEF LibcameraPoints, Cameras!Libcamera!Outcomes, LibcameraInv,
       LibcameraPlaces, LibcameraCalls, Cameras!Libcamera!CallType
<1>2. LibcameraFlags'
  BY DEF LibcameraInv, LibcameraTyped, LibcameraFlags
<1>3. LibcameraStore'
  BY DEF LibcameraInv, LibcameraTyped, LibcameraStore, LibcameraStores, Cameras!Libcamera!NoRequests
<1>4. Cameras!Libcamera!RequestsOwned'
  BY LibcameraGoes, LibcameraEnds DEF LibcameraInv, LibcameraPlaces, LibcameraKept, LibcameraLent,
       Cameras!Libcamera!RequestsOwned, Cameras!Libcamera!Reading
<1>5. LibcameraPlaces'
  BY LibcameraGoes, LibcameraEnds DEF LibcameraInv, LibcameraPlaces, LibcameraKept, Cameras!Libcamera!State
<1>6. LibcameraKept'
  BY LibcameraGoes, LibcameraEnds DEF LibcameraInv, LibcameraPlaces, LibcameraKept, LibcameraLent,
       Cameras!Libcamera!RequestsOwned
<1>7. LibcameraLent'
  BY LibcameraGoes, LibcameraEnds DEF LibcameraInv, LibcameraPlaces, LibcameraKept, LibcameraLent,
       Cameras!Libcamera!RequestsOwned, LibcameraCirculating, Cameras!Libcamera!Reading
<1>8. LibcameraReturns
  BY LibcameraGoes, LibcameraEnds DEF LibcameraInv, LibcameraPlaces, LibcameraKept, LibcameraReturns,
       Cameras!Libcamera!Returns, Cameras!Libcamera!Quiet, Cameras!Libcamera!State, Cameras!Libcamera!After,
       Cameras!Libcamera!Success
<1> QED BY <1>1, <1>2, <1>3, <1>4, <1>5, <1>6, <1>7, <1>8 DEF LibcameraInv, LibcameraTyped

LEMMA LibcameraStartFails ==
  ASSUME LibcameraInv, Cameras!Libcamera!StartFails
  PROVE  LibcameraInv' /\ LibcameraReturns
<1> USE DEF Cameras!Libcamera!StartFails, Cameras!Libcamera!Rollback, Cameras!Libcamera!At,
     Cameras!Libcamera!flags, LibcameraStopping, LibcameraLending
<1> camera_call \in LibcameraCalls
  BY DEF LibcameraInv, LibcameraTyped
<1>1. camera_call' \in LibcameraCalls
  BY LibcameraFalls DEF LibcameraPoints, Cameras!Libcamera!Outcomes, LibcameraInv, LibcameraPlaces,
       LibcameraCalls, Cameras!Libcamera!CallType
<1>2. LibcameraFlags'
  BY DEF LibcameraInv, LibcameraTyped, LibcameraFlags
<1>3. LibcameraStore'
  BY DEF LibcameraInv, LibcameraTyped, LibcameraStore, LibcameraStores, Cameras!Libcamera!NoRequests
<1>4. Cameras!Libcamera!RequestsOwned'
  BY LibcameraFalls DEF LibcameraInv, LibcameraPlaces, LibcameraKept, LibcameraLent,
       Cameras!Libcamera!RequestsOwned, Cameras!Libcamera!Reading
<1>5. LibcameraPlaces'
  BY LibcameraFalls DEF LibcameraInv, LibcameraPlaces, LibcameraKept, Cameras!Libcamera!State
<1>6. LibcameraKept'
  BY LibcameraFalls DEF LibcameraInv, LibcameraPlaces, LibcameraKept, LibcameraLent,
       Cameras!Libcamera!RequestsOwned
<1>7. LibcameraLent'
  BY LibcameraFalls DEF LibcameraInv, LibcameraPlaces, LibcameraKept, LibcameraLent,
       Cameras!Libcamera!RequestsOwned, LibcameraCirculating, Cameras!Libcamera!Reading
<1>8. LibcameraReturns
  BY LibcameraFalls DEF LibcameraInv, LibcameraPlaces, LibcameraKept, LibcameraReturns,
       Cameras!Libcamera!Returns, Cameras!Libcamera!Quiet, Cameras!Libcamera!State, Cameras!Libcamera!After,
       Cameras!Libcamera!Success
<1> QED BY <1>1, <1>2, <1>3, <1>4, <1>5, <1>6, <1>7, <1>8 DEF LibcameraInv, LibcameraTyped

LEMMA LibcameraPrepare ==
  ASSUME LibcameraInv, Cameras!Libcamera!Prepare
  PROVE  LibcameraInv' /\ LibcameraReturns
<1> USE DEF LibcameraStopping, LibcameraLending
<1>1. /\ camera_call.pc = "prepare" /\ camera_call.op = "start" /\ camera_call.before = "open"
           /\ camera_call.out = "ok" /\ camera_call.i = 0
      /\ handle /\ ~streaming /\ held = {} /\ camera_call \in LibcameraCalls
  BY DEF Cameras!Libcamera!Prepare, Cameras!Libcamera!At, LibcameraInv, LibcameraTyped, LibcameraPlaces,
       LibcameraKept, Cameras!Libcamera!RequestsOwned
<1>2. UNCHANGED <<handle, disconnected, callback_failed, stopped, streaming, native_active, held>>
  BY DEF Cameras!Libcamera!Prepare, Cameras!Libcamera!flags
<1>3. /\ LibcameraStore' /\ requests'.owners = Cameras!Libcamera!Indices /\ requests'.ready = <<>>
           /\ requests'.pending = {}
      /\ Cameras!Libcamera!Range(requests'.ready) = {} /\ Cameras!Libcamera!IsInjective(requests'.ready)
  <2>1. requests' = [owners |-> Cameras!Libcamera!Indices, pending |-> {}, ready |-> <<>>, fault |-> FALSE]
    BY DEF Cameras!Libcamera!Prepare, Cameras!Libcamera!NoRequests
  <2> QED BY <2>1, LibcameraFresh
<1>4. /\ camera_call'.pc = "prepared" /\ camera_call'.op = "start" /\ camera_call'.before = "open"
           /\ camera_call'.out = "ok" /\ camera_call'.i = 0
      /\ camera_call' \in LibcameraCalls
  BY <1>1, LibcameraGoes DEF Cameras!Libcamera!Prepare, LibcameraPoints
<1>5. LibcameraTyped' /\ Cameras!Libcamera!RequestsOwned'
  <2>1. LibcameraFlags'
    BY <1>2 DEF LibcameraInv, LibcameraTyped, LibcameraFlags
  <2> QED BY <1>1, <1>2, <1>3, <1>4, <2>1 DEF LibcameraTyped, Cameras!Libcamera!RequestsOwned,
       Cameras!Libcamera!Reading
<1>6. LibcameraPlaces' /\ LibcameraKept' /\ LibcameraLent'
  BY <1>1, <1>2, <1>3, <1>4 DEF LibcameraPlaces, LibcameraKept, LibcameraLent
<1> QED BY <1>1, <1>4, <1>5, <1>6 DEF LibcameraInv, LibcameraReturns, Cameras!Libcamera!Returns,
     Cameras!Libcamera!Quiet

LEMMA LibcameraStartNative ==
  ASSUME LibcameraInv, Cameras!Libcamera!StartNative
  PROVE  LibcameraInv' /\ LibcameraReturns
<1> USE DEF LibcameraStopping, LibcameraLending
<1>1. /\ camera_call.pc = "prepared" /\ camera_call.op = "start" /\ camera_call.before = "open"
           /\ camera_call.out = "ok" /\ camera_call.i = 0
      /\ handle /\ ~streaming /\ held = {} /\ camera_call \in LibcameraCalls
      /\ requests.pending = {} /\ requests.owners = Cameras!Libcamera!Indices /\ requests.ready = <<>>
  BY DEF Cameras!Libcamera!StartNative, Cameras!Libcamera!At, LibcameraInv, LibcameraTyped, LibcameraPlaces,
       LibcameraKept, Cameras!Libcamera!RequestsOwned
<1>2. UNCHANGED <<handle, disconnected, stopped, requests, held>> /\ native_active' = TRUE
  BY DEF Cameras!Libcamera!StartNative
<1>3. /\ camera_call' \in LibcameraCalls /\ camera_call'.op = "start" /\ camera_call'.before = "open"
           /\ camera_call'.i = 0
      /\ \/ streaming' = TRUE /\ callback_failed' = FALSE /\ camera_call'.pc = "queue"
              /\ camera_call'.out = "ok"
         \/ UNCHANGED <<streaming, callback_failed>> /\ camera_call'.pc = "halt"
              /\ camera_call'.out = "failed"
  BY <1>1, LibcameraGoes, LibcameraFalls DEF Cameras!Libcamera!StartNative, Cameras!Libcamera!Rollback,
       LibcameraPoints, Cameras!Libcamera!Outcomes
<1>4. LibcameraTyped'
  <2>1. LibcameraFlags'
    BY <1>2, <1>3 DEF LibcameraInv, LibcameraTyped, LibcameraFlags
  <2> QED BY <1>2, <1>3, <2>1 DEF LibcameraInv, LibcameraTyped, LibcameraStore
<1>5. Cameras!Libcamera!RequestsOwned'
  BY <1>1, <1>2, <1>3 DEF LibcameraInv, Cameras!Libcamera!RequestsOwned, Cameras!Libcamera!Reading
<1>6. LibcameraPlaces' /\ LibcameraKept'
  BY <1>1, <1>2, <1>3 DEF LibcameraPlaces, LibcameraKept
<1>7. LibcameraLent'
  <2>1. requests'.pending \cup Cameras!Libcamera!Range(requests'.ready) = {}
    BY <1>1, <1>2, LibcameraEmpty
  <2>2. 0..(0 - 1) = {}
    OBVIOUS
  <2> QED BY <1>1, <1>3, <2>1, <2>2 DEF LibcameraLent, LibcameraCirculating
<1> QED BY <1>1, <1>3, <1>4, <1>5, <1>6, <1>7 DEF LibcameraInv, LibcameraReturns, Cameras!Libcamera!Returns,
     Cameras!Libcamera!Quiet

LEMMA LibcameraStartQueued ==
  ASSUME LibcameraInv, Cameras!Libcamera!StartQueued
  PROVE  LibcameraInv' /\ LibcameraReturns
<1> USE DEF LibcameraStopping, LibcameraLending
<1>1. /\ camera_call.pc = "queue" /\ camera_call.op = "start" /\ camera_call.before = "open"
           /\ camera_call.i = Buffers
      /\ streaming /\ handle /\ camera_call \in LibcameraCalls
  BY DEF Cameras!Libcamera!StartQueued, Cameras!Libcamera!At, LibcameraInv, LibcameraTyped, LibcameraPlaces,
       LibcameraKept
<1>2. UNCHANGED <<handle, disconnected, callback_failed, stopped, streaming, native_active, requests, held>>
  BY DEF Cameras!Libcamera!StartQueued, Cameras!Libcamera!flags
<1>3. camera_call'.op = "none" /\ camera_call'.pc = "none" /\ camera_call'.out = "ok"
      /\ camera_call' \in LibcameraCalls
  BY LibcameraEnds DEF Cameras!Libcamera!StartQueued, Cameras!Libcamera!Outcomes
<1>4. LibcameraTyped'
  BY <1>2, <1>3 DEF LibcameraInv, LibcameraTyped, LibcameraFlags, LibcameraStore
<1>5. Cameras!Libcamera!RequestsOwned'
  BY <1>2, <1>3 DEF LibcameraInv, Cameras!Libcamera!RequestsOwned, Cameras!Libcamera!Reading
<1>6. LibcameraPlaces' /\ LibcameraKept'
  BY <1>1, <1>2, <1>3 DEF LibcameraInv, LibcameraPlaces, LibcameraKept
<1>7. LibcameraLent'
  <2>1. requests.pending \cup Cameras!Libcamera!Range(requests.ready) = Cameras!Libcamera!Indices
    BY <1>1 DEF LibcameraInv, LibcameraLent, LibcameraCirculating, Cameras!Libcamera!Indices
  <2> QED BY <1>2, <1>3, <2>1 DEF LibcameraLent, LibcameraCirculating, Cameras!Libcamera!Reading,
       Cameras!Libcamera!Indices
<1>8. LibcameraReturns
  BY <1>1, <1>2, <1>3 DEF LibcameraReturns, Cameras!Libcamera!State, Cameras!Libcamera!After,
       Cameras!Libcamera!Success
<1> QED BY <1>4, <1>5, <1>6, <1>7, <1>8 DEF LibcameraInv

LEMMA LibcameraQueueThrows ==
  ASSUME LibcameraInv, Cameras!Libcamera!QueueThrows
  PROVE  LibcameraInv' /\ LibcameraReturns
<1> USE DEF Cameras!Libcamera!QueueThrows, Cameras!Libcamera!Queueing, Cameras!Libcamera!Rollback,
     Cameras!Libcamera!At, Cameras!Libcamera!flags, LibcameraStopping, LibcameraLending
<1> camera_call \in LibcameraCalls
  BY DEF LibcameraInv, LibcameraTyped
<1>1. camera_call' \in LibcameraCalls
  BY LibcameraFalls DEF LibcameraPoints, Cameras!Libcamera!Outcomes, LibcameraInv, LibcameraPlaces,
       LibcameraCalls, Cameras!Libcamera!CallType
<1>2. LibcameraFlags'
  BY DEF LibcameraInv, LibcameraTyped, LibcameraFlags
<1>3. LibcameraStore'
  BY DEF LibcameraInv, LibcameraTyped, LibcameraStore, LibcameraStores, Cameras!Libcamera!NoRequests
<1>4. Cameras!Libcamera!RequestsOwned'
  BY LibcameraFalls DEF LibcameraInv, LibcameraPlaces, LibcameraKept, LibcameraLent,
       Cameras!Libcamera!RequestsOwned, Cameras!Libcamera!Reading
<1>5. LibcameraPlaces'
  BY LibcameraFalls DEF LibcameraInv, LibcameraPlaces, LibcameraKept, Cameras!Libcamera!State
<1>6. LibcameraKept'
  BY LibcameraFalls DEF LibcameraInv, LibcameraPlaces, LibcameraKept, LibcameraLent,
       Cameras!Libcamera!RequestsOwned
<1>7. LibcameraLent'
  BY LibcameraFalls DEF LibcameraInv, LibcameraPlaces, LibcameraKept, LibcameraLent,
       Cameras!Libcamera!RequestsOwned, LibcameraCirculating, Cameras!Libcamera!Reading
<1>8. LibcameraReturns
  BY LibcameraFalls DEF LibcameraInv, LibcameraPlaces, LibcameraKept, LibcameraReturns,
       Cameras!Libcamera!Returns, Cameras!Libcamera!Quiet, Cameras!Libcamera!State, Cameras!Libcamera!After,
       Cameras!Libcamera!Success
<1> QED BY <1>1, <1>2, <1>3, <1>4, <1>5, <1>6, <1>7, <1>8 DEF LibcameraInv, LibcameraTyped

LEMMA LibcameraQueueBegin ==
  ASSUME LibcameraInv, Cameras!Libcamera!QueueBegin
  PROVE  LibcameraInv' /\ LibcameraReturns
<1> USE DEF LibcameraStopping, LibcameraLending
<1>1. /\ camera_call.pc = "queue" /\ camera_call.op \in {"start", "read"} /\ streaming /\ handle
           /\ camera_call \in LibcameraCalls
      /\ (camera_call.op = "start" =>
           camera_call.before = "open" /\ camera_call.out = "ok" /\ camera_call.i < Buffers)
      /\ (camera_call.op = "read" => camera_call.before = "streaming")
  BY DEF Cameras!Libcamera!QueueBegin, Cameras!Libcamera!Queueing, Cameras!Libcamera!At, LibcameraInv,
       LibcameraTyped, LibcameraPlaces, LibcameraKept
<1>2. UNCHANGED <<handle, disconnected, callback_failed, stopped, streaming, native_active, held>>
  BY DEF Cameras!Libcamera!QueueBegin, Cameras!Libcamera!flags
<1>3. LibcameraFlags' /\ LibcameraStore
  BY <1>2 DEF LibcameraInv, LibcameraTyped, LibcameraFlags
<1>4. CASE camera_call.i \in requests.pending
  <2>1. LibcameraStore' /\ requests'.owners = requests.owners /\ requests'.ready = requests.ready
        /\ requests'.pending = requests.pending
    BY <1>3, <1>4, LibcameraFaulty DEF Cameras!Libcamera!QueueBegin
  <2>2. PICK out \in Cameras!Libcamera!Outcomes \ {"ok"} : Cameras!Libcamera!Fail(out, "halt")
    <3> DEFINE out == IF camera_call.out = "ok" THEN "failed" ELSE camera_call.out
    <3>1. Cameras!Libcamera!Fail(out, "halt")
      BY <1>4 DEF Cameras!Libcamera!QueueBegin, Cameras!Libcamera!Rollback
    <3>2. out \in Cameras!Libcamera!Outcomes \ {"ok"}
      <4>1. camera_call.out \in Cameras!Libcamera!Outcomes
        BY <1>1 DEF LibcameraCalls, Cameras!Libcamera!CallType, LibcameraInv, LibcameraPlaces
      <4> QED BY <4>1 DEF Cameras!Libcamera!Outcomes
    <3> QED BY <3>1, <3>2
  <2>3. /\ camera_call'.op = camera_call.op /\ camera_call'.pc = "halt"
             /\ camera_call'.before = camera_call.before /\ camera_call'.out \notin {"ok", "none"}
        /\ camera_call' \in LibcameraCalls
    BY <1>1, <2>2, LibcameraFalls DEF LibcameraPoints, Cameras!Libcamera!Outcomes
  <2>4. LibcameraTyped' /\ Cameras!Libcamera!RequestsOwned'
    BY <1>2, <1>3, <2>1, <2>3 DEF LibcameraInv, LibcameraTyped, Cameras!Libcamera!RequestsOwned,
         Cameras!Libcamera!Reading
  <2>5. LibcameraPlaces'
    BY <1>1, <1>2, <2>3 DEF LibcameraPlaces
  <2>6. LibcameraKept'
    BY <1>1, <1>2, <2>1, <2>3 DEF LibcameraInv, LibcameraKept
  <2>7. LibcameraLent'
    BY <2>3 DEF LibcameraLent
  <2> QED BY <1>1, <2>3, <2>4, <2>5, <2>6, <2>7 DEF LibcameraInv, LibcameraReturns, Cameras!Libcamera!Returns,
       Cameras!Libcamera!Quiet
<1>5. CASE camera_call.i \notin requests.pending
  <2>1. camera_call.i \in Cameras!Libcamera!Indices
    <3>1. camera_call.i \in 0..Buffers
      BY <1>1 DEF LibcameraCalls, Cameras!Libcamera!CallType
    <3> QED BY <1>1, <3>1, CameraBounds DEF LibcameraInv, LibcameraLent, Cameras!Libcamera!Indices
  <2>2. LibcameraStore' /\ requests'.owners = requests.owners /\ requests'.ready = requests.ready
        /\ requests'.pending = requests.pending \cup {camera_call.i}
    <3>1. requests.pending \cup {camera_call.i} \in SUBSET Cameras!Libcamera!Indices
      BY <1>3, <2>1 DEF LibcameraStore, LibcameraStores
    <3> QED BY <1>3, <1>5, <3>1, LibcameraStored DEF Cameras!Libcamera!QueueBegin, Cameras!Libcamera!Ledger
  <2>3. /\ camera_call'.op = camera_call.op /\ camera_call'.pc = "queueing" /\ camera_call'.i = camera_call.i
             /\ camera_call'.before = camera_call.before
        /\ camera_call'.out = camera_call.out /\ camera_call' \in LibcameraCalls
    BY <1>1, <1>5, LibcameraGoes DEF Cameras!Libcamera!QueueBegin, LibcameraPoints
  <2>4. camera_call.i \notin Cameras!Libcamera!Range(requests.ready) /\ camera_call.i \notin held
    <3>1. camera_call.i \notin held
      BY <1>5 DEF LibcameraInv, Cameras!Libcamera!RequestsOwned
    <3>2. CASE camera_call.op = "read"
      BY <1>1, <3>1, <3>2 DEF LibcameraInv, Cameras!Libcamera!RequestsOwned, Cameras!Libcamera!Reading
    <3>3. CASE camera_call.op = "start"
      <4>1. requests.pending \cup Cameras!Libcamera!Range(requests.ready) = 0..(camera_call.i - 1)
        BY <1>1, <3>3 DEF LibcameraInv, LibcameraLent, LibcameraCirculating
      <4>2. camera_call.i \notin 0..(camera_call.i - 1)
        BY <2>1 DEF Cameras!Libcamera!Indices
      <4> QED BY <3>1, <4>1, <4>2
    <3> QED BY <1>1, <3>2, <3>3
  <2>5. LibcameraTyped' /\ LibcameraPlaces' /\ LibcameraKept'
    BY <1>1, <1>2, <1>3, <2>2, <2>3 DEF LibcameraInv, LibcameraTyped, LibcameraPlaces, LibcameraKept
  <2>6. Cameras!Libcamera!RequestsOwned'
    <3>1. requests.owners = Cameras!Libcamera!Indices
      BY <1>1 DEF LibcameraInv, LibcameraKept
    <3> QED BY <1>2, <2>1, <2>2, <2>3, <2>4, <3>1 DEF LibcameraInv, Cameras!Libcamera!RequestsOwned,
         Cameras!Libcamera!Reading
  <2>7. LibcameraLent'
    <3>1. CASE camera_call.op = "read"
      <4>1. requests.pending \cup Cameras!Libcamera!Range(requests.ready) = Cameras!Libcamera!Indices \ {camera_call.i}
        BY <1>1, <3>1 DEF LibcameraInv, LibcameraLent, LibcameraCirculating, Cameras!Libcamera!Reading
      <4>2. requests'.pending \cup Cameras!Libcamera!Range(requests'.ready) = Cameras!Libcamera!Indices
        BY <2>1, <2>2, <4>1
      <4> QED BY <1>2, <2>2, <2>3, <2>4, <3>1, <4>2 DEF LibcameraLent, LibcameraCirculating,
           Cameras!Libcamera!Reading, Cameras!Libcamera!Indices
    <3>2. CASE camera_call.op = "start"
      <4>1. requests.pending \cup Cameras!Libcamera!Range(requests.ready) = 0..(camera_call.i - 1)
        BY <1>1, <3>2 DEF LibcameraInv, LibcameraLent, LibcameraCirculating
      <4>2. 0..(camera_call.i - 1) \cup {camera_call.i} = 0..camera_call.i
        BY <2>1 DEF Cameras!Libcamera!Indices
      <4>3. requests'.pending \cup Cameras!Libcamera!Range(requests'.ready) = 0..camera_call.i
        BY <2>2, <4>1, <4>2
      <4> QED BY <1>2, <2>2, <2>3, <2>4, <3>2, <4>3 DEF LibcameraLent, LibcameraCirculating
    <3> QED BY <1>1, <3>1, <3>2
  <2> QED BY <1>1, <2>3, <2>5, <2>6, <2>7 DEF LibcameraInv, LibcameraReturns, Cameras!Libcamera!Returns,
       Cameras!Libcamera!Quiet
<1> QED BY <1>4, <1>5

LEMMA LibcameraQueueAccepted ==
  ASSUME LibcameraInv, Cameras!Libcamera!QueueAccepted
  PROVE  LibcameraInv' /\ LibcameraReturns
<1> USE DEF LibcameraStopping, LibcameraLending
<1>1. /\ camera_call.pc = "queueing" /\ camera_call.op \in {"start", "read"} /\ streaming /\ handle
           /\ native_active
      /\ camera_call.i \in requests.pending /\ camera_call.i \in Cameras!Libcamera!Indices
           /\ camera_call \in LibcameraCalls
      /\ (camera_call.op = "start" => camera_call.before = "open" /\ camera_call.out = "ok")
      /\ (camera_call.op = "read" => camera_call.before = "streaming")
  BY DEF Cameras!Libcamera!QueueAccepted, Cameras!Libcamera!At, LibcameraInv, LibcameraTyped, LibcameraStore,
       LibcameraStores, LibcameraPlaces,
         LibcameraKept, LibcameraLent
<1>2. /\ UNCHANGED <<handle, disconnected, callback_failed, stopped, streaming, native_active, requests>>
      /\ held' = held \cup {camera_call.i}
  BY DEF Cameras!Libcamera!QueueAccepted, Cameras!Libcamera!flags
<1>3. /\ camera_call' \in LibcameraCalls
      /\ \/ camera_call.op = "read" /\ camera_call'.op = "none" /\ camera_call'.pc = "none"
              /\ camera_call'.out = camera_call.out
         \/ /\ camera_call.op = "start" /\ camera_call'.op = "start" /\ camera_call'.pc = "queue"
                 /\ camera_call'.i = camera_call.i + 1
            /\ camera_call'.before = "open" /\ camera_call'.out = "ok"
  <2>1. CASE camera_call.op = "read"
    <3>1. Cameras!Libcamera!Return(camera_call.out)
          /\ camera_call.out \in Cameras!Libcamera!Outcomes \cup {"none"}
      BY <1>1, <2>1 DEF Cameras!Libcamera!QueueAccepted, LibcameraCalls, Cameras!Libcamera!CallType
    <3> QED BY <2>1, <3>1, LibcameraEnds
  <2>2. CASE camera_call.op = "start"
    <3>1. camera_call' = [camera_call EXCEPT !.pc = "queue", !.i = camera_call.i + 1]
      BY <2>2 DEF Cameras!Libcamera!QueueAccepted
    <3>2. camera_call.i + 1 \in 0..Buffers
      BY <1>1, CameraBounds DEF Cameras!Libcamera!Indices
    <3> QED BY <1>1, <2>2, <3>1, <3>2 DEF LibcameraCalls, Cameras!Libcamera!CallType, LibcameraPoints
  <2> QED BY <1>1, <2>1, <2>2
<1>4. LibcameraTyped'
  BY <1>2, <1>3 DEF LibcameraInv, LibcameraTyped, LibcameraFlags, LibcameraStore
<1>5. Cameras!Libcamera!RequestsOwned'
  BY <1>1, <1>2, <1>3 DEF LibcameraInv, Cameras!Libcamera!RequestsOwned, Cameras!Libcamera!Reading
<1>6. LibcameraPlaces'
  <2>1. CASE camera_call.op = "read"
    BY <1>3, <2>1 DEF LibcameraPlaces
  <2>2. CASE camera_call.op = "start"
    BY <1>1, <1>2, <1>3, <2>2 DEF LibcameraPlaces
  <2> QED BY <1>1, <2>1, <2>2
<1>7. LibcameraKept'
  BY <1>1, <1>2, <1>3 DEF LibcameraInv, LibcameraKept
<1>8. LibcameraLent'
  <2>1. CASE camera_call.op = "read"
    <3>1. requests.pending \cup Cameras!Libcamera!Range(requests.ready) = Cameras!Libcamera!Indices
      BY <1>1, <2>1 DEF LibcameraInv, LibcameraLent, LibcameraCirculating, Cameras!Libcamera!Reading
    <3> QED BY <1>2, <1>3, <2>1, <3>1 DEF LibcameraLent, LibcameraCirculating, Cameras!Libcamera!Reading,
         Cameras!Libcamera!Indices
  <2>2. CASE camera_call.op = "start"
    <3>1. requests.pending \cup Cameras!Libcamera!Range(requests.ready) = 0..camera_call.i
      BY <1>1, <2>2 DEF LibcameraInv, LibcameraLent, LibcameraCirculating
    <3>2. camera_call'.i - 1 = camera_call.i
      BY <1>1, <1>3, <2>2 DEF Cameras!Libcamera!Indices
    <3> QED BY <1>2, <1>3, <2>2, <3>1, <3>2 DEF LibcameraLent, LibcameraCirculating
  <2> QED BY <1>1, <2>1, <2>2
<1>9. LibcameraReturns
  <2>1. Cameras!Libcamera!Returns => camera_call.op = "read" /\ camera_call'.out = camera_call.out
        /\ Cameras!Libcamera!State' = "streaming" /\ camera_call.before = "streaming"
    BY <1>1, <1>2, <1>3 DEF Cameras!Libcamera!Returns, Cameras!Libcamera!Quiet, Cameras!Libcamera!State
  <2> QED BY <2>1 DEF LibcameraReturns, Cameras!Libcamera!After, Cameras!Libcamera!Success
<1> QED BY <1>4, <1>5, <1>6, <1>7, <1>8, <1>9 DEF LibcameraInv

LEMMA LibcameraQueueRejected ==
  ASSUME LibcameraInv, Cameras!Libcamera!QueueRejected
  PROVE  LibcameraInv' /\ LibcameraReturns
<1> USE DEF Cameras!Libcamera!QueueRejected, Cameras!Libcamera!At, Cameras!Libcamera!flags, LibcameraStopping,
     LibcameraLending
<1> camera_call \in LibcameraCalls
  BY DEF LibcameraInv, LibcameraTyped
<1>1. camera_call' \in LibcameraCalls
  BY LibcameraGoes DEF LibcameraPoints, Cameras!Libcamera!Outcomes, LibcameraInv, LibcameraPlaces,
       LibcameraCalls, Cameras!Libcamera!CallType
<1>2. LibcameraFlags'
  BY DEF LibcameraInv, LibcameraTyped, LibcameraFlags
<1>3. LibcameraStore'
  BY DEF LibcameraInv, LibcameraTyped, LibcameraStore, LibcameraStores, Cameras!Libcamera!NoRequests
<1>4. Cameras!Libcamera!RequestsOwned'
  BY LibcameraGoes DEF LibcameraInv, LibcameraPlaces, LibcameraKept, LibcameraLent,
       Cameras!Libcamera!RequestsOwned, Cameras!Libcamera!Reading
<1>5. LibcameraPlaces'
  BY LibcameraGoes DEF LibcameraInv, LibcameraPlaces, LibcameraKept, Cameras!Libcamera!State
<1>6. LibcameraKept'
  BY LibcameraGoes DEF LibcameraInv, LibcameraPlaces, LibcameraKept, LibcameraLent,
       Cameras!Libcamera!RequestsOwned
<1>7. LibcameraLent'
  BY LibcameraGoes DEF LibcameraInv, LibcameraPlaces, LibcameraKept, LibcameraLent,
       Cameras!Libcamera!RequestsOwned, LibcameraCirculating, Cameras!Libcamera!Reading
<1>8. LibcameraReturns
  BY LibcameraGoes DEF LibcameraInv, LibcameraPlaces, LibcameraKept, LibcameraReturns,
       Cameras!Libcamera!Returns, Cameras!Libcamera!Quiet, Cameras!Libcamera!State, Cameras!Libcamera!After,
       Cameras!Libcamera!Success
<1> QED BY <1>1, <1>2, <1>3, <1>4, <1>5, <1>6, <1>7, <1>8 DEF LibcameraInv, LibcameraTyped

LEMMA LibcameraReject == ASSUME LibcameraInv, Cameras!Libcamera!Reject PROVE LibcameraInv' /\ LibcameraReturns
<1> USE DEF LibcameraStopping, LibcameraLending
<1>1. /\ camera_call.pc = "reject" /\ camera_call.op \in {"start", "read"} /\ streaming /\ handle
      /\ camera_call.i \in requests.pending \ held /\ camera_call \in LibcameraCalls
      /\ (camera_call.op = "start" => camera_call.before = "open")
      /\ (camera_call.op = "read" => camera_call.before = "streaming")
  BY DEF Cameras!Libcamera!Reject, LibcameraInv, LibcameraTyped, LibcameraPlaces, LibcameraKept, LibcameraLent
<1>2. UNCHANGED <<handle, disconnected, callback_failed, stopped, streaming, native_active, held>>
  BY DEF Cameras!Libcamera!Reject, Cameras!Libcamera!flags
<1>3. LibcameraFlags' /\ LibcameraStore
  BY <1>2 DEF LibcameraInv, LibcameraTyped, LibcameraFlags
<1>4. LibcameraStore' /\ requests'.owners = requests.owners /\ requests'.ready = requests.ready
      /\ requests'.pending = requests.pending \ {camera_call.i}
  <2>1. requests.pending \ {camera_call.i} \in SUBSET Cameras!Libcamera!Indices
    BY <1>3 DEF LibcameraStore, LibcameraStores
  <2>2. requests' = [requests EXCEPT !.pending = requests.pending \ {camera_call.i}]
    BY DEF Cameras!Libcamera!Reject, Cameras!Libcamera!Rejected
  <2> QED BY <1>3, <2>1, <2>2, LibcameraStored
<1>5. PICK out \in Cameras!Libcamera!Outcomes \ {"ok"} : Cameras!Libcamera!Fail(out, "halt")
  <2> DEFINE out == IF camera_call.out = "ok" THEN "failed" ELSE camera_call.out
  <2>1. Cameras!Libcamera!Fail(out, "halt")
    BY DEF Cameras!Libcamera!Reject, Cameras!Libcamera!Rollback
  <2>2. out \in Cameras!Libcamera!Outcomes \ {"ok"}
    <3>1. camera_call.out \in Cameras!Libcamera!Outcomes
      BY <1>1 DEF LibcameraCalls, Cameras!Libcamera!CallType, LibcameraInv, LibcameraPlaces
    <3> QED BY <3>1 DEF Cameras!Libcamera!Outcomes
  <2> QED BY <2>1, <2>2
<1>6. /\ camera_call'.op = camera_call.op /\ camera_call'.pc = "halt"
           /\ camera_call'.before = camera_call.before
      /\ camera_call'.out \notin {"ok", "none"} /\ camera_call' \in LibcameraCalls
  BY <1>1, <1>5, LibcameraFalls DEF LibcameraPoints, Cameras!Libcamera!Outcomes
<1>7. LibcameraTyped' /\ Cameras!Libcamera!RequestsOwned'
  BY <1>1, <1>2, <1>3, <1>4, <1>6 DEF LibcameraInv, LibcameraTyped, Cameras!Libcamera!RequestsOwned,
       Cameras!Libcamera!Reading
<1>8. LibcameraPlaces' /\ LibcameraKept' /\ LibcameraLent'
  BY <1>1, <1>2, <1>4, <1>6 DEF LibcameraInv, LibcameraPlaces, LibcameraKept, LibcameraLent
<1> QED BY <1>1, <1>6, <1>7, <1>8 DEF LibcameraInv, LibcameraReturns, Cameras!Libcamera!Returns,
     Cameras!Libcamera!Quiet

LEMMA LibcameraReadBegin ==
  ASSUME LibcameraInv, Cameras!Libcamera!ReadBegin
  PROVE  LibcameraInv' /\ LibcameraReturns
<1> USE DEF Cameras!Libcamera!ReadBegin, Cameras!Libcamera!At, Cameras!Libcamera!flags, LibcameraStopping,
     LibcameraLending
<1> camera_call \in LibcameraCalls
  BY DEF LibcameraInv, LibcameraTyped
<1>1. camera_call' \in LibcameraCalls
  BY LibcameraGoes, LibcameraEnds DEF LibcameraPoints, Cameras!Libcamera!Outcomes, LibcameraInv,
       LibcameraPlaces, LibcameraCalls, Cameras!Libcamera!CallType
<1>2. LibcameraFlags'
  BY DEF LibcameraInv, LibcameraTyped, LibcameraFlags
<1>3. LibcameraStore'
  BY DEF LibcameraInv, LibcameraTyped, LibcameraStore, LibcameraStores, Cameras!Libcamera!NoRequests
<1>4. Cameras!Libcamera!RequestsOwned'
  BY LibcameraGoes, LibcameraEnds DEF LibcameraInv, LibcameraPlaces, LibcameraKept, LibcameraLent,
       Cameras!Libcamera!RequestsOwned, Cameras!Libcamera!Reading
<1>5. LibcameraPlaces'
  BY LibcameraGoes, LibcameraEnds DEF LibcameraInv, LibcameraPlaces, LibcameraKept, Cameras!Libcamera!State
<1>6. LibcameraKept'
  BY LibcameraGoes, LibcameraEnds DEF LibcameraInv, LibcameraPlaces, LibcameraKept, LibcameraLent,
       Cameras!Libcamera!RequestsOwned
<1>7. LibcameraLent'
  BY LibcameraGoes, LibcameraEnds DEF LibcameraInv, LibcameraPlaces, LibcameraKept, LibcameraLent,
       Cameras!Libcamera!RequestsOwned, LibcameraCirculating, Cameras!Libcamera!Reading
<1>8. LibcameraReturns
  BY LibcameraGoes, LibcameraEnds DEF LibcameraInv, LibcameraPlaces, LibcameraKept, LibcameraReturns,
       Cameras!Libcamera!Returns, Cameras!Libcamera!Quiet, Cameras!Libcamera!State, Cameras!Libcamera!After,
       Cameras!Libcamera!Success
<1> QED BY <1>1, <1>2, <1>3, <1>4, <1>5, <1>6, <1>7, <1>8 DEF LibcameraInv, LibcameraTyped

LEMMA LibcameraReadTimesOut ==
  ASSUME LibcameraInv, Cameras!Libcamera!ReadTimesOut
  PROVE  LibcameraInv' /\ LibcameraReturns
<1> USE DEF Cameras!Libcamera!ReadTimesOut, Cameras!Libcamera!Signalled, Cameras!Libcamera!At,
     Cameras!Libcamera!flags, LibcameraStopping, LibcameraLending
<1> camera_call \in LibcameraCalls
  BY DEF LibcameraInv, LibcameraTyped
<1>1. camera_call' \in LibcameraCalls
  BY LibcameraEnds DEF LibcameraPoints, Cameras!Libcamera!Outcomes, LibcameraInv, LibcameraPlaces,
       LibcameraCalls, Cameras!Libcamera!CallType
<1>2. LibcameraFlags'
  BY DEF LibcameraInv, LibcameraTyped, LibcameraFlags
<1>3. LibcameraStore'
  BY DEF LibcameraInv, LibcameraTyped, LibcameraStore, LibcameraStores, Cameras!Libcamera!NoRequests
<1>4. Cameras!Libcamera!RequestsOwned'
  BY LibcameraEnds DEF LibcameraInv, LibcameraPlaces, LibcameraKept, LibcameraLent,
       Cameras!Libcamera!RequestsOwned, Cameras!Libcamera!Reading
<1>5. LibcameraPlaces'
  BY LibcameraEnds DEF LibcameraInv, LibcameraPlaces, LibcameraKept, Cameras!Libcamera!State
<1>6. LibcameraKept'
  BY LibcameraEnds DEF LibcameraInv, LibcameraPlaces, LibcameraKept, LibcameraLent,
       Cameras!Libcamera!RequestsOwned
<1>7. LibcameraLent'
  BY LibcameraEnds DEF LibcameraInv, LibcameraPlaces, LibcameraKept, LibcameraLent,
       Cameras!Libcamera!RequestsOwned, LibcameraCirculating, Cameras!Libcamera!Reading
<1>8. LibcameraReturns
  BY LibcameraEnds DEF LibcameraInv, LibcameraPlaces, LibcameraKept, LibcameraReturns,
       Cameras!Libcamera!Returns, Cameras!Libcamera!Quiet, Cameras!Libcamera!State, Cameras!Libcamera!After,
       Cameras!Libcamera!Success
<1> QED BY <1>1, <1>2, <1>3, <1>4, <1>5, <1>6, <1>7, <1>8 DEF LibcameraInv, LibcameraTyped

LEMMA LibcameraReadFails ==
  ASSUME LibcameraInv, Cameras!Libcamera!ReadFails
  PROVE  LibcameraInv' /\ LibcameraReturns
<1> USE DEF Cameras!Libcamera!ReadFails, Cameras!Libcamera!Signalled, Cameras!Libcamera!Rollback,
     Cameras!Libcamera!At, Cameras!Libcamera!flags, LibcameraStopping, LibcameraLending
<1> camera_call \in LibcameraCalls
  BY DEF LibcameraInv, LibcameraTyped
<1>1. camera_call' \in LibcameraCalls
  BY LibcameraEnds, LibcameraFalls DEF LibcameraPoints, Cameras!Libcamera!Outcomes, LibcameraInv,
       LibcameraPlaces, LibcameraCalls, Cameras!Libcamera!CallType
<1>2. LibcameraFlags'
  BY DEF LibcameraInv, LibcameraTyped, LibcameraFlags
<1>3. LibcameraStore'
  BY DEF LibcameraInv, LibcameraTyped, LibcameraStore, LibcameraStores, Cameras!Libcamera!NoRequests
<1>4. Cameras!Libcamera!RequestsOwned'
  BY LibcameraEnds, LibcameraFalls DEF LibcameraInv, LibcameraPlaces, LibcameraKept, LibcameraLent,
       Cameras!Libcamera!RequestsOwned, Cameras!Libcamera!Reading
<1>5. LibcameraPlaces'
  BY LibcameraEnds, LibcameraFalls DEF LibcameraInv, LibcameraPlaces, LibcameraKept, Cameras!Libcamera!State
<1>6. LibcameraKept'
  BY LibcameraEnds, LibcameraFalls DEF LibcameraInv, LibcameraPlaces, LibcameraKept, LibcameraLent,
       Cameras!Libcamera!RequestsOwned
<1>7. LibcameraLent'
  BY LibcameraEnds, LibcameraFalls DEF LibcameraInv, LibcameraPlaces, LibcameraKept, LibcameraLent,
       Cameras!Libcamera!RequestsOwned, LibcameraCirculating, Cameras!Libcamera!Reading
<1>8. LibcameraReturns
  BY LibcameraEnds, LibcameraFalls DEF LibcameraInv, LibcameraPlaces, LibcameraKept, LibcameraReturns,
       Cameras!Libcamera!Returns, Cameras!Libcamera!Quiet, Cameras!Libcamera!State, Cameras!Libcamera!After,
       Cameras!Libcamera!Success
<1> QED BY <1>1, <1>2, <1>3, <1>4, <1>5, <1>6, <1>7, <1>8 DEF LibcameraInv, LibcameraTyped

LEMMA LibcameraReadPops ==
  ASSUME LibcameraInv, Cameras!Libcamera!ReadPops
  PROVE  LibcameraInv' /\ LibcameraReturns
<1> USE DEF LibcameraStopping, LibcameraLending
<1>1. /\ camera_call.pc = "wait" /\ camera_call.op = "read" /\ camera_call.before = "streaming" /\ streaming
           /\ handle
      /\ requests.ready # <<>> /\ camera_call \in LibcameraCalls /\ camera_call.out # "none"
  BY DEF Cameras!Libcamera!ReadPops, Cameras!Libcamera!At, LibcameraInv, LibcameraTyped, LibcameraPlaces,
       LibcameraKept
<1>2. /\ UNCHANGED <<handle, disconnected, callback_failed, stopped, streaming, native_active, held>>
      /\ requests' = [requests EXCEPT !.ready = Tail(requests.ready)]
      /\ camera_call' = [camera_call EXCEPT !.pc = "copy", !.i = Head(requests.ready)]
  BY DEF Cameras!Libcamera!ReadPops, Cameras!Libcamera!flags
<1>3. LibcameraFlags' /\ LibcameraStore /\ requests.ready \in Seq(Cameras!Libcamera!Indices)
      /\ Cameras!Libcamera!IsInjective(requests.ready)
  BY <1>2 DEF LibcameraInv, LibcameraTyped, LibcameraFlags, LibcameraStore, LibcameraStores,
       Cameras!Libcamera!RequestsOwned
<1>4. /\ Tail(requests.ready) \in Seq(Cameras!Libcamera!Indices)
           /\ Len(Tail(requests.ready)) = Len(requests.ready) - 1
      /\ Cameras!Libcamera!IsInjective(Tail(requests.ready))
      /\ Head(requests.ready) \in Cameras!Libcamera!Range(requests.ready)
           /\ Head(requests.ready) \in Cameras!Libcamera!Indices
      /\ Cameras!Libcamera!Range(Tail(requests.ready)) = Cameras!Libcamera!Range(requests.ready) \ {Head(requests.ready)}
  BY <1>1, <1>3, LibcameraTail
<1>5. /\ camera_call'.op = "read" /\ camera_call'.pc = "copy" /\ camera_call'.i = Head(requests.ready)
           /\ camera_call'.before = "streaming"
      /\ camera_call'.out = camera_call.out /\ camera_call' \in LibcameraCalls
  <2>1. Head(requests.ready) \in 0..Buffers
    BY <1>4, CameraBounds DEF Cameras!Libcamera!Indices
  <2> QED BY <1>1, <1>2, <2>1 DEF LibcameraCalls, Cameras!Libcamera!CallType, LibcameraPoints
<1>6. /\ LibcameraStore' /\ requests'.owners = requests.owners /\ requests'.pending = requests.pending
      /\ requests'.ready = Tail(requests.ready)
  <2>1. Len(requests.ready) \in Nat /\ Len(requests.ready) <= Buffers
    BY <1>3 DEF LibcameraStore
  <2>2. requests \in LibcameraStores
    BY <1>3 DEF LibcameraStore
  <2>3. Len(requests.ready) - 1 <= Buffers
    BY <2>1, CameraBounds
  <2> QED BY <1>2, <1>4, <2>2, <2>3 DEF LibcameraStore, LibcameraStores
<1>7. LibcameraTyped' /\ Cameras!Libcamera!RequestsOwned'
  BY <1>1, <1>2, <1>3, <1>4, <1>5, <1>6 DEF LibcameraInv, LibcameraTyped, Cameras!Libcamera!RequestsOwned,
       Cameras!Libcamera!Reading
<1>8. LibcameraPlaces' /\ LibcameraKept'
  BY <1>1, <1>2, <1>5, <1>6 DEF LibcameraInv, LibcameraPlaces, LibcameraKept
<1>9. LibcameraLent'
  <2>1. requests.pending \cup Cameras!Libcamera!Range(requests.ready) = Cameras!Libcamera!Indices
    BY <1>1 DEF LibcameraInv, LibcameraLent, LibcameraCirculating, Cameras!Libcamera!Reading
  <2>2. Head(requests.ready) \notin requests.pending
    BY <1>4 DEF LibcameraInv, Cameras!Libcamera!RequestsOwned
  <2>3. requests'.pending \cup Cameras!Libcamera!Range(requests'.ready) = Cameras!Libcamera!Indices \ {camera_call'.i}
    BY <1>4, <1>5, <1>6, <2>1, <2>2
  <2> QED BY <1>4, <1>5, <2>3 DEF LibcameraLent, LibcameraCirculating, Cameras!Libcamera!Reading,
       Cameras!Libcamera!Indices
<1> QED BY <1>1, <1>5, <1>7, <1>8, <1>9 DEF LibcameraInv, LibcameraReturns, Cameras!Libcamera!Returns,
     Cameras!Libcamera!Quiet

LEMMA LibcameraCopy == ASSUME LibcameraInv, Cameras!Libcamera!Copy PROVE LibcameraInv' /\ LibcameraReturns
<1> USE DEF Cameras!Libcamera!Copy, Cameras!Libcamera!Requeues, Cameras!Libcamera!Rollback,
     Cameras!Libcamera!At, Cameras!Libcamera!flags, LibcameraStopping, LibcameraLending
<1> camera_call \in LibcameraCalls
  BY DEF LibcameraInv, LibcameraTyped
<1>1. camera_call' \in LibcameraCalls
  BY LibcameraEnds, LibcameraFalls DEF LibcameraPoints, Cameras!Libcamera!Outcomes, LibcameraInv,
       LibcameraPlaces, LibcameraCalls, Cameras!Libcamera!CallType
<1>2. LibcameraFlags'
  BY DEF LibcameraInv, LibcameraTyped, LibcameraFlags
<1>3. LibcameraStore'
  BY DEF LibcameraInv, LibcameraTyped, LibcameraStore, LibcameraStores, Cameras!Libcamera!NoRequests
<1>4. Cameras!Libcamera!RequestsOwned'
  BY LibcameraEnds, LibcameraFalls DEF LibcameraInv, LibcameraPlaces, LibcameraKept, LibcameraLent,
       Cameras!Libcamera!RequestsOwned, Cameras!Libcamera!Reading
<1>5. LibcameraPlaces'
  BY LibcameraEnds, LibcameraFalls DEF LibcameraInv, LibcameraPlaces, LibcameraKept, Cameras!Libcamera!State
<1>6. LibcameraKept'
  BY LibcameraEnds, LibcameraFalls DEF LibcameraInv, LibcameraPlaces, LibcameraKept, LibcameraLent,
       Cameras!Libcamera!RequestsOwned
<1>7. LibcameraLent'
  BY LibcameraEnds, LibcameraFalls DEF LibcameraInv, LibcameraPlaces, LibcameraKept, LibcameraLent,
       Cameras!Libcamera!RequestsOwned, LibcameraCirculating, Cameras!Libcamera!Reading
<1>8. LibcameraReturns
  BY LibcameraEnds, LibcameraFalls DEF LibcameraInv, LibcameraPlaces, LibcameraKept, LibcameraReturns,
       Cameras!Libcamera!Returns, Cameras!Libcamera!Quiet, Cameras!Libcamera!State, Cameras!Libcamera!After,
       Cameras!Libcamera!Success
<1> QED BY <1>1, <1>2, <1>3, <1>4, <1>5, <1>6, <1>7, <1>8 DEF LibcameraInv, LibcameraTyped

LEMMA LibcameraDisconnected ==
  ASSUME LibcameraInv, Cameras!Libcamera!onDisconnected
  PROVE  LibcameraInv' /\ LibcameraReturns
<1> USE DEF Cameras!Libcamera!onDisconnected, Cameras!Libcamera!At, Cameras!Libcamera!flags,
     LibcameraStopping, LibcameraLending
<1> camera_call \in LibcameraCalls
  BY DEF LibcameraInv, LibcameraTyped
<1>1. camera_call' \in LibcameraCalls
  BY DEF LibcameraPoints, Cameras!Libcamera!Outcomes, LibcameraInv, LibcameraPlaces, LibcameraCalls,
       Cameras!Libcamera!CallType
<1>2. LibcameraFlags'
  BY DEF LibcameraInv, LibcameraTyped, LibcameraFlags
<1>3. LibcameraStore'
  BY DEF LibcameraInv, LibcameraTyped, LibcameraStore, LibcameraStores, Cameras!Libcamera!NoRequests
<1>4. Cameras!Libcamera!RequestsOwned'
  BY DEF LibcameraInv, LibcameraPlaces, LibcameraKept, LibcameraLent, Cameras!Libcamera!RequestsOwned,
       Cameras!Libcamera!Reading
<1>5. LibcameraPlaces'
  BY DEF LibcameraInv, LibcameraPlaces, LibcameraKept, Cameras!Libcamera!State
<1>6. LibcameraKept'
  BY DEF LibcameraInv, LibcameraPlaces, LibcameraKept, LibcameraLent, Cameras!Libcamera!RequestsOwned
<1>7. LibcameraLent'
  BY DEF LibcameraInv, LibcameraPlaces, LibcameraKept, LibcameraLent, Cameras!Libcamera!RequestsOwned,
       LibcameraCirculating, Cameras!Libcamera!Reading
<1>8. LibcameraReturns
  BY DEF LibcameraInv, LibcameraPlaces, LibcameraKept, LibcameraReturns, Cameras!Libcamera!Returns,
       Cameras!Libcamera!Quiet, Cameras!Libcamera!State, Cameras!Libcamera!After, Cameras!Libcamera!Success
<1> QED BY <1>1, <1>2, <1>3, <1>4, <1>5, <1>6, <1>7, <1>8 DEF LibcameraInv, LibcameraTyped

LEMMA LibcameraOnRequestComplete ==
  ASSUME LibcameraInv, NEW r \in Cameras!Libcamera!Indices, Cameras!Libcamera!onRequestComplete(r),
         \/ r \in held /\ held' = held \ {r}
         \/ handle /\ camera_call.op # "open" /\ r \notin requests.pending /\ held' = held
  PROVE  LibcameraInv' /\ LibcameraReturns
<1> USE DEF LibcameraStopping, LibcameraLending
<1>1. UNCHANGED <<handle, streaming, stopped, disconnected, native_active, camera_call>>
      /\ requests' = Cameras!Libcamera!Completed(r)
  BY DEF Cameras!Libcamera!onRequestComplete
<1>2. LibcameraStore /\ requests.ready \in Seq(Cameras!Libcamera!Indices)
      /\ Cameras!Libcamera!IsInjective(requests.ready) /\ camera_call \in LibcameraCalls
  BY DEF LibcameraInv, LibcameraTyped, LibcameraStore, LibcameraStores, Cameras!Libcamera!RequestsOwned
<1>3. LibcameraFlags'
  <2>1. requests'.fault \in BOOLEAN => callback_failed' \in BOOLEAN
    BY DEF Cameras!Libcamera!onRequestComplete
  <2>2. callback_failed' \in BOOLEAN
    BY DEF Cameras!Libcamera!onRequestComplete
  <2> QED BY <1>1, <2>2 DEF LibcameraInv, LibcameraTyped, LibcameraFlags
<1>4. handle
  BY DEF LibcameraInv, LibcameraKept, Cameras!Libcamera!RequestsOwned, Cameras!Libcamera!NoRequests
<1>5. CASE r \notin requests.pending
  <2>1. LibcameraStore' /\ requests'.owners = requests.owners /\ requests'.ready = requests.ready
        /\ requests'.pending = requests.pending
    BY <1>1, <1>2, <1>5, LibcameraFaulty DEF Cameras!Libcamera!Completed
  <2>2. held' = held
    BY <1>5 DEF LibcameraInv, Cameras!Libcamera!RequestsOwned
  <2>3. LibcameraTyped' /\ Cameras!Libcamera!RequestsOwned'
    BY <1>1, <1>2, <1>3, <2>1, <2>2 DEF LibcameraInv, LibcameraTyped, Cameras!Libcamera!RequestsOwned,
         Cameras!Libcamera!Reading
  <2>4. LibcameraPlaces'
    BY <1>1 DEF LibcameraInv, LibcameraPlaces, Cameras!Libcamera!State
  <2>5. LibcameraKept' /\ LibcameraLent'
    BY <1>1, <1>4, <2>1, <2>2 DEF LibcameraInv, LibcameraKept, LibcameraLent, LibcameraCirculating,
         Cameras!Libcamera!Reading, Cameras!Libcamera!Indices
  <2> QED BY <1>1, <2>3, <2>4, <2>5 DEF LibcameraInv, LibcameraReturns, Cameras!Libcamera!Returns,
       Cameras!Libcamera!Quiet
<1>6. CASE r \in requests.pending
  <2>1. r \in held /\ held' = held \ {r} /\ r \notin Cameras!Libcamera!Range(requests.ready)
        /\ requests.pending \ {r} \in SUBSET Cameras!Libcamera!Indices
    BY <1>2, <1>6 DEF LibcameraInv, Cameras!Libcamera!RequestsOwned, LibcameraStore, LibcameraStores
  <2>2. /\ LibcameraStore' /\ requests'.owners = requests.owners /\ requests'.pending = requests.pending \ {r}
        /\ requests'.ready = IF streaming THEN Append(requests.ready, r) ELSE requests.ready
    <3>1. CASE ~streaming
      BY <1>1, <1>2, <1>6, <2>1, <3>1, LibcameraStored DEF Cameras!Libcamera!Completed
    <3>2. CASE streaming
      <4>1. Len(requests.ready) < Buffers /\ Len(requests.ready) \in Nat
        BY <1>2, <2>1, LibcameraFits
      <4>2. Cameras!Libcamera!Cardinality(requests.owners) = Buffers
        BY <3>2, LibcameraIndices, LibcameraSizes DEF LibcameraInv, LibcameraKept
      <4>3. requests' = [requests EXCEPT !.pending = requests.pending \ {r}, !.ready = Append(requests.ready, r)]
        BY <1>1, <1>6, <3>2, <4>1, <4>2, CameraBounds DEF Cameras!Libcamera!Completed
      <4>4. /\ Append(requests.ready, r) \in Seq(Cameras!Libcamera!Indices)
            /\ Len(Append(requests.ready, r)) = Len(requests.ready) + 1
        BY <1>2
      <4>5. Len(requests.ready) + 1 <= Buffers
        BY <4>1, CameraBounds
      <4> QED BY <1>2, <2>1, <3>2, <4>3, <4>4, <4>5 DEF LibcameraStore, LibcameraStores
    <3> QED BY <3>1, <3>2
  <2>3. Cameras!Libcamera!IsInjective(requests'.ready)
        /\ Cameras!Libcamera!Range(requests'.ready) = Cameras!Libcamera!Range(requests.ready) \cup (IF streaming THEN {r} ELSE {})
    <3>1. /\ Cameras!Libcamera!IsInjective(Append(requests.ready, r))
          /\ Cameras!Libcamera!Range(Append(requests.ready, r)) = Cameras!Libcamera!Range(requests.ready) \cup {r}
      BY <1>2, <2>1, LibcameraAppend
    <3> QED BY <1>2, <2>2, <3>1
  <2>4. LibcameraTyped'
    BY <1>1, <1>2, <1>3, <2>2 DEF LibcameraTyped
  <2>5. Cameras!Libcamera!RequestsOwned'
    <3>1. r \in requests.owners /\ r \notin Cameras!Libcamera!Reading
          /\ Cameras!Libcamera!Reading' = Cameras!Libcamera!Reading
      BY <1>1, <1>6 DEF LibcameraInv, Cameras!Libcamera!RequestsOwned, Cameras!Libcamera!Reading
    <3> QED BY <2>1, <2>2, <2>3, <3>1 DEF LibcameraInv, Cameras!Libcamera!RequestsOwned
  <2>6. LibcameraPlaces'
    BY <1>1 DEF LibcameraInv, LibcameraPlaces, Cameras!Libcamera!State
  <2>7. LibcameraKept'
    <3>1. camera_call.pc # "prepared" /\ camera_call.pc # "prepare"
      BY <1>6 DEF LibcameraInv, LibcameraKept
    <3> QED BY <1>1, <1>4, <2>1, <2>2, <3>1 DEF LibcameraInv, LibcameraKept
  <2>8. LibcameraLent'
    <3>1. camera_call.pc \in {"queueing", "reject"} => camera_call.i # r
      BY <2>1 DEF LibcameraInv, LibcameraLent
    <3>2. streaming => requests'.pending \cup Cameras!Libcamera!Range(requests'.ready) = requests.pending \cup Cameras!Libcamera!Range(requests.ready)
      BY <1>6, <2>2, <2>3
    <3>3. LibcameraCirculating' = LibcameraCirculating
          /\ Cameras!Libcamera!Indices' = Cameras!Libcamera!Indices
      BY <1>1 DEF LibcameraCirculating, Cameras!Libcamera!Reading, Cameras!Libcamera!Indices
    <3> QED BY <1>1, <2>1, <2>2, <3>1, <3>2, <3>3 DEF LibcameraInv, LibcameraLent
  <2> QED BY <1>1, <2>4, <2>5, <2>6, <2>7, <2>8 DEF LibcameraInv, LibcameraReturns, Cameras!Libcamera!Returns,
       Cameras!Libcamera!Quiet
<1> QED BY <1>5, <1>6

LEMMA LibcameraCompleteThrows ==
  ASSUME LibcameraInv, NEW r \in Cameras!Libcamera!Indices,
         Cameras!Libcamera!CompleteThrows(r) PROVE LibcameraInv' /\ LibcameraReturns
<1> USE DEF LibcameraStopping, LibcameraLending
<1>1. /\ UNCHANGED <<handle, streaming, stopped, disconnected, native_active, requests, camera_call>>
      /\ held' = held \ {r} /\ r \in held /\ callback_failed' = TRUE
  BY DEF Cameras!Libcamera!CompleteThrows
<1>2. LibcameraFlags'
  BY <1>1 DEF LibcameraInv, LibcameraTyped, LibcameraFlags
<1>3. LibcameraTyped' /\ Cameras!Libcamera!RequestsOwned'
  BY <1>1, <1>2 DEF LibcameraInv, LibcameraTyped, LibcameraStore, Cameras!Libcamera!RequestsOwned,
       Cameras!Libcamera!Reading
<1>4. LibcameraPlaces'
  BY <1>1 DEF LibcameraInv, LibcameraPlaces, Cameras!Libcamera!State
<1>5. LibcameraKept' /\ LibcameraLent'
  BY <1>1 DEF LibcameraInv, LibcameraKept, LibcameraLent, LibcameraCirculating, Cameras!Libcamera!Reading,
       Cameras!Libcamera!Indices
<1> QED BY <1>1, <1>3, <1>4, <1>5 DEF LibcameraInv, LibcameraReturns, Cameras!Libcamera!Returns,
     Cameras!Libcamera!Quiet

LEMMA LibcameraInitHolds == Cameras!Libcamera!Init => LibcameraInv
<1> SUFFICES ASSUME Cameras!Libcamera!Init PROVE LibcameraInv
  OBVIOUS
<1>1. camera_call.op = "none" /\ camera_call.pc = "none" /\ camera_call \in LibcameraCalls
  BY CameraBounds DEF Cameras!Libcamera!Init, Cameras!Libcamera!Idle, LibcameraCalls,
       Cameras!Libcamera!CallType, Cameras!Libcamera!States, Cameras!Libcamera!Operations
<1>2. LibcameraStore /\ requests.pending = {} /\ Cameras!Libcamera!Range(requests.ready) = {}
      /\ Cameras!Libcamera!IsInjective(requests.ready)
  <2>1. requests = [owners |-> {}, pending |-> {}, ready |-> <<>>, fault |-> FALSE]
    BY DEF Cameras!Libcamera!Init, Cameras!Libcamera!NoRequests
  <2>2. <<>> \in Seq(Cameras!Libcamera!Indices) /\ Len(<<>>) <= Buffers
        /\ {} \in SUBSET Cameras!Libcamera!Indices
    BY CameraBounds
  <2>3. requests \in LibcameraStores
    BY <2>1, <2>2 DEF LibcameraStores
  <2> QED BY <2>1, <2>2, <2>3, LibcameraEmpty DEF LibcameraStore
<1>3. LibcameraTyped
  <2>1. LibcameraFlags
    BY DEF Cameras!Libcamera!Init, LibcameraFlags
  <2> QED BY <1>1, <1>2, <2>1 DEF LibcameraTyped
<1>4. Cameras!Libcamera!RequestsOwned
  BY <1>1, <1>2 DEF Cameras!Libcamera!Init, Cameras!Libcamera!RequestsOwned, Cameras!Libcamera!Reading
<1>5. LibcameraPlaces /\ LibcameraKept /\ LibcameraLent
  BY <1>1, <1>2 DEF Cameras!Libcamera!Init, LibcameraPlaces, LibcameraKept, LibcameraLent, LibcameraStopping,
       LibcameraLending
<1> QED BY <1>3, <1>4, <1>5 DEF LibcameraInv

LEMMA LibcameraStepKeeps == LibcameraInv /\ Cameras!Libcamera!Next => LibcameraInv' /\ LibcameraReturns
<1> SUFFICES ASSUME LibcameraInv, Cameras!Libcamera!Next PROVE LibcameraInv' /\ LibcameraReturns
  OBVIOUS
<1>1. CASE Cameras!Libcamera!Step
  BY <1>1, LibcameraHalt, LibcameraStopSucceeds, LibcameraStopFails, LibcameraSettle, LibcameraStop,
     LibcameraOpen, LibcameraClose, LibcameraCloseDrained, LibcameraStartBegin, LibcameraStartFails,
     LibcameraPrepare, LibcameraStartNative, LibcameraStartQueued, LibcameraQueueThrows,
     LibcameraQueueBegin, LibcameraQueueAccepted, LibcameraQueueRejected, LibcameraReject,
     LibcameraReadBegin, LibcameraReadTimesOut, LibcameraReadFails, LibcameraReadPops, LibcameraCopy DEF Cameras!Libcamera!Step
<1>2. CASE \E op \in Cameras!Libcamera!Operations : Cameras!Libcamera!Begin(op)
  BY <1>2, LibcameraBegin
<1>3. ASSUME NEW r \in Cameras!Libcamera!Indices,
             Cameras!Libcamera!Complete(r) \/ Cameras!Libcamera!CompleteUnknown(r) PROVE LibcameraInv'
             /\ LibcameraReturns
  BY <1>3, LibcameraOnRequestComplete DEF Cameras!Libcamera!Complete, Cameras!Libcamera!CompleteUnknown
<1>4. ASSUME NEW r \in Cameras!Libcamera!Indices, Cameras!Libcamera!CompleteThrows(r) PROVE LibcameraInv'
             /\ LibcameraReturns
  BY <1>4, LibcameraCompleteThrows
<1>5. CASE Cameras!Libcamera!onDisconnected
  BY <1>5, LibcameraDisconnected
<1>6. CASE Cameras!Libcamera!StuckInClose
  BY <1>6, LibcameraStands DEF Cameras!Libcamera!StuckInClose
<1> QED BY <1>1, <1>2, <1>3, <1>4, <1>5, <1>6 DEF Cameras!Libcamera!Next, Cameras!Libcamera!Completion

LEMMA LibcameraSound == LibcameraInv => Cameras!Libcamera!TypeOK /\ Cameras!Libcamera!RequestsOwned
                        /\ Cameras!Libcamera!BetweenCalls
<1> SUFFICES ASSUME LibcameraInv PROVE Cameras!Libcamera!TypeOK /\ Cameras!Libcamera!RequestsOwned
      /\ Cameras!Libcamera!BetweenCalls
  OBVIOUS
<1>1. Cameras!Libcamera!TypeOK
  <2>1. LibcameraFlags /\ requests \in LibcameraStores /\ Len(requests.ready) <= Buffers
    BY DEF LibcameraInv, LibcameraTyped, LibcameraStore
  <2>2. {handle, streaming, disconnected, callback_failed, native_active} \subseteq BOOLEAN
        /\ stopped \in BOOLEAN
    BY <2>1 DEF LibcameraFlags
  <2>3. /\ requests.owners \in {{}, Cameras!Libcamera!Indices}
             /\ requests.pending \subseteq Cameras!Libcamera!Indices
        /\ requests.ready \in Seq(Cameras!Libcamera!Indices) /\ requests.fault \in BOOLEAN
    BY <2>1 DEF LibcameraStores
  <2>4. held \subseteq Cameras!Libcamera!Indices
    BY <2>3 DEF LibcameraInv, Cameras!Libcamera!RequestsOwned
  <2>5. camera_call \in Cameras!Libcamera!CallType({"halt", "native", "settle", "drain", "prepare", "prepared", "queue",
                           "queueing", "reject", "wait", "copy"}, 0..Buffers)
    BY DEF LibcameraInv, LibcameraTyped, LibcameraCalls, LibcameraPoints
  <2> QED BY <2>1, <2>2, <2>3, <2>4, <2>5 DEF Cameras!Libcamera!TypeOK
<1>2. Cameras!Libcamera!BetweenCalls
  <2>1. SUFFICES ASSUME camera_call.op = "none" PROVE Cameras!Libcamera!BetweenCalls
    BY DEF Cameras!Libcamera!BetweenCalls, Cameras!Libcamera!Quiet
  <2>2. camera_call.pc = "none"
    BY <2>1 DEF LibcameraInv, LibcameraPlaces
  <2>3. Cameras!Libcamera!State = "closed" => requests = Cameras!Libcamera!NoRequests /\ held = {}
        /\ ~native_active /\ ~streaming
    BY DEF LibcameraInv, LibcameraKept, Cameras!Libcamera!RequestsOwned, Cameras!Libcamera!State,
         Cameras!Libcamera!NoRequests
  <2>4. streaming => native_active
        /\ requests.pending \cup Cameras!Libcamera!Range(requests.ready) = Cameras!Libcamera!Indices
    BY <2>1, <2>2 DEF LibcameraInv, LibcameraKept, LibcameraLent, LibcameraCirculating,
         Cameras!Libcamera!Reading
  <2> QED BY <2>3, <2>4 DEF Cameras!Libcamera!BetweenCalls, Cameras!Libcamera!State
<1> QED BY <1>1, <1>2 DEF LibcameraInv

-----------------------------------------------------------------------------
(***************************************************************************)
(* The one adapter of a behaviour.                                         *)
(***************************************************************************)
CamerasInv ==
  /\ adapter \in {"v4l2", "libcamera", "windows"}
  /\ adapter = "v4l2" => V4L2Inv
  /\ adapter = "libcamera" => LibcameraInv
  /\ adapter = "windows" => WindowsInv

LEMMA CamerasInitHolds == DevicesInit => CamerasInv
<1> SUFFICES ASSUME DevicesInit PROVE CamerasInv
  OBVIOUS
<1>1. Cameras!Init
  BY DEF DevicesInit
<1>2. V4L2Inv /\ LibcameraInv /\ WindowsInv
  BY <1>1, V4L2InitHolds, LibcameraInitHolds, WindowsInitHolds DEF Cameras!Init
<1>3. adapter \in {"v4l2", "libcamera", "windows"}
  BY <1>1 DEF Cameras!Init, Cameras!Adapters
<1> QED BY <1>2, <1>3 DEF CamerasInv

\* What happens to the adapter in a step.
LEMMA CamerasMove ==
  ASSUME [DevicesNext]_all
  PROVE  \/ UNCHANGED cameras
         \/ Cameras!OfV4L2(Cameras!V4L2!Next)
         \/ Cameras!OfLibcamera(Cameras!Libcamera!Next)
         \/ Cameras!OfWindows(Cameras!Windows!Next)
  BY DEF DevicesNext, OfCamera, OfTransport, all, Cameras!Next

LEMMA V4L2Stays ==
  ASSUME V4L2Inv, UNCHANGED <<fd, streaming, dirty, count, mapped, driver, lease, left, expiry, camera_call>>
  PROVE  V4L2Inv'
<1>1. /\ Cameras!V4L2!State' = Cameras!V4L2!State /\ Cameras!V4L2!Opened' = Cameras!V4L2!Opened
      /\ Cameras!V4L2!Indices' = Cameras!V4L2!Indices /\ Cameras!V4L2!Stopped' = Cameras!V4L2!Stopped
  BY DEF Cameras!V4L2!State, Cameras!V4L2!Opened, Cameras!V4L2!Indices, Cameras!V4L2!Stopped
<1>2. Cameras!V4L2!TypeOK'
  BY DEF V4L2Inv, Cameras!V4L2!TypeOK, Cameras!V4L2!Indices
<1> QED BY <1>1, <1>2 DEF V4L2Inv, V4L2Places, V4L2Owner, V4L2Mapped, V4L2Lent

LEMMA LibcameraStays ==
  ASSUME LibcameraInv,
         UNCHANGED <<handle, disconnected, callback_failed, native_active, requests, held, stopped,
                     streaming, camera_call>>
  PROVE  LibcameraInv'
  BY LibcameraStands DEF Cameras!Libcamera!vars

LEMMA WindowsStays ==
  ASSUME WindowsInv,
         UNCHANGED <<opened, failed, direct, callback, reader, capture, late_flush, streaming, camera_call>>
  PROVE  WindowsInv'
<1>1. Cameras!Windows!TypeOK' /\ Cameras!Windows!State' = Cameras!Windows!State
  BY DEF WindowsInv, Cameras!Windows!TypeOK, Cameras!Windows!State
<1> QED BY <1>1 DEF WindowsInv, WindowsPlaces, WindowsPaths, WindowsCapture, WindowsReader, WindowsFlush

LEMMA CamerasStepKeeps == CamerasInv /\ [DevicesNext]_all => CamerasInv'
<1> SUFFICES ASSUME CamerasInv, [DevicesNext]_all PROVE CamerasInv'
  OBVIOUS
<1>1. CASE UNCHANGED cameras
  BY <1>1, V4L2Stays, LibcameraStays, WindowsStays DEF cameras, CamerasInv
<1>2. CASE Cameras!OfV4L2(Cameras!V4L2!Next)
  <2>1. adapter = "v4l2" /\ adapter' = "v4l2" /\ Cameras!V4L2!Next
    BY <1>2 DEF Cameras!OfV4L2
  <2> QED BY <2>1, V4L2StepKeeps DEF CamerasInv
<1>3. CASE Cameras!OfLibcamera(Cameras!Libcamera!Next)
  <2>1. adapter = "libcamera" /\ adapter' = "libcamera" /\ Cameras!Libcamera!Next
    BY <1>3 DEF Cameras!OfLibcamera
  <2> QED BY <2>1, LibcameraStepKeeps DEF CamerasInv
<1>4. CASE Cameras!OfWindows(Cameras!Windows!Next)
  <2>1. adapter = "windows" /\ adapter' = "windows" /\ Cameras!Windows!Next
    BY <1>4 DEF Cameras!OfWindows
  <2> QED BY <2>1, WindowsStepKeeps DEF CamerasInv
<1> QED BY <1>1, <1>2, <1>3, <1>4, CamerasMove

LEMMA CamerasInvAlways == DevicesSpec => []CamerasInv
<1>1. DevicesInit => CamerasInv
  BY CamerasInitHolds
<1>2. CamerasInv /\ [DevicesNext]_all => CamerasInv'
  BY CamerasStepKeeps
<1> QED BY <1>1, <1>2, PTL DEF DevicesSpec

LEMMA CamerasSound == CamerasInv => FramesOwned /\ BetweenCalls
  BY V4L2Sound, LibcameraSound, WindowsSound
  DEF CamerasInv, FramesOwned, BetweenCalls, Cameras!FramesOwned, Cameras!BetweenCalls

\* A frame buffer has one owner at a time, and is neither unmapped nor freed while
\* the native side has it; a sample belongs to the present stream.
THEOREM FramesOwnedAlways == DevicesSpec => []FramesOwned
  BY CamerasInvAlways, CamerasSound, PTL

\* Between calls a closed adapter keeps nothing, an open one can be started again, and
\* a stream has lost no buffer, whatever failed, timed out, threw or came late.
THEOREM BetweenCallsAlways == DevicesSpec => []BetweenCalls
  BY CamerasInvAlways, CamerasSound, PTL

\* A call that succeeds reaches its state, and one that fails leaves a state that
\* CameraSession allows for.
THEOREM KeepsContractAlways == DevicesSpec => KeepsContract
<1> DEFINE Keeps ==
      Cameras!Returns =>
        Cameras!State' \in Cameras!After(camera_call.op, camera_call.before, camera_call'.out)
<1>1. CamerasInv /\ [DevicesNext]_all => [Keeps]_(Cameras!vars)
  <2> SUFFICES ASSUME CamerasInv, [DevicesNext]_all PROVE Keeps \/ UNCHANGED Cameras!vars
    OBVIOUS
  <2>1. CASE UNCHANGED cameras
    BY <2>1 DEF cameras, Cameras!vars, Cameras!v4l2, Cameras!libcamera, Cameras!windows
  <2>2. CASE Cameras!OfV4L2(Cameras!V4L2!Next)
    <3>1. adapter = "v4l2" /\ adapter' = "v4l2" /\ V4L2Returns
      BY <2>2, V4L2StepKeeps DEF Cameras!OfV4L2, CamerasInv
    <3>2. Cameras!State' = Cameras!V4L2!State'
      BY <3>1 DEF Cameras!State
    <3> QED BY <3>1, <3>2 DEF V4L2Returns, Cameras!Returns, Cameras!Quiet, Cameras!After, Cameras!Success,
              Cameras!V4L2!Returns, Cameras!V4L2!Quiet, Cameras!V4L2!After, Cameras!V4L2!Success
  <2>3. CASE Cameras!OfLibcamera(Cameras!Libcamera!Next)
    <3>1. adapter = "libcamera" /\ adapter' = "libcamera" /\ LibcameraReturns
      BY <2>3, LibcameraStepKeeps DEF Cameras!OfLibcamera, CamerasInv
    <3>2. Cameras!State' = Cameras!Libcamera!State'
      BY <3>1 DEF Cameras!State
    <3> QED BY <3>1, <3>2 DEF LibcameraReturns, Cameras!Returns, Cameras!Quiet, Cameras!After, Cameras!Success,
              Cameras!Libcamera!Returns, Cameras!Libcamera!Quiet, Cameras!Libcamera!After,
              Cameras!Libcamera!Success
  <2>4. CASE Cameras!OfWindows(Cameras!Windows!Next)
    <3>1. adapter = "windows" /\ adapter' = "windows" /\ WindowsReturns
      BY <2>4, WindowsStepKeeps DEF Cameras!OfWindows, CamerasInv
    <3>2. Cameras!State' = Cameras!Windows!State'
      BY <3>1 DEF Cameras!State
    <3> QED BY <3>1, <3>2 DEF WindowsReturns, Cameras!Returns, Cameras!Quiet, Cameras!After, Cameras!Success,
              Cameras!Windows!Returns, Cameras!Windows!Quiet, Cameras!Windows!After, Cameras!Windows!Success
  <2> QED BY <2>1, <2>2, <2>3, <2>4, CamerasMove
<1> QED BY <1>1, CamerasInvAlways, PTL DEF DevicesSpec, KeepsContract, Cameras!KeepsContract
=============================================================================
