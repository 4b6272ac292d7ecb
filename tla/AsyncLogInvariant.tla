------------------------- MODULE AsyncLogInvariant -------------------------
(***************************************************************************)
(* An inductive invariant of AsyncLogRuntime.  The safety properties are   *)
(* not inductive: they hold because of where the one outstanding barrier   *)
(* is, which records are in front of it, and which thread owns             *)
(* Impl::control; the conjuncts below say so.                              *)
(***************************************************************************)
EXTENDS AsyncLogRuntime

Busy          == wpc = "busy"
RecordInHand  == Busy /\ IsRecord(entry.of)
BarrierInHand == Busy /\ ~IsRecord(entry.of)

\* Records that have left the queue.
Taken == status.completed + InHand

\* Impl::control is held from the end of "acquire" to the return.
ControlOwner ==
  \A c \in Controllers : ~At(c, "idle") /\ ~At(c, "acquire") <=> control = c

\* Each operation walks its own steps.
OpSteps ==
  \A c \in Controllers :
    /\ At(c, "enter") => call[c].op = "configure"
    /\ At(c, "barrier") => call[c].op # "configure"
    /\ At(c, "close") \/ At(c, "halt") \/ At(c, "join") \/ At(c, "release")
         => call[c].op = "stop"
    /\ At(c, "acquire") \/ At(c, "enter") \/ At(c, "close") \/ At(c, "barrier")
         => ~call[c].done /\ call[c].error = "ok" /\ call[c].result = "none"
    /\ At(c, "await") => call[c].result = "none"
    /\ call[c].mark <= status.accepted

\* A barrier in the queue or in the writer's hand is the one its control
\* thread waits for, and there is no other.
OneBarrier ==
  /\ \A i \in 1..Len(queue) : ~IsRecord(queue[i]) =>
       At(queue[i].barrier, "await") /\ ~call[queue[i].barrier].done
  /\ \A i, j \in 1..Len(queue) : ~IsRecord(queue[i]) /\ ~IsRecord(queue[j]) => i = j
  /\ BarrierInHand =>
       /\ At(entry.of.barrier, "await") /\ ~call[entry.of.barrier].done
       /\ \A i \in 1..Len(queue) : IsRecord(queue[i])

\* status.queued counts the records of the queue.
QueueCount ==
  /\ (\A i \in 1..Len(queue) : IsRecord(queue[i])) => Len(queue) = status.queued
  /\ \A i \in 1..Len(queue) : ~IsRecord(queue[i]) => Len(queue) = status.queued + 1
  /\ status.queued <= settings.capacity

\* The queue holds the accepted records that were not taken, in order.
QueueOrder ==
  /\ \A i \in 1..Len(queue) :
       IsRecord(queue[i]) /\ (\A j \in 1..(i - 1) : IsRecord(queue[j]))
         => queue[i].id = Taken + i
  /\ \A i, j \in 1..Len(queue) :
       j < i /\ ~IsRecord(queue[j]) /\ IsRecord(queue[i]) => queue[i].id = Taken + i - 1
  /\ RecordInHand => entry.of.id = status.completed + 1

\* Accepted records wait under the settings that accepted them.
Generations ==
  /\ \A id \in 1..Len(ledger) : ledger[id].gen <= settings.gen
  /\ \A id \in 1..Len(ledger) : id > status.completed =>
       ledger[id].gen = settings.gen /\ settings.held
  /\ status.is_accepting => settings.held

\* A failure of the current generation shows in writerFailed and last_error.
Failures ==
  /\ writerFailed => status.last_error = "writer"
  /\ Busy => entry.skip = (writerFailed /\ IsRecord(entry.of))
  /\ \A id \in 1..Len(ledger) :
       ledger[id].gen = settings.gen /\ ledger[id].fate \in {"failed", "skipped"}
         => writerFailed
  /\ \A i, j \in 1..Len(ledger) :
       i < j /\ ledger[i].gen = ledger[j].gen /\ ledger[i].fate \in {"failed", "skipped"}
         => ledger[j].fate # "written"

\* The writer exists, and the settings hold their captures, only while the
\* runtime runs; the writer only leaves when a stop has asked it to and nothing
\* is queued.
WriterLife ==
  /\ ~status.is_running => wpc = "none" /\ ~settings.held
  /\ wpc = "none" => ~status.is_running \/ \E c \in Controllers : At(c, "release")
  /\ wpc = "exited" => stopping
  /\ stopping /\ status.is_running =>
       \E c \in Controllers : At(c, "join") \/ At(c, "release")
  /\ wpc \in {"none", "exited"} => queue = <<>>
  /\ \A c \in Controllers :
       /\ At(c, "release") => wpc = "none"
       /\ At(c, "join") => stopping
       /\ At(c, "await") => status.is_running

\* Admission is open only on a running writer that nobody is closing.
Admission ==
  /\ status.is_accepting => status.is_running
  /\ status.is_accepting =>
       \A c \in Controllers :
         /\ At(c, "await") \/ At(c, "barrier") => call[c].op = "flush"
         /\ ~At(c, "halt") /\ ~At(c, "join") /\ ~At(c, "release")

\* Behind the barrier of a configure() or a stop() there is nothing, so once
\* it is done nothing is left.
DrainedBehind ==
  \A c \in Controllers :
    At(c, "await") /\ call[c].op # "flush" =>
      /\ \A i \in 1..Len(queue) : ~IsRecord(queue[i]) => i = Len(queue)
      /\ BarrierInHand \/ call[c].done => queue = <<>>
      /\ call[c].done => ~Busy
      /\ ~call[c].done =>
           BarrierInHand \/ (queue # <<>> /\ ~IsRecord(queue[Len(queue)]))

\* A waiting control thread is owed every record in front of its barrier.
Marks ==
  /\ \A i \in 1..Len(queue) : ~IsRecord(queue[i]) =>
       call[queue[i].barrier].mark <= Taken + i - 1
  /\ BarrierInHand => call[entry.of.barrier].mark <= status.completed

\* What a barrier that came through without an error has shown.
Owed ==
  \A c \in Controllers :
    /\ At(c, "await") /\ call[c].done /\ call[c].error = "ok" => Covered(c)
    /\ (At(c, "halt") \/ At(c, "join") \/ At(c, "release"))
         /\ call[c].result = "success" => Covered(c)

\* The inductive invariant.
IInv ==
  /\ TypeOK
  /\ ControlOwner
  /\ OpSteps
  /\ OneBarrier
  /\ QueueCount
  /\ Conservation
  /\ QueueOrder
  /\ Generations
  /\ Failures
  /\ WriterLife
  /\ Admission
  /\ DrainedBehind
  /\ Marks
  /\ Owed
=============================================================================
