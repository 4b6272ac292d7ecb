----------------------- MODULE AsyncLogRuntime_proofs -----------------------
(***************************************************************************)
(* Proofs about AsyncLogRuntime: IInv of AsyncLogInvariant is inductive,   *)
(* the safety properties follow from it, and the runtime implements the    *)
(* abstract channel of AsyncLogChannel.                                    *)
(***************************************************************************)
EXTENDS AsyncLogInvariant, FiniteSetTheorems, TLAPS

\* What the type invariant says of the parts of the state.
LEMMA Types ==
  ASSUME TypeOK
  PROVE  /\ status.queued \in Nat /\ status.accepted \in Nat /\ status.completed \in Nat
         /\ status.dropped \in Nat /\ status.filtered \in Nat
         /\ status.last_error \in Errors
         /\ settings.gen \in Nat /\ settings.capacity \in Nat
         /\ Len(queue) \in Nat /\ Len(ledger) \in Nat
         /\ \A i \in 1..Len(queue) : queue[i] \in Entries /\ queue[i].id \in Nat
                                       /\ (~IsRecord(queue[i]) => queue[i].barrier \in Controllers)
         /\ \A i \in 1..Len(ledger) : ledger[i].gen \in Nat
         /\ entry.of.id \in Nat
         /\ (~IsRecord(entry.of) => entry.of.barrier \in Controllers)
         /\ \A c \in Controllers : call[c] \in CallType /\ call[c].mark \in Nat
<1>1. /\ status.queued \in Nat /\ status.accepted \in Nat /\ status.completed \in Nat
      /\ status.dropped \in Nat /\ status.filtered \in Nat
      /\ status.last_error \in Errors
  BY DEF TypeOK, StatusType
<1>2. settings.gen \in Nat /\ settings.capacity \in Nat
  BY DEF TypeOK, SettingsType
<1>3. Len(queue) \in Nat /\ Len(ledger) \in Nat
  BY DEF TypeOK
<1>4. \A i \in 1..Len(queue) : queue[i] \in Entries
  BY DEF TypeOK
<1>5. \A e \in Entries : e.id \in Nat /\ (~IsRecord(e) => e.barrier \in Controllers)
  BY DEF Entries, IsRecord
<1>6. \A i \in 1..Len(ledger) : ledger[i].gen \in Nat
  <2>1. \A i \in 1..Len(ledger) : ledger[i] \in LedgerType
    BY DEF TypeOK
  <2> QED
    BY <2>1 DEF LedgerType
<1>7. entry.of \in Entries
  BY DEF TypeOK
<1>8. \A c \in Controllers : call[c] \in CallType /\ call[c].mark \in Nat
  BY DEF TypeOK, CallType
<1> QED
  BY <1>1, <1>2, <1>3, <1>4, <1>5, <1>6, <1>7, <1>8

\* Counting a record keeps Impl::status well typed.
LEMMA StatusCounts ==
  ASSUME NEW s \in StatusType, NEW q \in Nat, NEW n \in Nat
  PROVE  [s EXCEPT !.queued = q, !.accepted = n] \in StatusType
BY DEF StatusType

\* A step of a control operation moves its own thread and nothing else.
LEMMA CallSteps ==
  ASSUME TypeOK, NEW c \in Controllers, NEW x, GoTo(c, x)
  PROVE  /\ \A d \in Controllers : d # c => call'[d] = call[d]
         /\ call'[c].pc = x
         /\ call'[c].op = call[c].op /\ call'[c].done = call[c].done
         /\ call'[c].error = call[c].error /\ call'[c].result = call[c].result
         /\ call'[c].mark = call[c].mark
BY DEF TypeOK, CallType, GoTo

\* A step of a control operation keeps the calls well typed.
LEMMA CallTyped ==
  ASSUME TypeOK, NEW c \in Controllers, NEW x, GoTo(c, x),
         x \in {"idle", "acquire", "enter", "close", "barrier", "await",
                "halt", "join", "release"}
  PROVE  call' \in [Controllers -> CallType]
<1>1. call \in [Controllers -> CallType]
  BY DEF TypeOK
<1>2. [call[c] EXCEPT !.pc = x] \in CallType
  BY <1>1 DEF CallType
<1>3. call' = [call EXCEPT ![c] = [call[c] EXCEPT !.pc = x]]
  BY DEF GoTo
<1> QED
  BY <1>1, <1>2, <1>3

\* An operation that returns leaves its thread idle and Impl::control free.
LEMMA Returned ==
  ASSUME TypeOK, NEW c \in Controllers, NEW r \in {"none", "success", "failure"}, Return(c, r)
  PROVE  /\ \A d \in Controllers : d # c => call'[d] = call[d]
         /\ call'[c].pc = "idle" /\ call'[c].op = "flush" /\ call'[c].result = r
         /\ call'[c].mark = 0
         /\ control' = None
         /\ call' \in [Controllers -> CallType]
<1>1. Idle(r) \in CallType
  BY DEF Idle, CallType, Operations, Errors
<1> QED
  BY <1>1 DEF TypeOK, Return, Idle

\* Steps that leave the queue and the ledger alone, and at most close admission
\* or strip the captures of a drained runtime, keep the facts about records.
LEMMA DataFrame ==
  ASSUME IInv, queue' = queue, ledger' = ledger, entry' = entry,
         writerFailed' = writerFailed, Busy' <=> Busy,
         settings'.gen = settings.gen, settings'.capacity = settings.capacity,
         \/ settings'.held = settings.held
         \/ ~status'.is_accepting /\ status.completed = Len(ledger),
         status'.queued = status.queued, status'.accepted = status.accepted,
         status'.completed = status.completed,
         status'.is_accepting => status.is_accepting,
         writerFailed => status'.last_error = status.last_error
  PROVE  QueueCount' /\ Conservation' /\ QueueOrder' /\ Generations' /\ Failures'
<1> USE DEF IsRecord, RecordInHand, BarrierInHand, Taken, InHand
<1>1. TypeOK /\ QueueCount /\ Conservation /\ QueueOrder /\ Generations /\ Failures
  BY DEF IInv
<1>2. QueueCount'
  BY <1>1 DEF QueueCount
<1>3. Conservation'
  BY <1>1 DEF Conservation, Busy
<1>4. QueueOrder'
  BY <1>1 DEF QueueOrder, Busy
<1>5. Generations'
  <2>1. status.completed \in Nat /\ Len(ledger) \in Nat
    BY <1>1, Types
  <2> QED
    BY <1>1, <2>1 DEF Generations
<1>6. Failures'
  BY <1>1 DEF Failures, Busy
<1> QED
  BY <1>2, <1>3, <1>4, <1>5, <1>6

\* Steps that leave the queue and every waiting thread alone keep the facts about
\* barriers.
LEMMA BarrierFrame ==
  ASSUME IInv, queue' = queue, entry' = entry, Busy' <=> Busy,
         status'.completed = status.completed,
         \A d \in Controllers : At(d, "await") /\ ~call[d].done => call'[d] = call[d]
  PROVE  OneBarrier' /\ Marks'
<1> USE DEF IsRecord, RecordInHand, BarrierInHand, At
<1>1. TypeOK /\ OneBarrier /\ Marks
  BY DEF IInv
<1>2. \A i \in 1..Len(queue) : ~IsRecord(queue[i]) => queue[i].barrier \in Controllers
  BY <1>1, Types
<1>3. BarrierInHand => entry.of.barrier \in Controllers
  BY <1>1, Types
<1>4. OneBarrier'
  BY <1>1, <1>2, <1>3 DEF OneBarrier
<1>5. Taken' = Taken
  BY DEF Taken, InHand, Busy
<1>6. \A i \in 1..Len(queue) : ~IsRecord(queue[i]) =>
        call'[queue[i].barrier].mark <= Taken' + i - 1
  BY <1>1, <1>2, <1>5 DEF OneBarrier, Marks
<1>7. BarrierInHand' => call'[entry'.of.barrier].mark <= status'.completed
  BY <1>1, <1>3 DEF OneBarrier, Marks
<1> QED
  BY <1>4, <1>6, <1>7 DEF Marks

\* What a call was owed stays settled while the ledger does not change.
LEMMA CoveredFrame ==
  ASSUME NEW c \in Controllers, ledger' = ledger, settings'.gen = settings.gen,
         call'[c].mark = call[c].mark, Covered(c)
  PROVE  Covered(c)'
BY DEF Covered

\* The two ways out of Impl::barrier(): flush() returns, stop() goes on to halt.
LEMMA BarrierEnded ==
  ASSUME TypeOK, NEW c \in Controllers, NEW r \in {"success", "failure"}, BarrierEnd(c, r)
  PROVE  /\ \A d \in Controllers : d # c => call'[d] = call[d]
         /\ \/ call'[c].pc = "idle" /\ call'[c].mark = 0 /\ control' = None
            \/ /\ call[c].op = "stop" /\ call'[c].op = "stop"
               /\ call'[c].pc = "halt" /\ call'[c].result = r
               /\ call'[c].mark = call[c].mark /\ control' = control
         /\ call' \in [Controllers -> CallType]
<1>1. CASE Return(c, r)
  BY <1>1, Returned
<1>2. CASE /\ call[c].op = "stop" /\ control' = control
           /\ call' = [call EXCEPT ![c] = [call[c] EXCEPT !.pc = "halt", !.result = r]]
  <2>1. call \in [Controllers -> CallType]
    BY DEF TypeOK
  <2>2. [call[c] EXCEPT !.pc = "halt", !.result = r] \in CallType
    BY <2>1 DEF CallType
  <2>3. /\ [call[c] EXCEPT !.pc = "halt", !.result = r].op = call[c].op
        /\ [call[c] EXCEPT !.pc = "halt", !.result = r].pc = "halt"
        /\ [call[c] EXCEPT !.pc = "halt", !.result = r].result = r
        /\ [call[c] EXCEPT !.pc = "halt", !.result = r].mark = call[c].mark
    BY <2>1 DEF CallType
  <2> QED
    BY <1>2, <2>1, <2>2, <2>3
<1> QED
  BY <1>1, <1>2 DEF BarrierEnd

\* tryAppend() accepts a record.
LEMMA AppendAcceptedInv ==
  ASSUME IInv, NEW p, AppendAccepted(p)
  PROVE  IInv'
<1> USE DEF IsRecord, At, Busy, RecordInHand, BarrierInHand, Taken, InHand
<1>inv. TypeOK /\ ControlOwner /\ OpSteps /\ OneBarrier /\ QueueCount /\ Conservation
      /\ QueueOrder /\ Generations /\ Failures /\ WriterLife /\ Admission
      /\ DrainedBehind /\ Marks /\ Owed
  BY DEF IInv
<1>nqueue. Len(queue) \in Nat
  BY <1>inv, Types
<1>nledger. Len(ledger) \in Nat
  BY <1>inv, Types
<1>nqueued. status.queued \in Nat /\ status.accepted \in Nat /\ status.completed \in Nat
  BY <1>inv, Types
<1>nsettings. settings.gen \in Nat
  BY <1>inv, Types
<1>ncapacity. settings.capacity \in Nat
  BY <1>inv, Types
<1>nmark. \A d \in Controllers : call[d].mark \in Nat
  BY <1>inv, Types
<1>def. /\ queue' = Append(queue, RecordEntry(status.accepted + 1))
        /\ ledger' = Append(ledger, [gen |-> settings.gen, fate |-> "pending"])
  BY DEF AppendAccepted, Enqueue
<1>guard. status.is_accepting /\ ~writerFailed /\ ~(status.queued >= settings.capacity)
  BY DEF AppendAccepted, Submitting, QueueFull
<1>settings. settings' = settings
  BY DEF AppendAccepted, runtimeVars
<1>flags. stopping' = stopping /\ writerFailed' = writerFailed
  BY DEF AppendAccepted, runtimeVars
<1>writer. wpc' = wpc /\ entry' = entry
  BY DEF AppendAccepted, writerVars
<1>call. control' = control /\ call' = call
  BY DEF AppendAccepted, controlVars
<1>counts. /\ status'.queued = status.queued + 1
          /\ status'.accepted = status.accepted + 1
          /\ status'.completed = status.completed
  BY <1>inv DEF AppendAccepted, TypeOK, StatusType
<1>open. /\ status'.is_running = status.is_running
          /\ status'.is_accepting = status.is_accepting
  BY <1>inv DEF AppendAccepted, TypeOK, StatusType
<1>error. status'.last_error = status.last_error
  BY <1>inv DEF AppendAccepted, TypeOK, StatusType
<1>queue. /\ Len(queue') = Len(queue) + 1
      /\ \A i \in 1..Len(queue') :
           \/ i \in 1..Len(queue) /\ queue'[i] = queue[i]
           \/ i = Len(queue) + 1 /\ queue'[i].id = status.accepted + 1 /\ queue'[i].barrier = None
  BY <1>inv, <1>nqueue, <1>nqueued, <1>def DEF TypeOK, RecordEntry
<1>ledger. /\ Len(ledger') = Len(ledger) + 1
      /\ \A i \in 1..Len(ledger') :
           \/ i \in 1..Len(ledger) /\ ledger'[i] = ledger[i]
           \/ i = Len(ledger) + 1 /\ ledger'[i].gen = settings.gen /\ ledger'[i].fate = "pending"
  BY <1>inv, <1>nledger, <1>def DEF TypeOK
<1>type. TypeOK'
  <2>1. ledger' \in Seq(LedgerType)
    BY <1>inv, <1>nsettings, <1>def DEF TypeOK, LedgerType, Fates
  <2>2. queue' \in Seq(Entries)
    BY <1>inv, <1>nqueued, <1>def DEF TypeOK, RecordEntry, Entries
  <2>3. status.queued + 1 \in Nat /\ status.accepted + 1 \in Nat /\ status \in StatusType
    BY <1>inv, <1>nqueued DEF TypeOK
  <2>4. status' \in StatusType
    BY <2>3, StatusCounts DEF AppendAccepted
  <2> QED
    BY <1>inv, <1>settings, <1>flags, <1>writer, <1>call, <2>1, <2>2, <2>4
      DEF AppendAccepted, Enqueue, NotifyAll, TypeOK
<1>QueueCount. QueueCount'
  <2>1. ASSUME \A i \in 1..Len(queue') : IsRecord(queue'[i])
        PROVE  Len(queue') = status'.queued
    <3>1. \A i \in 1..Len(queue) : IsRecord(queue[i])
      BY <2>1, <1>nqueue, <1>queue
    <3> QED
      BY <3>1, <1>inv, <1>queue, <1>counts DEF QueueCount
  <2>2. ASSUME NEW i \in 1..Len(queue'), ~IsRecord(queue'[i])
        PROVE  Len(queue') = status'.queued + 1
    <3>1. i \in 1..Len(queue) /\ ~IsRecord(queue[i])
      BY <2>2, <1>queue
    <3> QED
      BY <3>1, <1>inv, <1>queue, <1>counts DEF QueueCount
  <2>3. status'.queued <= settings'.capacity
    BY <1>guard, <1>counts, <1>settings, <1>nqueued, <1>ncapacity
  <2> QED
    BY <2>1, <2>2, <2>3 DEF QueueCount
<1>Conservation. Conservation'
  <2>1. InHand' = InHand /\ InHand \in Nat
    BY <1>writer
  <2>2. status'.accepted = status'.completed + InHand' + status'.queued
    <3>1. status.accepted = status.completed + InHand + status.queued
      BY <1>inv DEF Conservation
    <3> HIDE DEF InHand
    <3> QED
      BY <2>1, <3>1, <1>nqueued, <1>counts
  <2>3. status.completed <= Len(ledger)
    BY <2>1, <1>inv, <1>nqueued DEF Conservation
  <2>4. \A id \in 1..Len(ledger') : ledger'[id].fate # "pending" <=> id <= status'.completed
    BY <2>3, <1>inv, <1>nledger, <1>nqueued, <1>counts, <1>ledger DEF Conservation
  <2>5. Len(ledger') = status'.accepted
    BY <1>inv, <1>counts, <1>ledger DEF Conservation
  <2> QED
    BY <2>2, <2>4, <2>5 DEF Conservation
<1>QueueOrder. QueueOrder'
  <2>1. Taken' = Taken /\ Taken \in Nat /\ status.accepted = Taken + status.queued
    BY <1>inv, <1>writer, <1>counts, <1>nqueued DEF Conservation
  <2>2. ASSUME NEW i \in 1..Len(queue'), IsRecord(queue'[i]),
               \A j \in 1..(i - 1) : IsRecord(queue'[j])
        PROVE  queue'[i].id = Taken' + i
    <3>1. CASE i \in 1..Len(queue)
      <4>1. \A j \in 1..(i - 1) : IsRecord(queue[j])
        BY <2>2, <3>1, <1>nqueue, <1>queue
      <4> QED
        BY <2>2, <3>1, <4>1, <1>inv, <1>queue, <2>1 DEF QueueOrder
    <3>2. CASE i = Len(queue) + 1
      <4>1. \A j \in 1..Len(queue) : IsRecord(queue[j])
        BY <2>2, <3>2, <1>nqueue, <1>queue
      <4>2. Len(queue) = status.queued
        BY <4>1, <1>inv DEF QueueCount
      <4>3. queue'[i].id = status.accepted + 1
        BY <3>2, <1>nqueue, <1>queue
      <4> QED
        BY <3>2, <4>2, <4>3, <1>nqueued, <2>1
    <3> QED
      BY <3>1, <3>2, <1>queue
  <2>3. ASSUME NEW i \in 1..Len(queue'), NEW j \in 1..Len(queue'),
               j < i, ~IsRecord(queue'[j]), IsRecord(queue'[i])
        PROVE  queue'[i].id = Taken' + i - 1
    <3>1. j \in 1..Len(queue) /\ ~IsRecord(queue[j])
      BY <2>3, <1>queue
    <3>2. CASE i \in 1..Len(queue)
      BY <2>3, <3>1, <3>2, <1>inv, <1>queue, <1>nqueue, <2>1, SMTT(30) DEF QueueOrder
    <3>3. CASE i = Len(queue) + 1
      <4>1. Len(queue) = status.queued + 1
        BY <3>1, <1>inv DEF QueueCount
      <4>2. queue'[i].id = status.accepted + 1
        BY <3>3, <1>nqueue, <1>queue
      <4> QED
        BY <3>3, <4>1, <4>2, <1>nqueued, <2>1, SMTT(30)
    <3> QED
      BY <3>2, <3>3, <1>queue
  <2>4. RecordInHand' => entry'.of.id = status'.completed + 1
    BY <1>inv, <1>writer, <1>counts DEF QueueOrder
  <2> QED
    BY <2>2, <2>3, <2>4 DEF QueueOrder
<1>Generations. Generations'
  <2>1. \A id \in 1..Len(ledger') : ledger'[id].gen <= settings'.gen
    BY <1>inv, <1>settings, <1>nsettings, <1>nledger, <1>ledger DEF Generations
  <2>2. settings.held
    BY <1>inv, <1>guard DEF Generations
  <2>3. \A id \in 1..Len(ledger') : id > status'.completed =>
          ledger'[id].gen = settings'.gen /\ settings'.held
    BY <2>2, <1>inv, <1>counts, <1>settings, <1>nledger, <1>ledger DEF Generations
  <2> QED
    BY <2>1, <2>2, <2>3, <1>settings DEF Generations
<1>Failures. Failures'
  <2>1. writerFailed' => status'.last_error = "writer"
    BY <1>guard, <1>flags
  <2>2. Busy' => entry'.skip = (writerFailed' /\ IsRecord(entry'.of))
    BY <1>inv, <1>flags, <1>writer DEF Failures
  <2>3. \A id \in 1..Len(ledger') :
          ledger'[id].gen = settings'.gen /\ ledger'[id].fate \in {"failed", "skipped"}
            => writerFailed'
    BY <1>inv, <1>flags, <1>settings, <1>nledger, <1>ledger DEF Failures
  <2>4. \A i, j \in 1..Len(ledger') :
          i < j /\ ledger'[i].gen = ledger'[j].gen /\ ledger'[i].fate \in {"failed", "skipped"}
            => ledger'[j].fate # "written"
    BY <1>inv, <1>nledger, <1>ledger DEF Failures
  <2> QED
    BY <2>1, <2>2, <2>3, <2>4 DEF Failures
<1>WriterLife. WriterLife'
  <2>1. wpc \notin {"none", "exited"}
    BY <1>inv, <1>guard DEF Admission, WriterLife
  <2> QED
    BY <2>1, <1>inv, <1>flags, <1>writer, <1>call, <1>open DEF WriterLife
<1>DrainedBehind. DrainedBehind'
  <2>1. \A c \in Controllers : ~(At(c, "await") /\ call[c].op # "flush")
    BY <1>inv, <1>guard DEF Admission
  <2> QED
    BY <2>1, <1>call DEF DrainedBehind
<1>Marks. Marks'
  <2>1. Taken' = Taken
    BY <1>writer, <1>counts
  <2>2. \A i \in 1..Len(queue') : ~IsRecord(queue'[i]) =>
          call'[queue'[i].barrier].mark <= Taken' + i - 1
    BY <2>1, <1>inv, <1>queue, <1>call DEF Marks
  <2>3. BarrierInHand' => call'[entry'.of.barrier].mark <= status'.completed
    BY <1>inv, <1>writer, <1>call, <1>counts DEF Marks
  <2> QED
    BY <2>2, <2>3 DEF Marks
<1>Owed. Owed'
  <2>1. \A c \in Controllers : Covered(c) => Covered(c)'
    <3> SUFFICES ASSUME NEW c \in Controllers, Covered(c) PROVE Covered(c)'
      OBVIOUS
    <3>1. call[c].mark <= Len(ledger)
      BY <1>inv DEF OpSteps, Conservation
    <3>2. \A id \in 1..call[c].mark : id \in 1..Len(ledger) /\ ledger'[id] = ledger[id]
      BY <3>1, <1>nmark, <1>nledger, <1>ledger
    <3> QED
      BY <3>2, <1>call, <1>settings DEF Covered
  <2> QED
    BY <2>1, <1>inv, <1>call DEF Owed
<1>ControlOwner. ControlOwner'
  BY <1>inv, <1>call DEF ControlOwner
<1>OpSteps. OpSteps'
  BY <1>inv, <1>nqueued, <1>nmark, <1>call, <1>counts DEF OpSteps
<1>OneBarrier. OneBarrier'
  BY <1>inv, <1>nqueue, <1>writer, <1>call, <1>queue DEF OneBarrier
<1>Admission. Admission'
  BY <1>inv, <1>guard, <1>call, <1>open DEF Admission
<1> QED
  BY <1>type, <1>QueueCount, <1>Conservation, <1>QueueOrder, <1>Generations, <1>Failures,
    <1>WriterLife, <1>DrainedBehind, <1>Marks, <1>Owed, <1>ControlOwner, <1>OpSteps,
      <1>OneBarrier, <1>Admission DEF IInv

\* A thread calls configure(), flush() or stop().
LEMMA CallInv ==
  ASSUME IInv, NEW c \in Controllers, NEW o \in Operations, Call(c, o)
  PROVE  IInv'
<1> USE DEF IsRecord, At, Busy, RecordInHand, BarrierInHand, Taken, InHand
<1>inv. TypeOK /\ ControlOwner /\ OpSteps /\ OneBarrier /\ QueueCount /\ Conservation
      /\ QueueOrder /\ Generations /\ Failures /\ WriterLife /\ Admission
      /\ DrainedBehind /\ Marks /\ Owed
  BY DEF IInv
<1>nqueue. Len(queue) \in Nat
  BY <1>inv, Types
<1>nledger. Len(ledger) \in Nat
  BY <1>inv, Types
<1>nqueued. status.queued \in Nat /\ status.accepted \in Nat /\ status.completed \in Nat
  BY <1>inv, Types
<1>nsettings. settings.gen \in Nat
  BY <1>inv, Types
<1>ncapacity. settings.capacity \in Nat
  BY <1>inv, Types
<1>nmark. \A d \in Controllers : call[d].mark \in Nat
  BY <1>inv, Types
<1>call. /\ \A d \in Controllers : d # c => call'[d] = call[d]
         /\ call[c].pc = "idle" /\ call'[c].pc = "acquire"
         /\ ~call'[c].done /\ call'[c].error = "ok" /\ call'[c].result = "none"
         /\ call'[c].mark = status.accepted
  BY <1>inv DEF Call, TypeOK
<1>control. control' = control
  BY DEF Call
<1>data. queue' = queue /\ ledger' = ledger
  BY DEF Call
<1>settings. settings' = settings
  BY DEF Call, runtimeVars
<1>flags. stopping' = stopping /\ writerFailed' = writerFailed
  BY DEF Call, runtimeVars
<1>writer. wpc' = wpc /\ entry' = entry
  BY <1>inv DEF Call, writerVars
<1>counts. /\ status'.queued = status.queued /\ status'.accepted = status.accepted
           /\ status'.completed = status.completed
  BY <1>inv DEF Call, TypeOK, StatusType
<1>open. /\ status'.is_running = status.is_running
         /\ status'.is_accepting = status.is_accepting
         /\ status'.last_error = status.last_error
  BY <1>inv DEF Call, TypeOK, StatusType
<1>type. TypeOK'
  <2>1. [pc |-> "acquire", op |-> o, done |-> FALSE, error |-> "ok", result |-> "none",
         mark |-> status.accepted] \in CallType
    BY <1>nqueued DEF CallType, Errors
  <2>2. call' \in [Controllers -> CallType]
    BY <1>inv, <2>1 DEF Call, TypeOK
  <2> QED
    BY <1>inv, <2>2 DEF TypeOK, Call, runtimeVars, writerVars
<1>frame. QueueCount' /\ Conservation' /\ QueueOrder' /\ Generations' /\ Failures'
  <2>1. /\ settings'.gen = settings.gen /\ settings'.capacity = settings.capacity
        /\ settings'.held = settings.held
    BY <1>settings
  <2>2. Busy' <=> Busy
    BY <1>writer
  <2> HIDE DEF Busy
  <2> QED
    BY <2>1, <2>2, <1>data, <1>flags, <1>writer, <1>counts, <1>open, DataFrame
<1>barriers. OneBarrier' /\ Marks'
  <2>1. \A d \in Controllers : At(d, "await") /\ ~call[d].done => call'[d] = call[d]
    BY <1>call
  <2>2. Busy' <=> Busy
    BY <1>writer
  <2> HIDE DEF Busy, At
  <2> QED
    BY <2>1, <2>2, <1>data, <1>writer, <1>counts, BarrierFrame
<1>owed. Owed'
  <2>1. \A d \in Controllers : call'[d].mark = call[d].mark /\ Covered(d) => Covered(d)'
    BY <1>data, <1>settings, CoveredFrame
  <2> QED
    BY <2>1, <1>inv, <1>call DEF Owed
<1>ControlOwner. ControlOwner'
  BY <1>inv, <1>call, <1>control, ThreadsAssumption DEF ControlOwner
<1>OpSteps. OpSteps'
  BY <1>inv, <1>nqueued, <1>nmark, <1>call, <1>control, <1>counts DEF OpSteps
<1>WriterLife. WriterLife'
  BY <1>inv, <1>nqueue, <1>nsettings, <1>call, <1>control, <1>data, <1>settings, <1>flags,
    <1>writer, <1>open DEF WriterLife
<1>Admission. Admission'
  BY <1>inv, <1>call, <1>control, <1>open DEF Admission
<1>DrainedBehind. DrainedBehind'
  BY <1>inv, <1>nqueue, <1>call, <1>control, <1>data, <1>writer DEF DrainedBehind
<1> QED
  BY <1>type, <1>frame, <1>barriers, <1>owed, <1>ControlOwner, <1>OpSteps, <1>WriterLife,
    <1>Admission, <1>DrainedBehind DEF IInv

\* A control thread obtains Impl::control.
LEMMA AcquireInv ==
  ASSUME IInv, NEW c \in Controllers, Acquire(c)
  PROVE  IInv'
<1> USE DEF IsRecord, At, Busy, RecordInHand, BarrierInHand, Taken, InHand
<1>inv. TypeOK /\ ControlOwner /\ OpSteps /\ OneBarrier /\ QueueCount /\ Conservation
      /\ QueueOrder /\ Generations /\ Failures /\ WriterLife /\ Admission
      /\ DrainedBehind /\ Marks /\ Owed
  BY DEF IInv
<1>nqueue. Len(queue) \in Nat
  BY <1>inv, Types
<1>nledger. Len(ledger) \in Nat
  BY <1>inv, Types
<1>nqueued. status.queued \in Nat /\ status.accepted \in Nat /\ status.completed \in Nat
  BY <1>inv, Types
<1>nsettings. settings.gen \in Nat
  BY <1>inv, Types
<1>ncapacity. settings.capacity \in Nat
  BY <1>inv, Types
<1>nmark. \A d \in Controllers : call[d].mark \in Nat
  BY <1>inv, Types
<1>call. /\ \A d \in Controllers : d # c => call'[d] = call[d]
         /\ call[c].pc = "acquire" /\ control = None
         /\ \/ call[c].op = "configure" /\ call'[c].pc = "enter"
            \/ call[c].op = "flush" /\ call'[c].pc = "barrier"
            \/ call[c].op = "stop" /\ call'[c].pc = "close"
         /\ call'[c].op = call[c].op /\ call'[c].done = call[c].done
         /\ call'[c].error = call[c].error /\ call'[c].result = call[c].result
         /\ call'[c].mark = call[c].mark
  <2> DEFINE x == CASE call[c].op = "configure" -> "enter"
                    [] call[c].op = "flush"     -> "barrier"
                    [] call[c].op = "stop"      -> "close"
  <2>1. call[c].op \in Operations
    BY <1>inv DEF TypeOK, CallType
  <2>2. \/ call[c].op = "configure" /\ x = "enter"
        \/ call[c].op = "flush" /\ x = "barrier"
        \/ call[c].op = "stop" /\ x = "close"
    BY <2>1 DEF Operations
  <2>3. GoTo(c, x)
    BY DEF Acquire
  <2> HIDE DEF x
  <2> QED
    BY <1>inv, <2>2, <2>3, CallSteps DEF Acquire
<1>control. control' = c
  BY DEF Acquire
<1>data. queue' = queue /\ ledger' = ledger
  BY DEF Acquire
<1>settings. settings' = settings
  BY DEF Acquire, runtimeVars
<1>flags. stopping' = stopping /\ writerFailed' = writerFailed
  BY DEF Acquire, runtimeVars
<1>writer. wpc' = wpc /\ entry' = entry
  BY <1>inv DEF Acquire, writerVars
<1>counts. /\ status'.queued = status.queued /\ status'.accepted = status.accepted
           /\ status'.completed = status.completed
  BY <1>inv DEF Acquire, TypeOK, StatusType
<1>open. /\ status'.is_running = status.is_running
         /\ status'.is_accepting = status.is_accepting
         /\ status'.last_error = status.last_error
  BY <1>inv DEF Acquire, TypeOK, StatusType
<1>type. TypeOK'
  <2>1. [call[c] EXCEPT !.pc = call'[c].pc] \in CallType
    BY <1>inv, <1>call, SMTT(30) DEF TypeOK, CallType
  <2>2. call' \in [Controllers -> CallType]
    BY <1>inv, <1>call, CallTyped DEF TypeOK, Acquire
  <2> QED
    BY <1>inv, <1>control, <2>2 DEF TypeOK, Acquire, runtimeVars, writerVars
<1>frame. QueueCount' /\ Conservation' /\ QueueOrder' /\ Generations' /\ Failures'
  <2>1. /\ settings'.gen = settings.gen /\ settings'.capacity = settings.capacity
        /\ settings'.held = settings.held
    BY <1>settings
  <2>2. Busy' <=> Busy
    BY <1>writer
  <2> HIDE DEF Busy
  <2> QED
    BY <2>1, <2>2, <1>data, <1>flags, <1>writer, <1>counts, <1>open, DataFrame
<1>barriers. OneBarrier' /\ Marks'
  <2>1. \A d \in Controllers : At(d, "await") /\ ~call[d].done => call'[d] = call[d]
    BY <1>call
  <2>2. Busy' <=> Busy
    BY <1>writer
  <2> HIDE DEF Busy, At
  <2> QED
    BY <2>1, <2>2, <1>data, <1>writer, <1>counts, BarrierFrame
<1>owed. Owed'
  <2>1. \A d \in Controllers : call'[d].mark = call[d].mark /\ Covered(d) => Covered(d)'
    BY <1>data, <1>settings, CoveredFrame
  <2> QED
    BY <2>1, <1>inv, <1>call DEF Owed
<1>ControlOwner. ControlOwner'
  BY <1>inv, <1>call, <1>control, ThreadsAssumption DEF ControlOwner
<1>OpSteps. OpSteps'
  BY <1>inv, <1>nqueued, <1>nmark, <1>call, <1>control, <1>counts DEF OpSteps
<1>WriterLife. WriterLife'
  BY <1>inv, <1>nqueue, <1>nsettings, <1>call, <1>control, <1>data, <1>settings, <1>flags,
    <1>writer, <1>open DEF WriterLife
<1>Admission. Admission'
  BY <1>inv, <1>call, <1>control, <1>open DEF Admission
<1>DrainedBehind. DrainedBehind'
  BY <1>inv, <1>nqueue, <1>call, <1>control, <1>data, <1>writer DEF DrainedBehind
<1> QED
  BY <1>type, <1>frame, <1>barriers, <1>owed, <1>ControlOwner, <1>OpSteps, <1>WriterLife,
    <1>Admission, <1>DrainedBehind DEF IInv

\* stop() closes admission.
LEMMA StopCloseInv ==
  ASSUME IInv, NEW c \in Controllers, StopClose(c)
  PROVE  IInv'
<1> USE DEF IsRecord, At, Busy, RecordInHand, BarrierInHand, Taken, InHand
<1>inv. TypeOK /\ ControlOwner /\ OpSteps /\ OneBarrier /\ QueueCount /\ Conservation
      /\ QueueOrder /\ Generations /\ Failures /\ WriterLife /\ Admission
      /\ DrainedBehind /\ Marks /\ Owed
  BY DEF IInv
<1>nqueue. Len(queue) \in Nat
  BY <1>inv, Types
<1>nledger. Len(ledger) \in Nat
  BY <1>inv, Types
<1>nqueued. status.queued \in Nat /\ status.accepted \in Nat /\ status.completed \in Nat
  BY <1>inv, Types
<1>nsettings. settings.gen \in Nat
  BY <1>inv, Types
<1>ncapacity. settings.capacity \in Nat
  BY <1>inv, Types
<1>nmark. \A d \in Controllers : call[d].mark \in Nat
  BY <1>inv, Types
<1>call. /\ \A d \in Controllers : d # c => call'[d] = call[d]
         /\ call[c].pc = "close" /\ call'[c].pc = "barrier"
         /\ call'[c].op = call[c].op /\ call'[c].done = call[c].done
         /\ call'[c].error = call[c].error /\ call'[c].result = call[c].result
         /\ call'[c].mark = call[c].mark
  BY <1>inv, CallSteps DEF StopClose
<1>control. control' = control
  BY DEF StopClose
<1>data. queue' = queue /\ ledger' = ledger
  BY DEF StopClose
<1>settings. settings' = settings
  BY DEF StopClose, runtimeVars
<1>flags. stopping' = stopping /\ writerFailed' = writerFailed
  BY DEF StopClose, runtimeVars
<1>writer. wpc' = wpc /\ entry' = entry
  BY <1>inv DEF StopClose, writerVars
<1>counts. /\ status'.queued = status.queued /\ status'.accepted = status.accepted
           /\ status'.completed = status.completed
  BY <1>inv DEF StopClose, TypeOK, StatusType
<1>open. /\ status'.is_running = status.is_running
         /\ ~status'.is_accepting
         /\ status'.last_error = status.last_error
  BY <1>inv DEF StopClose, TypeOK, StatusType
<1>type. TypeOK'
  <2>1. call' \in [Controllers -> CallType]
    BY <1>inv, CallTyped DEF StopClose
  <2>2. status' \in StatusType
    BY <1>inv DEF StopClose, TypeOK, StatusType
  <2> QED
    BY <1>inv, <2>1, <2>2 DEF TypeOK, StopClose, runtimeVars, writerVars
<1>frame. QueueCount' /\ Conservation' /\ QueueOrder' /\ Generations' /\ Failures'
  <2>1. /\ settings'.gen = settings.gen /\ settings'.capacity = settings.capacity
        /\ settings'.held = settings.held
    BY <1>settings
  <2>2. Busy' <=> Busy
    BY <1>writer
  <2> HIDE DEF Busy
  <2> QED
    BY <2>1, <2>2, <1>data, <1>flags, <1>writer, <1>counts, <1>open, DataFrame
<1>barriers. OneBarrier' /\ Marks'
  <2>1. \A d \in Controllers : At(d, "await") /\ ~call[d].done => call'[d] = call[d]
    BY <1>call
  <2>2. Busy' <=> Busy
    BY <1>writer
  <2> HIDE DEF Busy, At
  <2> QED
    BY <2>1, <2>2, <1>data, <1>writer, <1>counts, BarrierFrame
<1>owed. Owed'
  <2>1. \A d \in Controllers : call'[d].mark = call[d].mark /\ Covered(d) => Covered(d)'
    BY <1>data, <1>settings, CoveredFrame
  <2> QED
    BY <2>1, <1>inv, <1>call DEF Owed
<1>ControlOwner. ControlOwner'
  BY <1>inv, <1>call, <1>control, ThreadsAssumption DEF ControlOwner
<1>OpSteps. OpSteps'
  BY <1>inv, <1>nqueued, <1>nmark, <1>call, <1>control, <1>counts DEF OpSteps
<1>WriterLife. WriterLife'
  BY <1>inv, <1>nqueue, <1>nsettings, <1>call, <1>control, <1>data, <1>settings, <1>flags,
    <1>writer, <1>open DEF WriterLife
<1>Admission. Admission'
  BY <1>inv, <1>call, <1>control, <1>open DEF Admission
<1>DrainedBehind. DrainedBehind'
  BY <1>inv, <1>nqueue, <1>call, <1>control, <1>data, <1>writer DEF DrainedBehind
<1> QED
  BY <1>type, <1>frame, <1>barriers, <1>owed, <1>ControlOwner, <1>OpSteps, <1>WriterLife,
    <1>Admission, <1>DrainedBehind DEF IInv

\* stop() tells the writer to leave.
LEMMA StopHaltInv ==
  ASSUME IInv, NEW c \in Controllers, StopHalt(c)
  PROVE  IInv'
<1> USE DEF IsRecord, At, Busy, RecordInHand, BarrierInHand, Taken, InHand
<1>inv. TypeOK /\ ControlOwner /\ OpSteps /\ OneBarrier /\ QueueCount /\ Conservation
      /\ QueueOrder /\ Generations /\ Failures /\ WriterLife /\ Admission
      /\ DrainedBehind /\ Marks /\ Owed
  BY DEF IInv
<1>nqueue. Len(queue) \in Nat
  BY <1>inv, Types
<1>nledger. Len(ledger) \in Nat
  BY <1>inv, Types
<1>nqueued. status.queued \in Nat /\ status.accepted \in Nat /\ status.completed \in Nat
  BY <1>inv, Types
<1>nsettings. settings.gen \in Nat
  BY <1>inv, Types
<1>ncapacity. settings.capacity \in Nat
  BY <1>inv, Types
<1>nmark. \A d \in Controllers : call[d].mark \in Nat
  BY <1>inv, Types
<1>call. /\ \A d \in Controllers : d # c => call'[d] = call[d]
         /\ call[c].pc = "halt" /\ call'[c].pc = "join"
         /\ call'[c].op = call[c].op /\ call'[c].done = call[c].done
         /\ call'[c].error = call[c].error /\ call'[c].result = call[c].result
         /\ call'[c].mark = call[c].mark
  BY <1>inv, CallSteps DEF StopHalt
<1>control. control' = control
  BY DEF StopHalt
<1>data. queue' = queue /\ ledger' = ledger
  BY DEF StopHalt
<1>settings. settings' = settings
  BY DEF StopHalt, runtimeVars
<1>flags. stopping' = TRUE /\ writerFailed' = writerFailed
  BY DEF StopHalt, runtimeVars
<1>writer. wpc' = wpc /\ entry' = entry
  BY <1>inv DEF StopHalt, writerVars
<1>counts. /\ status'.queued = status.queued /\ status'.accepted = status.accepted
           /\ status'.completed = status.completed
  BY <1>inv DEF StopHalt, TypeOK, StatusType
<1>open. /\ status'.is_running = status.is_running
         /\ status'.is_accepting = status.is_accepting
         /\ status'.last_error = status.last_error
  BY <1>inv DEF StopHalt, TypeOK, StatusType
<1>type. TypeOK'
  <2>1. call' \in [Controllers -> CallType]
    BY <1>inv, CallTyped DEF StopHalt
  <2> QED
    BY <1>inv, <2>1 DEF TypeOK, StopHalt, NotifyAll, runtimeVars, writerVars
<1>frame. QueueCount' /\ Conservation' /\ QueueOrder' /\ Generations' /\ Failures'
  <2>1. /\ settings'.gen = settings.gen /\ settings'.capacity = settings.capacity
        /\ settings'.held = settings.held
    BY <1>settings
  <2>2. Busy' <=> Busy
    BY <1>writer
  <2> HIDE DEF Busy
  <2> QED
    BY <2>1, <2>2, <1>data, <1>flags, <1>writer, <1>counts, <1>open, DataFrame
<1>barriers. OneBarrier' /\ Marks'
  <2>1. \A d \in Controllers : At(d, "await") /\ ~call[d].done => call'[d] = call[d]
    BY <1>call
  <2>2. Busy' <=> Busy
    BY <1>writer
  <2> HIDE DEF Busy, At
  <2> QED
    BY <2>1, <2>2, <1>data, <1>writer, <1>counts, BarrierFrame
<1>owed. Owed'
  <2>1. \A d \in Controllers : call'[d].mark = call[d].mark /\ Covered(d) => Covered(d)'
    BY <1>data, <1>settings, CoveredFrame
  <2> QED
    BY <2>1, <1>inv, <1>call DEF Owed
<1>ControlOwner. ControlOwner'
  BY <1>inv, <1>call, <1>control, ThreadsAssumption DEF ControlOwner
<1>OpSteps. OpSteps'
  BY <1>inv, <1>nqueued, <1>nmark, <1>call, <1>control, <1>counts DEF OpSteps
<1>WriterLife. WriterLife'
  BY <1>inv, <1>nqueue, <1>nsettings, <1>call, <1>control, <1>data, <1>settings, <1>flags,
    <1>writer, <1>open DEF WriterLife
<1>Admission. Admission'
  BY <1>inv, <1>call, <1>control, <1>open DEF Admission
<1>DrainedBehind. DrainedBehind'
  BY <1>inv, <1>nqueue, <1>call, <1>control, <1>data, <1>writer DEF DrainedBehind
<1> QED
  BY <1>type, <1>frame, <1>barriers, <1>owed, <1>ControlOwner, <1>OpSteps, <1>WriterLife,
    <1>Admission, <1>DrainedBehind DEF IInv

\* stop() joins the writer.
LEMMA StopJoinInv ==
  ASSUME IInv, NEW c \in Controllers, StopJoin(c)
  PROVE  IInv'
<1> USE DEF IsRecord, At, Busy, RecordInHand, BarrierInHand, Taken, InHand
<1>inv. TypeOK /\ ControlOwner /\ OpSteps /\ OneBarrier /\ QueueCount /\ Conservation
      /\ QueueOrder /\ Generations /\ Failures /\ WriterLife /\ Admission
      /\ DrainedBehind /\ Marks /\ Owed
  BY DEF IInv
<1>nqueue. Len(queue) \in Nat
  BY <1>inv, Types
<1>nledger. Len(ledger) \in Nat
  BY <1>inv, Types
<1>nqueued. status.queued \in Nat /\ status.accepted \in Nat /\ status.completed \in Nat
  BY <1>inv, Types
<1>nsettings. settings.gen \in Nat
  BY <1>inv, Types
<1>ncapacity. settings.capacity \in Nat
  BY <1>inv, Types
<1>nmark. \A d \in Controllers : call[d].mark \in Nat
  BY <1>inv, Types
<1>guard. wpc \in {"none", "exited"}
  BY DEF StopJoin, Joined
<1>call. /\ \A d \in Controllers : d # c => call'[d] = call[d]
         /\ call[c].pc = "join" /\ call'[c].pc = "release"
         /\ call'[c].op = call[c].op /\ call'[c].done = call[c].done
         /\ call'[c].error = call[c].error /\ call'[c].result = call[c].result
         /\ call'[c].mark = call[c].mark
  BY <1>inv, CallSteps DEF StopJoin
<1>control. control' = control
  BY DEF StopJoin
<1>data. queue' = queue /\ ledger' = ledger
  BY DEF StopJoin
<1>settings. settings' = settings
  BY DEF StopJoin, runtimeVars
<1>flags. stopping' = stopping /\ writerFailed' = writerFailed
  BY DEF StopJoin, runtimeVars
<1>writer. wpc' = "none" /\ entry' = entry
  BY <1>inv DEF StopJoin, writerVars
<1>counts. /\ status'.queued = status.queued /\ status'.accepted = status.accepted
           /\ status'.completed = status.completed
  BY <1>inv DEF StopJoin, TypeOK, StatusType
<1>open. /\ status'.is_running = status.is_running
         /\ status'.is_accepting = status.is_accepting
         /\ status'.last_error = status.last_error
  BY <1>inv DEF StopJoin, TypeOK, StatusType
<1>type. TypeOK'
  <2>1. call' \in [Controllers -> CallType]
    BY <1>inv, CallTyped DEF StopJoin
  <2> QED
    BY <1>inv, <2>1 DEF TypeOK, StopJoin, NotifyAll, runtimeVars, writerVars
<1>frame. QueueCount' /\ Conservation' /\ QueueOrder' /\ Generations' /\ Failures'
  <2>1. /\ settings'.gen = settings.gen /\ settings'.capacity = settings.capacity
        /\ settings'.held = settings.held
    BY <1>settings
  <2>2. Busy' <=> Busy
    BY <1>guard, <1>writer
  <2> HIDE DEF Busy
  <2> QED
    BY <2>1, <2>2, <1>data, <1>flags, <1>writer, <1>counts, <1>open, DataFrame
<1>barriers. OneBarrier' /\ Marks'
  <2>1. \A d \in Controllers : At(d, "await") /\ ~call[d].done => call'[d] = call[d]
    BY <1>call
  <2>2. Busy' <=> Busy
    BY <1>guard, <1>writer
  <2> HIDE DEF Busy, At
  <2> QED
    BY <2>1, <2>2, <1>data, <1>writer, <1>counts, BarrierFrame
<1>owed. Owed'
  <2>1. \A d \in Controllers : call'[d].mark = call[d].mark /\ Covered(d) => Covered(d)'
    BY <1>data, <1>settings, CoveredFrame
  <2> QED
    BY <2>1, <1>inv, <1>call DEF Owed
<1>ControlOwner. ControlOwner'
  BY <1>inv, <1>guard, <1>call, <1>control, ThreadsAssumption DEF ControlOwner
<1>OpSteps. OpSteps'
  BY <1>inv, <1>nqueued, <1>nmark, <1>guard, <1>call, <1>control, <1>counts DEF OpSteps
<1>WriterLife. WriterLife'
  BY <1>inv, <1>nqueue, <1>nsettings, <1>guard, <1>call, <1>control, <1>data, <1>settings,
    <1>flags, <1>writer, <1>open DEF WriterLife
<1>Admission. Admission'
  BY <1>inv, <1>guard, <1>call, <1>control, <1>open DEF Admission
<1>DrainedBehind. DrainedBehind'
  BY <1>inv, <1>nqueue, <1>guard, <1>call, <1>control, <1>data, <1>writer DEF DrainedBehind
<1> QED
  BY <1>type, <1>frame, <1>barriers, <1>owed, <1>ControlOwner, <1>OpSteps, <1>WriterLife,
    <1>Admission, <1>DrainedBehind DEF IInv

\* stop() releases the captures of the settings and returns.
LEMMA StopReleaseInv ==
  ASSUME IInv, NEW c \in Controllers, StopRelease(c)
  PROVE  IInv'
<1> USE DEF IsRecord, At, Busy, RecordInHand, BarrierInHand, Taken, InHand
<1>inv. TypeOK /\ ControlOwner /\ OpSteps /\ OneBarrier /\ QueueCount /\ Conservation
      /\ QueueOrder /\ Generations /\ Failures /\ WriterLife /\ Admission
      /\ DrainedBehind /\ Marks /\ Owed
  BY DEF IInv
<1>nqueue. Len(queue) \in Nat
  BY <1>inv, Types
<1>nledger. Len(ledger) \in Nat
  BY <1>inv, Types
<1>nqueued. status.queued \in Nat /\ status.accepted \in Nat /\ status.completed \in Nat
  BY <1>inv, Types
<1>nsettings. settings.gen \in Nat
  BY <1>inv, Types
<1>ncapacity. settings.capacity \in Nat
  BY <1>inv, Types
<1>nmark. \A d \in Controllers : call[d].mark \in Nat
  BY <1>inv, Types
<1>guard. /\ wpc = "none" /\ queue = <<>> /\ ~status.is_accepting
          /\ status.completed = Len(ledger)
  <2>1. wpc = "none" /\ queue = <<>>
    BY <1>inv DEF StopRelease, WriterLife
  <2>2. ~status.is_accepting
    BY <1>inv DEF StopRelease, Admission
  <2>3. status.queued = 0
    BY <1>inv, <2>1, <1>nqueue DEF QueueCount
  <2>4. status.completed = Len(ledger)
    BY <1>inv, <2>1, <2>3, <1>nqueued DEF Conservation
  <2> QED
    BY <2>1, <2>2, <2>4
<1>call. /\ \A d \in Controllers : d # c => call'[d] = call[d]
         /\ call[c].pc = "release"
         /\ call'[c].pc = "idle" /\ call'[c].mark = 0
  <2>1. call[c].result \in {"none", "success", "failure"}
    BY <1>inv DEF TypeOK, CallType
  <2> QED
    BY <1>inv, <2>1, Returned DEF StopRelease
<1>control. control' = None
  BY DEF StopRelease, Return
<1>data. queue' = queue /\ ledger' = ledger
  BY DEF StopRelease, Return
<1>settings. settings'.gen = settings.gen /\ settings'.capacity = settings.capacity /\ ~settings'.held
  BY <1>inv DEF StopRelease, TypeOK, SettingsType
<1>flags. stopping' = stopping /\ writerFailed' = writerFailed
  BY DEF StopRelease, Return, runtimeVars
<1>writer. wpc' = wpc /\ entry' = entry
  BY <1>inv DEF StopRelease, Return, writerVars
<1>counts. /\ status'.queued = status.queued /\ status'.accepted = status.accepted
           /\ status'.completed = status.completed
  BY <1>inv DEF StopRelease, Return, TypeOK, StatusType
<1>open. /\ ~status'.is_running
         /\ status'.is_accepting = status.is_accepting
         /\ status'.last_error = status.last_error
  BY <1>inv DEF StopRelease, Return, TypeOK, StatusType
<1>type. TypeOK'
  <2>1. call[c].result \in {"none", "success", "failure"}
    BY <1>inv DEF TypeOK, CallType
  <2>2. call' \in [Controllers -> CallType]
    BY <1>inv, <2>1, Returned DEF StopRelease
  <2>3. status' \in StatusType
    BY <1>inv DEF StopRelease, TypeOK, StatusType
  <2>4. settings' \in SettingsType
    BY <1>inv DEF StopRelease, TypeOK, SettingsType
  <2> QED
    BY <1>inv, <1>control, <2>2, <2>3, <2>4 DEF TypeOK, StopRelease, writerVars
<1>frame. QueueCount' /\ Conservation' /\ QueueOrder' /\ Generations' /\ Failures'
  <2>1. /\ settings'.gen = settings.gen /\ settings'.capacity = settings.capacity
        /\ ~status'.is_accepting /\ status.completed = Len(ledger)
    BY <1>settings, <1>open, <1>guard
  <2>2. Busy' <=> Busy
    BY <1>guard, <1>writer
  <2> HIDE DEF Busy
  <2> QED
    BY <2>1, <2>2, <1>data, <1>flags, <1>writer, <1>counts, <1>open, DataFrame
<1>barriers. OneBarrier' /\ Marks'
  <2>1. \A d \in Controllers : At(d, "await") /\ ~call[d].done => call'[d] = call[d]
    BY <1>call
  <2>2. Busy' <=> Busy
    BY <1>guard, <1>writer
  <2> HIDE DEF Busy, At
  <2> QED
    BY <2>1, <2>2, <1>data, <1>writer, <1>counts, BarrierFrame
<1>owed. Owed'
  <2>1. \A d \in Controllers : call'[d].mark = call[d].mark /\ Covered(d) => Covered(d)'
    BY <1>data, <1>settings, CoveredFrame
  <2> QED
    BY <2>1, <1>inv, <1>call DEF Owed
<1>ControlOwner. ControlOwner'
  BY <1>inv, <1>guard, <1>call, <1>control, ThreadsAssumption DEF ControlOwner
<1>OpSteps. OpSteps'
  BY <1>inv, <1>nqueued, <1>nmark, <1>guard, <1>call, <1>control, <1>counts DEF OpSteps
<1>WriterLife. WriterLife'
  <2>1. \A d \in Controllers : d # c => At(d, "idle") \/ At(d, "acquire")
    BY <1>inv, <1>call DEF ControlOwner
  <2>2. \A d \in Controllers : At(d, "idle")' \/ At(d, "acquire")'
    BY <2>1, <1>call
  <2> QED
    BY <2>2, <1>guard, <1>settings, <1>writer, <1>data, <1>open DEF WriterLife
<1>Admission. Admission'
  BY <1>inv, <1>guard, <1>call, <1>control, <1>open DEF Admission
<1>DrainedBehind. DrainedBehind'
  BY <1>inv, <1>nqueue, <1>guard, <1>call, <1>control, <1>data, <1>writer DEF DrainedBehind
<1> QED
  BY <1>type, <1>frame, <1>barriers, <1>owed, <1>ControlOwner, <1>OpSteps, <1>WriterLife,
    <1>Admission, <1>DrainedBehind DEF IInv

\* The writer leaves its loop.
LEMMA WriterExitInv ==
  ASSUME IInv, WriterExit
  PROVE  IInv'
<1> USE DEF IsRecord, At, Busy, RecordInHand, BarrierInHand, Taken, InHand
<1>inv. TypeOK /\ ControlOwner /\ OpSteps /\ OneBarrier /\ QueueCount /\ Conservation
      /\ QueueOrder /\ Generations /\ Failures /\ WriterLife /\ Admission
      /\ DrainedBehind /\ Marks /\ Owed
  BY DEF IInv
<1>nqueue. Len(queue) \in Nat
  BY <1>inv, Types
<1>nledger. Len(ledger) \in Nat
  BY <1>inv, Types
<1>nqueued. status.queued \in Nat /\ status.accepted \in Nat /\ status.completed \in Nat
  BY <1>inv, Types
<1>nsettings. settings.gen \in Nat
  BY <1>inv, Types
<1>ncapacity. settings.capacity \in Nat
  BY <1>inv, Types
<1>nmark. \A d \in Controllers : call[d].mark \in Nat
  BY <1>inv, Types
<1>guard. wpc = "loop" /\ queue = <<>> /\ stopping
  BY DEF WriterExit, MayExit, WriterAwake
<1>call. call' = call
  BY DEF WriterExit, controlVars
<1>control. control' = control
  BY DEF WriterExit, controlVars
<1>data. queue' = queue /\ ledger' = ledger
  BY DEF WriterExit, controlVars
<1>settings. settings' = settings
  BY DEF WriterExit, controlVars, runtimeVars
<1>flags. stopping' = stopping /\ writerFailed' = writerFailed
  BY DEF WriterExit, controlVars, runtimeVars
<1>writer. wpc' = "exited" /\ entry' = entry
  BY <1>inv DEF WriterExit, controlVars, writerVars
<1>counts. /\ status'.queued = status.queued /\ status'.accepted = status.accepted
           /\ status'.completed = status.completed
  BY <1>inv DEF WriterExit, controlVars, TypeOK, StatusType
<1>open. /\ status'.is_running = status.is_running
         /\ status'.is_accepting = status.is_accepting
         /\ status'.last_error = status.last_error
  BY <1>inv DEF WriterExit, controlVars, TypeOK, StatusType
<1>type. TypeOK'
  BY <1>inv DEF TypeOK, WriterExit, runtimeVars, controlVars
<1>frame. QueueCount' /\ Conservation' /\ QueueOrder' /\ Generations' /\ Failures'
  <2>1. /\ settings'.gen = settings.gen /\ settings'.capacity = settings.capacity
        /\ settings'.held = settings.held
    BY <1>settings
  <2>2. Busy' <=> Busy
    BY <1>guard, <1>writer
  <2> HIDE DEF Busy
  <2> QED
    BY <2>1, <2>2, <1>data, <1>flags, <1>writer, <1>counts, <1>open, DataFrame
<1>barriers. OneBarrier' /\ Marks'
  <2>1. \A d \in Controllers : At(d, "await") /\ ~call[d].done => call'[d] = call[d]
    BY <1>call
  <2>2. Busy' <=> Busy
    BY <1>guard, <1>writer
  <2> HIDE DEF Busy, At
  <2> QED
    BY <2>1, <2>2, <1>data, <1>writer, <1>counts, BarrierFrame
<1>owed. Owed'
  <2>1. \A d \in Controllers : call'[d].mark = call[d].mark /\ Covered(d) => Covered(d)'
    BY <1>data, <1>settings, CoveredFrame
  <2> QED
    BY <2>1, <1>inv, <1>call DEF Owed
<1>ControlOwner. ControlOwner'
  BY <1>inv, <1>guard, <1>call, <1>control, ThreadsAssumption DEF ControlOwner
<1>OpSteps. OpSteps'
  BY <1>inv, <1>nqueued, <1>nmark, <1>guard, <1>call, <1>control, <1>counts DEF OpSteps
<1>WriterLife. WriterLife'
  BY <1>inv, <1>nqueue, <1>nsettings, <1>guard, <1>call, <1>control, <1>data, <1>settings,
    <1>flags, <1>writer, <1>open DEF WriterLife
<1>Admission. Admission'
  BY <1>inv, <1>guard, <1>call, <1>control, <1>open DEF Admission
<1>DrainedBehind. DrainedBehind'
  BY <1>inv, <1>nqueue, <1>guard, <1>call, <1>control, <1>data, <1>writer DEF DrainedBehind
<1> QED
  BY <1>type, <1>frame, <1>barriers, <1>owed, <1>ControlOwner, <1>OpSteps, <1>WriterLife,
    <1>Admission, <1>DrainedBehind DEF IInv

\* Impl::barrier() ends with the outcome r, which is a success only when every
\* record accepted before the call is covered.
LEMMA EndInv ==
  ASSUME IInv, NEW c \in Controllers, NEW r \in {"success", "failure"}, BarrierEnd(c, r),
         At(c, "barrier") \/ (At(c, "await") /\ call[c].done),
         r = "success" => Covered(c)
  PROVE  IInv'
<1> USE DEF IsRecord, At, Busy, RecordInHand, BarrierInHand, Taken, InHand
<1>inv. TypeOK /\ ControlOwner /\ OpSteps /\ OneBarrier /\ QueueCount /\ Conservation
      /\ QueueOrder /\ Generations /\ Failures /\ WriterLife /\ Admission
      /\ DrainedBehind /\ Marks /\ Owed
  BY DEF IInv
<1>nqueue. Len(queue) \in Nat
  BY <1>inv, Types
<1>nledger. Len(ledger) \in Nat
  BY <1>inv, Types
<1>nqueued. status.queued \in Nat /\ status.accepted \in Nat /\ status.completed \in Nat
  BY <1>inv, Types
<1>nsettings. settings.gen \in Nat
  BY <1>inv, Types
<1>ncapacity. settings.capacity \in Nat
  BY <1>inv, Types
<1>nmark. \A d \in Controllers : call[d].mark \in Nat
  BY <1>inv, Types
<1>call. /\ \A d \in Controllers : d # c => call'[d] = call[d]
         /\ call[c].pc = "barrier" \/ (call[c].pc = "await" /\ call[c].done)
         /\ \/ call'[c].pc = "idle" /\ call'[c].mark = 0 /\ control' = None
            \/ /\ call[c].op = "stop" /\ call'[c].op = "stop"
               /\ call'[c].pc = "halt" /\ call'[c].result = r
               /\ call'[c].mark = call[c].mark /\ control' = control
  BY <1>inv, BarrierEnded
<1>data. queue' = queue /\ ledger' = ledger
  BY DEF BarrierEnd
<1>settings. settings' = settings
  BY DEF BarrierEnd, runtimeVars
<1>flags. stopping' = stopping /\ writerFailed' = writerFailed
  BY DEF BarrierEnd, runtimeVars
<1>writer. wpc' = wpc /\ entry' = entry
  BY <1>inv DEF BarrierEnd, writerVars
<1>counts. /\ status'.queued = status.queued /\ status'.accepted = status.accepted
           /\ status'.completed = status.completed
  BY <1>inv DEF BarrierEnd, TypeOK, StatusType
<1>open. /\ status'.is_running = status.is_running
         /\ status'.is_accepting = status.is_accepting
         /\ status'.last_error = status.last_error
  BY <1>inv DEF BarrierEnd, TypeOK, StatusType
<1>type. TypeOK'
  <2>1. call' \in [Controllers -> CallType] /\ control' \in Controllers \cup {None}
    BY <1>inv, BarrierEnded DEF TypeOK
  <2> QED
    BY <1>inv, <2>1 DEF TypeOK, BarrierEnd, runtimeVars, writerVars
<1>frame. QueueCount' /\ Conservation' /\ QueueOrder' /\ Generations' /\ Failures'
  <2>1. /\ settings'.gen = settings.gen /\ settings'.capacity = settings.capacity
        /\ settings'.held = settings.held
    BY <1>settings
  <2>2. Busy' <=> Busy
    BY <1>writer
  <2> HIDE DEF Busy
  <2> QED
    BY <2>1, <2>2, <1>data, <1>flags, <1>writer, <1>counts, <1>open, DataFrame
<1>barriers. OneBarrier' /\ Marks'
  <2>1. \A d \in Controllers : At(d, "await") /\ ~call[d].done => call'[d] = call[d]
    BY <1>call
  <2>2. Busy' <=> Busy
    BY <1>writer
  <2> HIDE DEF Busy, At
  <2> QED
    BY <2>1, <2>2, <1>data, <1>writer, <1>counts, BarrierFrame
<1>owed. Owed'
  <2>1. \A d \in Controllers : call'[d].mark = call[d].mark /\ Covered(d) => Covered(d)'
    BY <1>data, <1>settings, CoveredFrame
  <2> QED
    BY <2>1, <1>inv, <1>call DEF Owed
<1>ControlOwner. ControlOwner'
  BY <1>inv, <1>call, ThreadsAssumption DEF ControlOwner
<1>OpSteps. OpSteps'
  BY <1>inv, <1>nqueued, <1>nmark, <1>call, <1>counts DEF OpSteps
<1>WriterLife. WriterLife'
  BY <1>inv, <1>nqueue, <1>nsettings, <1>call, <1>data, <1>settings, <1>flags, <1>writer,
    <1>open DEF WriterLife
<1>Admission. Admission'
  BY <1>inv, <1>call, <1>open DEF Admission
<1>DrainedBehind. DrainedBehind'
  BY <1>inv, <1>nqueue, <1>call, <1>data, <1>writer DEF DrainedBehind
<1> QED
  BY <1>type, <1>frame, <1>barriers, <1>owed, <1>ControlOwner, <1>OpSteps, <1>WriterLife,
    <1>Admission, <1>DrainedBehind DEF IInv

\* configure() fails before its barrier is queued.
LEMMA ConfigureFailsInv ==
  ASSUME IInv, NEW c \in Controllers, ConfigureFails(c)
  PROVE  IInv'
<1> USE DEF IsRecord, At, Busy, RecordInHand, BarrierInHand, Taken, InHand
<1>inv. TypeOK /\ ControlOwner /\ OpSteps /\ OneBarrier /\ QueueCount /\ Conservation
      /\ QueueOrder /\ Generations /\ Failures /\ WriterLife /\ Admission
      /\ DrainedBehind /\ Marks /\ Owed
  BY DEF IInv
<1>nqueue. Len(queue) \in Nat
  BY <1>inv, Types
<1>nledger. Len(ledger) \in Nat
  BY <1>inv, Types
<1>nqueued. status.queued \in Nat /\ status.accepted \in Nat /\ status.completed \in Nat
  BY <1>inv, Types
<1>nsettings. settings.gen \in Nat
  BY <1>inv, Types
<1>ncapacity. settings.capacity \in Nat
  BY <1>inv, Types
<1>nmark. \A d \in Controllers : call[d].mark \in Nat
  BY <1>inv, Types
<1>call. /\ \A d \in Controllers : d # c => call'[d] = call[d]
         /\ call[c].pc = "enter"
         /\ call'[c].pc = "idle" /\ call'[c].mark = 0
  BY <1>inv, Returned DEF ConfigureFails
<1>control. control' = None
  BY DEF ConfigureFails, Return
<1>data. queue' = queue /\ ledger' = ledger
  BY DEF ConfigureFails, Return
<1>settings. settings' = settings
  BY DEF ConfigureFails, Return, runtimeVars
<1>flags. /\ stopping' = stopping \/ (~status.is_running /\ ~stopping')
          /\ writerFailed' = writerFailed
  BY DEF ConfigureFails, Return, runtimeVars
<1>writer. wpc' = wpc /\ entry' = entry
  BY <1>inv DEF ConfigureFails, Return, writerVars
<1>counts. /\ status'.queued = status.queued /\ status'.accepted = status.accepted
           /\ status'.completed = status.completed
  BY <1>inv DEF ConfigureFails, Return, TypeOK, StatusType
<1>open. /\ status'.is_running = status.is_running
         /\ status'.is_accepting = status.is_accepting
         /\ status'.last_error = status.last_error
  BY <1>inv DEF ConfigureFails, Return, TypeOK, StatusType
<1>type. TypeOK'
  <2>1. call' \in [Controllers -> CallType]
    BY <1>inv, Returned DEF ConfigureFails
  <2>2. stopping' \in BOOLEAN
    BY <1>inv DEF TypeOK, ConfigureFails
  <2> QED
    BY <1>inv, <1>control, <2>1, <2>2 DEF TypeOK, ConfigureFails, writerVars
<1>frame. QueueCount' /\ Conservation' /\ QueueOrder' /\ Generations' /\ Failures'
  <2>1. /\ settings'.gen = settings.gen /\ settings'.capacity = settings.capacity
        /\ settings'.held = settings.held
    BY <1>settings
  <2>2. Busy' <=> Busy
    BY <1>writer
  <2> HIDE DEF Busy
  <2> QED
    BY <2>1, <2>2, <1>data, <1>flags, <1>writer, <1>counts, <1>open, DataFrame
<1>barriers. OneBarrier' /\ Marks'
  <2>1. \A d \in Controllers : At(d, "await") /\ ~call[d].done => call'[d] = call[d]
    BY <1>call
  <2>2. Busy' <=> Busy
    BY <1>writer
  <2> HIDE DEF Busy, At
  <2> QED
    BY <2>1, <2>2, <1>data, <1>writer, <1>counts, BarrierFrame
<1>owed. Owed'
  <2>1. \A d \in Controllers : call'[d].mark = call[d].mark /\ Covered(d) => Covered(d)'
    BY <1>data, <1>settings, CoveredFrame
  <2> QED
    BY <2>1, <1>inv, <1>call DEF Owed
<1>ControlOwner. ControlOwner'
  BY <1>inv, <1>call, <1>control, ThreadsAssumption DEF ControlOwner
<1>OpSteps. OpSteps'
  BY <1>inv, <1>nqueued, <1>nmark, <1>call, <1>control, <1>counts DEF OpSteps
<1>WriterLife. WriterLife'
  <2>1. \A d \in Controllers : ~At(d, "join") /\ ~At(d, "release")
    BY <1>inv, <1>call DEF ControlOwner
  <2>2. \A d \in Controllers : ~At(d, "join")' /\ ~At(d, "release")' /\ (At(d, "await")' => At(d, "await"))
    BY <2>1, <1>call
  <2> QED
    BY <1>inv, <2>1, <2>2, <1>flags, <1>writer, <1>data, <1>open, <1>settings DEF WriterLife
<1>Admission. Admission'
  BY <1>inv, <1>call, <1>control, <1>open DEF Admission
<1>DrainedBehind. DrainedBehind'
  BY <1>inv, <1>nqueue, <1>call, <1>control, <1>data, <1>writer DEF DrainedBehind
<1> QED
  BY <1>type, <1>frame, <1>barriers, <1>owed, <1>ControlOwner, <1>OpSteps, <1>WriterLife,
    <1>Admission, <1>DrainedBehind DEF IInv

\* What the two operations that queue a barrier have in common: the barrier goes
\* behind every record, and a writer runs.
LEMMA SendBarrierInv ==
  ASSUME IInv, NEW c \in Controllers, At(c, "enter") \/ At(c, "barrier"),
         queue' = Append(queue, BarrierEntry(c)), GoTo(c, "await"), TypeOK',
         control' = control, ledger' = ledger, settings' = settings, entry' = entry,
         writerFailed' = writerFailed,
         status'.queued = status.queued, status'.accepted = status.accepted,
         status'.completed = status.completed, status'.last_error = status.last_error,
         status'.is_running,
         status'.is_accepting => status.is_accepting /\ call[c].op = "flush",
         \/ status.is_running /\ wpc' = wpc
         \/ ~status.is_running /\ wpc' = "loop",
         stopping' => stopping /\ status.is_running
  PROVE  IInv'
<1> USE DEF IsRecord, At, Busy, RecordInHand, BarrierInHand, Taken, InHand
<1>inv. TypeOK /\ ControlOwner /\ OpSteps /\ OneBarrier /\ QueueCount /\ Conservation
      /\ QueueOrder /\ Generations /\ Failures /\ WriterLife /\ Admission
      /\ DrainedBehind /\ Marks /\ Owed
  BY DEF IInv
<1>nqueue. Len(queue) \in Nat
  BY <1>inv, Types
<1>nledger. Len(ledger) \in Nat
  BY <1>inv, Types
<1>nqueued. status.queued \in Nat /\ status.accepted \in Nat /\ status.completed \in Nat
  BY <1>inv, Types
<1>nsettings. settings.gen \in Nat
  BY <1>inv, Types
<1>ncapacity. settings.capacity \in Nat
  BY <1>inv, Types
<1>nmark. \A d \in Controllers : call[d].mark \in Nat
  BY <1>inv, Types
<1>counts. status'.queued = status.queued /\ status'.accepted = status.accepted
          /\ status'.completed = status.completed
  OBVIOUS
<1>call. /\ \A d \in Controllers : d # c => call'[d] = call[d]
         /\ call[c].pc \in {"enter", "barrier"} /\ call'[c].pc = "await"
         /\ call'[c].op = call[c].op /\ ~call'[c].done
         /\ call'[c].error = "ok" /\ call'[c].result = "none"
         /\ call'[c].mark = call[c].mark /\ call[c].mark <= status.accepted
  BY <1>inv, CallSteps DEF OpSteps
<1>alone. control = c /\ \A d \in Controllers : d # c => At(d, "idle") \/ At(d, "acquire")
  BY <1>inv, <1>call, ThreadsAssumption DEF ControlOwner
<1>others. \A d \in Controllers : ~At(d, "await") /\ ~At(d, "join") /\ ~At(d, "release") /\ ~At(d, "halt")
  BY <1>alone, <1>call
<1>clear. /\ \A i \in 1..Len(queue) : IsRecord(queue[i])
          /\ ~BarrierInHand
  <2>1. \A i \in 1..Len(queue) : ~IsRecord(queue[i]) => queue[i].barrier \in Controllers
    BY <1>inv, Types
  <2>2. ~IsRecord(entry.of) => entry.of.barrier \in Controllers
    BY <1>inv, Types
  <2> QED
    BY <2>1, <2>2, <1>inv, <1>others DEF OneBarrier
<1>queue. /\ Len(queue') = Len(queue) + 1
          /\ \A i \in 1..Len(queue') :
               \/ i \in 1..Len(queue) /\ queue'[i] = queue[i] /\ IsRecord(queue'[i])
               \/ i = Len(queue) + 1 /\ ~IsRecord(queue'[i]) /\ queue'[i].barrier = c
          /\ ~IsRecord(queue'[Len(queue) + 1])
  BY <1>inv, <1>nqueue, <1>clear, ThreadsAssumption DEF TypeOK, BarrierEntry
<1>length. Len(queue) = status.queued
  BY <1>inv, <1>clear DEF QueueCount
<1>writer. /\ wpc \notin {"none", "exited"} \/ ~status.is_running
           /\ wpc' \notin {"none", "exited"}
           /\ Busy' <=> Busy
  BY <1>inv, <1>others DEF WriterLife
<1>taken. Taken' = Taken /\ InHand' = InHand /\ status.accepted = Taken + status.queued /\ Taken \in Nat
  BY <1>inv, <1>writer, <1>counts, <1>nqueued DEF Conservation
<1>ControlOwner. ControlOwner'
  BY <1>inv, <1>call, <1>alone, ThreadsAssumption DEF ControlOwner
<1>OpSteps. OpSteps'
  BY <1>inv, <1>call, <1>counts DEF OpSteps
<1>OneBarrier. OneBarrier'
  BY <1>queue, <1>call, <1>clear, <1>writer DEF OneBarrier
<1>QueueCount. QueueCount'
  BY <1>inv, <1>queue, <1>length, <1>counts, <1>nqueue DEF QueueCount
<1>Conservation. Conservation'
  BY <1>inv, <1>taken, <1>counts DEF Conservation
<1>QueueOrder. QueueOrder'
  <2>1. \A i \in 1..Len(queue') : IsRecord(queue'[i]) => queue'[i].id = Taken + i
    <3> SUFFICES ASSUME NEW i \in 1..Len(queue'), IsRecord(queue'[i]) PROVE queue'[i].id = Taken + i
      OBVIOUS
    <3>1. i \in 1..Len(queue) /\ queue'[i] = queue[i]
      BY <1>queue
    <3>2. \A j \in 1..(i - 1) : IsRecord(queue[j])
      BY <3>1, <1>clear, <1>nqueue
    <3> QED
      BY <3>1, <3>2, <1>inv DEF QueueOrder
  <2>2. \A i, j \in 1..Len(queue') : j < i /\ ~IsRecord(queue'[j]) => ~IsRecord(queue'[i])
    BY <1>queue, <1>nqueue
  <2>3. RecordInHand' => entry'.of.id = status'.completed + 1
    BY <1>inv, <1>writer, <1>counts DEF QueueOrder
  <2> QED
    BY <2>1, <2>2, <2>3, <1>taken DEF QueueOrder
<1>Generations. Generations'
  BY <1>inv, <1>counts DEF Generations
<1>Failures. Failures'
  BY <1>inv, <1>writer DEF Failures
<1>WriterLife. WriterLife'
  <2>1. ~stopping'
    BY <1>inv, <1>others DEF WriterLife
  <2>2. \A d \in Controllers : ~At(d, "join")' /\ ~At(d, "release")'
    BY <1>others, <1>call
  <2> QED
    BY <2>1, <2>2, <1>writer DEF WriterLife
<1>Admission. Admission'
  <2>1. \A d \in Controllers : ~At(d, "halt")' /\ ~At(d, "join")' /\ ~At(d, "release")' /\ (d # c => ~At(d, "await")' /\ ~At(d, "barrier")')
    BY <1>others, <1>call, <1>alone
  <2> QED
    BY <2>1, <1>call DEF Admission
<1>DrainedBehind. DrainedBehind'
  <2>1. \A d \in Controllers : At(d, "await")' => d = c
    BY <1>others, <1>call
  <2>2. queue' # <<>>
    BY <1>nqueue, <1>queue
  <2>3. \A i \in 1..Len(queue') : ~IsRecord(queue'[i]) => i = Len(queue')
    BY <1>nqueue, <1>queue
  <2>4. ~BarrierInHand'
    BY <1>clear, <1>writer
  <2> QED
    BY <2>1, <2>2, <2>3, <2>4, <1>call, <1>queue DEF DrainedBehind
<1>Marks. Marks'
  <2>1. \A i \in 1..Len(queue') : ~IsRecord(queue'[i]) => call'[queue'[i].barrier].mark <= Taken + i - 1
    <3> HIDE DEF Taken
    <3> SUFFICES ASSUME NEW i \in 1..Len(queue'), ~IsRecord(queue'[i])
                 PROVE  call'[queue'[i].barrier].mark <= Taken + i - 1
      OBVIOUS
    <3>1. i = Len(queue) + 1 /\ queue'[i].barrier = c
      BY <1>queue
    <3>2. call'[c].mark <= Taken + status.queued
      BY <1>call, <1>taken
    <3>3. call'[c].mark \in Nat
      BY <1>call, <1>nmark
    <3> QED
      BY <3>1, <3>2, <3>3, <1>length, <1>taken, <1>nqueued
  <2> QED
    BY <2>1, <1>taken, <1>clear, <1>writer DEF Marks
<1>Owed. Owed'
  <2>1. \A d \in Controllers : ~(At(d, "await")' /\ call'[d].done) /\ ~At(d, "halt")' /\ ~At(d, "join")' /\ ~At(d, "release")'
    BY <1>others, <1>call
  <2> QED
    BY <2>1 DEF Owed
<1> QED
  BY <1>ControlOwner, <1>OpSteps, <1>OneBarrier, <1>QueueCount, <1>Conservation,
    <1>QueueOrder, <1>Generations, <1>Failures, <1>WriterLife, <1>Admission,
      <1>DrainedBehind, <1>Marks, <1>Owed DEF IInv

\* Without a writer and without a retained failure every record was written.
LEMMA NotRunningCovers ==
  ASSUME IInv, NEW c \in Controllers, ~status.is_running, ~writerFailed
  PROVE  Covered(c)
<1>inv. TypeOK /\ OpSteps /\ Conservation /\ QueueCount /\ Failures /\ WriterLife
  BY DEF IInv
<1>1. wpc = "none" /\ queue = <<>>
  BY <1>inv DEF WriterLife
<1>2. status.queued = 0 /\ InHand = 0
  BY <1>inv, <1>1, Types DEF QueueCount, InHand
<1>3. status.completed = Len(ledger) /\ call[c].mark <= Len(ledger)
  BY <1>inv, <1>2, Types DEF Conservation, OpSteps
<1>4. \A id \in 1..call[c].mark : id \in 1..Len(ledger) /\ id <= status.completed
  BY <1>inv, <1>3, Types
<1>5. \A id \in 1..Len(ledger) : ledger[id].fate \in Fates
  <2>1. \A id \in 1..Len(ledger) : ledger[id] \in LedgerType
    BY <1>inv DEF TypeOK
  <2> QED
    BY <2>1 DEF LedgerType
<1>6. ASSUME NEW id \in 1..call[c].mark
      PROVE  /\ ledger[id].fate # "pending"
             /\ ledger[id].gen = settings.gen => ledger[id].fate = "written"
  <2>1. ledger[id].fate # "pending"
    BY <1>inv, <1>4 DEF Conservation
  <2>2. ledger[id].gen = settings.gen => ledger[id].fate \notin {"failed", "skipped"}
    BY <1>inv, <1>4 DEF Failures
  <2> QED
    BY <2>1, <2>2, <1>4, <1>5 DEF Fates
<1> QED
  BY <1>6 DEF Covered

\* While a control thread is about to send a barrier no stop is under way.
LEMMA QuietStop ==
  ASSUME IInv, NEW c \in Controllers, At(c, "barrier"), status.is_running
  PROVE  ~stopping
<1>1. ControlOwner /\ WriterLife
  BY DEF IInv
<1>2. \A d \in Controllers : d # c => At(d, "idle") \/ At(d, "acquire")
  BY <1>1 DEF ControlOwner, At
<1>3. \A d \in Controllers : ~At(d, "join") /\ ~At(d, "release")
  BY <1>2 DEF At
<1> QED
  BY <1>1, <1>3 DEF WriterLife

\* Steps that touch neither the queue, nor the writer, nor a control operation,
\* and count at most a submission that went no further.
LEMMA Bystander ==
  ASSUME IInv, TypeOK',
         queue' = queue, ledger' = ledger, settings' = settings, stopping' = stopping,
         writerFailed' = writerFailed, wpc' = wpc, entry' = entry, control' = control,
         call' = call,
         status'.is_running = status.is_running,
         status'.is_accepting = status.is_accepting,
         status'.queued = status.queued,
         status'.accepted = status.accepted,
         status'.completed = status.completed,
         writerFailed => status'.last_error = status.last_error
  PROVE  IInv'
<1> USE DEF IsRecord, At, RecordInHand, BarrierInHand, Taken, InHand
<1>inv. TypeOK /\ ControlOwner /\ OpSteps /\ OneBarrier /\ QueueCount /\ Conservation
        /\ QueueOrder /\ Generations /\ Failures /\ WriterLife /\ Admission
        /\ DrainedBehind /\ Marks /\ Owed
  BY DEF IInv
<1>1. Busy' <=> Busy
  BY DEF Busy
<1>2. QueueCount' /\ Conservation' /\ QueueOrder' /\ Generations' /\ Failures'
  BY <1>1, DataFrame
<1>3. OneBarrier' /\ Marks'
  BY <1>1, BarrierFrame
<1>4. ControlOwner' /\ OpSteps'
  BY <1>inv DEF ControlOwner, OpSteps
<1>5. WriterLife' /\ Admission'
  BY <1>inv DEF WriterLife, Admission
<1>6. DrainedBehind'
  BY <1>inv, <1>1 DEF DrainedBehind
<1>7. Owed'
  BY <1>inv DEF Owed, Covered
<1> QED
  BY <1>2, <1>3, <1>4, <1>5, <1>6, <1>7 DEF IInv

\* Counting a refused submission keeps Impl::status well typed.
LEMMA StatusErrors ==
  ASSUME NEW s \in StatusType, NEW n \in Nat, NEW e \in Errors
  PROVE  /\ [s EXCEPT !.dropped = n, !.last_error = e] \in StatusType
         /\ [s EXCEPT !.dropped = n] \in StatusType
         /\ [s EXCEPT !.filtered = n] \in StatusType
BY DEF StatusType

\* Actions that touch neither the queue nor a control operation.
LEMMA IdleStepsInv ==
  ASSUME IInv,
         \/ \E p \in Producers : AppendRefused(p) \/ AppendThrows(p) \/ AppendHandler(p)
         \/ WriterSleep \/ WriterReenters \/ SpuriousWake
         \/ \E c \in Controllers : AwaitSleep(c)
  PROVE  IInv'
<1>1. TypeOK
  BY DEF IInv
<1>2. CASE \E p \in Producers : AppendRefused(p)
  <2>1. status \in StatusType /\ status.dropped + 1 \in Nat /\ status.filtered + 1 \in Nat
        /\ "tooLarge" \in Errors /\ "full" \in Errors
    BY <1>1, Types DEF TypeOK, Errors
  <2>2. \E n \in Nat, e \in Errors :
          \/ status' = [status EXCEPT !.filtered = n]
          \/ status' = [status EXCEPT !.dropped = n]
          \/ status' = [status EXCEPT !.dropped = n, !.last_error = e]
    BY <1>2, <2>1 DEF AppendRefused
  <2>3. status' \in StatusType
    BY <2>1, <2>2, StatusErrors, ZenonT(60)
  <2>4. UNCHANGED <<queue, ledger, asleep, ppc, settings, stopping, writerFailed, wpc, entry, control, call>>
    BY <1>2 DEF AppendRefused, runtimeVars, writerVars, controlVars
  <2>5. TypeOK'
    BY <1>1, <2>3, <2>4 DEF TypeOK
  <2>6. /\ status'.is_running = status.is_running
        /\ status'.is_accepting = status.is_accepting
        /\ status'.queued = status.queued
        /\ status'.accepted = status.accepted
        /\ status'.completed = status.completed
        /\ writerFailed => status'.last_error = status.last_error
    BY <1>2, <2>1 DEF AppendRefused, StatusType
  <2> QED
    BY <2>4, <2>5, <2>6, Bystander
<1>3. CASE \E p \in Producers : AppendThrows(p)
  <2>1. UNCHANGED <<queue, ledger, status, asleep, settings, stopping, writerFailed, wpc, entry, control, call>>
    BY <1>3 DEF AppendThrows, runtimeVars, writerVars, controlVars
  <2>2. TypeOK'
    BY <1>1, <1>3, <2>1 DEF TypeOK, AppendThrows
  <2> QED
    BY <2>1, <2>2, Bystander
<1>4. CASE WriterReenters \/ \E p \in Producers : AppendHandler(p)
  <2>1. Retained("alloc") \in Errors /\ Retained("reentrant") \in Errors
        /\ (writerFailed => Retained("alloc") = status.last_error
                              /\ Retained("reentrant") = status.last_error)
    BY <1>1, Types DEF Retained, Errors
  <2>2. status \in StatusType /\ status.dropped + 1 \in Nat
    BY <1>1, Types DEF TypeOK
  <2> HIDE DEF Retained
  <2>3. PICK e \in Errors : /\ status' = [status EXCEPT !.dropped = @ + 1, !.last_error = e]
                            /\ writerFailed => e = status.last_error
    BY <1>4, <2>1 DEF WriterReenters, AppendHandler
  <2>4. status' \in StatusType
    BY <2>2, <2>3, StatusErrors
  <2>5. /\ status'.is_running = status.is_running
        /\ status'.is_accepting = status.is_accepting
        /\ status'.queued = status.queued
        /\ status'.accepted = status.accepted
        /\ status'.completed = status.completed
        /\ writerFailed => status'.last_error = status.last_error
    BY <2>2, <2>3 DEF StatusType
  <2>6. UNCHANGED <<queue, ledger, asleep, settings, stopping, writerFailed, wpc, entry, control, call>>
        /\ ppc' \in [Producers -> {"idle", "handler"}]
    BY <1>1, <1>4 DEF TypeOK, AppendHandler, WriterReenters, runtimeVars, writerVars,
      controlVars
  <2>7. TypeOK'
    BY <1>1, <2>4, <2>6 DEF TypeOK
  <2> QED
    BY <2>5, <2>6, <2>7, Bystander
<1>5. CASE WriterSleep \/ SpuriousWake \/ \E c \in Controllers : AwaitSleep(c)
  <2>1. UNCHANGED <<queue, ledger, status, ppc, settings, stopping, writerFailed, wpc, entry, control, call>>
        /\ asleep' \subseteq Controllers \cup {Writer}
    BY <1>1, <1>5 DEF TypeOK, WriterSleep, SpuriousWake, AwaitSleep, runtimeVars, writerVars,
      controlVars
  <2>2. TypeOK'
    BY <1>1, <2>1 DEF TypeOK
  <2> QED
    BY <2>1, <2>2, Bystander
<1> QED
  BY <1>2, <1>3, <1>4, <1>5

\* configure() and Impl::barrier() put their barrier into the queue.
LEMMA EnqueueInv ==
  ASSUME IInv, NEW c \in Controllers, ConfigureEnter(c) \/ BarrierEnqueue(c)
  PROVE  IInv'
<1>1. TypeOK /\ OpSteps /\ Admission /\ WriterLife
  BY DEF IInv
<1>2. queue' = Append(queue, BarrierEntry(c)) /\ GoTo(c, "await")
  BY DEF ConfigureEnter, BarrierEnqueue, Enqueue
<1>3. queue' \in Seq(Entries)
  <2>1. BarrierEntry(c) \in Entries
    BY DEF BarrierEntry, Entries
  <2> QED
    BY <1>1, <1>2, <2>1 DEF TypeOK
<1>4. call' \in [Controllers -> CallType]
  BY <1>1, CallTyped DEF ConfigureEnter, BarrierEnqueue
<1>5. CASE ConfigureEnter(c)
  <2>1. /\ status'.queued = status.queued /\ status'.accepted = status.accepted
        /\ status'.completed = status.completed /\ status'.last_error = status.last_error
        /\ status'.is_running /\ ~status'.is_accepting
    BY <1>1, <1>5 DEF ConfigureEnter, TypeOK, StatusType
  <2>2. status' \in StatusType
    BY <1>1, <1>5 DEF ConfigureEnter, TypeOK, StatusType
  <2>3. /\ UNCHANGED <<settings, writerFailed, ledger, ppc, entry, control>>
        /\ asleep' = {} /\ stopping' \in BOOLEAN
        /\ stopping' => stopping /\ status.is_running
    BY <1>1, <1>5 DEF ConfigureEnter, Enqueue, NotifyAll
  <2>4. \/ status.is_running /\ wpc' = wpc
        \/ ~status.is_running /\ wpc' = "loop"
    BY <1>1, <1>5 DEF ConfigureEnter, TypeOK, StatusType
  <2>5. TypeOK'
    BY <1>1, <1>3, <1>4, <2>2, <2>3, <2>4 DEF TypeOK
  <2>6. At(c, "enter")
    BY <1>5 DEF ConfigureEnter
  <2> QED
    BY <1>2, <2>1, <2>3, <2>4, <2>5, <2>6, SendBarrierInv
<1>6. CASE BarrierEnqueue(c)
  <2>1. UNCHANGED <<status, ledger, ppc, settings, stopping, writerFailed, wpc, entry, control>>
        /\ asleep' = {} /\ status.is_running /\ At(c, "barrier")
    BY <1>6 DEF BarrierEnqueue, Enqueue, NotifyAll, runtimeVars, writerVars
  <2>2. TypeOK'
    BY <1>1, <1>3, <1>4, <2>1 DEF TypeOK
  <2>3. status.is_accepting => call[c].op = "flush"
    BY <1>1, <2>1 DEF Admission
  <2>4. ~stopping
    BY <2>1, QuietStop
  <2> QED
    BY <1>2, <2>1, <2>2, <2>3, <2>4, SendBarrierInv
<1> QED
  BY <1>5, <1>6

\* The end of Impl::barrier(), whichever way it comes.
LEMMA BarrierEndInv ==
  ASSUME IInv, NEW c \in Controllers,
         BarrierNotRunning(c) \/ BarrierThrows(c) \/ BarrierReturn(c)
  PROVE  IInv'
<1> USE DEF At
<1>1. TypeOK /\ OpSteps /\ Conservation /\ QueueCount /\ Failures /\ WriterLife /\ Owed
  BY DEF IInv
<1>2. CASE BarrierNotRunning(c)
  <2> DEFINE r == IF writerFailed THEN Outcome(status.last_error) ELSE "success"
  <2>1. r \in {"success", "failure"} /\ (r = "success" => ~writerFailed)
    BY <1>1 DEF Failures, Outcome
  <2>2. r = "success" => Covered(c)
    BY <1>2, <2>1, NotRunningCovers DEF BarrierNotRunning
  <2>3. BarrierEnd(c, r) /\ At(c, "barrier")
    BY <1>2 DEF BarrierNotRunning
  <2> HIDE DEF r, At
  <2> QED
    BY <2>1, <2>2, <2>3, EndInv
<1>3. CASE BarrierThrows(c)
  <2>1. At(c, "barrier") /\ BarrierEnd(c, "failure")
    BY <1>3 DEF BarrierThrows
  <2> HIDE DEF At
  <2> QED
    BY <2>1, EndInv
<1>4. CASE BarrierReturn(c)
  <2>1. At(c, "await") /\ call[c].done /\ BarrierEnd(c, Outcome(call[c].error))
    BY <1>4 DEF BarrierReturn, BarrierDone
  <2>2. Outcome(call[c].error) \in {"success", "failure"}
        /\ (Outcome(call[c].error) = "success" => call[c].error = "ok")
    BY DEF Outcome
  <2>3. Outcome(call[c].error) = "success" => Covered(c)
    BY <1>1, <2>1, <2>2 DEF Owed
  <2> HIDE DEF At
  <2> QED
    BY <2>1, <2>2, <2>3, EndInv
<1> QED
  BY <1>2, <1>3, <1>4

\* Counting a completed record keeps Impl::status well typed.
LEMMA StatusFinish ==
  ASSUME NEW s \in StatusType, NEW n \in Nat, NEW m \in Nat, NEW e \in Errors
  PROVE  [s EXCEPT !.completed = n, !.dropped = m, !.last_error = e] \in StatusType
BY DEF StatusType

\* Opening admission keeps Impl::status well typed.
LEMMA StatusOpen ==
  ASSUME NEW s \in StatusType, NEW e \in Errors, NEW b \in BOOLEAN
  PROVE  [s EXCEPT !.last_error = e, !.is_accepting = b] \in StatusType
BY DEF StatusType

\* Taking the head of a sequence.
LEMMA TailShift ==
  ASSUME NEW S, NEW s \in Seq(S), s # <<>>
  PROVE  /\ Tail(s) \in Seq(S) /\ Head(s) = s[1] /\ Head(s) \in S
         /\ Len(s) \in Nat /\ Len(s) >= 1 /\ Len(Tail(s)) = Len(s) - 1
         /\ \A i \in 1..Len(Tail(s)) : i + 1 \in 1..Len(s) /\ Tail(s)[i] = s[i + 1]
OBVIOUS

\* The commit of configure(): the runtime is drained when it happens.
LEMMA ConfigureCommitInv ==
  ASSUME IInv, NEW c \in Controllers, NEW capacity \in Capacities, ConfigureCommit(c, capacity)
  PROVE  IInv'
<1> USE DEF IsRecord, At, Busy, RecordInHand, BarrierInHand, Taken, InHand
<1>inv. TypeOK /\ ControlOwner /\ OpSteps /\ OneBarrier /\ QueueCount /\ Conservation
        /\ QueueOrder /\ Generations /\ Failures /\ WriterLife /\ Admission
        /\ DrainedBehind /\ Marks /\ Owed
  BY DEF IInv
<1>nat. /\ Len(queue) \in Nat /\ Len(ledger) \in Nat
        /\ status.queued \in Nat /\ status.accepted \in Nat /\ status.completed \in Nat
        /\ settings.gen \in Nat
  BY <1>inv, Types
<1>1. call[c].pc = "await" /\ call[c].done /\ call[c].op = "configure"
  BY DEF ConfigureCommit, BarrierDone
<1>2. queue = <<>> /\ ~Busy
  BY <1>inv, <1>1 DEF DrainedBehind
<1>3. status.queued = 0 /\ status.completed = Len(ledger) /\ status.accepted = Len(ledger)
  <2>1. status.queued = 0
    BY <1>inv, <1>nat, <1>2 DEF QueueCount
  <2> QED
    BY <1>inv, <1>nat, <1>2, <2>1 DEF Conservation
<1>4. /\ settings'.gen = settings.gen + 1 /\ settings'.capacity = capacity /\ settings'.held
      /\ settings' \in SettingsType
  BY <1>nat, CapacitiesAssumption DEF ConfigureCommit, SettingsType
<1>5. /\ status'.is_running = status.is_running /\ status'.is_accepting
      /\ status'.queued = status.queued /\ status'.accepted = status.accepted
      /\ status'.completed = status.completed
  BY <1>inv DEF ConfigureCommit, TypeOK, StatusType
<1>6. /\ \A d \in Controllers : d # c => call'[d] = call[d]
      /\ call'[c].pc = "idle" /\ call'[c].mark = 0 /\ control' = None
      /\ call' \in [Controllers -> CallType]
  BY <1>inv, Returned DEF ConfigureCommit
<1>7. /\ queue' = queue /\ ledger' = ledger /\ asleep' = asleep /\ ppc' = ppc
      /\ stopping' = stopping /\ wpc' = wpc /\ entry' = entry /\ writerFailed' = FALSE
  BY DEF ConfigureCommit, writerVars
<1>8. \A d \in Controllers : d # c => At(d, "idle") \/ At(d, "acquire")
  BY <1>inv, <1>1, ThreadsAssumption DEF ControlOwner
<1>9. \A d \in Controllers : At(d, "idle")' \/ At(d, "acquire")'
  BY <1>6, <1>8
<1>type. TypeOK'
  <2>1. "ok" \in Errors /\ status \in StatusType
    BY <1>inv DEF Errors, TypeOK
  <2>2. status' \in StatusType
    BY <2>1, StatusOpen DEF ConfigureCommit
  <2> QED
    BY <1>inv, <1>4, <1>6, <1>7, <2>2 DEF TypeOK
<1>ControlOwner. ControlOwner'
  BY <1>6, <1>9, ThreadsAssumption DEF ControlOwner
<1>OpSteps. OpSteps'
  BY <1>inv, <1>5, <1>6, <1>9, <1>nat DEF OpSteps
<1>OneBarrier. OneBarrier'
  BY <1>2, <1>7 DEF OneBarrier
<1>QueueCount. QueueCount'
  BY <1>2, <1>3, <1>4, <1>5, <1>7, CapacitiesAssumption DEF QueueCount
<1>Conservation. Conservation'
  BY <1>inv, <1>5, <1>7 DEF Conservation
<1>QueueOrder. QueueOrder'
  BY <1>2, <1>7 DEF QueueOrder
<1>Generations. Generations'
  <2>1. \A id \in 1..Len(ledger) : ledger[id].gen \in Nat /\ ledger[id].gen <= settings.gen
    BY <1>inv, Types DEF Generations
  <2> QED
    BY <2>1, <1>3, <1>4, <1>5, <1>7, <1>nat DEF Generations
<1>Failures. Failures'
  <2>1. \A id \in 1..Len(ledger) : ledger[id].gen # settings'.gen
    <3>1. \A id \in 1..Len(ledger) : ledger[id].gen \in Nat /\ ledger[id].gen <= settings.gen
      BY <1>inv, Types DEF Generations
    <3> QED
      BY <3>1, <1>4, <1>nat
  <2> QED
    BY <1>inv, <2>1, <1>2, <1>7 DEF Failures
<1>WriterLife. WriterLife'
  <2>1. status.is_running /\ \A d \in Controllers : ~At(d, "join") /\ ~At(d, "release")
    BY <1>inv, <1>1, <1>8 DEF WriterLife
  <2> QED
    BY <1>inv, <2>1, <1>5, <1>7, <1>9 DEF WriterLife
<1>Admission. Admission'
  <2>1. status.is_running
    BY <1>inv, <1>1 DEF WriterLife
  <2> QED
    BY <2>1, <1>5, <1>9 DEF Admission
<1>rest. DrainedBehind' /\ Marks' /\ Owed'
  BY <1>2, <1>7, <1>9 DEF DrainedBehind, Marks, Owed
<1> QED
  BY <1>type, <1>ControlOwner, <1>OpSteps, <1>OneBarrier, <1>QueueCount, <1>Conservation,
     <1>QueueOrder, <1>Generations, <1>Failures, <1>WriterLife, <1>Admission, <1>rest DEF IInv

\* The writer takes the head of the queue.
LEMMA WriterTakeInv ==
  ASSUME IInv, WriterTake
  PROVE  IInv'
<1> USE DEF IsRecord, At, Busy, RecordInHand, BarrierInHand
<1>inv. TypeOK /\ ControlOwner /\ OpSteps /\ OneBarrier /\ QueueCount /\ Conservation
        /\ QueueOrder /\ Generations /\ Failures /\ WriterLife /\ Admission
        /\ DrainedBehind /\ Marks /\ Owed
  BY DEF IInv
<1>nat. /\ Len(queue) \in Nat /\ Len(ledger) \in Nat
        /\ status.queued \in Nat /\ status.accepted \in Nat /\ status.completed \in Nat
        /\ settings.gen \in Nat
  BY <1>inv, Types
<1>1. wpc = "loop" /\ wpc' = "busy" /\ queue # <<>>
  BY DEF WriterTake, WriterAwake
<1>2. /\ queue' \in Seq(Entries) /\ Head(queue) = queue[1] /\ queue[1] \in Entries
      /\ 1 \in 1..Len(queue) /\ Len(queue') = Len(queue) - 1
      /\ \A i \in 1..Len(queue') : i + 1 \in 1..Len(queue) /\ queue'[i] = queue[i + 1]
  <2>1. queue \in Seq(Entries) /\ queue' = Tail(queue)
    BY <1>inv DEF TypeOK, WriterTake
  <2> QED
    BY <2>1, <1>1, TailShift
<1>3. /\ entry'.of = queue[1]
      /\ entry'.skip = (writerFailed /\ IsRecord(queue[1]))
      /\ entry' \in [of : Entries, skip : BOOLEAN]
  BY <1>inv, <1>2 DEF WriterTake, Skips, TypeOK
<1>4. /\ ledger' = ledger /\ asleep' = asleep /\ ppc' = ppc /\ settings' = settings
      /\ stopping' = stopping /\ writerFailed' = writerFailed /\ control' = control
      /\ call' = call
  BY DEF WriterTake, runtimeVars, controlVars
<1>5. /\ status'.is_running = status.is_running /\ status'.is_accepting = status.is_accepting
      /\ status'.accepted = status.accepted /\ status'.completed = status.completed
      /\ status'.last_error = status.last_error
      /\ status'.queued = IF IsRecord(queue[1]) THEN status.queued - 1 ELSE status.queued
  BY <1>inv, <1>2, <1>nat DEF WriterTake, QueuedShare, TypeOK, StatusType
<1>6. \A i \in 1..Len(queue) : ~IsRecord(queue[i]) => queue[i].barrier \in Controllers
  BY <1>inv, Types
<1>7. IsRecord(queue[1]) => status.queued >= 1
  <2>1. CASE \A i \in 1..Len(queue) : IsRecord(queue[i])
    BY <2>1, <1>inv, <1>2, <1>nat DEF QueueCount
  <2>2. CASE \E i \in 1..Len(queue) : ~IsRecord(queue[i])
    <3>1. PICK i \in 1..Len(queue) : ~IsRecord(queue[i])
      BY <2>2
    <3>2. Len(queue) = status.queued + 1
      BY <3>1, <1>inv DEF QueueCount
    <3>3. IsRecord(queue[1]) => Len(queue) # 1
      BY <3>1, <1>nat
    <3> QED
      BY <3>2, <3>3, <1>nat
  <2> QED
    BY <2>1, <2>2
<1>8. /\ Taken = status.completed /\ Taken \in Nat
      /\ IsRecord(queue[1]) => Taken' = Taken + 1
      /\ ~IsRecord(queue[1]) => Taken' = Taken
  BY <1>1, <1>3, <1>5, <1>nat DEF Taken, InHand
<1>9. /\ \A i \in 1..Len(queue') : i \in Nat
      /\ \A c \in Controllers : call[c].mark \in Nat
  BY <1>inv, <1>2, Types
<1>type. TypeOK'
  <2>1. status'.queued \in Nat
    BY <1>5, <1>7, <1>nat
  <2>2. status' = [status EXCEPT !.queued = status'.queued]
    BY <1>inv DEF WriterTake, TypeOK, StatusType
  <2>3. status' \in StatusType
    BY <1>inv, <2>1, <2>2 DEF TypeOK, StatusType
  <2> QED
    BY <1>inv, <1>1, <1>2, <1>3, <1>4, <2>3 DEF TypeOK
<1>ControlOwner. ControlOwner'
  BY <1>inv, <1>4 DEF ControlOwner
<1>OpSteps. OpSteps'
  BY <1>inv, <1>4, <1>5 DEF OpSteps
<1>OneBarrier. OneBarrier'
  <2>1. \A i \in 1..Len(queue') : ~IsRecord(queue'[i]) =>
          At(queue'[i].barrier, "await") /\ ~call[queue'[i].barrier].done
    BY <1>inv, <1>2 DEF OneBarrier
  <2>2. \A i, j \in 1..Len(queue') : ~IsRecord(queue'[i]) /\ ~IsRecord(queue'[j]) => i = j
    <3>1. ASSUME NEW i \in 1..Len(queue'), NEW j \in 1..Len(queue'),
                 ~IsRecord(queue'[i]), ~IsRecord(queue'[j])
          PROVE  i = j
      <4>1. i + 1 = j + 1
        BY <3>1, <1>inv, <1>2, ZenonT(60) DEF OneBarrier
      <4> QED
        BY <4>1
    <3> QED
      BY <3>1
  <2>3. ASSUME ~IsRecord(queue[1])
        PROVE  /\ At(queue[1].barrier, "await") /\ ~call[queue[1].barrier].done
               /\ \A i \in 1..Len(queue') : IsRecord(queue'[i])
    <3>1. \A i \in 1..Len(queue') : i + 1 # 1
      BY <1>2
    <3> QED
      BY <2>3, <3>1, <1>inv, <1>2 DEF OneBarrier
  <2> QED
    BY <2>1, <2>2, <2>3, <1>1, <1>3, <1>4 DEF OneBarrier
<1>QueueCount. QueueCount'
  <2>1. CASE IsRecord(queue[1])
    <3>1. ASSUME \A i \in 1..Len(queue') : IsRecord(queue'[i])
          PROVE  Len(queue') = status'.queued
      <4>1. \A i \in 1..Len(queue) : i = 1 \/ (i - 1 \in 1..Len(queue') /\ queue'[i - 1] = queue[i])
        BY <1>2, <1>nat
      <4>2. Len(queue) = status.queued
        BY <3>1, <4>1, <2>1, <1>inv DEF QueueCount
      <4> QED
        BY <4>2, <2>1, <1>2, <1>5, <1>nat
    <3>2. ASSUME NEW i \in 1..Len(queue'), ~IsRecord(queue'[i])
          PROVE  Len(queue') = status'.queued + 1
      <4>1. Len(queue) = status.queued + 1
        BY <3>2, <1>2, <1>inv DEF QueueCount
      <4> QED
        BY <4>1, <2>1, <1>2, <1>5, <1>nat
    <3>3. status'.queued <= settings'.capacity
      <4>1. status.queued <= settings.capacity /\ settings.capacity \in Nat
        BY <1>inv, Types DEF QueueCount
      <4> QED
        BY <4>1, <2>1, <1>4, <1>5, <1>nat
    <3> QED
      BY <3>1, <3>2, <3>3 DEF QueueCount
  <2>2. CASE ~IsRecord(queue[1])
    <3>1. Len(queue) = status.queued + 1 /\ status.queued <= settings.capacity
      BY <2>2, <1>inv, <1>2 DEF QueueCount
    <3>2. \A i \in 1..Len(queue') : i + 1 # 1
      BY <1>2
    <3>3. \A i \in 1..Len(queue') : IsRecord(queue'[i])
      BY <2>2, <3>2, <1>inv, <1>2 DEF OneBarrier
    <3>4. Len(queue') = status'.queued
      BY <3>1, <2>2, <1>2, <1>5, <1>nat
    <3> QED
      BY <3>1, <3>3, <3>4, <2>2, <1>4, <1>5 DEF QueueCount
  <2> QED
    BY <2>1, <2>2
<1>Conservation. Conservation'
  <2>1. InHand = 0 /\ InHand' = (IF IsRecord(queue[1]) THEN 1 ELSE 0)
    BY <1>1, <1>3 DEF InHand
  <2>2. status'.accepted = status'.completed + InHand' + status'.queued
    BY <2>1, <1>inv, <1>5, <1>nat DEF Conservation
  <2> QED
    BY <2>2, <1>inv, <1>4, <1>5 DEF Conservation
<1>QueueOrder. QueueOrder'
  <2>1. CASE IsRecord(queue[1])
    <3>1. ASSUME NEW i \in 1..Len(queue'), IsRecord(queue'[i]),
                 \A j \in 1..(i - 1) : IsRecord(queue'[j])
          PROVE  queue'[i].id = Taken' + i
      <4>1. ASSUME NEW j \in 1..i
            PROVE  \/ j = 1
                   \/ /\ j - 1 \in 1..(i - 1) /\ j - 1 \in 1..Len(queue')
                      /\ queue'[j - 1] = queue[j]
        <5>1. i \in Nat /\ i <= Len(queue') /\ Len(queue') \in Nat
          BY <1>2, <1>nat
        <5>2. j # 1 => j - 1 \in 1..(i - 1) /\ j - 1 \in 1..Len(queue') /\ (j - 1) + 1 = j
          BY <5>1
        <5> QED
          BY <5>2, <1>2
      <4>2. \A j \in 1..((i + 1) - 1) : IsRecord(queue[j])
        BY <3>1, <4>1, <2>1
      <4>3. queue[i + 1].id = Taken + (i + 1)
        BY <3>1, <4>2, <1>inv, <1>2 DEF QueueOrder
      <4>4. queue'[i].id = Taken + (i + 1) /\ Taken' = Taken + 1
        BY <3>1, <4>3, <2>1, <1>2, <1>8
      <4>5. Taken + (i + 1) = (Taken + 1) + i
        BY <1>8, <1>9
      <4> QED
        BY <4>4, <4>5
    <3>2. ASSUME NEW i \in 1..Len(queue'), NEW j \in 1..Len(queue'),
                 j < i, ~IsRecord(queue'[j]), IsRecord(queue'[i])
          PROVE  queue'[i].id = Taken' + i - 1
      <4>1. queue[i + 1].id = Taken + (i + 1) - 1
        BY <3>2, <1>inv, <1>2 DEF QueueOrder
      <4>2. queue'[i].id = Taken + (i + 1) - 1 /\ Taken' = Taken + 1
        BY <3>2, <4>1, <2>1, <1>2, <1>8
      <4>3. Taken + (i + 1) - 1 = (Taken + 1) + i - 1
        BY <1>8, <1>9
      <4> QED
        BY <4>2, <4>3
    <3>3. queue[1].id = status.completed + 1
      <4>1. \A j \in 1..(1 - 1) : IsRecord(queue[j])
        OBVIOUS
      <4>2. queue[1].id = Taken + 1
        BY <2>1, <4>1, <1>inv, <1>2 DEF QueueOrder
      <4> QED
        BY <4>2, <1>8
    <3> QED
      BY <3>1, <3>2, <3>3, <1>3, <1>5 DEF QueueOrder
  <2>2. CASE ~IsRecord(queue[1])
    <3>1. \A i \in 1..Len(queue') : i + 1 # 1 /\ 1 < i + 1
      BY <1>2
    <3>2. \A i \in 1..Len(queue') : IsRecord(queue'[i])
      BY <2>2, <3>1, <1>inv, <1>2 DEF OneBarrier
    <3>3. ASSUME NEW i \in 1..Len(queue')
          PROVE  queue'[i].id = Taken' + i
      <4>1. queue[i + 1].id = Taken + (i + 1) - 1
        BY <2>2, <3>1, <3>2, <1>inv, <1>2 DEF QueueOrder
      <4>2. queue'[i].id = Taken + (i + 1) - 1 /\ Taken' = Taken
        BY <4>1, <2>2, <1>2, <1>8
      <4>3. Taken + (i + 1) - 1 = Taken + i
        BY <1>8, <1>9
      <4> QED
        BY <4>2, <4>3
    <3> QED
      BY <2>2, <3>2, <3>3, <1>3 DEF QueueOrder
  <2> QED
    BY <2>1, <2>2
<1>Generations. Generations'
  BY <1>inv, <1>4, <1>5 DEF Generations
<1>Failures. Failures'
  BY <1>inv, <1>1, <1>3, <1>4, <1>5 DEF Failures
<1>WriterLife. WriterLife'
  BY <1>inv, <1>1, <1>4, <1>5 DEF WriterLife
<1>Admission. Admission'
  BY <1>inv, <1>4, <1>5 DEF Admission
<1>DrainedBehind. DrainedBehind'
  <2> SUFFICES ASSUME NEW c \in Controllers, At(c, "await"), call[c].op # "flush"
               PROVE  /\ \A i \in 1..Len(queue') : ~IsRecord(queue'[i]) => i = Len(queue')
                      /\ BarrierInHand' \/ call[c].done => queue' = <<>>
                      /\ ~call[c].done
                      /\ BarrierInHand' \/ (queue' # <<>> /\ ~IsRecord(queue'[Len(queue')]))
    BY <1>4 DEF DrainedBehind
  <2>1. ~call[c].done
    BY <1>inv, <1>1 DEF DrainedBehind
  <2>2. \A i \in 1..Len(queue) : ~IsRecord(queue[i]) => i = Len(queue)
    BY <1>inv DEF DrainedBehind
  <2>3. ~IsRecord(queue[Len(queue)])
    BY <1>inv, <1>1, <2>1 DEF DrainedBehind
  <2>4. \A i \in 1..Len(queue') : ~IsRecord(queue'[i]) => i = Len(queue')
    <3>1. ASSUME NEW i \in 1..Len(queue'), ~IsRecord(queue'[i]) PROVE i = Len(queue')
      <4>1. i + 1 = Len(queue)
        BY <3>1, <2>2, <1>2
      <4> QED
        BY <4>1, <1>2, <1>nat
    <3> QED
      BY <3>1
  <2>5. CASE ~IsRecord(queue[1])
    <3>1. Len(queue) = 1
      BY <2>2, <2>5, <1>2
    <3>2. queue' = <<>>
      BY <3>1, <1>2
    <3> QED
      BY <2>1, <2>4, <2>5, <3>2, <1>1, <1>3
  <2>6. CASE IsRecord(queue[1])
    <3>1. Len(queue) # 1
      BY <2>3, <2>6
    <3>2. Len(queue') \in 1..Len(queue') /\ Len(queue') + 1 = Len(queue)
      BY <3>1, <1>2, <1>nat
    <3>3. queue' # <<>> /\ ~IsRecord(queue'[Len(queue')])
      BY <3>2, <2>3, <1>2
    <3> QED
      BY <2>1, <2>4, <2>6, <3>3, <1>3
  <2> QED
    BY <2>5, <2>6
<1>Marks. Marks'
  <2>1. ASSUME NEW i \in 1..Len(queue'), ~IsRecord(queue'[i])
        PROVE  call[queue'[i].barrier].mark <= Taken' + i - 1
    <3>1. call[queue[i + 1].barrier].mark <= Taken + (i + 1) - 1
      BY <2>1, <1>inv, <1>2 DEF Marks
    <3>2. IsRecord(queue[1])
      <4>1. i + 1 # 1
        BY <1>2
      <4> QED
        BY <2>1, <4>1, <1>inv, <1>2 DEF OneBarrier
    <3>3. queue[i + 1].barrier \in Controllers /\ queue'[i] = queue[i + 1]
      BY <2>1, <1>2, <1>6
    <3>4. Taken + (i + 1) - 1 = Taken' + i - 1
      <4>1. Taken' = Taken + 1 /\ Taken \in Nat /\ i \in Nat
        BY <3>2, <1>8, <1>9
      <4> QED
        BY <4>1
    <3> QED
      BY <3>1, <3>3, <3>4
  <2>2. ASSUME ~IsRecord(queue[1])
        PROVE  call[queue[1].barrier].mark <= status.completed
    <3>1. call[queue[1].barrier].mark <= Taken + 1 - 1
      BY <2>2, <1>inv, <1>2 DEF Marks
    <3> QED
      BY <3>1, <1>8, <1>nat
  <2> QED
    BY <2>1, <2>2, <1>3, <1>4, <1>5 DEF Marks
<1>Owed. Owed'
  BY <1>inv, <1>4 DEF Owed, Covered
<1> QED
  BY <1>type, <1>ControlOwner, <1>OpSteps, <1>OneBarrier, <1>QueueCount, <1>Conservation,
     <1>QueueOrder, <1>Generations, <1>Failures, <1>WriterLife, <1>Admission,
     <1>DrainedBehind, <1>Marks, <1>Owed DEF IInv

\* The bookkeeping of a record in the writer's hand.
LEMMA FinishRecordInv ==
  ASSUME IInv, NEW failed \in BOOLEAN, WriterFinish(failed), FinishRecord(failed)
  PROVE  IInv'
<1> USE DEF IsRecord, At, Busy, RecordInHand, BarrierInHand
<1>inv. TypeOK /\ ControlOwner /\ OpSteps /\ OneBarrier /\ QueueCount /\ Conservation
        /\ QueueOrder /\ Generations /\ Failures /\ WriterLife /\ Admission
        /\ DrainedBehind /\ Marks /\ Owed
  BY DEF IInv
<1>nat. /\ Len(queue) \in Nat /\ Len(ledger) \in Nat
        /\ status.queued \in Nat /\ status.accepted \in Nat /\ status.completed \in Nat
        /\ settings.gen \in Nat
  BY <1>inv, Types
<1> DEFINE r == status.completed + 1
<1> DEFINE fate == IF entry.skip THEN "skipped" ELSE IF failed THEN "failed" ELSE "written"
<1>1. /\ wpc = "busy" /\ IsRecord(entry.of) /\ wpc' = "loop" /\ (entry.skip => ~failed)
      /\ entry.of.id = r
  BY <1>inv DEF WriterFinish, FinishRecord, QueueOrder
<1>2. /\ queue' = queue /\ settings' = settings /\ stopping' = stopping /\ entry' = entry
      /\ ppc' = ppc /\ control' = control /\ call' = call /\ asleep' = {}
      /\ writerFailed' = (writerFailed \/ failed)
  BY DEF WriterFinish, FinishRecord, NotifyAll
<1>3. /\ status'.is_running = status.is_running /\ status'.is_accepting = status.is_accepting
      /\ status'.accepted = status.accepted /\ status'.queued = status.queued
      /\ status'.completed = status.completed + 1
      /\ status'.last_error = IF failed THEN "writer" ELSE status.last_error
  BY <1>inv DEF FinishRecord, TypeOK, StatusType
<1>4. (entry.skip => writerFailed) /\ (writerFailed => entry.skip)
  <2>1. entry.skip = (writerFailed /\ IsRecord(entry.of))
    BY <1>inv, <1>1 DEF Failures
  <2> QED
    BY <2>1, <1>1
<1>5. /\ InHand = 1 /\ InHand' = 0 /\ Taken = r /\ Taken' = r
  BY <1>1, <1>3, <1>nat DEF InHand, Taken
<1>6. status.accepted = status.completed + 1 + status.queued /\ Len(ledger) = status.accepted
  BY <1>inv, <1>5 DEF Conservation
<1>7. r \in 1..Len(ledger)
  BY <1>6, <1>nat, SMTT(30)
<1>8. /\ Len(ledger') = Len(ledger) /\ ledger' \in Seq(LedgerType)
      /\ ledger'[r].fate = fate /\ ledger'[r].gen = ledger[r].gen
      /\ \A i \in 1..Len(ledger) : i # r => ledger'[i] = ledger[i]
  <2>1. ledger \in Seq(LedgerType) /\ ledger[r] \in LedgerType
    BY <1>inv, <1>7 DEF TypeOK
  <2>2. ledger' = [ledger EXCEPT ![r] = [ledger[r] EXCEPT !.fate = fate]]
    BY <1>1, <1>7 DEF FinishRecord
  <2>3. /\ [ledger[r] EXCEPT !.fate = fate] \in LedgerType
        /\ [ledger[r] EXCEPT !.fate = fate].fate = fate
        /\ [ledger[r] EXCEPT !.fate = fate].gen = ledger[r].gen
    BY <2>1 DEF LedgerType, Fates
  <2> HIDE DEF fate, r
  <2> QED
    BY <1>7, <2>1, <2>2, <2>3
<1>9. /\ \A i \in 1..Len(ledger) : i \in Nat /\ ledger'[i].gen = ledger[i].gen
      /\ \A i \in 1..Len(ledger) : ledger[i].fate # "pending" => ledger'[i] = ledger[i]
  <2>1. \A i \in 1..Len(ledger) : ledger[i].fate # "pending" => i # r
    BY <1>inv, <1>nat DEF Conservation
  <2> HIDE DEF r
  <2> QED
    BY <2>1, <1>8, <1>nat
<1>type. TypeOK'
  <2>1. /\ status \in StatusType /\ status.completed + 1 \in Nat
        /\ status.dropped \in Nat /\ status.dropped + 1 \in Nat
        /\ "writer" \in Errors /\ status.last_error \in Errors
    BY <1>inv, <1>nat, Types DEF TypeOK, Errors
  <2>2. \E n \in Nat, e \in Errors :
          status' = [status EXCEPT !.completed = status.completed + 1, !.dropped = n,
                                   !.last_error = e]
    BY <2>1 DEF FinishRecord
  <2>3. status' \in StatusType
    <3>1. PICK n \in Nat, e \in Errors :
            status' = [status EXCEPT !.completed = status.completed + 1, !.dropped = n,
                                     !.last_error = e]
      BY <2>2
    <3> QED
      BY <2>1, <3>1, StatusFinish
  <2> QED
    BY <1>inv, <1>1, <1>2, <1>8, <2>3 DEF TypeOK
<1> HIDE DEF r, fate
<1>OpSteps. ControlOwner' /\ OpSteps'
  BY <1>inv, <1>2, <1>3 DEF ControlOwner, OpSteps
<1>OneBarrier. OneBarrier'
  BY <1>inv, <1>1, <1>2 DEF OneBarrier
<1>QueueCount. QueueCount'
  BY <1>inv, <1>2, <1>3 DEF QueueCount
<1>Conservation. Conservation'
  <2>1. status'.accepted = status'.completed + InHand' + status'.queued
    BY <1>3, <1>5, <1>6, <1>nat
  <2>2. \A i \in 1..Len(ledger) : i <= status'.completed <=> i <= status.completed \/ i = r
    BY <1>3, <1>nat DEF r
  <2>3. \A i \in 1..Len(ledger) : ledger[i].fate # "pending" <=> i <= status.completed
    BY <1>inv DEF Conservation
  <2>4. fate # "pending"
    BY DEF fate
  <2>5. \A i \in 1..Len(ledger) : ledger'[i].fate # "pending" <=> i <= status'.completed
    BY <2>2, <2>3, <2>4, <1>8
  <2> QED
    BY <2>1, <2>5, <1>3, <1>6, <1>8 DEF Conservation
<1>QueueOrder. QueueOrder'
  BY <1>inv, <1>1, <1>2, <1>5 DEF QueueOrder
<1>Generations. Generations'
  <2>1. \A i \in 1..Len(ledger) : i > status'.completed => i > status.completed
    BY <1>3, <1>nat
  <2> QED
    BY <2>1, <1>inv, <1>2, <1>3, <1>8, <1>9 DEF Generations
<1>Failures. Failures'
  <2>1. ledger[r].gen = settings.gen
    <3>1. r > status.completed
      BY <1>nat DEF r
    <3> QED
      BY <3>1, <1>inv, <1>7 DEF Generations
  <2>2. writerFailed' => status'.last_error = "writer"
    BY <1>inv, <1>2, <1>3 DEF Failures
  <2>3. ASSUME NEW i \in 1..Len(ledger'), ledger'[i].gen = settings'.gen,
               ledger'[i].fate \in {"failed", "skipped"}
        PROVE  writerFailed'
    <3>1. CASE i = r
      BY <2>3, <3>1, <1>2, <1>4, <1>8 DEF fate
    <3>2. CASE i # r
      BY <2>3, <3>2, <1>inv, <1>2, <1>8 DEF Failures
    <3> QED
      BY <3>1, <3>2
  <2>4. ASSUME NEW i \in 1..Len(ledger'), NEW j \in 1..Len(ledger'), i < j,
               ledger'[i].gen = ledger'[j].gen, ledger'[i].fate \in {"failed", "skipped"}
        PROVE  ledger'[j].fate # "written"
    <3>1. CASE i = r
      <4>1. j # r /\ ~(j <= status.completed)
        BY <2>4, <3>1, <1>8, <1>nat DEF r
      <4>2. ledger[j].fate = "pending"
        BY <4>1, <1>inv, <1>8 DEF Conservation
      <4> QED
        BY <4>1, <4>2, <1>8
    <3>2. CASE j = r /\ i # r
      <4>1. ledger[i].gen = settings.gen /\ ledger[i].fate \in {"failed", "skipped"}
        BY <2>1, <2>4, <3>2, <1>8
      <4>2. writerFailed
        BY <4>1, <1>inv, <1>8 DEF Failures
      <4> QED
        BY <4>2, <3>2, <1>4, <1>8 DEF fate
    <3>3. CASE i # r /\ j # r
      BY <2>4, <3>3, <1>inv, <1>8 DEF Failures
    <3> QED
      BY <3>1, <3>2, <3>3
  <2> QED
    BY <2>2, <2>3, <2>4, <1>1 DEF Failures
<1>WriterLife. WriterLife' /\ Admission'
  BY <1>inv, <1>1, <1>2, <1>3 DEF WriterLife, Admission
<1>DrainedBehind. DrainedBehind'
  BY <1>inv, <1>1, <1>2 DEF DrainedBehind
<1>Marks. Marks'
  BY <1>inv, <1>1, <1>2, <1>5 DEF Marks
<1>Owed. Owed'
  <2>1. ASSUME NEW c \in Controllers, Covered(c)
        PROVE  Covered(c)'
    <3>1. call[c].mark <= status.accepted /\ call[c].mark \in Nat
      BY <1>inv, Types DEF OpSteps
    <3>2. \A i \in 1..call[c].mark : i \in 1..Len(ledger)
      BY <3>1, <1>6, <1>nat
    <3> QED
      BY <2>1, <3>2, <1>2, <1>9 DEF Covered
  <2> QED
    BY <2>1, <1>inv, <1>2 DEF Owed
<1> QED
  BY <1>type, <1>OpSteps, <1>OneBarrier, <1>QueueCount, <1>Conservation,
     <1>QueueOrder, <1>Generations, <1>Failures, <1>WriterLife,
     <1>DrainedBehind, <1>Marks, <1>Owed DEF IInv

\* The writer completes the barrier in its hand.
LEMMA FinishBarrierInv ==
  ASSUME IInv, NEW failed \in BOOLEAN, WriterFinish(failed), FinishBarrier(failed)
  PROVE  IInv'
<1> USE DEF IsRecord, At, Busy, RecordInHand, BarrierInHand
<1>inv. TypeOK /\ ControlOwner /\ OpSteps /\ OneBarrier /\ QueueCount /\ Conservation
        /\ QueueOrder /\ Generations /\ Failures /\ WriterLife /\ Admission
        /\ DrainedBehind /\ Marks /\ Owed
  BY DEF IInv
<1>nat. /\ Len(queue) \in Nat /\ Len(ledger) \in Nat
        /\ status.queued \in Nat /\ status.accepted \in Nat /\ status.completed \in Nat
        /\ settings.gen \in Nat
  BY <1>inv, Types
<1>1. PICK b \in Controllers :
        /\ b = entry.of.barrier
        /\ wpc = "busy" /\ ~IsRecord(entry.of) /\ wpc' = "loop"
        /\ call[b].pc = "await" /\ ~call[b].done
        /\ \A i \in 1..Len(queue) : IsRecord(queue[i])
  BY <1>inv, Types DEF WriterFinish, FinishBarrier, OneBarrier
<1>2. /\ queue' = queue /\ settings' = settings /\ stopping' = stopping /\ entry' = entry
      /\ ppc' = ppc /\ control' = control /\ ledger' = ledger /\ asleep' = {}
      /\ writerFailed' = (writerFailed \/ failed)
  BY DEF WriterFinish, FinishBarrier, NotifyAll
<1>3. /\ status'.is_running = status.is_running /\ status'.is_accepting = status.is_accepting
      /\ status'.accepted = status.accepted /\ status'.queued = status.queued
      /\ status'.completed = status.completed
      /\ status'.last_error = (IF failed THEN "writer" ELSE status.last_error)
      /\ status' \in StatusType
  BY <1>inv DEF FinishBarrier, TypeOK, StatusType, Errors
<1>4. /\ BarrierError(failed) \in Errors
      /\ BarrierError(failed) = "ok" => ~failed /\ ~writerFailed
  BY <1>inv, Types DEF BarrierError, Errors, Failures
<1>5. /\ \A c \in Controllers : c # b => call'[c] = call[c]
      /\ call'[b].pc = "await" /\ call'[b].done /\ call'[b].error = BarrierError(failed)
      /\ call'[b].op = call[b].op /\ call'[b].result = call[b].result
      /\ call'[b].mark = call[b].mark
      /\ call' \in [Controllers -> CallType]
  <2> DEFINE k == [call[b] EXCEPT !.done = TRUE, !.error = BarrierError(failed)]
  <2>1. call \in [Controllers -> CallType] /\ call[b] \in CallType
    BY <1>inv, <1>1 DEF TypeOK
  <2>2. call' = [call EXCEPT ![b] = k]
    BY <1>1 DEF FinishBarrier
  <2>3. /\ k \in CallType /\ k.done /\ k.error = BarrierError(failed)
        /\ k.pc = call[b].pc /\ k.op = call[b].op /\ k.result = call[b].result
        /\ k.mark = call[b].mark
    BY <2>1, <1>4 DEF CallType
  <2> HIDE DEF k
  <2> QED
    BY <1>1, <2>1, <2>2, <2>3
<1>6. InHand = 0 /\ InHand' = 0 /\ Taken' = Taken
  BY <1>1, <1>3 DEF InHand, Taken
<1>7. \A c \in Controllers : call[c].pc = "await" => c = b
  BY <1>inv, <1>1 DEF ControlOwner
<1>type. TypeOK'
  BY <1>inv, <1>1, <1>2, <1>3, <1>5 DEF TypeOK
<1>ControlOwner. ControlOwner'
  BY <1>inv, <1>1, <1>2, <1>5 DEF ControlOwner
<1>OpSteps. OpSteps'
  BY <1>inv, <1>1, <1>3, <1>5 DEF OpSteps
<1>OneBarrier. OneBarrier'
  BY <1>1, <1>2 DEF OneBarrier
<1>QueueCount. QueueCount'
  BY <1>inv, <1>2, <1>3 DEF QueueCount
<1>Conservation. Conservation'
  BY <1>inv, <1>2, <1>3, <1>6 DEF Conservation
<1>QueueOrder. QueueOrder'
  BY <1>inv, <1>1, <1>2, <1>6 DEF QueueOrder
<1>Generations. Generations'
  BY <1>inv, <1>2, <1>3 DEF Generations
<1>Failures. Failures'
  BY <1>inv, <1>1, <1>2, <1>3, ZenonT(60) DEF Failures
<1>WriterLife. WriterLife'
  BY <1>inv, <1>1, <1>2, <1>3, <1>5 DEF WriterLife
<1>Admission. Admission'
  BY <1>inv, <1>1, <1>3, <1>5 DEF Admission
<1>DrainedBehind. DrainedBehind'
  <2>1. call[b].op # "flush" => queue = <<>>
    BY <1>inv, <1>1 DEF DrainedBehind
  <2>2. \A c \in Controllers : call'[c].pc = "await" => c = b
    BY <1>5, <1>7
  <2> QED
    BY <2>1, <2>2, <1>1, <1>2, <1>5 DEF DrainedBehind
<1>Marks. Marks'
  BY <1>1, <1>2 DEF Marks
<1>Owed. Owed'
  <2>1. ASSUME ~failed, ~writerFailed
        PROVE  Covered(b)'
    <3>1. call[b].mark <= status.completed /\ call[b].mark \in Nat
      BY <1>inv, <1>1, Types DEF Marks
    <3>2. status.completed <= Len(ledger)
      BY <1>inv, <1>6, <1>nat DEF Conservation
    <3>3. \A i \in 1..call[b].mark : i \in 1..Len(ledger) /\ i <= status.completed
      BY <3>1, <3>2, <1>nat
    <3>4. \A i \in 1..Len(ledger) : ledger[i].fate \in Fates
      <4>1. \A i \in 1..Len(ledger) : ledger[i] \in LedgerType
        BY <1>inv DEF TypeOK
      <4> QED
        BY <4>1 DEF LedgerType
    <3>5. \A i \in 1..call[b].mark : ledger[i].fate # "pending"
      BY <3>3, <1>inv DEF Conservation
    <3>6. \A i \in 1..call[b].mark :
            ledger[i].gen = settings.gen => ledger[i].fate \notin {"failed", "skipped"}
      BY <2>1, <3>3, <1>inv DEF Failures
    <3>7. \A i \in 1..call[b].mark :
            ledger[i].gen = settings.gen => ledger[i].fate = "written"
      BY <3>3, <3>4, <3>5, <3>6 DEF Fates
    <3> QED
      BY <3>5, <3>7, <1>2, <1>5 DEF Covered
  <2>2. \A c \in Controllers : c # b /\ Covered(c) => Covered(c)'
    BY <1>2, <1>5 DEF Covered
  <2>3. ASSUME NEW c \in Controllers, call'[c].pc = "await", call'[c].done,
               call'[c].error = "ok"
        PROVE  Covered(c)'
    BY <2>1, <2>3, <1>4, <1>5, <1>7
  <2>4. ASSUME NEW c \in Controllers, call'[c].pc \in {"halt", "join", "release"},
               call'[c].result = "success"
        PROVE  Covered(c)'
    <3>1. c # b
      BY <2>4, <1>5
    <3> QED
      BY <2>2, <2>4, <3>1, <1>inv, <1>5 DEF Owed
  <2> QED
    BY <2>3, <2>4 DEF Owed
<1> QED
  BY <1>type, <1>ControlOwner, <1>OpSteps, <1>OneBarrier, <1>QueueCount, <1>Conservation,
     <1>QueueOrder, <1>Generations, <1>Failures, <1>WriterLife, <1>Admission,
     <1>DrainedBehind, <1>Marks, <1>Owed DEF IInv

\* The constructed runtime satisfies the inductive invariant.
LEMMA InitInv == Init => IInv
<1> SUFFICES ASSUME Init PROVE IInv
  OBVIOUS
<1> USE DEF IsRecord, At, Busy, RecordInHand, BarrierInHand, Taken, InHand
<1>1. /\ queue = <<>> /\ ledger = <<>> /\ wpc = "none" /\ control = None /\ ~stopping
      /\ ~writerFailed /\ ~status.is_running /\ ~status.is_accepting
      /\ status.queued = 0 /\ status.accepted = 0 /\ status.completed = 0
      /\ settings.gen = 0 /\ settings.capacity = 1 /\ ~settings.held
      /\ \A c \in Controllers : call[c] = Idle("none")
  BY DEF Init
<1>2. Len(queue) = 0 /\ Len(ledger) = 0
  BY <1>1
<1>3. \A c \in Controllers : call[c].pc = "idle" /\ call[c].mark = 0
  BY <1>1 DEF Idle
<1>type. TypeOK
  <2>1. settings \in SettingsType /\ status \in StatusType
    BY DEF Init, SettingsType, StatusType, Errors
  <2>2. Idle("none") \in CallType
    BY DEF Idle, CallType, Operations, Errors
  <2>3. call \in [Controllers -> CallType]
    BY <2>2 DEF Init
  <2>4. entry \in [of : Entries, skip : BOOLEAN]
    BY DEF Init, RecordEntry, Entries
  <2>5. queue \in Seq(Entries) /\ ledger \in Seq(LedgerType)
    BY <1>1
  <2>6. stopping = FALSE /\ writerFailed = FALSE
    BY DEF Init
  <2>7. ppc \in [Producers -> {"idle", "handler"}] /\ asleep = {}
    BY DEF Init
  <2> QED
    BY <1>1, <2>1, <2>3, <2>4, <2>5, <2>7, <2>6 DEF TypeOK
<1>4. ControlOwner /\ OpSteps /\ WriterLife /\ Admission /\ DrainedBehind
  BY <1>1, <1>3, ThreadsAssumption
     DEF ControlOwner, OpSteps, WriterLife, Admission, DrainedBehind
<1>5. OneBarrier /\ QueueCount /\ Conservation /\ QueueOrder
  BY <1>1, <1>2 DEF OneBarrier, QueueCount, Conservation, QueueOrder
<1>6. Generations /\ Failures /\ Marks /\ Owed
  BY <1>1, <1>2, <1>3 DEF Generations, Failures, Marks, Owed
<1> QED
  BY <1>type, <1>4, <1>5, <1>6 DEF IInv

\* Every step of every thread keeps the inductive invariant.
LEMMA NextInv ==
  ASSUME IInv, [Next]_vars
  PROVE  IInv'
<1>1. CASE \E p \in Producers : TryAppend(p)
  BY <1>1, AppendAcceptedInv, IdleStepsInv DEF TryAppend
<1>2. CASE WriterStep
  <2>1. CASE WriterSleep
    BY <2>1, IdleStepsInv
  <2>2. CASE WriterExit
    BY <2>2, WriterExitInv
  <2>3. CASE WriterTake
    BY <2>3, WriterTakeInv
  <2>4. CASE \E failed \in BOOLEAN : WriterFinish(failed)
    <3>1. PICK failed \in BOOLEAN : WriterFinish(failed)
      BY <2>4
    <3>2. FinishRecord(failed) \/ FinishBarrier(failed)
      BY <3>1 DEF WriterFinish
    <3> QED
      BY <3>1, <3>2, FinishRecordInv, FinishBarrierInv
  <2> QED
    BY <1>2, <2>1, <2>2, <2>3, <2>4 DEF WriterStep
<1>3. CASE WriterReenters \/ SpuriousWake
  BY <1>3, IdleStepsInv
<1>4. ASSUME NEW c \in Controllers, \E o \in Operations : Call(c, o)
      PROVE  IInv'
  BY <1>4, CallInv
<1>5. ASSUME NEW c \in Controllers, Acquire(c)
      PROVE  IInv'
  BY <1>5, AcquireInv
<1>6. ASSUME NEW c \in Controllers, ControlStep(c)
      PROVE  IInv'
  <2>1. CASE ConfigureEnter(c) \/ BarrierEnqueue(c)
    BY <2>1, EnqueueInv
  <2>2. CASE ConfigureFails(c)
    BY <2>2, ConfigureFailsInv
  <2>3. CASE \E capacity \in Capacities : ConfigureCommit(c, capacity)
    BY <2>3, ConfigureCommitInv
  <2>4. CASE AwaitSleep(c)
    BY <2>4, IdleStepsInv
  <2>5. CASE BarrierNotRunning(c) \/ BarrierThrows(c) \/ BarrierReturn(c)
    BY <2>5, BarrierEndInv
  <2>6. CASE StopClose(c)
    BY <2>6, StopCloseInv
  <2>7. CASE StopHalt(c)
    BY <2>7, StopHaltInv
  <2>8. CASE StopJoin(c)
    BY <2>8, StopJoinInv
  <2>9. CASE StopRelease(c)
    BY <2>9, StopReleaseInv
  <2> QED
    BY <1>6, <2>1, <2>2, <2>3, <2>4, <2>5, <2>6, <2>7, <2>8, <2>9 DEF ControlStep
<1>7. CASE UNCHANGED vars
  <2>1. UNCHANGED <<queue, status, ledger, asleep, ppc, settings, stopping, writerFailed,
                    wpc, entry, control, call>>
    BY <1>7 DEF vars, runtimeVars, writerVars, controlVars
  <2>2. TypeOK'
    BY <2>1 DEF IInv, TypeOK
  <2> QED
    BY <2>1, <2>2, Bystander
<1> QED
  BY <1>1, <1>2, <1>3, <1>4, <1>5, <1>6, <1>7 DEF Next

\* The inductive invariant holds in every reachable state, for any number of
\* producers and control threads, any capacities and any number of submissions.
THEOREM Invariance == Spec => []IInv
<1>1. Init => IInv
  BY InitInv
<1>2. IInv /\ [Next]_vars => IInv'
  BY NextInv
<1> QED
  BY <1>1, <1>2, PTL DEF Spec

\* Every variable keeps its type; status.queued never goes below zero, although
\* the writer decrements an unsigned counter (AsyncLogRuntime.cpp:256).
THEOREM TypeCorrect == Spec => []TypeOK
<1>1. IInv => TypeOK
  BY DEF IInv
<1> QED
  BY <1>1, Invariance, PTL

\* No accepted record is lost, duplicated or overtaken: each one is completed, in
\* the writer's hand or queued, and the completed ones are the oldest.
THEOREM Conserved == Spec => []Conservation
<1>1. IInv => Conservation
  BY DEF IInv
<1> QED
  BY <1>1, Invariance, PTL

\* The configured capacity bounds the waiting records, also right after a
\* configure() that shrank it, and the queue holds at most one entry more.
THEOREM Bounded == Spec => []QueueBounded
<1>1. ASSUME IInv PROVE QueueBounded
  <2>1. QueueCount /\ OneBarrier /\ status.queued \in Nat /\ Len(queue) \in Nat
    BY <1>1, Types DEF IInv
  <2>2. CASE Barriers = {}
    <3>1. Cardinality(Barriers) = 0
      BY <2>2, FS_EmptySet
    <3>2. \A i \in 1..Len(queue) : IsRecord(queue[i])
      BY <2>2 DEF Barriers
    <3> QED
      BY <2>1, <3>1, <3>2 DEF QueueBounded, QueueCount
  <2>3. CASE Barriers # {}
    <3>1. PICK i \in 1..Len(queue) : ~IsRecord(queue[i])
      BY <2>3 DEF Barriers
    <3>2. Barriers = {i}
      BY <2>1, <3>1 DEF Barriers, OneBarrier
    <3>3. Cardinality(Barriers) = 1
      BY <3>2, FS_Singleton
    <3> QED
      BY <2>1, <3>1, <3>3 DEF QueueBounded, QueueCount
  <2> QED
    BY <2>2, <2>3
<1> QED
  BY <1>1, Invariance, PTL

\* The writer, which reads the settings outside Impl::mutex, only ever writes a
\* record under the settings that accepted it, with their captures still held.
THEOREM Isolated == Spec => []SettingsIsolated
<1>1. ASSUME IInv PROVE SettingsIsolated
  <2> SUFFICES ASSUME wpc = "busy", IsRecord(entry.of)
               PROVE  settings.held /\ ledger[entry.of.id].gen = settings.gen
    BY DEF SettingsIsolated
  <2>1. entry.of.id = status.completed + 1 /\ InHand = 1
    BY <1>1 DEF IInv, QueueOrder, RecordInHand, Busy, InHand
  <2>2. status.completed + 1 <= Len(ledger) /\ status.completed \in Nat /\ Len(ledger) \in Nat
    BY <1>1, <2>1, Types DEF IInv, Conservation
  <2>3. entry.of.id \in 1..Len(ledger) /\ entry.of.id > status.completed
    BY <2>1, <2>2
  <2> QED
    BY <1>1, <2>3 DEF IInv, Generations
<1> QED
  BY <1>1, Invariance, PTL

\* A runtime that is not running has no writer, no queued entry, no unsettled
\* record and holds no capture.
THEOREM Quiet == Spec => []QuietWhenStopped
<1>1. ASSUME IInv PROVE QuietWhenStopped
  <2> SUFFICES ASSUME ~status.is_running
               PROVE  /\ wpc = "none" /\ queue = <<>> /\ ~settings.held
                      /\ \A id \in 1..Len(ledger) : ledger[id].fate # "pending"
    BY DEF QuietWhenStopped
  <2>1. wpc = "none" /\ queue = <<>>
    BY <1>1 DEF IInv, WriterLife
  <2>2. status.queued = 0 /\ InHand = 0
    BY <1>1, <2>1, Types DEF IInv, QueueCount, InHand
  <2>3. status.completed = Len(ledger)
    BY <1>1, <2>2, Types DEF IInv, Conservation
  <2>4. ~settings.held
    BY <1>1 DEF IInv, WriterLife
  <2>5. \A id \in 1..Len(ledger) : ledger[id].fate # "pending"
    BY <1>1, <2>3, Types DEF IInv, Conservation
  <2> QED
    BY <2>1, <2>4, <2>5
<1> QED
  BY <1>1, Invariance, PTL

\* A writer failure stays in last_error until the next configure(), and nothing is
\* written after it in the same generation.
THEOREM Retains == Spec => []FailureRetained
<1>1. IInv => FailureRetained
  BY DEF IInv, Failures, FailureRetained
<1> QED
  BY <1>1, Invariance, PTL

\* No step replaces or strips the settings while the writer is at work without
\* the mutex.
THEOREM NoSwap == Spec => NoSwapDuringWrite
<1>1. ASSUME IInv, [Next]_vars
      PROVE  [settings' # settings => wpc # "busy"]_vars
  <2>1. CASE settings' = settings
    BY <2>1
  <2>2. ASSUME NEW c \in Controllers, NEW capacity \in Capacities, ConfigureCommit(c, capacity)
        PROVE  wpc # "busy"
    BY <1>1, <2>2 DEF IInv, DrainedBehind, ConfigureCommit, BarrierDone, At, Busy
  <2>3. ASSUME NEW c \in Controllers, StopRelease(c)
        PROVE  wpc # "busy"
    BY <1>1, <2>3 DEF IInv, WriterLife, StopRelease
  <2>4. CASE settings' # settings
    <3>1. \E c \in Controllers :
            StopRelease(c) \/ \E capacity \in Capacities : ConfigureCommit(c, capacity)
      BY <1>1, <2>4 DEF Next, vars, runtimeVars, TryAppend, AppendRefused, AppendAccepted,
        AppendThrows, AppendHandler, WriterStep, WriterSleep, WriterExit, WriterTake,
        WriterFinish, WriterReenters, SpuriousWake, Call, Acquire, ControlStep,
        ConfigureEnter, ConfigureFails, AwaitSleep, BarrierEnqueue, BarrierNotRunning,
        BarrierThrows, BarrierReturn, BarrierEnd, StopClose, StopHalt, StopJoin
    <3> QED
      BY <2>2, <2>3, <3>1
  <2> QED
    BY <2>1, <2>4
<1> QED
  BY <1>1, Invariance, PTL DEF Spec, NoSwapDuringWrite

\* A control operation other than configure() that returns a success has covered
\* every record accepted before it was called: stop() and flush() at the end of
\* their barrier, or at once when there is no writer.
LEMMA Returns ==
  ASSUME IInv, [Next]_vars, NEW c \in Controllers,
         ~At(c, "idle"), call'[c].pc = "idle", call'[c].result = "success"
  PROVE  call[c].op # "configure" => Covered(c)
<1> USE DEF At
<1>inv. TypeOK /\ ControlOwner /\ OpSteps /\ OneBarrier /\ Conservation /\ QueueCount
        /\ Failures /\ WriterLife /\ Owed
  BY DEF IInv
<1>1. call'[c] # call[c]
  OBVIOUS
<1>2. CASE UNCHANGED call
  BY <1>1, <1>2
<1>3. CASE \E failed \in BOOLEAN : WriterFinish(failed)
  <2>1. PICK failed \in BOOLEAN : WriterFinish(failed)
    BY <1>3
  <2>2. CASE UNCHANGED call
    BY <1>1, <2>2
  <2>3. CASE FinishBarrier(failed)
    <3>1. wpc = "busy" /\ entry.of.barrier \in Controllers /\ call[entry.of.barrier].pc = "await"
      BY <1>inv, <2>1, <2>3, Types
         DEF WriterFinish, FinishBarrier, OneBarrier, BarrierInHand, Busy
    <3>2. \A d \in Controllers : call'[d].pc = call[d].pc
      BY <1>inv, <2>3, <3>1 DEF FinishBarrier, TypeOK, CallType
    <3> QED
      BY <3>2
  <2> QED
    BY <2>1, <2>2, <2>3 DEF WriterFinish, FinishRecord
<1>4. ASSUME NEW d \in Controllers, Acquire(d) \/ \E o \in Operations : Call(d, o)
      PROVE  FALSE
  <2>1. \A x \in Controllers : x # d => call'[x] = call[x]
    BY <1>inv, <1>4 DEF Acquire, Call, GoTo, TypeOK
  <2>2. CASE \E o \in Operations : Call(d, o)
    BY <1>inv, <2>1, <2>2 DEF Call, TypeOK
  <2>3. CASE Acquire(d)
    <3> DEFINE x == CASE call[d].op = "configure" -> "enter"
                      [] call[d].op = "flush"     -> "barrier"
                      [] call[d].op = "stop"      -> "close"
    <3>1. call[d].op \in Operations
      BY <1>inv DEF TypeOK, CallType
    <3>2. x # "idle" /\ GoTo(d, x)
      BY <2>3, <3>1 DEF Acquire, Operations
    <3> HIDE DEF x
    <3>3. call'[d].pc = x
      BY <1>inv, <3>2, CallSteps
    <3> QED
      BY <2>1, <3>2, <3>3
  <2> QED
    BY <1>4, <2>2, <2>3
<1>5. ASSUME NEW d \in Controllers, NEW x \in {"await", "barrier", "join", "release"}, GoTo(d, x)
      PROVE  FALSE
  <2>1. \A e \in Controllers : e # d => call'[e] = call[e]
    BY <1>inv, <1>5, CallSteps
  <2>2. call'[d].pc = x
    BY <1>inv, <1>5, CallSteps
  <2> QED
    BY <2>1, <2>2
<1>6. ASSUME NEW d \in Controllers, NEW r \in {"none", "success", "failure"}, Return(d, r)
      PROVE  d = c /\ r = "success"
  BY <1>inv, <1>1, <1>6, Returned
<1>7. ASSUME NEW d \in Controllers, NEW r \in {"success", "failure"}, BarrierEnd(d, r)
      PROVE  d = c /\ call[d].op = "flush" /\ r = "success"
  <2>1. CASE call[d].op = "flush" /\ Return(d, r)
    BY <1>6, <2>1
  <2>2. CASE call' = [call EXCEPT ![d] = [call[d] EXCEPT !.pc = "halt", !.result = r]]
    <3>1. call'[d].pc = "halt" /\ \A e \in Controllers : e # d => call'[e] = call[e]
      BY <1>inv, <2>2 DEF TypeOK, CallType
    <3> QED
      BY <3>1
  <2> QED
    BY <1>7, <2>1, <2>2 DEF BarrierEnd
<1>8. ASSUME NEW d \in Controllers, ControlStep(d)
      PROVE  call[c].op # "configure" => Covered(c)
  <2>1. CASE \/ ConfigureEnter(d) \/ BarrierEnqueue(d)
             \/ StopClose(d) \/ StopHalt(d) \/ StopJoin(d)
    BY <1>5, <2>1 DEF ConfigureEnter, BarrierEnqueue, StopClose, StopHalt, StopJoin
  <2>2. CASE ConfigureFails(d)
    BY <1>6, <2>2 DEF ConfigureFails
  <2>3. CASE \E capacity \in Capacities : ConfigureCommit(d, capacity)
    BY <1>6, <2>3 DEF ConfigureCommit
  <2>4. CASE AwaitSleep(d)
    BY <1>1, <2>4 DEF AwaitSleep, controlVars
  <2>5. CASE BarrierNotRunning(d)
    BY <1>inv, <1>7, <2>5, Types, NotRunningCovers DEF BarrierNotRunning, Outcome, Failures
  <2>6. CASE BarrierThrows(d)
    BY <1>7, <2>6 DEF BarrierThrows
  <2>7. CASE BarrierReturn(d)
    <3>1. BarrierEnd(d, Outcome(call[d].error)) /\ call[d].pc = "await" /\ call[d].done
      BY <2>7 DEF BarrierReturn, BarrierDone
    <3>2. d = c /\ Outcome(call[d].error) = "success"
      BY <1>7, <3>1 DEF Outcome
    <3> QED
      BY <1>inv, <3>1, <3>2 DEF Owed, Outcome
  <2>8. CASE StopRelease(d)
    <3>1. Return(d, call[d].result) /\ call[d].pc = "release"
      BY <2>8 DEF StopRelease
    <3>2. call[d].result \in {"none", "success", "failure"}
      BY <1>inv DEF TypeOK, CallType
    <3>3. d = c /\ call[d].result = "success"
      BY <1>6, <3>1, <3>2
    <3> QED
      BY <1>inv, <3>1, <3>3 DEF Owed
  <2> QED
    BY <1>8, <2>1, <2>2, <2>3, <2>4, <2>5, <2>6, <2>7, <2>8 DEF ControlStep
<1>9. CASE \/ \E p \in Producers : TryAppend(p)
           \/ WriterSleep \/ WriterExit \/ WriterTake \/ WriterReenters \/ SpuriousWake
           \/ UNCHANGED vars
  BY <1>2, <1>9 DEF TryAppend, AppendRefused, AppendAccepted, AppendThrows, AppendHandler,
    WriterSleep, WriterExit, WriterTake, WriterReenters, SpuriousWake, vars, controlVars
<1> QED
  BY <1>3, <1>4, <1>8, <1>9 DEF Next, WriterStep

\* flush() and stop() report success only when every record accepted before the
\* call is settled, and those of the current configuration written.
THEOREM SuccessReports == Spec => SuccessCovers
<1>1. ASSUME IInv, [Next]_vars
      PROVE  [\A c \in Controllers :
                ~At(c, "idle") /\ call'[c].pc = "idle" /\ call'[c].result = "success"
                  /\ call[c].op # "configure"
                  => Covered(c)]_vars
  BY <1>1, Returns
<1> QED
  BY <1>1, Invariance, PTL DEF Spec, SuccessCovers

\* Every step of the runtime is a step of the channel or leaves it alone.
LEMMA ChannelStep ==
  ASSUME IInv, [Next]_vars
  PROVE  [Chan!ChannelNext]_<<ledger, settings.gen, status.is_accepting, writerFailed>>
<1> USE DEF IsRecord, At
<1> DEFINE shown == <<ledger, settings.gen, status.is_accepting, writerFailed>>
<1>inv. TypeOK /\ ControlOwner /\ OpSteps /\ Conservation /\ QueueCount /\ QueueOrder
        /\ Generations /\ Failures /\ WriterLife /\ Admission /\ DrainedBehind
  BY DEF IInv
<1>nat. /\ Len(ledger) \in Nat /\ status.completed \in Nat /\ status.queued \in Nat
        /\ settings.gen \in Nat
  BY <1>inv, Types
<1>settled. /\ \A i \in 1..Len(ledger) : ledger[i].fate = "pending" <=> status.completed < i
            /\ Len(ledger) = status.completed + InHand + status.queued
  BY <1>inv, <1>nat DEF Conservation
<1>1. ASSUME NEW p \in Producers, AppendAccepted(p)
      PROVE  Chan!Accept
  BY <1>inv, <1>1 DEF AppendAccepted, Submitting, Chan!Accept, runtimeVars, TypeOK, StatusType
<1>2. ASSUME NEW failed \in BOOLEAN, WriterFinish(failed), FinishRecord(failed)
      PROVE  Chan!Settle
  <2> DEFINE r == status.completed + 1
  <2> DEFINE fate == IF entry.skip THEN "skipped" ELSE IF failed THEN "failed" ELSE "written"
  <2>1. /\ entry.of.id = r /\ InHand = 1 /\ (entry.skip => ~failed)
        /\ writerFailed' = (writerFailed \/ failed)
        /\ ledger' = [ledger EXCEPT ![r].fate = fate]
    BY <1>inv, <1>2 DEF WriterFinish, FinishRecord, QueueOrder, RecordInHand, Busy, InHand
  <2>2. (entry.skip => writerFailed) /\ (writerFailed => entry.skip)
    <3>1. wpc = "busy" /\ entry.of.barrier = None
      BY <1>2 DEF WriterFinish, FinishRecord
    <3>2. entry.skip = (writerFailed /\ entry.of.barrier = None)
      BY <1>inv, <3>1 DEF Failures, Busy
    <3> QED
      BY <3>1, <3>2
  <2>3. settings'.gen = settings.gen /\ status'.is_accepting = status.is_accepting
    BY <1>inv, <1>2 DEF WriterFinish, FinishRecord, TypeOK, StatusType
  <2>4. r \in 1..Len(ledger) /\ status.completed < r
    BY <2>1, <1>nat, <1>settled
  <2>5. r \in Chan!Unsettled /\ \A j \in Chan!Unsettled : r <= j
    BY <2>4, <1>nat, <1>settled DEF Chan!Unsettled
  <2>6. ledger[r].gen = settings.gen
    BY <2>4, <1>inv, <1>nat DEF Generations
  <2>7. \/ writerFailed /\ fate = "skipped" /\ writerFailed' = writerFailed
        \/ ~writerFailed /\ fate = "written" /\ writerFailed' = writerFailed
        \/ ~writerFailed /\ fate = "failed" /\ writerFailed' = TRUE
    <3>1. CASE writerFailed
      BY <2>1, <2>2, <3>1
    <3>2. CASE ~writerFailed
      <4>1. ~entry.skip
        BY <2>2, <3>2
      <4>2. CASE failed
        BY <2>1, <3>2, <4>1, <4>2
      <4>3. CASE ~failed
        <5>1. writerFailed' = writerFailed
          BY <2>1, <3>2, <4>3, <1>inv DEF TypeOK
        <5> QED
          BY <5>1, <3>2, <4>1, <4>3
      <4> QED
        BY <4>2, <4>3
    <3> QED
      BY <3>1, <3>2
  <2> HIDE DEF r, fate
  <2>8. \/ writerFailed /\ ledger' = [ledger EXCEPT ![r].fate = "skipped"] /\ writerFailed' = writerFailed
        \/ ~writerFailed /\ ledger' = [ledger EXCEPT ![r].fate = "written"] /\ writerFailed' = writerFailed
        \/ ~writerFailed /\ ledger' = [ledger EXCEPT ![r].fate = "failed"] /\ writerFailed' = TRUE
    BY <2>1, <2>7
  <2> QED
    BY <2>3, <2>5, <2>6, <2>8 DEF Chan!Settle
<1>3. ASSUME NEW failed \in BOOLEAN, WriterFinish(failed), FinishBarrier(failed)
      PROVE  Chan!FlushFails \/ UNCHANGED shown
  <2>1. /\ writerFailed' = (writerFailed \/ failed) /\ ledger' = ledger
        /\ settings'.gen = settings.gen /\ status'.is_accepting = status.is_accepting
        /\ writerFailed \in BOOLEAN
    BY <1>inv, <1>3 DEF WriterFinish, FinishBarrier, TypeOK, StatusType
  <2>2. CASE failed /\ ~writerFailed
    BY <2>1, <2>2 DEF Chan!FlushFails
  <2>3. CASE ~(failed /\ ~writerFailed)
    <3>1. writerFailed' = writerFailed
      BY <2>1, <2>3
    <3> QED
      BY <2>1, <3>1
  <2> QED
    BY <2>2, <2>3
<1>4. ASSUME NEW c \in Controllers, ConfigureEnter(c) \/ StopClose(c)
      PROVE  Chan!Close
  BY <1>inv, <1>4 DEF ConfigureEnter, StopClose, Chan!Close, runtimeVars, TypeOK, StatusType
<1>5. ASSUME NEW c \in Controllers, NEW capacity \in Capacities, ConfigureCommit(c, capacity)
      PROVE  Chan!Reopen
  <2>1. call[c].pc = "await" /\ call[c].done /\ call[c].op = "configure"
    BY <1>5 DEF ConfigureCommit, BarrierDone
  <2>2. ~status.is_accepting /\ queue = <<>> /\ InHand = 0
    BY <2>1, <1>inv DEF Admission, DrainedBehind, InHand, Busy
  <2>3. status.queued = 0
    BY <2>2, <1>inv, <1>nat DEF QueueCount
  <2>4. Chan!Unsettled = {}
    BY <2>2, <2>3, <1>nat, <1>settled DEF Chan!Unsettled
  <2>5. settings'.gen = settings.gen + 1 /\ status'.is_accepting = TRUE /\ writerFailed' = FALSE
        /\ ledger' = ledger
    BY <1>inv, <1>5 DEF ConfigureCommit, TypeOK, StatusType
  <2> QED
    BY <2>2, <2>4, <2>5 DEF Chan!Reopen
<1>6. ASSUME NEW c \in Controllers, StopRelease(c)
      PROVE  UNCHANGED shown
  BY <1>inv, <1>6 DEF StopRelease, TypeOK, StatusType, SettingsType
<1>7. ASSUME \/ \E p \in Producers : AppendRefused(p) \/ AppendThrows(p) \/ AppendHandler(p)
             \/ WriterSleep \/ WriterExit \/ WriterTake \/ WriterReenters \/ SpuriousWake
      PROVE  UNCHANGED shown
  BY <1>inv, <1>7 DEF AppendRefused, AppendThrows, AppendHandler, WriterSleep, WriterExit,
    WriterTake, WriterReenters, SpuriousWake, runtimeVars, TypeOK, StatusType
<1>8. ASSUME NEW c \in Controllers,
             \/ \E o \in Operations : Call(c, o)
             \/ Acquire(c) \/ ConfigureFails(c) \/ AwaitSleep(c) \/ BarrierEnqueue(c)
             \/ BarrierNotRunning(c) \/ BarrierThrows(c) \/ BarrierReturn(c)
             \/ StopHalt(c) \/ StopJoin(c)
      PROVE  UNCHANGED shown
  BY <1>8 DEF Call, Acquire, ConfigureFails, AwaitSleep, BarrierEnqueue, BarrierNotRunning,
    BarrierThrows, BarrierReturn, BarrierEnd, StopHalt, StopJoin, runtimeVars
<1>9. CASE UNCHANGED vars
  BY <1>9 DEF vars, runtimeVars
<1>10. CASE \E c \in Controllers : ControlStep(c)
  BY <1>4, <1>5, <1>6, <1>8, <1>10 DEF ControlStep, Chan!ChannelNext
<1>11. CASE WriterStep
  <2>1. ASSUME NEW failed \in BOOLEAN, WriterFinish(failed)
        PROVE  FinishRecord(failed) \/ FinishBarrier(failed)
    BY <2>1 DEF WriterFinish
  <2> QED
    BY <1>2, <1>3, <1>7, <1>11, <2>1 DEF WriterStep, Chan!ChannelNext
<1>12. CASE \E p \in Producers : TryAppend(p)
  BY <1>1, <1>7, <1>12 DEF TryAppend, Chan!ChannelNext
<1> QED
  BY <1>7, <1>8, <1>9, <1>10, <1>11, <1>12 DEF Next

\* The runtime implements the abstract channel.
THEOREM Refinement == Spec => ImplementsChannel
<1>1. Init => Chan!ChannelInit
  BY DEF Init, Chan!ChannelInit
<1>2. IInv /\ [Next]_vars => [Chan!ChannelNext]_(Chan!channelVars)
  BY ChannelStep DEF Chan!channelVars
<1> QED
  BY <1>1, <1>2, Invariance, PTL DEF Spec, ImplementsChannel, Chan!Channel
=============================================================================
