---------------------------- MODULE LogRegistry ----------------------------
(***************************************************************************)
(* The synchronous log (core/wse/utility/wse_Log.cpp): writeLog() and the  *)
(* Logger stream deliver a record on the thread that writes it, to the     *)
(* output and to a snapshot of the registered sinks.  A sink may write,    *)
(* register, unregister itself and others, and throw.                      *)
(*                                                                         *)
(* The application gives its reference to a sink away when it registers    *)
(* it, and a sink's destructor does not log: it may run under              *)
(* g_state_mutex.  Each critical section of that mutex is one step.        *)
(***************************************************************************)
EXTENDS Naturals, Sequences

CONSTANTS Writers, Sinks

VARIABLES
  log_sinks,    \* g_log_sinks
  past,         \* the sinks that have been registered
  destroyed,
  enabled,      \* g_minimum_log_level lets records through
  dispatching,  \* g_is_dispatching_sink of each thread
  writes        \* the dispatchLogRecord() calls of each thread, the innermost last

log == <<log_sinks, past, destroyed, enabled, dispatching, writes>>

LogInit ==
  /\ log_sinks = {} /\ past = {} /\ destroyed = {} /\ enabled = TRUE
  /\ dispatching = [t \in Writers |-> FALSE]
  /\ writes = [t \in Writers |-> <<>>]

Innermost(t) == writes[t][Len(writes[t])]
At(t, step) == writes[t] # <<>> /\ Innermost(t).at = step
Outer(t)    == SubSeq(writes[t], 1, Len(writes[t]) - 1)
GoesOn(t, write) == writes' = [writes EXCEPT ![t] = Append(Outer(t), write)]

\* The shared_ptrs to a sink: the registry's and those of the snapshots.
Referenced(s, registry, ws) == s \in registry \/ \E t \in Writers : \E i \in DOMAIN ws[t] : s \in ws[t][i].sinks
Released(registry, ws) == destroyed \cup {s \in past : ~Referenced(s, registry, ws)}

\* dispatchLogRecord() returns, or an exception passes through it.
Leave(t) ==
  /\ writes' = [writes EXCEPT ![t] = Outer(t)]
  /\ destroyed' = Released(log_sinks, writes')

-----------------------------------------------------------------------------
(***************************************************************************)
(* Calls of the application, also in onLog().                              *)
(***************************************************************************)
MayCall(t) == writes[t] = <<>> \/ At(t, "call")

RegisterLogSink(t, s) ==
  /\ MayCall(t) /\ s \notin past
  /\ log_sinks' = log_sinks \cup {s} /\ past' = past \cup {s}
  /\ UNCHANGED <<destroyed, enabled, dispatching, writes>>

UnregisterLogSink(t, s) ==
  /\ MayCall(t) /\ s \in log_sinks
  /\ log_sinks' = log_sinks \ {s}
  /\ destroyed' = Released(log_sinks', writes)
  /\ UNCHANGED <<past, enabled, dispatching, writes>>

SetMinimumLogLevel(t) ==
  /\ MayCall(t) /\ enabled' = ~enabled
  /\ UNCHANGED <<log_sinks, past, destroyed, dispatching, writes>>

\* sinks is the snapshot, called the sinks it was delivered to.
WriteLog(t) ==
  /\ MayCall(t)
  /\ writes' = [writes EXCEPT ![t] = Append(@, [at |-> "filter", sinks |-> {}, called |-> {}])]
  /\ UNCHANGED <<log_sinks, past, destroyed, enabled, dispatching>>

-----------------------------------------------------------------------------
(***************************************************************************)
(* dispatchLogRecord().                                                    *)
(***************************************************************************)
Filter(t) ==
  /\ At(t, "filter")
  /\ IF enabled
     THEN GoesOn(t, [Innermost(t) EXCEPT !.at = "output", !.sinks = log_sinks]) /\ UNCHANGED destroyed
     ELSE Leave(t)
  /\ UNCHANGED <<log_sinks, past, enabled, dispatching>>

\* The snapshot cannot be allocated, or the output throws.
Throw(t) ==
  /\ At(t, "filter") \/ At(t, "output")
  /\ Leave(t)
  /\ UNCHANGED <<log_sinks, past, enabled, dispatching>>

\* The guard is constructed before the flag is looked at.
LeaveNested_GuardFirst(t) == Leave(t) /\ dispatching' = [dispatching EXCEPT ![t] = FALSE]
LeaveNested(t) == Leave(t) /\ UNCHANGED dispatching

\* The output is written, and SinkDispatchGuard constructed unless the thread
\* is in a sink already.
Output(t) ==
  /\ At(t, "output")
  /\ IF dispatching[t]
     THEN LeaveNested(t)
     ELSE /\ GoesOn(t, [Innermost(t) EXCEPT !.at = "deliver"])
          /\ dispatching' = [dispatching EXCEPT ![t] = TRUE]
          /\ UNCHANGED destroyed
  /\ UNCHANGED <<log_sinks, past, enabled>>

CallSink(t) ==
  /\ At(t, "deliver")
  /\ \E s \in Innermost(t).sinks \ Innermost(t).called :
       GoesOn(t, [Innermost(t) EXCEPT !.at = "call", !.called = @ \cup {s}])
  /\ UNCHANGED <<log_sinks, past, destroyed, enabled, dispatching>>

\* onLog() returns, or throws what the loop catches.
SinkEnds(t) ==
  /\ At(t, "call")
  /\ GoesOn(t, [Innermost(t) EXCEPT !.at = "deliver"])
  /\ UNCHANGED <<log_sinks, past, destroyed, enabled, dispatching>>

EndDispatch(t) ==
  /\ At(t, "deliver") /\ Innermost(t).called = Innermost(t).sinks
  /\ dispatching' = [dispatching EXCEPT ![t] = FALSE]
  /\ Leave(t)
  /\ UNCHANGED <<log_sinks, past, enabled>>

WriteStep(t) == Filter(t) \/ Throw(t) \/ Output(t) \/ CallSink(t) \/ EndDispatch(t)

LogNext == \E t \in Writers :
  \/ \E s \in Sinks : RegisterLogSink(t, s) \/ UnregisterLogSink(t, s)
  \/ SetMinimumLogLevel(t) \/ WriteLog(t) \/ SinkEnds(t) \/ WriteStep(t)

LogSpec == LogInit /\ [][LogNext]_log

-----------------------------------------------------------------------------
Dispatches == [at: {"filter", "output", "deliver", "call"}, sinks: SUBSET Sinks, called: SUBSET Sinks]

\* Type invariant.
LogTypeOK ==
  /\ log_sinks \subseteq past /\ past \subseteq Sinks /\ destroyed \subseteq past
  /\ enabled \in BOOLEAN /\ dispatching \in [Writers -> BOOLEAN]
  /\ writes \in [Writers -> Seq(Dispatches)]
  /\ \A t \in Writers : Len(writes[t]) <= 2

\* A sink in a call of onLog() has not been destroyed, whoever unregistered it
\* meanwhile, itself included: the snapshot refers to it until its dispatch ends.
\* One that nobody refers to has been destroyed.
SinksOutliveCalls ==
  /\ \A t \in Writers : \A i \in DOMAIN writes[t] : writes[t][i].called \cap destroyed = {}
  /\ \A s \in past \ destroyed : Referenced(s, log_sinks, writes)

\* A thread is in one onLog() at most, however often that writes and whatever its
\* writes throw; and a thread that is in none is not taken for one that is, which
\* would keep its records from every sink from then on.
NotReentered == \A t \in Writers :
  /\ \A i, j \in DOMAIN writes[t] : writes[t][i].at = "call" /\ writes[t][j].at \in {"deliver", "call"} => i = j
  /\ dispatching[t] <=> \E i \in DOMAIN writes[t] : writes[t][i].at \in {"deliver", "call"}

=============================================================================
