------------------------- MODULE LogRegistry_proofs -------------------------
(***************************************************************************)
(* What LogRegistry promises, for any threads and sinks.                   *)
(*                                                                         *)
(* NotReentered is not inductive: that a nested write calls no sink needs  *)
(* that it stands before its dispatch, on top of the one call of onLog()   *)
(* its thread is in (Nesting), and that the flag says so (Flagged).        *)
(***************************************************************************)
EXTENDS LogRegistry, SequenceTheorems, TLAPS

\* A write at the bottom is anywhere, a nested one has not come to its dispatch.
Nesting == \A t \in Writers : Len(writes[t]) = 2 =>
  writes[t][1].at = "call" /\ writes[t][2].at \in {"filter", "output"}

Flagged == \A t \in Writers :
  dispatching[t] <=> Len(writes[t]) > 0 /\ writes[t][1].at \in {"deliver", "call"}

\* Whom the registry or a snapshot refers to is there; a snapshot is taken once.
Referents ==
  /\ log_sinks \cap destroyed = {}
  /\ \A t \in Writers : \A i \in 1..Len(writes[t]) :
       /\ writes[t][i].called \subseteq writes[t][i].sinks /\ writes[t][i].sinks \cap destroyed = {}
       /\ writes[t][i].at = "filter" => writes[t][i].sinks = {}
  /\ \A s \in past \ destroyed : Referenced(s, log_sinks, writes)

IInv == LogTypeOK /\ Nesting /\ Flagged /\ Referents

-----------------------------------------------------------------------------
(***************************************************************************)
(* The calls of a thread when one of them ends, goes on or begins.         *)
(***************************************************************************)
\* What the first n of some calls are.
LEMMA Front ==
  ASSUME NEW w \in Seq(Dispatches), NEW n \in Nat, n < Len(w)
  PROVE  /\ SubSeq(w, 1, n) \in Seq(Dispatches) /\ Len(SubSeq(w, 1, n)) = n
         /\ \A i \in 1..n : SubSeq(w, 1, n)[i] = w[i]
<1>1. 1 \in Int /\ n \in Int /\ \A i \in 1..n : w[i] \in Dispatches
  OBVIOUS
<1>2. /\ SubSeq(w, 1, n) \in Seq(Dispatches)
      /\ Len(SubSeq(w, 1, n)) = IF 1 <= n THEN n - 1 + 1 ELSE 0
      /\ \A i \in 1..(n - 1 + 1) : SubSeq(w, 1, n)[i] = w[1 + i - 1]
  BY <1>1, SubSeqProperties
<1>3. Len(SubSeq(w, 1, n)) = n
  BY <1>2
<1>4. ASSUME NEW i \in 1..n PROVE SubSeq(w, 1, n)[i] = w[i]
  <2>1. i \in 1..(n - 1 + 1) /\ 1 + i - 1 = i
    OBVIOUS
  <2> QED BY <1>2, <2>1
<1> QED BY <1>2, <1>3, <1>4

\* The innermost call ends.
LEMMA Popped ==
  ASSUME NEW w \in Seq(Dispatches), w # <<>>
  PROVE  /\ SubSeq(w, 1, Len(w) - 1) \in Seq(Dispatches)
         /\ Len(SubSeq(w, 1, Len(w) - 1)) = Len(w) - 1
         /\ \A i \in 1..Len(w) - 1 : SubSeq(w, 1, Len(w) - 1)[i] = w[i]
<1>1. Len(w) - 1 \in Nat /\ Len(w) - 1 < Len(w)
  OBVIOUS
<1> QED BY <1>1, Front

\* One more begins.
LEMMA Pushed ==
  ASSUME NEW w \in Seq(Dispatches), NEW d \in Dispatches
  PROVE  /\ Append(w, d) \in Seq(Dispatches) /\ Len(Append(w, d)) = Len(w) + 1
         /\ \A i \in 1..Len(w) : Append(w, d)[i] = w[i]
         /\ Append(w, d)[Len(w) + 1] = d
OBVIOUS

\* What Leave does to the calls of all threads.
LEMMA Leaves ==
  ASSUME LogTypeOK, NEW t \in Writers, writes[t] # <<>>, Leave(t)
  PROVE  /\ writes' \in [Writers -> Seq(Dispatches)]
         /\ \A u \in Writers \ {t} : writes'[u] = writes[u]
         /\ Len(writes'[t]) = Len(writes[t]) - 1
         /\ \A i \in 1..Len(writes'[t]) : writes'[t][i] = writes[t][i]
<1>1. writes' = [writes EXCEPT ![t] = Outer(t)] /\ writes \in [Writers -> Seq(Dispatches)]
  BY DEF Leave, LogTypeOK
<1>2. Outer(t) \in Seq(Dispatches) /\ Len(Outer(t)) = Len(writes[t]) - 1
      /\ \A i \in 1..Len(Outer(t)) : Outer(t)[i] = writes[t][i]
  BY <1>1, Popped DEF Outer
<1> QED BY <1>1, <1>2

\* What GoesOn does to them.
LEMMA Continues ==
  ASSUME LogTypeOK, NEW t \in Writers, writes[t] # <<>>, NEW d \in Dispatches, GoesOn(t, d)
  PROVE  /\ writes' \in [Writers -> Seq(Dispatches)]
         /\ \A u \in Writers \ {t} : writes'[u] = writes[u]
         /\ Len(writes'[t]) = Len(writes[t]) /\ Len(writes[t]) \in Nat \ {0}
         /\ writes'[t][Len(writes[t])] = d
         /\ \A i \in 1..Len(writes[t]) : i # Len(writes[t]) => writes'[t][i] = writes[t][i]
<1>1. writes' = [writes EXCEPT ![t] = Append(Outer(t), d)] /\ writes \in [Writers -> Seq(Dispatches)]
  BY DEF GoesOn, LogTypeOK
<1>2. Outer(t) \in Seq(Dispatches) /\ Len(Outer(t)) = Len(writes[t]) - 1 /\ Len(writes[t]) \in Nat \ {0}
      /\ \A i \in 1..Len(Outer(t)) : Outer(t)[i] = writes[t][i]
  BY <1>1, Popped DEF Outer
<1>3. /\ Append(Outer(t), d) \in Seq(Dispatches) /\ Len(Append(Outer(t), d)) = Len(writes[t])
      /\ Append(Outer(t), d)[Len(writes[t])] = d
      /\ \A i \in 1..Len(writes[t]) : i # Len(writes[t]) => Append(Outer(t), d)[i] = writes[t][i]
  BY <1>2, Pushed
<1> QED BY <1>1, <1>2, <1>3

\* There are one or two, of which Innermost is the last.
LEMMA Inner ==
  ASSUME LogTypeOK, NEW t \in Writers, writes[t] # <<>>
  PROVE  /\ Len(writes[t]) \in {1, 2} /\ Innermost(t) = writes[t][Len(writes[t])]
         /\ Innermost(t) \in Dispatches
<1>1. writes[t] \in Seq(Dispatches) /\ Len(writes[t]) <= 2
  BY DEF LogTypeOK
<1>2. Len(writes[t]) \in Nat /\ Len(writes[t]) # 0
  BY <1>1
<1>. \A n \in Nat : n # 0 /\ n <= 2 => n \in {1, 2}
  OBVIOUS
<1>3. Len(writes[t]) \in {1, 2}
  BY <1>1, <1>2
<1>4. writes[t][Len(writes[t])] \in Dispatches
  BY <1>1, <1>2
<1> QED BY <1>3, <1>4 DEF Innermost

-----------------------------------------------------------------------------
(***************************************************************************)
(* Each action preserves the invariant.                                    *)
(***************************************************************************)
\* A dispatch that ends gives up its snapshot, and what nobody refers to any more.
LEMMA LeaveKeeps ==
  ASSUME IInv, NEW t \in Writers, writes[t] # <<>>, Leave(t),
         UNCHANGED <<log_sinks, past, enabled>>, dispatching' \in [Writers -> BOOLEAN]
  PROVE  LogTypeOK' /\ Nesting' /\ Referents'
<1> USE DEF IInv
<1>1. /\ writes' \in [Writers -> Seq(Dispatches)]
      /\ \A u \in Writers \ {t} : writes'[u] = writes[u]
      /\ Len(writes'[t]) = Len(writes[t]) - 1
      /\ \A i \in 1..Len(writes'[t]) : writes'[t][i] = writes[t][i]
  BY Leaves
<1>2. Len(writes[t]) \in {1, 2}
  BY Inner
<1>3. destroyed' = destroyed \cup {s \in past : ~Referenced(s, log_sinks', writes')}
  BY DEF Leave, Released
<1>4. \A u \in Writers : \A i \in 1..Len(writes'[u]) :
        i \in 1..Len(writes[u]) /\ writes'[u][i] = writes[u][i] /\ i \in DOMAIN writes'[u]
  <2> SUFFICES ASSUME NEW u \in Writers, NEW i \in 1..Len(writes'[u])
               PROVE  i \in 1..Len(writes[u]) /\ writes'[u][i] = writes[u][i] /\ i \in DOMAIN writes'[u]
    OBVIOUS
  <2>1. writes'[u] \in Seq(Dispatches)
    BY <1>1
  <2>2. i \in DOMAIN writes'[u]
    BY <2>1
  <2>3. CASE u = t
    BY <1>1, <1>2, <2>2, <2>3
  <2>4. CASE u # t
    BY <1>1, <2>2, <2>4
  <2> QED BY <2>3, <2>4
<1>5. LogTypeOK'
  BY <1>1, <1>2, <1>3 DEF LogTypeOK
<1>6. Nesting'
  <2> SUFFICES ASSUME NEW u \in Writers, Len(writes'[u]) = 2
               PROVE  writes'[u][1].at = "call" /\ writes'[u][2].at \in {"filter", "output"}
    BY DEF Nesting
  <2> \A n \in {1, 2} : n - 1 # 2
    OBVIOUS
  <2>1. Len(writes'[t]) # 2
    BY <1>1, <1>2
  <2>2. writes'[u] = writes[u]
    BY <1>1, <2>1
  <2> QED BY <2>2 DEF Nesting
<1>7. Referents'
  <2>1. \A s \in log_sinks' : Referenced(s, log_sinks', writes')
    BY DEF Referenced
  <2>2. ASSUME NEW u \in Writers, NEW i \in 1..Len(writes'[u]), NEW s \in writes'[u][i].sinks
        PROVE  Referenced(s, log_sinks', writes')
    BY <1>4, <2>2 DEF Referenced
  <2>3. log_sinks' \cap destroyed' = {}
    BY <1>3, <2>1 DEF Referents
  <2>4. ASSUME NEW u \in Writers, NEW i \in 1..Len(writes'[u])
        PROVE  /\ writes'[u][i].called \subseteq writes'[u][i].sinks /\ writes'[u][i].sinks \cap destroyed' = {}
               /\ writes'[u][i].at = "filter" => writes'[u][i].sinks = {}
    BY <1>3, <1>4, <2>2 DEF Referents
  <2>5. \A s \in past' \ destroyed' : Referenced(s, log_sinks', writes')
    BY <1>3
  <2> QED BY <2>3, <2>4, <2>5 DEF Referents
<1> QED BY <1>5, <1>6, <1>7

\* A dispatch that goes on keeps its snapshot, or takes it.
LEMMA GoesOnKeeps ==
  ASSUME IInv, NEW t \in Writers, writes[t] # <<>>, NEW d \in Dispatches, GoesOn(t, d),
         UNCHANGED <<log_sinks, past, enabled, destroyed>>, dispatching' \in [Writers -> BOOLEAN],
         d.called \subseteq d.sinks, Innermost(t).sinks \subseteq d.sinks,
         d.sinks \subseteq Innermost(t).sinks \cup log_sinks,
         d.at # "filter"
  PROVE  LogTypeOK' /\ Referents'
<1> USE DEF IInv
<1>1. /\ writes' \in [Writers -> Seq(Dispatches)]
      /\ \A u \in Writers \ {t} : writes'[u] = writes[u]
      /\ Len(writes'[t]) = Len(writes[t]) /\ Len(writes[t]) \in Nat \ {0}
      /\ writes'[t][Len(writes[t])] = d
      /\ \A i \in 1..Len(writes[t]) : i # Len(writes[t]) => writes'[t][i] = writes[t][i]
  BY Continues
<1>2. Innermost(t) = writes[t][Len(writes[t])]
  BY Inner
<1>3. LogTypeOK'
  BY <1>1 DEF LogTypeOK
<1>4. \A u \in Writers : \A i \in 1..Len(writes'[u]) :
        /\ i \in 1..Len(writes[u])
        /\ writes'[u][i] = writes[u][i] \/ (u = t /\ i = Len(writes[t]) /\ writes'[u][i] = d)
  <2> SUFFICES ASSUME NEW u \in Writers, NEW i \in 1..Len(writes'[u])
               PROVE  /\ i \in 1..Len(writes[u])
                      /\ writes'[u][i] = writes[u][i] \/ (u = t /\ i = Len(writes[t]) /\ writes'[u][i] = d)
    OBVIOUS
  <2>1. CASE u = t
    BY <1>1, <2>1
  <2>2. CASE u # t
    BY <1>1, <2>2
  <2> QED BY <2>1, <2>2
<1>5. \A u \in Writers : DOMAIN writes[u] = 1..Len(writes[u]) /\ DOMAIN writes'[u] = 1..Len(writes'[u])
  BY <1>1 DEF LogTypeOK
<1>6. ASSUME NEW s, Referenced(s, log_sinks, writes)
      PROVE  Referenced(s, log_sinks, writes')
  <2>1. CASE s \in log_sinks
    BY <2>1 DEF Referenced
  <2>2. CASE s \notin log_sinks
    <3>1. PICK u \in Writers : \E i \in DOMAIN writes[u] : s \in writes[u][i].sinks
      BY <1>6, <2>2 DEF Referenced
    <3> PICK i \in DOMAIN writes[u] : s \in writes[u][i].sinks
      BY <3>1
    <3>2. i \in 1..Len(writes'[u])
      BY <1>1, <1>5
    <3>3. s \in writes'[u][i].sinks
      BY <1>2, <1>4, <3>1, <3>2
    <3> QED BY <1>5, <3>2, <3>3 DEF Referenced
  <2> QED BY <2>1, <2>2
<1>7. ASSUME NEW u \in Writers, NEW i \in 1..Len(writes'[u])
      PROVE  /\ writes'[u][i].called \subseteq writes'[u][i].sinks /\ writes'[u][i].sinks \cap destroyed' = {}
             /\ writes'[u][i].at = "filter" => writes'[u][i].sinks = {}
  <2>1. CASE writes'[u][i] = writes[u][i]
    BY <1>4, <2>1 DEF Referents
  <2>2. CASE writes'[u][i] = d
    <3>1. Len(writes[t]) \in 1..Len(writes[t])
      BY <1>1
    <3>2. writes[t][Len(writes[t])].sinks \cap destroyed = {}
      BY <3>1 DEF Referents
    <3>3. Innermost(t).sinks \cap destroyed = {}
      BY <1>2, <3>2
    <3>4. log_sinks \cap destroyed = {}
      BY DEF Referents
    <3> QED BY <2>2, <3>3, <3>4
  <2> QED BY <1>4, <2>1, <2>2
<1>8. Referents'
  BY <1>6, <1>7 DEF Referents
<1> QED BY <1>3, <1>8

\* Where a thread's writes stand, and what its flag says of it.
LEMMA Positions ==
  ASSUME IInv, NEW t \in Writers, writes[t] # <<>>
  PROVE  /\ Len(writes[t]) \in {1, 2} /\ Innermost(t) \in Dispatches
         /\ Innermost(t) = writes[t][Len(writes[t])]
         /\ Len(writes[t]) = 2 => writes[t][1].at = "call" /\ Innermost(t).at \in {"filter", "output"} /\ dispatching[t]
         /\ Innermost(t).at \in {"deliver", "call"} => Len(writes[t]) = 1 /\ dispatching[t]
<1>1. /\ Len(writes[t]) \in {1, 2} /\ Innermost(t) \in Dispatches
      /\ Innermost(t) = writes[t][Len(writes[t])]
  BY Inner DEF IInv
<1>2. Len(writes[t]) = 2 => writes[t][1].at = "call" /\ Innermost(t).at \in {"filter", "output"}
  BY <1>1 DEF IInv, Nesting
<1>3. Innermost(t).at \in {"deliver", "call"} => Len(writes[t]) = 1
  BY <1>1, <1>2
<1>4. dispatching[t] <=> writes[t][1].at \in {"deliver", "call"}
  BY <1>1 DEF IInv, Flagged
<1> QED BY <1>1, <1>2, <1>3, <1>4

\* The flag is left as it is by whoever did not set it.
LEMMA LeaveFlagged ==
  ASSUME IInv, NEW t \in Writers, writes[t] # <<>>, Leave(t),
         Innermost(t).at \in {"filter", "output"}, dispatching' = dispatching
  PROVE  Flagged'
<1>1. /\ \A u \in Writers \ {t} : writes'[u] = writes[u]
      /\ Len(writes'[t]) = Len(writes[t]) - 1
      /\ \A i \in 1..Len(writes'[t]) : writes'[t][i] = writes[t][i]
  BY Leaves DEF IInv
<1> SUFFICES ASSUME NEW u \in Writers
             PROVE  dispatching'[u] <=> Len(writes'[u]) > 0 /\ writes'[u][1].at \in {"deliver", "call"}
  BY DEF Flagged
<1>2. dispatching[u] <=> Len(writes[u]) > 0 /\ writes[u][1].at \in {"deliver", "call"}
  BY DEF IInv, Flagged
<1>3. CASE u # t
  BY <1>1, <1>2, <1>3
<1>4. CASE u = t /\ Len(writes[t]) = 1
  <2>1. Len(writes'[t]) = 0 /\ writes[t][1].at \in {"filter", "output"}
    BY <1>1, <1>4, Positions
  <2> QED BY <1>2, <1>4, <2>1
<1>5. CASE u = t /\ Len(writes[t]) = 2
  <2>1. Len(writes'[t]) = 1 /\ writes'[t][1] = writes[t][1]
    BY <1>1, <1>5
  <2> QED BY <1>2, <1>5, <2>1
<1> QED BY <1>3, <1>4, <1>5, Positions

\* A write at the bottom goes on to be d; a nested one stands before its dispatch.
LEMMA GoesOnFlagged ==
  ASSUME IInv, NEW t \in Writers, writes[t] # <<>>, NEW d \in Dispatches, GoesOn(t, d),
         d.at \in {"filter", "output"} \/ Len(writes[t]) = 1,
         NEW b \in BOOLEAN, dispatching' = [dispatching EXCEPT ![t] = b],
         b <=> Len(writes[t]) = 2 \/ d.at \in {"deliver", "call"}
  PROVE  Nesting' /\ Flagged'
<1>1. /\ \A u \in Writers \ {t} : writes'[u] = writes[u]
      /\ Len(writes'[t]) = Len(writes[t])
      /\ writes'[t][Len(writes[t])] = d
      /\ \A i \in 1..Len(writes[t]) : i # Len(writes[t]) => writes'[t][i] = writes[t][i]
  BY Continues DEF IInv
<1>2. /\ Len(writes[t]) \in {1, 2}
      /\ Len(writes[t]) = 2 => writes[t][1].at = "call"
  BY Positions
<1>3. Len(writes[t]) = 2 => writes'[t][1] = writes[t][1] /\ writes'[t][2] = d
  BY <1>1
<1>4. Nesting'
  <2> SUFFICES ASSUME NEW u \in Writers, Len(writes'[u]) = 2
               PROVE  writes'[u][1].at = "call" /\ writes'[u][2].at \in {"filter", "output"}
    BY DEF Nesting
  <2>1. CASE u = t
    BY <1>1, <1>2, <1>3, <2>1
  <2>2. CASE u # t
    BY <1>1, <2>2 DEF IInv, Nesting
  <2> QED BY <2>1, <2>2
<1>5. ASSUME NEW u \in Writers
      PROVE  dispatching'[u] <=> Len(writes'[u]) > 0 /\ writes'[u][1].at \in {"deliver", "call"}
  <2>1. dispatching \in [Writers -> BOOLEAN]
    BY DEF IInv, LogTypeOK
  <2>2. CASE u # t
    BY <1>1, <2>1, <2>2 DEF IInv, Flagged
  <2>3. CASE u = t /\ Len(writes[t]) = 1
    BY <1>1, <2>1, <2>3
  <2>4. CASE u = t /\ Len(writes[t]) = 2
    BY <1>1, <1>2, <1>3, <2>1, <2>4
  <2> QED BY <1>2, <2>2, <2>3, <2>4
<1> QED BY <1>4, <1>5 DEF Flagged

-----------------------------------------------------------------------------
\* The registry is empty and no thread writes.
THEOREM Initially == LogInit => IInv
<1> SUFFICES ASSUME LogInit PROVE IInv
  OBVIOUS
<1> USE DEF LogInit
<1>1. \A t \in Writers : writes[t] = <<>> /\ Len(writes[t]) = 0
  OBVIOUS
<1>2. LogTypeOK
  BY <1>1 DEF LogTypeOK
<1>3. Nesting /\ Flagged /\ Referents
  BY <1>1 DEF Nesting, Flagged, Referents
<1> QED BY <1>2, <1>3 DEF IInv

\* Calls of the application and of sinks, and the steps of dispatchLogRecord().
THEOREM Step == IInv /\ [LogNext]_log => IInv'
<1> SUFFICES ASSUME IInv, [LogNext]_log PROVE IInv'
  OBVIOUS
<1>0. /\ LogTypeOK /\ Nesting /\ Flagged /\ Referents
      /\ dispatching \in [Writers -> BOOLEAN]
  BY DEF IInv, LogTypeOK
<1>1. ASSUME NEW t \in Writers, NEW s \in Sinks, RegisterLogSink(t, s)
      PROVE  IInv'
  <2> USE <1>1 DEF RegisterLogSink
  <2>1. LogTypeOK'
    BY <1>0 DEF LogTypeOK
  <2>2. Nesting' /\ Flagged'
    BY <1>0 DEF Nesting, Flagged
  <2>3. s \notin destroyed
    BY <1>0 DEF LogTypeOK
  <2>4. Referents'
    BY <1>0, <2>3 DEF Referents, Referenced
  <2> QED BY <2>1, <2>2, <2>4 DEF IInv
<1>2. ASSUME NEW t \in Writers, NEW s \in Sinks, UnregisterLogSink(t, s)
      PROVE  IInv'
  <2> USE <1>2 DEF UnregisterLogSink
  <2>1. destroyed' = destroyed \cup {x \in past : ~Referenced(x, log_sinks', writes')}
    BY DEF Released
  <2>2. LogTypeOK'
    BY <1>0, <2>1 DEF LogTypeOK
  <2>3. Nesting' /\ Flagged'
    BY <1>0 DEF Nesting, Flagged
  <2>4. \A x \in log_sinks' : Referenced(x, log_sinks', writes')
    BY DEF Referenced
  <2>5. ASSUME NEW u \in Writers, NEW i \in 1..Len(writes[u]), NEW x \in writes[u][i].sinks
        PROVE  Referenced(x, log_sinks', writes')
    <3>1. i \in DOMAIN writes[u]
      BY <1>0 DEF LogTypeOK
    <3> QED BY <2>5, <3>1 DEF Referenced
  <2>6. log_sinks' \cap destroyed' = {}
    BY <1>0, <2>1, <2>4 DEF Referents
  <2>7. ASSUME NEW u \in Writers, NEW i \in 1..Len(writes'[u])
        PROVE  /\ writes'[u][i].called \subseteq writes'[u][i].sinks /\ writes'[u][i].sinks \cap destroyed' = {}
               /\ writes'[u][i].at = "filter" => writes'[u][i].sinks = {}
    BY <1>0, <2>1, <2>5 DEF Referents
  <2>8. \A x \in past' \ destroyed' : Referenced(x, log_sinks', writes')
    BY <2>1
  <2>9. Referents'
    BY <2>6, <2>7, <2>8 DEF Referents
  <2> QED BY <2>2, <2>3, <2>9 DEF IInv
<1>3. ASSUME NEW t \in Writers, SetMinimumLogLevel(t)
      PROVE  IInv'
  BY <1>0, <1>3 DEF SetMinimumLogLevel, IInv, LogTypeOK, Nesting, Flagged, Referents, Referenced
<1>4. ASSUME NEW t \in Writers, WriteLog(t)
      PROVE  IInv'
  <2> DEFINE d == [at |-> "filter", sinks |-> {}, called |-> {}]
  <2>1. d \in Dispatches
    BY DEF Dispatches
  <2>2. writes' = [writes EXCEPT ![t] = Append(@, d)]
    BY <1>4 DEF WriteLog
  <2>3. UNCHANGED <<log_sinks, past, destroyed, enabled, dispatching>>
    BY <1>4 DEF WriteLog
  <2> HIDE DEF d
  <2>4. writes \in [Writers -> Seq(Dispatches)]
    BY <1>0 DEF LogTypeOK
  <2>5. /\ writes' \in [Writers -> Seq(Dispatches)]
        /\ \A u \in Writers \ {t} : writes'[u] = writes[u]
        /\ Len(writes'[t]) = Len(writes[t]) + 1
        /\ \A i \in 1..Len(writes[t]) : writes'[t][i] = writes[t][i]
        /\ writes'[t][Len(writes[t]) + 1] = d
    BY <2>1, <2>2, <2>4, Pushed
  <2>6. \/ Len(writes[t]) = 0 /\ ~dispatching[t]
        \/ Len(writes[t]) = 1 /\ writes[t][1].at = "call" /\ dispatching[t]
    <3>1. CASE writes[t] = <<>>
      BY <1>0, <3>1 DEF Flagged
    <3>2. CASE writes[t] # <<>> /\ Innermost(t).at = "call"
      BY <3>2, Positions
    <3> QED BY <1>4, <3>1, <3>2 DEF WriteLog, MayCall, At
  <2> 0 + 1 = 1 /\ 1 + 1 = 2 /\ 1 \in 1..1
    OBVIOUS
  <2>12. /\ Len(writes[t]) = 0 => Len(writes'[t]) = 1 /\ writes'[t][1] = d
         /\ Len(writes[t]) = 1 => Len(writes'[t]) = 2 /\ writes'[t][1] = writes[t][1] /\ writes'[t][2] = d
    BY <2>5
  <2>7. LogTypeOK'
    BY <1>0, <2>3, <2>5, <2>6 DEF LogTypeOK
  <2>8. Nesting'
    <3> SUFFICES ASSUME NEW u \in Writers, Len(writes'[u]) = 2
                 PROVE  writes'[u][1].at = "call" /\ writes'[u][2].at \in {"filter", "output"}
      BY DEF Nesting
    <3>1. CASE u = t
      <4>1. Len(writes[t]) = 1 /\ writes'[t][1] = writes[t][1] /\ writes'[t][2] = d
        BY <2>6, <2>12, <3>1
      <4> QED BY <2>6, <3>1, <4>1 DEF d
    <3>2. CASE u # t
      BY <1>0, <2>5, <3>2 DEF Nesting
    <3> QED BY <3>1, <3>2
  <2>9. Flagged'
    <3> SUFFICES ASSUME NEW u \in Writers
                 PROVE  dispatching'[u] <=> Len(writes'[u]) > 0 /\ writes'[u][1].at \in {"deliver", "call"}
      BY DEF Flagged
    <3>1. CASE u # t
      BY <1>0, <2>3, <2>5, <3>1 DEF Flagged
    <3>2. CASE u = t /\ Len(writes[t]) = 0
      <4>1. writes'[t][1] = d /\ d.at = "filter"
        BY <2>5, <3>2 DEF d
      <4> QED BY <2>3, <2>6, <3>2, <4>1
    <3>3. CASE u = t /\ Len(writes[t]) = 1
      <4>1. writes'[t][1] = writes[t][1] /\ Len(writes'[t]) = 2
        BY <2>5, <3>3
      <4> QED BY <2>3, <2>6, <3>3, <4>1
    <3> QED BY <2>6, <3>1, <3>2, <3>3
  <2>10. \A u \in Writers : DOMAIN writes[u] = 1..Len(writes[u]) /\ DOMAIN writes'[u] = 1..Len(writes'[u])
    BY <2>4, <2>5
  <2>11. Referents'
    <3>1. ASSUME NEW u \in Writers, NEW i \in 1..Len(writes'[u])
          PROVE  \/ i \in 1..Len(writes[u]) /\ writes'[u][i] = writes[u][i]
                 \/ writes'[u][i] = d
      <4>1. CASE u # t
        BY <2>5, <4>1
      <4>2. CASE u = t /\ Len(writes[t]) = 0
        <5>1. 1..Len(writes'[t]) = 1..1
          BY <2>12, <4>2
        <5>2. i \in 1..1
          BY <4>2, <5>1
        <5>3. i = 1
          BY <5>2
        <5> QED BY <2>12, <4>2, <5>3
      <4>3. CASE u = t /\ Len(writes[t]) = 1
        <5>1. 1..Len(writes'[t]) = 1..2 /\ 1..Len(writes[t]) = 1..1
          BY <2>12, <4>3
        <5>2. i \in 1..2
          BY <4>3, <5>1
        <5>3. i = 1 \/ i = 2
          BY <5>2
        <5> QED BY <2>12, <4>3, <5>1, <5>3
      <4> QED BY <2>6, <4>1, <4>2, <4>3
    <3>2. ASSUME NEW u \in Writers, NEW i \in 1..Len(writes'[u])
          PROVE  /\ writes'[u][i].called \subseteq writes'[u][i].sinks /\ writes'[u][i].sinks \cap destroyed' = {}
                 /\ writes'[u][i].at = "filter" => writes'[u][i].sinks = {}
      <4>1. CASE writes'[u][i] = d
        BY <4>1 DEF d
      <4>2. CASE i \in 1..Len(writes[u]) /\ writes'[u][i] = writes[u][i]
        BY <1>0, <2>3, <4>2 DEF Referents
      <4> QED BY <3>1, <4>1, <4>2
    <3>3. ASSUME NEW x, Referenced(x, log_sinks, writes)
          PROVE  Referenced(x, log_sinks', writes')
      <4>1. ASSUME NEW u \in Writers, NEW i \in DOMAIN writes[u], x \in writes[u][i].sinks
            PROVE  \E j \in DOMAIN writes'[u] : x \in writes'[u][j].sinks
        <5>1. i \in 1..Len(writes[u])
          BY <2>10
        <5>2. i \in DOMAIN writes'[u] /\ writes'[u][i] = writes[u][i]
          BY <2>5, <2>6, <2>10, <5>1
        <5> QED BY <4>1, <5>2
      <4> QED BY <2>3, <3>3, <4>1 DEF Referenced
    <3> QED BY <1>0, <2>3, <3>2, <3>3 DEF Referents
  <2> QED BY <2>7, <2>8, <2>9, <2>11 DEF IInv
\* What is left is a step of a dispatch.
<1>5. ASSUME NEW t \in Writers, NEW step, At(t, step)
      PROVE  writes[t] # <<>> /\ Innermost(t).at = step
  BY <1>5 DEF At
<1>6. ASSUME NEW t \in Writers, At(t, "filter") \/ At(t, "output"), Leave(t),
             UNCHANGED <<log_sinks, past, enabled, dispatching>>
      PROVE  IInv'
  <2>1. writes[t] # <<>> /\ Innermost(t).at \in {"filter", "output"}
    BY <1>5, <1>6
  <2>2. LogTypeOK' /\ Nesting' /\ Referents'
    BY <1>0, <1>6, <2>1, LeaveKeeps
  <2>3. Flagged'
    BY <1>6, <2>1, LeaveFlagged
  <2> QED BY <2>2, <2>3 DEF IInv
<1>7. ASSUME NEW t \in Writers, writes[t] # <<>>, NEW d \in Dispatches, GoesOn(t, d),
             UNCHANGED <<log_sinks, past, destroyed, enabled>>,
             d.called \subseteq d.sinks, Innermost(t).sinks \subseteq d.sinks,
             d.sinks \subseteq Innermost(t).sinks \cup log_sinks, d.at # "filter",
             d.at \in {"filter", "output"} \/ Len(writes[t]) = 1,
             NEW b \in BOOLEAN, dispatching' = [dispatching EXCEPT ![t] = b],
             b <=> Len(writes[t]) = 2 \/ d.at \in {"deliver", "call"}
      PROVE  IInv'
  <2>1. dispatching' \in [Writers -> BOOLEAN]
    BY <1>0, <1>7
  <2>2. LogTypeOK' /\ Referents'
    BY <1>7, <2>1, GoesOnKeeps
  <2>3. Nesting' /\ Flagged'
    BY <1>7, GoesOnFlagged
  <2> QED BY <2>2, <2>3 DEF IInv
<1>8. ASSUME NEW t \in Writers, writes[t] # <<>>
      PROVE  /\ Innermost(t).called \subseteq Innermost(t).sinks
             /\ Innermost(t).at = "filter" => Innermost(t).sinks = {}
             /\ dispatching = [dispatching EXCEPT ![t] = dispatching[t]] /\ dispatching[t] \in BOOLEAN
  <2>1. Len(writes[t]) \in 1..Len(writes[t]) /\ Innermost(t) = writes[t][Len(writes[t])]
    BY <1>8, Positions
  <2>2. /\ writes[t][Len(writes[t])].called \subseteq writes[t][Len(writes[t])].sinks
        /\ writes[t][Len(writes[t])].at = "filter" => writes[t][Len(writes[t])].sinks = {}
    BY <1>0, <2>1 DEF Referents
  <2> QED BY <1>0, <2>1, <2>2
<1>9. ASSUME NEW t \in Writers, Filter(t)
      PROVE  IInv'
  <2>1. CASE ~enabled
    BY <1>6, <1>9, <2>1 DEF Filter
  <2>2. CASE enabled
    <3> DEFINE d == [Innermost(t) EXCEPT !.at = "output", !.sinks = log_sinks]
    <3>1. writes[t] # <<>> /\ Innermost(t).at = "filter"
      BY <1>5, <1>9 DEF Filter
    <3>2. GoesOn(t, d) /\ UNCHANGED <<log_sinks, past, destroyed, enabled, dispatching>>
      BY <1>9, <2>2 DEF Filter
    <3>3. Innermost(t) \in Dispatches /\ log_sinks \in SUBSET Sinks
      BY <1>0, <3>1, Positions DEF LogTypeOK
    <3>4. /\ d \in Dispatches /\ d.at = "output" /\ d.sinks = log_sinks
          /\ d.called = Innermost(t).called
      BY <3>3 DEF Dispatches
    <3>5. Innermost(t).sinks = {} /\ Innermost(t).called = {}
      BY <1>8, <3>1
    <3>6. dispatching[t] <=> Len(writes[t]) = 2
      <4>1. dispatching[t] <=> Len(writes[t]) > 0 /\ writes[t][1].at \in {"deliver", "call"}
        BY <1>0 DEF Flagged
      <4> QED BY <3>1, <4>1, Positions
    <3> HIDE DEF d
    <3> QED BY <1>7, <1>8, <3>1, <3>2, <3>4, <3>5, <3>6
  <2> QED BY <2>1, <2>2
<1>10. ASSUME NEW t \in Writers, Throw(t)
       PROVE  IInv'
  BY <1>6, <1>10 DEF Throw
<1>11. ASSUME NEW t \in Writers, Output(t)
       PROVE  IInv'
  <2>1. CASE dispatching[t]
    BY <1>6, <1>11, <2>1 DEF Output, LeaveNested
  <2>2. CASE ~dispatching[t]
    <3> DEFINE d == [Innermost(t) EXCEPT !.at = "deliver"]
    <3>1. writes[t] # <<>> /\ Innermost(t).at = "output"
      BY <1>5, <1>11 DEF Output
    <3>2. /\ GoesOn(t, d) /\ UNCHANGED <<log_sinks, past, destroyed, enabled>>
          /\ dispatching' = [dispatching EXCEPT ![t] = TRUE]
      BY <1>11, <2>2 DEF Output
    <3>3. Innermost(t) \in Dispatches /\ Len(writes[t]) = 1
      BY <2>2, <3>1, Positions
    <3>4. /\ d \in Dispatches /\ d.at = "deliver" /\ d.sinks = Innermost(t).sinks
          /\ d.called = Innermost(t).called
      BY <3>3 DEF Dispatches
    <3> HIDE DEF d
    <3> QED BY <1>7, <1>8, <3>1, <3>2, <3>3, <3>4
  <2> QED BY <2>1, <2>2
<1>12. ASSUME NEW t \in Writers, CallSink(t)
       PROVE  IInv'
  <2>1. writes[t] # <<>> /\ Innermost(t).at = "deliver"
    BY <1>5, <1>12 DEF CallSink
  <2>2. PICK s \in Innermost(t).sinks \ Innermost(t).called :
          GoesOn(t, [Innermost(t) EXCEPT !.at = "call", !.called = @ \cup {s}])
    BY <1>12 DEF CallSink
  <2> DEFINE d == [Innermost(t) EXCEPT !.at = "call", !.called = @ \cup {s}]
  <2>3. UNCHANGED <<log_sinks, past, destroyed, enabled, dispatching>>
    BY <1>12 DEF CallSink
  <2>4. Innermost(t) \in Dispatches /\ Len(writes[t]) = 1 /\ dispatching[t]
    BY <2>1, Positions
  <2>5. /\ d \in Dispatches /\ d.at = "call" /\ d.sinks = Innermost(t).sinks
        /\ d.called = Innermost(t).called \cup {s}
    BY <2>4 DEF Dispatches
  <2>6. GoesOn(t, d)
    BY <2>2
  <2> HIDE DEF d
  <2> QED BY <1>7, <1>8, <2>1, <2>3, <2>4, <2>5, <2>6
<1>13. ASSUME NEW t \in Writers, SinkEnds(t)
       PROVE  IInv'
  <2> DEFINE d == [Innermost(t) EXCEPT !.at = "deliver"]
  <2>1. writes[t] # <<>> /\ Innermost(t).at = "call"
    BY <1>5, <1>13 DEF SinkEnds
  <2>2. GoesOn(t, d) /\ UNCHANGED <<log_sinks, past, destroyed, enabled, dispatching>>
    BY <1>13 DEF SinkEnds
  <2>3. Innermost(t) \in Dispatches /\ Len(writes[t]) = 1 /\ dispatching[t]
    BY <2>1, Positions
  <2>4. /\ d \in Dispatches /\ d.at = "deliver" /\ d.sinks = Innermost(t).sinks
        /\ d.called = Innermost(t).called
    BY <2>3 DEF Dispatches
  <2> HIDE DEF d
  <2> QED BY <1>7, <1>8, <2>1, <2>2, <2>3, <2>4
<1>14. ASSUME NEW t \in Writers, EndDispatch(t)
       PROVE  IInv'
  <2>1. /\ writes[t] # <<>> /\ Innermost(t).at = "deliver" /\ Leave(t)
        /\ dispatching' = [dispatching EXCEPT ![t] = FALSE] /\ UNCHANGED <<log_sinks, past, enabled>>
    BY <1>5, <1>14 DEF EndDispatch
  <2>2. dispatching' \in [Writers -> BOOLEAN]
    BY <1>0, <2>1
  <2>3. LogTypeOK' /\ Nesting' /\ Referents'
    BY <1>0, <2>1, <2>2, LeaveKeeps
  <2>4. Len(writes[t]) = 1
    BY <2>1, Positions
  <2>5. Len(writes'[t]) = 0 /\ \A u \in Writers \ {t} : writes'[u] = writes[u]
    <3>1. Len(writes'[t]) = Len(writes[t]) - 1 /\ \A u \in Writers \ {t} : writes'[u] = writes[u]
      BY <1>0, <2>1, Leaves
    <3>2. 1 - 1 = 0
      OBVIOUS
    <3> QED BY <2>4, <3>1, <3>2
  <2>6. Flagged'
    BY <1>0, <2>1, <2>5 DEF Flagged
  <2> QED BY <2>3, <2>6 DEF IInv
<1>15. CASE UNCHANGED log
  BY <1>0, <1>15 DEF log, IInv, LogTypeOK, Nesting, Flagged, Referents, Referenced
<1> QED BY <1>1, <1>2, <1>3, <1>4, <1>9, <1>10, <1>11, <1>12, <1>13, <1>14, <1>15 DEF LogNext, WriteStep

\* What the invariant says of the sinks that are called.
LEMMA Outlive == IInv => SinksOutliveCalls
<1> SUFFICES ASSUME IInv PROVE SinksOutliveCalls
  OBVIOUS
<1>1. ASSUME NEW t \in Writers PROVE DOMAIN writes[t] = 1..Len(writes[t])
  <2>1. writes[t] \in Seq(Dispatches)
    BY DEF IInv, LogTypeOK
  <2> QED BY <2>1
<1> QED BY <1>1 DEF IInv, Referents, SinksOutliveCalls

\* What it says of the threads that call them.
LEMMA Reentered == IInv => NotReentered
<1> SUFFICES ASSUME IInv, NEW t \in Writers
             PROVE  /\ \A i, j \in DOMAIN writes[t] :
                         writes[t][i].at = "call" /\ writes[t][j].at \in {"deliver", "call"} => i = j
                    /\ dispatching[t] <=> \E i \in DOMAIN writes[t] : writes[t][i].at \in {"deliver", "call"}
  BY DEF NotReentered
<1>1. writes[t] \in Seq(Dispatches)
  BY DEF IInv, LogTypeOK
<1>2. CASE writes[t] = <<>>
  BY <1>1, <1>2 DEF IInv, Flagged
<1>3. CASE writes[t] # <<>>
  <2>1. \A i \in DOMAIN writes[t] : writes[t][i].at \in {"deliver", "call"} => i = 1
    <3> SUFFICES ASSUME NEW i \in DOMAIN writes[t], i # 1
                 PROVE  writes[t][i].at \notin {"deliver", "call"}
      OBVIOUS
    <3>1. Len(writes[t]) = 2 /\ i = 2
      <4>1. i \in 1..Len(writes[t]) /\ Len(writes[t]) \in {1, 2}
        BY <1>1, <1>3, Positions
      <4> QED BY <4>1
    <3> QED BY <3>1 DEF IInv, Nesting
  <2>2. 1 \in DOMAIN writes[t]
    BY <1>1, <1>3
  <2>3. dispatching[t] <=> writes[t][1].at \in {"deliver", "call"}
    <3>1. Len(writes[t]) > 0
      BY <1>3, Positions
    <3> QED BY <3>1 DEF IInv, Flagged
  <2> QED BY <2>1, <2>2, <2>3
<1> QED BY <1>2, <1>3

-----------------------------------------------------------------------------
\* Invariance: types, the order of a thread's writes, its flag and the references.
THEOREM Invariance == LogSpec => []IInv
BY Initially, Step, PTL DEF LogSpec

\* A sink is there for as long as a thread calls it, and no longer than it is referred
\* to, for any threads and sinks.
THEOREM SinksOutliveCallsAlways == LogSpec => []SinksOutliveCalls
BY Outlive, Invariance, PTL

\* Whatever its sinks write, register, unregister and throw, a thread is in one onLog()
\* at most, and its flag says whether it is.
THEOREM NotReenteredAlways == LogSpec => []NotReentered
BY Reentered, Invariance, PTL
=============================================================================
