-------------------------- MODULE AsyncLogChannel --------------------------
(***************************************************************************)
(* What the asynchronous log runtime promises its producers, without       *)
(* queue, threads, locks or barriers: a journal of accepted records, each  *)
(* of which is settled once, in order of acceptance, under the settings it *)
(* was accepted with.  The first failure of a generation is the last       *)
(* output of that generation.                                              *)
(***************************************************************************)
EXTENDS Naturals, Sequences

VARIABLES
  journal,     \* the generation and the fate of each accepted record
  generation,  \* successful configurations so far
  open,        \* whether records are accepted
  failed       \* whether the output of this generation has failed

channelVars == <<journal, generation, open, failed>>

ChannelInit ==
  /\ journal = <<>>
  /\ generation = 0
  /\ open = FALSE
  /\ failed = FALSE

Unsettled == {i \in 1..Len(journal) : journal[i].fate = "pending"}

Accept ==
  /\ open
  /\ ~failed
  /\ journal' = Append(journal, [gen |-> generation, fate |-> "pending"])
  /\ UNCHANGED <<generation, open, failed>>

\* The oldest unsettled record is written, fails, or is skipped after a failure.
Settle ==
  \E i \in Unsettled :
    /\ \A j \in Unsettled : i <= j
    /\ journal[i].gen = generation
    /\ \/ failed /\ journal' = [journal EXCEPT ![i].fate = "skipped"] /\ UNCHANGED failed
       \/ ~failed /\ journal' = [journal EXCEPT ![i].fate = "written"] /\ UNCHANGED failed
       \/ ~failed /\ journal' = [journal EXCEPT ![i].fate = "failed"] /\ failed' = TRUE
    /\ UNCHANGED <<generation, open>>

\* A flush of the outputs fails.
FlushFails ==
  /\ ~failed
  /\ failed' = TRUE
  /\ UNCHANGED <<journal, generation, open>>

Close ==
  /\ open' = FALSE
  /\ UNCHANGED <<journal, generation, failed>>

\* New settings take over only once nothing is owed under the old ones.
Reopen ==
  /\ ~open
  /\ Unsettled = {}
  /\ generation' = generation + 1
  /\ open' = TRUE
  /\ failed' = FALSE
  /\ UNCHANGED journal

ChannelNext == Accept \/ Settle \/ FlushFails \/ Close \/ Reopen

Channel == ChannelInit /\ [][ChannelNext]_channelVars
=============================================================================
