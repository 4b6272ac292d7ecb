----------------------------- MODULE HttpClient -----------------------------
(***************************************************************************)
(* One HttpClient::execute() (platform/xpt/http/HttpClient.cpp): attempts  *)
(* and backoff under one deadline and one cancellation token.              *)
(*                                                                         *)
(* The client keeps no state between calls.  Another thread may cancel at  *)
(* any time and the clock, which starts with the call, goes on between any *)
(* two steps.  libcurl is external: a transfer may end at any time with    *)
(* any outcome, or never.  The response is left out.                       *)
(***************************************************************************)
EXTENDS RetryPolicy

CONSTANTS
  PerMillisecond,  \* clock ticks per millisecond
  Timeouts,        \* the timeouts, in milliseconds, that callers pass
  Delays,          \* the delays, in milliseconds, of their policies
  MaxAttempts,     \* bound on maximum_attempts
  MaxNow           \* bound on the clock

VARIABLES
  options,   \* the policy, and the two consents of the caller
  timeout,   \* the timeout of the context
  now,       \* the clock
  cancelled, \* the token
  deadline,  \* the absolute deadline
  pc,        \* where execute() is
  attempt,   \* attempt_count
  outcome,   \* of the last attempt; of execute() in the end
  since,     \* when the last backoff began
  resume,    \* when the backoff is over
  late       \* transfers begun after the cancellation

vars == <<options, timeout, now, cancelled, deadline, pc, attempt, outcome, since, resume, late>>
caller == <<options, timeout>>

\* An absolute time, ms after now.  Converted to ticks first, then saturated.
ToTicks(ms) == Wrap(ms * PerMillisecond)
After(ms) == IF ToTicks(ms) >= WordMax - now THEN WordMax ELSE now + ToTicks(ms)
Expired == now >= deadline

\* The request, the options and the timeout are valid.
Init ==
  /\ options \in [policy : {p \in Policies(1..MaxAttempts, Delays) : IsValid(p)},
                  idempotent : BOOLEAN, transient : BOOLEAN]
  /\ timeout \in Timeouts
  /\ now = 0 /\ cancelled = FALSE /\ deadline = 0
  /\ pc = "begin"
  /\ attempt = 0 /\ outcome = "ok" /\ since = 0 /\ resume = 0 /\ late = 0

Cancel ==
  /\ ~cancelled /\ pc # "done"
  /\ cancelled' = TRUE
  /\ UNCHANGED <<caller, now, deadline, pc, attempt, outcome, since, resume, late>>

Tick ==
  /\ pc \notin {"begin", "done"} /\ now < MaxNow
  /\ now' = now + 1
  /\ UNCHANGED <<caller, cancelled, deadline, pc, attempt, outcome, since, resume, late>>

\* libcurl may not be usable at all.
Execute ==
  /\ pc = "begin"
  /\ \/ cancelled /\ pc' = "done" /\ outcome' = "cancelled" /\ UNCHANGED deadline
     \/ ~cancelled /\ pc' = "done" /\ outcome' = "io" /\ UNCHANGED deadline
     \/ ~cancelled /\ pc' = "attempt" /\ deadline' = After(timeout) /\ UNCHANGED outcome
  /\ UNCHANGED <<caller, now, cancelled, attempt, since, resume, late>>

-----------------------------------------------------------------------------
\* executeAttempt(): new handles, which may fail, and a transfer.
AttemptBegins ==
  /\ pc = "attempt"
  /\ attempt' = attempt + 1
  /\ \/ /\ pc' = "transfer"
        /\ late' = late + (IF cancelled THEN 1 ELSE 0)
        /\ UNCHANGED outcome
     \/ pc' = "decide" /\ outcome' \in {"exhausted", "io"} /\ UNCHANGED late
  /\ UNCHANGED <<caller, now, cancelled, deadline, since, resume>>

\* A cancellation and the deadline override what the transfer came to.
Outcome_OfTransfer(o) == o
Outcome(o) == IF cancelled THEN "cancelled" ELSE IF Expired THEN "timeout" ELSE o

AttemptEnds(o) ==
  /\ outcome' = Outcome(o)
  /\ pc' = "decide"
  /\ UNCHANGED <<caller, now, cancelled, deadline, attempt, since, resume, late>>

\* libcurl ends the transfer.  It has a timeout of its own, in milliseconds.
TransferEnds ==
  /\ pc = "transfer"
  /\ \E o \in Outcomes \ {"cancelled"} :
       /\ o = "timeout" => deadline - now <= PerMillisecond
       /\ AttemptEnds(o)

\* The loop around the transfer gives it up.
GivesUp_Cancelled == cancelled
GivesUp == cancelled \/ Expired

TransferAborted ==
  /\ pc = "transfer"
  /\ GivesUp
  /\ AttemptEnds("timeout")

-----------------------------------------------------------------------------
IsTransientFailure(o) == o \in {"status", "io", "timeout"}

Decide ==
  /\ pc = "decide"
  /\ LET retryable == options.transient /\ IsTransientFailure(outcome)
         reason == StopReason(options.policy, attempt, options.idempotent, retryable, outcome)
     IN IF reason # "none" THEN pc' = "done" /\ UNCHANGED <<since, resume>>
        ELSE /\ pc' = "wait" /\ since' = now
             /\ resume' = After(CalculateDelay(options.policy, attempt))
  /\ UNCHANGED <<caller, now, cancelled, deadline, attempt, outcome, late>>

\* waitForRetry(): both are watched while there is time to wait, not after.
BackoffEnds ==
  /\ pc = "wait"
  /\ now >= resume
  /\ pc' = "attempt"
  /\ UNCHANGED <<caller, now, cancelled, deadline, attempt, outcome, since, resume, late>>

BackoffFails ==
  /\ pc = "wait"
  /\ now < resume
  /\ cancelled \/ Expired
  /\ outcome' = IF cancelled THEN "cancelled" ELSE "timeout"
  /\ pc' = "done"
  /\ UNCHANGED <<caller, now, cancelled, deadline, attempt, since, resume, late>>

Finished == pc = "done" /\ UNCHANGED vars

Step == Execute \/ AttemptBegins \/ TransferAborted \/ Decide \/ BackoffEnds \/ BackoffFails
Next == Step \/ TransferEnds \/ Cancel \/ Tick \/ Finished

Spec == Init /\ [][Next]_vars

\* The thread runs and the clock goes on; the server owes nothing.
FairSpec == Spec /\ WF_vars(Step) /\ WF_vars(Tick)

-----------------------------------------------------------------------------
(***************************************************************************)
(* Properties.                                                             *)
(***************************************************************************)
\* Type invariant.
TypeOK ==
  /\ now \in 0..MaxNow /\ deadline \in -(WordMax + 1)..WordMax
  /\ cancelled \in BOOLEAN
  /\ pc \in {"begin", "attempt", "transfer", "decide", "wait", "done"}
  /\ attempt \in 0..options.policy.maximum_attempts
  /\ outcome \in Outcomes
  /\ since \in 0..MaxNow /\ resume \in -(WordMax + 1)..WordMax
  /\ late \in 0..attempt

\* A request is repeated only with both consents, after a transient failure,
\* within the limit, and after the whole documented delay, which the capped
\* doubling of the code computes without overflow (XptTransport.md:301: "Retry
\* runs only when RetryPolicy, request idempotency, and failure classification
\* all permit it").
RetryAuthorized ==
  [][attempt' > attempt /\ attempt > 0 =>
       /\ options.idempotent /\ options.transient
       /\ outcome \in {"status", "io", "timeout"}
       /\ attempt < options.policy.maximum_attempts
       /\ now >= resume
       /\ resume - since = PerMillisecond * DocumentedDelay(options.policy, attempt)]_vars

\* A cancellation that comes as the backoff ends, or when there is none, is
\* first seen by the next transfer: it is the last one.
CancelStopsRetries == late <= 1

\* execute() returns although the server never answers and nobody cancels.
Returns == <>(pc = "done")

\* "Timeouts of all attempts and the backoff" (HttpClient.h:229, in Japanese):
\* once the deadline ended an attempt, no other begins.
DeadlineIsFinal ==
  [][attempt' > attempt /\ attempt > 0 => ~(outcome = "timeout" /\ since >= deadline)]_vars
=============================================================================
