---------------------------- MODULE RetryPolicy ----------------------------
(***************************************************************************)
(* RetryPolicy (core/xpt/retry/RetryPolicy.cpp): whether a failed attempt  *)
(* may be repeated, and after how long.  A policy is a record, an outcome  *)
(* stands for the category and code of a TransportError.                   *)
(***************************************************************************)
EXTENDS Integers, FiniteSets, FiniteSetsExt

CONSTANT WordMax  \* the largest std::int64_t

\* Signed arithmetic of the word, as the build wraps it.
Wrap(n) == ((n + WordMax + 1) % (2 * (WordMax + 1))) - (WordMax + 1)

Strategies == {"fixed", "exponential"}
Policies(attempts, delays) ==
  [maximum_attempts : attempts, initial_delay : delays, maximum_delay : delays,
   strategy : Strategies]

IsValid(p) ==
  /\ p.maximum_attempts >= 1
  /\ p.initial_delay >= 0
  /\ p.maximum_delay >= p.initial_delay

-----------------------------------------------------------------------------
\* "status" is a status such as 503, "rejected" one such as 404; "io" is a
\* failure to resolve, connect, send or receive, "exhausted" one to allocate;
\* "fatal" is a protocol or security failure.
Outcomes == {"ok", "status", "rejected", "too_large", "io", "exhausted", "fatal",
             "timeout", "cancelled"}

IsPolicyRetryableError(outcome) ==
  outcome \in {"status", "rejected", "too_large", "io", "exhausted", "timeout"}

\* Doubling stops short of the maximum, so that it never overflows.
AtLimit_Never(d, max) == FALSE
AtLimit(d, max) == d > max \div 2

CalculateDelay(p, attempts) ==
  LET delay[n \in 1..attempts] ==
        IF n = 1 THEN p.initial_delay
        ELSE LET d == delay[n - 1] IN
             CASE d >= p.maximum_delay         -> d
               [] d < p.maximum_delay /\ AtLimit(d, p.maximum_delay) -> p.maximum_delay
               [] OTHER                        -> Wrap(2 * d)
  IN IF p.strategy = "fixed" \/ p.initial_delay = 0 THEN p.initial_delay ELSE delay[attempts]

LimitReached(p, attempts) == attempts >= p.maximum_attempts

\* evaluate(): the first reason to stop, or "none" when there is none.
StopReason(p, attempts, idempotent, retryable, outcome) ==
  IF ~IsValid(p) THEN "invalid policy"
  ELSE IF attempts = 0 THEN "invalid attempt"
  ELSE IF outcome = "ok" THEN "no failure"
  ELSE IF outcome = "cancelled" THEN "cancelled"
  ELSE IF ~idempotent THEN "non-idempotent"
  ELSE IF ~retryable \/ ~IsPolicyRetryableError(outcome) THEN "not retryable"
  ELSE IF LimitReached(p, attempts) THEN "attempt limit"
  ELSE "none"

\* What the documentation promises of the delay (XptTransport.md:280).
DocumentedDelay(p, attempts) ==
  IF p.strategy = "fixed" THEN p.initial_delay
  ELSE Min({p.maximum_delay, p.initial_delay * 2 ^ (attempts - 1)})
=============================================================================
