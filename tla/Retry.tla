-------------------------------- MODULE Retry --------------------------------
(***************************************************************************)
(* resilience.call_with_retry: one call to an operation under a            *)
(* RetryPolicy.  Time is counted in whole units; an attempt takes at most  *)
(* attempt_timeout, and the pause after attempt k is drawn from the upper  *)
(* half of the capped exponential delay (equal jitter).                    *)
(***************************************************************************)
EXTENDS Integers

CONSTANTS MaxAttempts, AttemptTimeout, BaseDelay, MaxDelay

\* RetryPolicy.__post_init__ refuses the first two otherwise; the delays
\* come from the settings, which do not order them.
ASSUME PolicyAssumption ==
    /\ MaxAttempts \in Nat /\ MaxAttempts >= 1
    /\ AttemptTimeout \in Nat /\ AttemptTimeout > 0
    /\ BaseDelay \in Nat
    /\ MaxDelay \in Nat

VARIABLES
    pc,         \* "attempt", "pause", or how the call ended
    attempt,    \* the attempt under way, or that failed last
    failures,   \* history: attempts that failed
    elapsed     \* time since the call began

vars == <<pc, attempt, failures, elapsed>>

Ends == {"returned", "exhausted", "raised"}

TypeOK ==
    /\ pc \in {"attempt", "pause"} \cup Ends
    /\ attempt \in 1..MaxAttempts
    /\ failures \in 0..MaxAttempts
    /\ elapsed \in Nat

\* 2 ** n
TwoTo[n \in Nat] == IF n = 0 THEN 1 ELSE 2 * TwoTo[n - 1]

Exponential(k) == IF BaseDelay * TwoTo[k - 1] < MaxDelay THEN BaseDelay * TwoTo[k - 1] ELSE MaxDelay

\* Mutant of BackoffDelay: the jitter is added on top of the whole delay.
BackoffDelayOnTop(k) == Exponential(k)..(Exponential(k) + Exponential(k) \div 2)

\* exponential / 2 + rand() * exponential / 2
BackoffDelay(k) == ((Exponential(k) + 1) \div 2)..Exponential(k)

\* The longest pauses after the first n attempts, added up.
Pauses[n \in Nat] == IF n = 0 THEN 0 ELSE Pauses[n - 1] + Exponential(n)

\* worst_case_seconds
WorstCase == MaxAttempts * AttemptTimeout + Pauses[MaxAttempts - 1]

-----------------------------------------------------------------------------
Init ==
    /\ pc = "attempt"
    /\ attempt = 1
    /\ failures = 0
    /\ elapsed = 0

\* asyncio.wait_for ends within the timeout, one way or the other.
Takes == \E d \in 0..AttemptTimeout : elapsed' = elapsed + d

Succeed ==
    /\ pc = "attempt"
    /\ pc' = "returned"
    /\ Takes
    /\ UNCHANGED <<attempt, failures>>

\* An error outside retry_on propagates at once.
RaisePermanent ==
    /\ pc = "attempt"
    /\ pc' = "raised"
    /\ Takes
    /\ UNCHANGED <<attempt, failures>>

FailTransient ==
    /\ pc = "attempt"
    /\ pc' = IF attempt = MaxAttempts THEN "exhausted" ELSE "pause"
    /\ failures' = failures + 1
    /\ Takes
    /\ UNCHANGED attempt

Sleep ==
    /\ pc = "pause"
    /\ pc' = "attempt"
    /\ attempt' = attempt + 1
    /\ \E d \in BackoffDelay(attempt) : elapsed' = elapsed + d
    /\ UNCHANGED failures

Next == Succeed \/ RaisePermanent \/ FailTransient \/ Sleep

\* The event loop resumes the coroutine after every await.
Spec == Init /\ [][Next]_vars /\ WF_vars(Next)

-----------------------------------------------------------------------------
\* The call never takes longer than worst_case_seconds says ("Upper bound of
\* time spent before giving up").
WithinWorstCase == elapsed <= WorstCase

\* The call reports exhaustion exactly when every attempt the policy allows
\* was made and failed (RetryExhaustedError: "Raised when every attempt
\* allowed by the policy has failed").
ExhaustedMeansAllFailed == (pc = "exhausted") <=> (failures = MaxAttempts)

\* The policy is kept: the call neither takes too long nor gives up early
\* (call_with_retry, worst_case_seconds).
PolicyIsKept == TypeOK /\ WithinWorstCase /\ ExhaustedMeansAllFailed

\* The strengthening ExhaustedMeansAllFailed needs: how many attempts have
\* failed at each point of the loop.
FailuresCounted ==
    /\ pc \in {"attempt", "pause"} \cup Ends
    /\ attempt \in 1..MaxAttempts
    /\ failures = IF pc \in {"pause", "exhausted"} THEN attempt ELSE attempt - 1
    /\ pc = "pause" => attempt < MaxAttempts
    /\ pc = "exhausted" => attempt = MaxAttempts

\* The one WithinWorstCase needs: what the attempts and the pauses so far may
\* have taken.
ElapsedBounded ==
    /\ elapsed \in Nat
    /\ elapsed <= (IF pc = "attempt" THEN attempt - 1 ELSE attempt) * AttemptTimeout + Pauses[attempt - 1]
=============================================================================
