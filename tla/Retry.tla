------------------------------- MODULE Retry -------------------------------
(***************************************************************************)
(* retry_async and RetryPolicy (producer.py): one call of an operation     *)
(* under a retry policy.  Times are whole units; a request for a delay     *)
(* (retry_after_seconds) of 0 is None.                                     *)
(***************************************************************************)
EXTENDS Integers

CONSTANTS
  Attempts,     \* values of max_attempts that are tried
  Delays,       \* values of initial_delay_seconds and max_delay_seconds
  Multipliers,  \* values of multiplier
  Requests      \* values of retry_after_seconds

ASSUME RetryAssumption ==
  /\ Attempts \subseteq Nat
  /\ Delays \subseteq Nat
  /\ Multipliers \subseteq Nat
  /\ Requests \subseteq Nat

VARIABLES
  policy,     \* the RetryPolicy
  status,     \* where the call is
  attempt,    \* loop variable
  delay,      \* the back-off before a request is considered
  requested,  \* the delay the last error asked for
  wait,       \* the sleep in progress
  slept       \* history: time slept so far

retryVars == <<policy, status, attempt, delay, requested, wait, slept>>

Smaller(x, y) == IF x <= y THEN x ELSE y
Larger(x, y) == IF x <= y THEN y ELSE x

(* __post_init__: what a policy may be.                                    *)
RetryPolicy ==
  {p \in [maxAttempts : Attempts, initial : Delays,
          multiplier : Multipliers, maxDelay : Delays] :
     p.maxAttempts >= 1 /\ p.multiplier >= 1}

Statuses == {"calling", "sleeping", "returned", "raised"}

RetryInit ==
  /\ policy \in RetryPolicy
  /\ status = "calling"
  /\ attempt = 1
  /\ delay = policy.initial
  /\ requested = 0
  /\ wait = 0
  /\ slept = 0

(* The operation answers, or raises an error that is not retryable.        *)
Answers ==
  /\ status = "calling"
  /\ status' \in {"returned", "raised"}
  /\ UNCHANGED <<policy, attempt, delay, requested, wait, slept>>

(* Mutant: the requested delay replaces the cap.                           *)
WaitUncapped(request) == Larger(Smaller(policy.maxDelay, delay), request)

WaitFor(request) == Smaller(policy.maxDelay, Larger(delay, request))

(* Mutant: the back-off starts over after every sleep, divided by two.     *)
NextDelayRestarted == delay \div 2

NextDelay == Smaller(policy.maxDelay, delay * policy.multiplier)

LastAttempt == attempt = policy.maxAttempts

(* RetryableOperationError on the last attempt is raised to the caller.    *)
GivesUp ==
  /\ status = "calling"
  /\ LastAttempt
  /\ status' = "raised"
  /\ requested' \in Requests
  /\ UNCHANGED <<policy, attempt, delay, wait, slept>>

BacksOff ==
  /\ status = "calling"
  /\ ~LastAttempt
  /\ \E request \in Requests :
       /\ requested' = request
       /\ wait' = WaitFor(request)
  /\ status' = "sleeping"
  /\ UNCHANGED <<policy, attempt, delay, slept>>

Wakes ==
  /\ status = "sleeping"
  /\ slept' = slept + wait
  /\ wait' = 0
  /\ delay' = NextDelay
  /\ attempt' = attempt + 1
  /\ status' = "calling"
  /\ UNCHANGED <<policy, requested>>

Ended == status \in {"returned", "raised"} /\ UNCHANGED retryVars

RetryNext == Answers \/ GivesUp \/ BacksOff \/ Wakes \/ Ended

RetrySpec == RetryInit /\ [][RetryNext]_retryVars

-----------------------------------------------------------------------------
(* Properties *)

(* Every variable has its type, and the loop never runs past the policy's  *)
(* last attempt.                                                           *)
TypeOK ==
  /\ policy \in RetryPolicy
  /\ status \in Statuses
  /\ attempt \in 1 .. policy.maxAttempts
  /\ status = "sleeping" => attempt < policy.maxAttempts
  /\ delay \in Nat
  /\ requested \in Requests \cup {0}
  /\ wait \in Nat
  /\ slept \in Nat

(* What a call can cost: at most the attempts of the policy, and n of them *)
(* sleep at most n - 1 times the maximal delay, whatever delays the errors *)
(* ask for.                                                                *)
SleepIsBounded ==
  /\ attempt <= policy.maxAttempts
  /\ wait <= policy.maxDelay
  /\ slept + wait <= attempt * policy.maxDelay
  /\ status # "sleeping" => slept <= (attempt - 1) * policy.maxDelay

(* The effective back-off never shrinks from one attempt to the next, even *)
(* when the initial delay is above the maximum.                            *)
BackoffGrows ==
  [][ Smaller(policy.maxDelay, delay') >= Smaller(policy.maxDelay, delay) ]_retryVars
=============================================================================
