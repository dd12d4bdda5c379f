------------------------------- MODULE Retry --------------------------------
(***************************************************************************)
(* retry.py: when a provider attempt may be repeated, and the closed-form  *)
(* bound on the number of agent invocations of a run.                      *)
(***************************************************************************)
EXTENDS Integers

(* Mutations of decide_retry, for the runs that must notice them.          *)
RetryIgnoringTermination(d, maxAttempts) ==
  /\ d.outcome = "PROVIDER_ERROR" /\ d.diag = "RETRYABLE" /\ d.attempt < maxAttempts
  /\ d.gitStatus = "SAFE" /\ d.persistence = "OK"
  /\ ~(d.role = "CODER" /\ d.targetChanged) /\ ~d.cancelRequested

RetryOfChangedTarget(d, maxAttempts) ==
  /\ d.outcome = "PROVIDER_ERROR" /\ d.diag = "RETRYABLE" /\ d.attempt < maxAttempts
  /\ d.term = "YES" /\ d.gitStatus = "SAFE" /\ d.persistence = "OK"
  /\ ~d.cancelRequested

(* `decide_retry`.  d is the evidence of one completed attempt.            *)
RetryAuthorized(d, maxAttempts) ==
  /\ d.outcome = "PROVIDER_ERROR"
  /\ d.diag = "RETRYABLE"
  /\ d.attempt < maxAttempts
  /\ d.term = "YES"
  /\ d.gitStatus = "SAFE"
  /\ d.persistence = "OK"
  /\ ~(d.role = "CODER" /\ d.targetChanged)
  /\ ~d.cancelRequested

OneAgentPerCycle(maxReviewCycles) == 1 + maxReviewCycles  \* mutation

LogicalInvocationCount(maxReviewCycles) == 1 + 2 * maxReviewCycles

MaxOpencodeInvocations(maxReviewCycles, maxAttempts) ==
  maxAttempts * LogicalInvocationCount(maxReviewCycles)
=============================================================================
