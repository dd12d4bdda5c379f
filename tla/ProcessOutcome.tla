---------------------------- MODULE ProcessOutcome ---------------------------
(***************************************************************************)
(* What one call of SubprocessRunner.run can report of a child: the three  *)
(* facts of a ProcessResult the callers decide on.  ProcessRunner shows    *)
(* that the threads of process.py report nothing else; the agent loop      *)
(* relies on no more.                                                      *)
(***************************************************************************)
EXTENDS StateMachine

(* The reasons for which the runner itself ends the child.                 *)
StopReasons == {"TIMEOUT", "INTERRUPTED", "LOGGING_ERROR"}

ProcessOutcomes == StopReasons \cup {"SUCCEEDED", "PROCESS_ERROR"}

NoResult == [outcome |-> None, interrupted |-> FALSE, term |-> None]

BuildOutcomeFromCode(stop, code, confirmed) ==  \* mutation
  IF stop # None THEN stop
  ELSE IF code = "zero" THEN "SUCCEEDED" ELSE "PROCESS_ERROR"

(* `build_process_result`: at most one reason to stop was observed.        *)
BuildOutcome(stop, code, confirmed) ==
  IF stop # None THEN stop
  ELSE IF code = "zero" /\ confirmed THEN "SUCCEEDED" ELSE "PROCESS_ERROR"

(* caught: a signal was handled during the call; mayOutlive: a child can   *)
(* outlive SIGKILL and the grace that follows it.  A signal may be caught  *)
(* too late to be seen, after the exit code was accepted or while the      *)
(* group is being ended for another reason.                                *)
PossibleResults(caught, mayOutlive) ==
  {p \in [outcome : ProcessOutcomes, interrupted : BOOLEAN, term : {"YES", "NO"}] :
     /\ p.outcome = "SUCCEEDED" => p.term = "YES"
     /\ p.term = "NO" => mayOutlive
     /\ p.outcome = "INTERRUPTED" => p.interrupted
     /\ p.interrupted => caught /\ p.outcome \in {"INTERRUPTED", "LOGGING_ERROR"}}
=============================================================================
