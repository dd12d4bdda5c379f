---------------------------- MODULE StateMachine ----------------------------
(***************************************************************************)
(* The pure decisions of state_machine.py and of `_classify_agent_result`: *)
(* the phase automaton, the two precedences that reduce concurrent signals *)
(* to one outcome, the gate that decides FINAL_STATUS and the exit code.   *)
(* No variable: the modules of the run apply these operators in their      *)
(* actions.                                                                *)
(***************************************************************************)
EXTENDS Integers

None == "NONE"          \* Python's None, for an outcome, a status or a response
NoCycle == 0            \* review_cycle of a phase that carries none

GitStatuses == {"SAFE", "UNSAFE", "INDETERMINATE"}
PersistenceStatuses == {"OK", "FAILED", "INCOMPLETE"}

FailablePhases == {"PREFLIGHT", "ARCHITECT", "CODER", "REVIEWER"}

Phases == FailablePhases \cup {"POSTFLIGHT", "FINALIZATION", "FINISHED"}

(* The unconditional edges of `transition`, by event.                      *)
Edges ==
  [PREFLIGHT_SUCCEEDED    |-> [from |-> "PREFLIGHT", to |-> "ARCHITECT"],
   ARCHITECT_READY        |-> [from |-> "ARCHITECT", to |-> "CODER"],
   CODER_COMPLETED        |-> [from |-> "CODER", to |-> "REVIEWER"],
   REVIEWER_APPROVED      |-> [from |-> "REVIEWER", to |-> "POSTFLIGHT"],
   POSTFLIGHT_COMPLETED   |-> [from |-> "POSTFLIGHT", to |-> "FINALIZATION"],
   FINALIZATION_COMPLETED |-> [from |-> "FINALIZATION", to |-> "FINISHED"]]

Moved(phase, cycle, outcome) == [phase |-> phase, cycle |-> cycle, outcome |-> outcome]

Rejected == Moved("REJECTED", NoCycle, None)   \* the code raises ValueError

(* `transition`: the next phase, its review cycle and the outcome it fixes.*)
(* The PipelineAction of the code is determined by the next phase.         *)
Transition(state, event, maxCycles) ==
  IF event.kind = "TERMINAL_OUTCOME" /\ state.phase \in FailablePhases
  THEN Moved("POSTFLIGHT", NoCycle, event.outcome)
  ELSE IF event.kind = "REVIEWER_CHANGES_REQUIRED" /\ state.phase = "REVIEWER"
  THEN IF state.cycle < maxCycles
       THEN Moved("CODER", state.cycle + 1, None)
       ELSE Moved("POSTFLIGHT", NoCycle, "REVIEW_CYCLES_EXHAUSTED")
  ELSE IF event.kind \in DOMAIN Edges /\ state.phase = Edges[event.kind].from
  THEN LET to == Edges[event.kind].to
       IN Moved(to, IF to = "CODER" THEN 1
                    ELSE IF to = "REVIEWER" THEN state.cycle ELSE NoCycle, None)
  ELSE Rejected

-----------------------------------------------------------------------------
(* Attempt precedence.                                                     *)

AttemptSignals == {"TIMEOUT", "PROVIDER_ERROR", "PROCESS_ERROR",
                   "PROTOCOL_ERROR", "AGENT_REPORTED_FAILURE", "SUCCEEDED"}

(* Position in _ATTEMPT_SIGNAL_PRECEDENCE, the highest precedence first.   *)
Rank == [TIMEOUT |-> 1, PROVIDER_ERROR |-> 2, PROCESS_ERROR |-> 3,
         PROTOCOL_ERROR |-> 4, AGENT_REPORTED_FAILURE |-> 5, SUCCEEDED |-> 6]

ClassifyAttemptOutcome(signals) ==
  CHOOSE s \in signals : \A t \in signals : Rank[s] <= Rank[t]

ProcessErrorLike == {"PROCESS_ERROR", "LOGGING_ERROR", "INTERRUPTED"}

(* `_classify_agent_result`: the terminal response is consulted only when  *)
(* no technical signal is present.                                         *)
TechnicalSignals(agent) ==
  {s \in {"TIMEOUT", "PROVIDER_ERROR", "PROCESS_ERROR"} :
     \/ s = "TIMEOUT" /\ agent.proc.outcome = "TIMEOUT"
     \/ s = "PROVIDER_ERROR" /\ agent.diag # None
     \/ s = "PROCESS_ERROR" /\ agent.proc.outcome \in ProcessErrorLike}

ResponseSignal(agent) ==
  IF agent.response = None THEN "PROTOCOL_ERROR"
  ELSE IF agent.response = "FAILED" THEN "AGENT_REPORTED_FAILURE"
  ELSE "SUCCEEDED"

AgentSignals(agent) ==
  IF TechnicalSignals(agent) = {} THEN {ResponseSignal(agent)}
  ELSE TechnicalSignals(agent)

ClassifyAgentResult(agent) == ClassifyAttemptOutcome(AgentSignals(agent))

-----------------------------------------------------------------------------
(* Terminal precedence, final gate and exit code.                          *)

TerminalCauses(trigger, gitStatus, interrupted, persistence) ==
  {trigger} \cup {c \in {"INTERRUPTED", "GIT_SAFETY_ERROR", "LOGGING_ERROR"} :
                    \/ c = "INTERRUPTED" /\ interrupted
                    \/ c = "GIT_SAFETY_ERROR" /\ gitStatus # "SAFE"
                    \/ c = "LOGGING_ERROR" /\ persistence # "OK"}

ResolveTerminalOutcome(trigger, gitStatus, interrupted, persistence) ==
  LET causes == TerminalCauses(trigger, gitStatus, interrupted, persistence)
  IN IF "LOGGING_ERROR" \in causes THEN "LOGGING_ERROR"
     ELSE IF "GIT_SAFETY_ERROR" \in causes THEN "GIT_SAFETY_ERROR"
     ELSE IF "INTERRUPTED" \in causes THEN "INTERRUPTED"
     ELSE trigger

(* `evaluate_final_gate`; a ref stands for the pair (branch, HEAD).        *)
EvaluateFinalGate(review, gitStatus, baselineRef, postflightRef, persistence) ==
  IF /\ review = "APPROVED"
     /\ gitStatus = "SAFE"
     /\ postflightRef = baselineRef
     /\ persistence = "OK"
  THEN "APPROVED" ELSE "FAILED"

PreflightOutcomes == {"CONFIG_ERROR", "PREFLIGHT_ERROR"}

RunOutcomes == AttemptSignals \cup PreflightOutcomes \cup
  {"REVIEW_CYCLES_EXHAUSTED", "GIT_SAFETY_ERROR", "LOGGING_ERROR", "INTERRUPTED"}

ExitCodeByOutcome ==
  [o \in RunOutcomes |-> IF o \in PreflightOutcomes THEN 10
                         ELSE IF o = "GIT_SAFETY_ERROR" THEN 30
                         ELSE IF o = "LOGGING_ERROR" THEN 40
                         ELSE 20]

ResolveExitCode(finalStatus, outcome) ==
  IF finalStatus = "APPROVED" THEN 0 ELSE ExitCodeByOutcome[outcome]
=============================================================================
