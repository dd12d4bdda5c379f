--------------------------- MODULE IssueRunProofs ---------------------------
(***************************************************************************)
(* Theorems about IssueRun, for every number of review cycles and of       *)
(* provider attempts, every set of refs and trees, and without the bounds  *)
(* TLC needs.                                                              *)
(***************************************************************************)
EXTENDS IssueRun, WellFoundedInduction, TLAPS

(* ClassifyAttemptOutcome picks one of the signals it is given.            *)
LEMMA ClassifyPicksSignal ==
  ASSUME NEW S \in SUBSET AttemptSignals, S # {}
  PROVE  ClassifyAttemptOutcome(S) \in S
<1>1. \A s \in AttemptSignals : Rank[s] \in 1..6
  BY DEF AttemptSignals, Rank
<1>2. \E s \in S : \A t \in S : Rank[s] <= Rank[t]
  <2>1. CASE "TIMEOUT" \in S
    BY <2>1, <1>1 DEF Rank, AttemptSignals
  <2>2. CASE "TIMEOUT" \notin S /\ "PROVIDER_ERROR" \in S
    BY <2>2 DEF Rank, AttemptSignals
  <2>3. CASE S \cap {"TIMEOUT", "PROVIDER_ERROR"} = {} /\ "PROCESS_ERROR" \in S
    BY <2>3 DEF Rank, AttemptSignals
  <2>4. CASE S \cap {"TIMEOUT", "PROVIDER_ERROR", "PROCESS_ERROR"} = {}
             /\ "PROTOCOL_ERROR" \in S
    BY <2>4 DEF Rank, AttemptSignals
  <2>5. CASE /\ S \subseteq {"AGENT_REPORTED_FAILURE", "SUCCEEDED"}
             /\ "AGENT_REPORTED_FAILURE" \in S
    BY <2>5 DEF Rank
  <2>6. CASE S \subseteq {"SUCCEEDED"}
    <3>1. PICK s \in S : TRUE
      OBVIOUS
    <3> QED BY <2>6, <3>1 DEF Rank
  <2> QED BY <2>1, <2>2, <2>3, <2>4, <2>5, <2>6 DEF AttemptSignals
<1> QED BY <1>2 DEF ClassifyAttemptOutcome

(* The outcome of an agent is one of the six attempt outcomes, and it is   *)
(* SUCCEEDED only without any technical signal and with a response that is *)
(* not FAILED (_classify_agent_result).                                    *)
LEMMA ClassifyAgent ==
  ASSUME NEW a \in AgentTypes
  PROVE  /\ ClassifyAgentResult(a) \in AttemptSignals
         /\ ClassifyAgentResult(a) = "SUCCEEDED" =>
              /\ a.response \notin {None, "FAILED"}
              /\ a.diag = None
              /\ a.proc.outcome \in {"SUCCEEDED", None}
<1>1. AgentSignals(a) \in SUBSET AttemptSignals /\ AgentSignals(a) # {}
  BY DEF AgentSignals, TechnicalSignals, ResponseSignal, AttemptSignals, None
<1>2. ClassifyAgentResult(a) \in AgentSignals(a)
  BY <1>1, ClassifyPicksSignal DEF ClassifyAgentResult
<1>3. "SUCCEEDED" \in AgentSignals(a) =>
        TechnicalSignals(a) = {} /\ a.response \notin {None, "FAILED"}
  BY DEF AgentSignals, TechnicalSignals, ResponseSignal, None
<1>4. TechnicalSignals(a) = {} => a.diag = None /\ a.proc.outcome \in {"SUCCEEDED", None}
  BY DEF TechnicalSignals, AgentTypes, ProcessTypes, ProcessOutcomes, StopReasons,
         ProcessErrorLike
<1> QED BY <1>1, <1>2, <1>3, <1>4

-----------------------------------------------------------------------------
(* Typing.  TypeOK alone is not inductive: that `attempt` stays within     *)
(* max_attempts, that a response fits its role (or `transition` would      *)
(* raise) and that finalize_run is given an outcome depend on where the    *)
(* program is.                                                             *)

Fits(r, response) == response \in Responses[r] \cup {None}

Placed ==
  /\ role # "ARCHITECT" => cycle # 0
  /\ Fits(role, agent.response)
  /\ \A i \in 1..Len(results) : Fits(results[i].role, results[i].agent.response)
  /\ pc \notin {"promote", "footer", "after", "record"} => agent = NoAgent
  /\ pc = "decide" =>
       /\ Len(results) > 0
       /\ Last(results).role = role /\ Last(results).cycle = cycle
       /\ Last(results).attempt = attempt
       /\ Last(results).retry => attempt < MaxAttempts
  /\ pc \in FinalPoints => fin.trigger \in RunOutcomes

TypeInv == TypeOK /\ Placed

(* A Git check has its type, and a SAFE one knows the state it saw.        *)
LEMMA GitChecksType ==
  ASSUME repo \in GitStates, NEW baseline, NEW r, NEW c \in GitChecks(baseline, r)
  PROVE  c \in Checks /\ (c.status = "SAFE" => c.state \in GitStates)
BY DEF GitChecks, Compare, Checks, GitStatuses

(* Every AgentResult the runner can return is one, with a response that its *)
(* role has.                                                               *)
LEMMA AgentResultSetType ==
  ASSUME role \in Roles, NEW a \in AgentResultSet
  PROVE  a \in AgentTypes /\ Fits(role, a.response)
BY DEF AgentResultSet, AgentTypes, ProcessResults, PossibleResults, ProcessTypes,
       ProcessOutcomes, StopReasons, Roles,
       Responses, ResponseTexts, Fits

(* The AgentResults that stand for no agent and for a failed sandbox.      *)
LEMMA NoAgentType == NoAgent \in AgentTypes /\ SandboxFailure \in AgentTypes
BY DEF NoAgent, NoResult, SandboxFailure, AgentTypes, ProcessTypes, ProcessOutcomes,
       StopReasons

(* What _AttemptLogFooterError carries.                                    *)
Footers == [interrupted : BOOLEAN, term : {"YES", "NO", None}]

(* The `except` branch hands finalize_run arguments of their types.        *)
LEMMA FinAfterErrorType ==
  ASSUME TypeInv, NEW outcome \in RunOutcomes, NEW footer \in Footers
  PROVE  FinAfterError(outcome, footer) \in FinTypes
BY DEF FinAfterError, FinTypes, Footers, TypeInv, TypeOK, PersistenceStatuses

(* Every way an exception leaves the loop keeps the types.                 *)
LEMMA RaiseKeepsTypes ==
  ASSUME TypeInv, UNCHANGED finVars,
         NEW outcome \in RunOutcomes, NEW footer \in Footers,
         RaiseWith(outcome, footer), persistBlocked' \in BOOLEAN,
         orphans' = orphans, childSignal' = childSignal
  PROVE  TypeInv'
<1>1. fin' \in FinTypes /\ fin'.trigger \in RunOutcomes
  BY FinAfterErrorType DEF RaiseWith, FinAfterError
<1>2. agent' = NoAgent /\ NoAgent \in AgentTypes /\ NoAgent.response = None
  BY NoAgentType DEF RaiseWith, ClearLocals, NoAgent, NoResult
<1>3. TypeOK'
  BY <1>1, <1>2 DEF TypeInv, TypeOK, RaiseWith, ClearLocals, position, env, counts,
     finVars, NoCheck, Unknown, Checks, FinalPoints
<1>4. Placed'
  BY <1>1, <1>2 DEF TypeInv, Placed, Fits, RaiseWith, position, FinalPoints
<1> QED BY <1>3, <1>4 DEF TypeInv

(* So does an exception nobody catches.                                    *)
LEMMA EscapeKeepsTypes ==
  ASSUME TypeInv, UNCHANGED finVars, Escape, orphans' \subseteq {"agent", "utility"}
  PROVE  TypeInv'
<1>1. agent' = NoAgent /\ NoAgent \in AgentTypes /\ NoAgent.response = None
  BY NoAgentType DEF Escape, ClearLocals, NoAgent, NoResult
<1>2. TypeOK'
  BY <1>1 DEF TypeInv, TypeOK, Escape, ClearLocals, position, env, counts,
     finVars, NoCheck, Unknown, Checks, Stopped
<1>3. Placed'
  BY <1>1 DEF TypeInv, Placed, Fits, Escape, position, FinalPoints
<1> QED BY <1>2, <1>3 DEF TypeInv

(* Appending the result of the current invocation keeps the types.         *)
LEMMA ReportKeepsTypes ==
  ASSUME TypeInv, UNCHANGED finVars,
         NEW blocked \in {"GIT_SAFETY_ERROR", "PROTOCOL_ERROR", None},
         NEW retry \in BOOLEAN, retry => attempt < MaxAttempts,
         Report(blocked, retry),
         persistBlocked' = persistBlocked, orphans' = orphans,
         childSignal' = childSignal
  PROVE  TypeInv'
<1> DEFINE r == [role |-> role, cycle |-> cycle, attempt |-> attempt,
                 before |-> before, agent |-> agent, after |-> after,
                 blocked |-> blocked, retry |-> retry]
<1>1. r \in ResultTypes
  BY DEF TypeInv, TypeOK, ResultTypes
<1>2. results \in Seq(ResultTypes) /\ results' = Append(results, r)
  BY DEF TypeInv, TypeOK, Report
<1>3. /\ results' \in Seq(ResultTypes) /\ Len(results') = Len(results) + 1
      /\ Last(results') = r
      /\ \A i \in 1..Len(results) : results'[i] = results[i]
  BY <1>1, <1>2 DEF Last
<1>4. agent' = NoAgent /\ NoAgent \in AgentTypes /\ NoAgent.response = None
  BY NoAgentType DEF Report, ClearLocals, NoAgent, NoResult
<1>5. TypeOK'
  BY <1>3, <1>4 DEF TypeInv, TypeOK, Report, ClearLocals, position, env, counts,
     finVars, NoCheck, Unknown, Checks, LoopPoints
<1>6. \A i \in 1..Len(results') : Fits(results'[i].role, results'[i].agent.response)
  <2> SUFFICES ASSUME NEW i \in 1..Len(results')
               PROVE  Fits(results'[i].role, results'[i].agent.response)
    OBVIOUS
  <2>1. CASE i \in 1..Len(results)
    BY <2>1, <1>3 DEF TypeInv, Placed
  <2>2. CASE i = Len(results')
    BY <2>2, <1>3 DEF TypeInv, Placed, Last
  <2> QED BY <2>1, <2>2, <1>2, <1>3
<1>7. Placed'
  BY <1>2, <1>3, <1>4, <1>6 DEF TypeInv, Placed, Fits, Report, position, FinalPoints
<1> QED BY <1>5, <1>7 DEF TypeInv

(* Both records finalize_run can build have a final status, an outcome and *)
(* an exit code of the documented sets.                                    *)
LEMMA TerminalRecordType ==
  ASSUME fin.trigger \in RunOutcomes, fin \in FinTypes, NEW i \in BOOLEAN
  PROVE  TerminalRecord(i) \in RecordTypes /\ Fallback(i) \in RecordTypes
<1>1. \A t \in RunOutcomes : \A g, p : ResolveTerminalOutcome(t, g, i, p) \in RunOutcomes
  BY DEF ResolveTerminalOutcome, TerminalCauses, RunOutcomes
<1>2. \A o \in RunOutcomes : ExitCodeByOutcome[o] \in {10, 20, 30, 40}
  BY DEF ExitCodeByOutcome
<1>3. \A f \in {"APPROVED", "FAILED"} : \A o \in RunOutcomes :
        ResolveExitCode(f, o) \in {0, 10, 20, 30, 40}
  BY <1>2 DEF ResolveExitCode
<1>4. \A r, g, b, p, q : EvaluateFinalGate(r, g, b, p, q) \in {"APPROVED", "FAILED"}
  BY DEF EvaluateFinalGate
<1>5. fin.persistence \in PersistenceStatuses
  BY DEF FinTypes
<1> QED BY <1>1, <1>3, <1>4, <1>5
        DEF TerminalRecord, Fallback, RecordTypes, PersistenceStatuses

(* What `transition` answers to the event of a completed invocation: it is *)
(* never refused, and the review cycle stays in range.                     *)
LEMMA SuccessorType ==
  ASSUME TypeInv, ConstantsAssumption, pc = "decide"
  PROVE  /\ Successor.phase \in Roles =>
              Successor.cycle \in 1..MaxReviewCycles
         /\ Successor.phase \in Roles \cup {"POSTFLIGHT"}
         /\ Successor.outcome \in RunOutcomes \cup {None}
<1> DEFINE r == Last(results)
<1>1. r \in ResultTypes /\ r.role = role /\ Fits(role, r.agent.response)
  BY DEF TypeInv, TypeOK, Placed, Last
<1>2. r.agent \in AgentTypes /\ r.blocked \in {"GIT_SAFETY_ERROR", "PROTOCOL_ERROR", None}
  BY <1>1 DEF ResultTypes
<1>3. AttemptOutcome(r) \in RunOutcomes
  BY <1>2, ClassifyAgent DEF AttemptOutcome, RunOutcomes, AttemptSignals, None
<1>4. AttemptOutcome(r) = "SUCCEEDED" => r.agent.response \in Responses[role] \ {"FAILED"}
  BY <1>1, <1>2, ClassifyAgent DEF AttemptOutcome, Fits, None
<1>5. /\ role \in Roles /\ cycle \in 0..MaxReviewCycles /\ MaxReviewCycles \in Nat \ {0}
      /\ role # "ARCHITECT" => cycle # 0
  BY DEF TypeInv, TypeOK, Placed, ConstantsAssumption
<1>6. CASE AttemptOutcome(r) # "SUCCEEDED"
  BY <1>3, <1>5, <1>6 DEF Successor, EventOf, Transition, Moved, Roles, FailablePhases
<1>7. CASE AttemptOutcome(r) = "SUCCEEDED" /\ role = "ARCHITECT"
  BY <1>4, <1>5, <1>7 DEF Successor, EventOf, Transition, Moved, Roles, Edges,
     EventOfResponse, Responses
<1>8. CASE AttemptOutcome(r) = "SUCCEEDED" /\ role = "CODER"
  BY <1>4, <1>5, <1>8 DEF Successor, EventOf, Transition, Moved, Roles, Edges,
     EventOfResponse, Responses
<1>9. CASE AttemptOutcome(r) = "SUCCEEDED" /\ role = "REVIEWER"
  BY <1>4, <1>5, <1>9 DEF Successor, EventOf, Transition, Moved, Roles, Edges,
     EventOfResponse, Responses, RunOutcomes, NoCycle
<1> QED BY <1>5, <1>6, <1>7, <1>8, <1>9 DEF Roles

(* A nonempty set of positions of a sequence has a greatest member.        *)
LEMMA LastIndexExists ==
  ASSUME NEW n \in Nat, NEW S \in SUBSET (1..n), S # {}
  PROVE  \E i \in S : \A j \in S : j <= i
<1> DEFINE D == {n - i : i \in S}  \* distances from the end
<1>1. D \subseteq Nat /\ D # {}
  <2>1. \A i \in S : n - i \in Nat
    OBVIOUS
  <2>2. PICK i \in S : TRUE
    OBVIOUS
  <2>3. n - i \in D
    OBVIOUS
  <2> QED BY <2>1, <2>3
<1>2. PICK d \in D : \A e \in D : ~(<<e, d>> \in OpToRel(<, Nat))
  BY <1>1, NatLessThanWellFounded, WFMin
<1>3. \A e \in D : ~(e < d)
  BY <1>1, <1>2 DEF OpToRel
<1>4. PICK i \in S : d = n - i
  OBVIOUS
<1>5. ASSUME NEW j \in S PROVE j <= i
  <2>1. n - j \in D /\ j \in Nat /\ i \in Nat
    OBVIOUS
  <2>2. ~(n - j < n - i)
    BY <1>3, <1>4, <2>1
  <2> QED BY <2>1, <2>2
<1> QED BY <1>5

(* Only agents and Git children can be left behind.                        *)
LEMMA OrphansType ==
  ASSUME orphans \subseteq {"agent", "utility"},
         \/ UtilityMaySurvive
         \/ \E check : OrphanAfterCheck(check)
  PROVE  orphans' \subseteq {"agent", "utility"}
BY DEF UtilityMaySurvive, OrphanAfterCheck

(* Every step of the program, and of its environment, keeps the types.     *)
LEMMA TypeInvStep ==
  ASSUME TypeInv, ConstantsAssumption, [Next]_vars
  PROVE  TypeInv'
<1> USE DEF TypeInv, Placed, TypeOK, Fits, LoopPoints, FinalPoints, Stopped,
            position, locals, env, counts, finVars
<1> NoFooter \in Footers /\ {"LOGGING_ERROR", "INTERRUPTED"} \subseteq RunOutcomes
  BY DEF NoFooter, Footers, RunOutcomes
<1>1. CASE EnterRefused /\ UNCHANGED finVars
  BY <1>1, RaiseKeepsTypes DEF EnterRefused, Raise
<1>2. CASE OpenSinkFails /\ UNCHANGED finVars
  BY <1>2, RaiseKeepsTypes DEF OpenSinkFails, MayEnter, Raise
<1>3. CASE OpenSink /\ UNCHANGED finVars
  BY <1>3 DEF OpenSink, MayEnter
<1>4. CASE CheckBefore /\ UNCHANGED finVars
  <2>1. before' \in Checks
    BY <1>4, GitChecksType DEF CheckBefore
  <2>2. orphans' \subseteq {"agent", "utility"}
    BY <1>4, OrphansType DEF CheckBefore
  <2> QED BY <1>4, <2>1, <2>2 DEF CheckBefore
<1>5. CASE BlockInvocation /\ UNCHANGED finVars
  <2> DEFINE b == IF before.status # "SAFE" THEN "GIT_SAFETY_ERROR" ELSE "PROTOCOL_ERROR"
  <2>1. CASE Report(b, FALSE)
    BY <1>5, <2>1, ReportKeepsTypes DEF BlockInvocation
  <2>2. CASE Raise("LOGGING_ERROR")
    BY <1>5, <2>2, RaiseKeepsTypes DEF BlockInvocation, Raise
  <2> QED BY <1>5, <2>1, <2>2 DEF BlockInvocation
<1>6. CASE ControlPlaneUnchanged /\ UNCHANGED finVars
  BY <1>6 DEF ControlPlaneUnchanged
<1>7. CASE SandboxFails /\ UNCHANGED finVars
  <2>1. orphans' \subseteq {"agent", "utility"}
    BY <1>7, OrphansType DEF SandboxFails
  <2>2. CASE Escape
    BY <1>7, <2>1, <2>2, EscapeKeepsTypes
  <2>3. SandboxFailure.response = None /\ SandboxFailure.proc.term = "YES"
        /\ SandboxFailure.proc.interrupted = FALSE
    BY DEF SandboxFailure, NoAgent, NoResult
  <2>4. CASE ~Escape
    BY <1>7, <2>1, <2>3, <2>4, NoAgentType DEF SandboxFails, AgentReturns
  <2> QED BY <2>2, <2>4
<1>8. CASE HeaderFails /\ UNCHANGED finVars
  BY <1>8, RaiseKeepsTypes DEF HeaderFails, Raise
<1>9. CASE StartAgent /\ UNCHANGED finVars
  BY <1>9 DEF StartAgent, Unknown
<1>10. CASE AgentExits /\ UNCHANGED finVars
  <2>1. PICK a \in AgentResultSet :
          /\ agent' = a
          /\ pc' = IF Promotable(a) THEN "promote" ELSE "footer"
          /\ orphans' = IF a.proc.term = "NO" THEN orphans \cup {"agent"} ELSE orphans
    BY <1>10 DEF AgentExits
  <2>2. agent' \in AgentTypes /\ Fits(role, agent'.response)
    BY <2>1, AgentResultSetType
  <2>3. orphans' \subseteq {"agent", "utility"}
    BY <2>1
  <2>4. pc' \in {"promote", "footer"}
    BY <2>1
  <2>5. TypeOK'
    BY <1>10, <2>2, <2>3, <2>4 DEF AgentExits
  <2>6. Placed'
    BY <1>10, <2>2, <2>4 DEF AgentExits
  <2> QED BY <2>5, <2>6
<1>11. CASE Promote /\ UNCHANGED finVars
  <2>1. \A t \in Trees : [repo EXCEPT !.tree = t] \in GitStates
    BY DEF GitStates
  <2> QED BY <1>11, <2>1 DEF Promote
<1>12. CASE PromotionBlocked /\ UNCHANGED finVars
  <2>1. \A t \in Trees : [repo EXCEPT !.tree = t] \in GitStates
    BY DEF GitStates
  <2>2. [agent EXCEPT !.response = None] \in AgentTypes
        /\ [agent EXCEPT !.response = None].response = None
    BY DEF AgentTypes
  <2>3. orphans' \subseteq {"agent", "utility"}
    BY <1>12, OrphansType DEF PromotionBlocked
  <2>4. CASE Escape
    BY <1>12, <2>3, <2>4, EscapeKeepsTypes
  <2>5. CASE ~Escape
    <3>1. agent' \in AgentTypes /\ agent'.response = None /\ pc' = "footer"
      BY <1>12, <2>2, <2>5 DEF PromotionBlocked
    <3>2. repo' \in GitStates
      BY <1>12, <2>1, <2>5 DEF PromotionBlocked
    <3>3. TypeOK'
      BY <1>12, <2>3, <2>5, <3>1, <3>2 DEF PromotionBlocked
    <3>4. Placed'
      BY <1>12, <2>5, <3>1 DEF PromotionBlocked
    <3> QED BY <3>3, <3>4
  <2> QED BY <2>4, <2>5
<1>13. CASE WriteFooter /\ UNCHANGED finVars
  <2>1. agent.proc.term \in {"YES", "NO", None} /\ agent.proc.interrupted \in BOOLEAN
    BY DEF AgentTypes, ProcessTypes
  <2> QED BY <1>13, <2>1 DEF WriteFooter, AgentReturns
<1>14. CASE FooterFails /\ UNCHANGED finVars
  <2>1. [interrupted |-> agent.proc.interrupted, term |-> agent.proc.term] \in Footers
    BY DEF AgentTypes, ProcessTypes, Footers
  <2> QED BY <1>14, <2>1, RaiseKeepsTypes DEF FooterFails
<1>15. CASE CheckAfter /\ UNCHANGED finVars
  <2>1. after' \in Checks /\ (after'.status = "SAFE" => after'.state \in GitStates)
    BY <1>15, GitChecksType DEF CheckAfter
  <2>2. orphans' \subseteq {"agent", "utility"}
    BY <1>15, OrphansType DEF CheckAfter
  <2> QED BY <1>15, <2>1, <2>2 DEF CheckAfter
<1>16. CASE CloseFails /\ UNCHANGED finVars
  BY <1>16, RaiseKeepsTypes DEF CloseFails, Raise
<1>17. CASE RecordAttempt /\ UNCHANGED finVars
  <2>1. RetryDecision \in BOOLEAN /\ (RetryDecision => attempt < MaxAttempts)
    BY DEF RetryDecision, RetryAuthorized
  <2> QED BY <1>17, <2>1, ReportKeepsTypes DEF RecordAttempt
<1>18. CASE PersistFails /\ UNCHANGED finVars
  BY <1>18, RaiseKeepsTypes DEF PersistFails, Raise
<1>19. CASE RetryAttempt /\ UNCHANGED finVars
  BY <1>19 DEF RetryAttempt, ConstantsAssumption
<1>20. CASE Sleep /\ UNCHANGED finVars
  BY <1>20 DEF Sleep
<1>21. CASE NextInvocation /\ UNCHANGED finVars
  <2>1. Successor.phase \in Roles /\ Successor.cycle \in 1..MaxReviewCycles
    BY <1>21, SuccessorType DEF NextInvocation
  <2>2. agent' = NoAgent /\ NoAgent.response = None
    BY <1>21 DEF NextInvocation, NoAgent, NoResult
  <2>3. /\ role' \in Roles /\ cycle' \in 1..MaxReviewCycles /\ attempt' = 1 /\ pc' = "enter"
        /\ 1 \in 1..MaxAttempts
    BY <1>21, <2>1 DEF NextInvocation, ConstantsAssumption
  <2>4. TypeOK'
    BY <1>21, <2>3, ConstantsAssumption DEF NextInvocation
  <2>5. Placed'
    BY <1>21, <2>2, <2>3, ConstantsAssumption DEF NextInvocation
  <2> QED BY <2>4, <2>5
<1>22. CASE FinishLoop /\ UNCHANGED finVars
  <2>1. Successor.outcome \in RunOutcomes \cup {None}
    BY <1>22, SuccessorType DEF FinishLoop
  <2> DEFINE trigger == IF Successor.outcome = None THEN "SUCCEEDED" ELSE Successor.outcome
  <2>2. trigger \in RunOutcomes
    BY <2>1 DEF RunOutcomes, AttemptSignals
  <2>3. LastReviewStatus \in {"APPROVED", "CHANGES_REQUIRED", None}
    BY DEF LastReviewStatus
  <2>4. TerminationConfirmed \in {"YES", "NO", None} /\ AnyInterrupted \in BOOLEAN
    BY DEF TerminationConfirmed, AnyInterrupted
  <2>5. LastSafeState \in GitStates \cup {Unknown}
    <3>1. Baseline \in GitStates
      BY DEF Baseline, GitStates, ConstantsAssumption
    <3> DEFINE safe == {i \in AgentResults : results[i].after.status = "SAFE"}
               last == CHOOSE i \in safe : \A j \in safe : j <= i
    <3>2. CASE safe = {}
      BY <3>1, <3>2 DEF LastSafeState
    <3>3. CASE \E i \in safe : \A j \in safe : j <= i
      <4>1. last \in safe
        BY <3>3
      <4>2. last \in 1..Len(results)
        BY <4>1 DEF AgentResults
      <4>3. results[last] \in ResultTypes
        BY <4>2
      <4> QED BY <3>3, <4>1, <4>3 DEF LastSafeState, ResultTypes, Checks
    <3>4. safe \in SUBSET (1..Len(results)) /\ Len(results) \in Nat
      BY DEF AgentResults
    <3>5. safe # {} => \E i \in safe : \A j \in safe : j <= i
      BY <3>4, LastIndexExists
    <3> HIDE DEF safe
    <3> QED BY <3>2, <3>3, <3>5
  <2>6. fin' \in FinTypes /\ fin'.trigger = trigger
    BY <1>22, <2>2, <2>3, <2>4, <2>5
       DEF FinishLoop, FinAfterLoop, FinTypes, PersistenceStatuses
  <2> QED BY <1>22, <2>2, <2>6 DEF FinishLoop
<1>23. CASE SignalPipeline /\ UNCHANGED finVars
  BY <1>23 DEF SignalPipeline
<1>24. CASE SignalRunner /\ UNCHANGED finVars
  BY <1>24 DEF SignalRunner
<1>25. CASE EditTarget /\ UNCHANGED finVars
  BY <1>25 DEF EditTarget
<1>26. CASE Postflight
  <2>1. post' \in Checks
    BY <1>26, GitChecksType DEF Postflight
  <2>2. orphans' \subseteq {"agent", "utility"}
    BY <1>26, OrphansType DEF Postflight
  <2> QED BY <1>26, <2>1, <2>2 DEF Postflight, LoopDone
<1>27. CASE Quarantine
  BY <1>27 DEF Quarantine, LoopDone
<1>28. CASE Stage
  <2>1. fin.trigger \in RunOutcomes /\ Interrupted \in BOOLEAN
    BY <1>28 DEF Stage, Interrupted, FinTypes
  <2>2. \A i \in BOOLEAN : TerminalRecord(i) \in RecordTypes /\ Fallback(i) \in RecordTypes
    BY <2>1, TerminalRecordType
  <2>3. Unpublished \in RecordTypes
    BY DEF Unpublished, RecordTypes
  <2>4. \A i \in BOOLEAN : [fin EXCEPT !.interrupted = i] \in FinTypes
                          /\ [fin EXCEPT !.interrupted = i].trigger = fin.trigger
    BY DEF FinTypes
  <2>5. fin' \in FinTypes /\ fin'.trigger = fin.trigger
    BY <1>28, <2>1, <2>4 DEF Stage, StageRecord, StageFails
  <2>6. staged' \in RecordTypes /\ result' \in RecordTypes
    BY <1>28, <2>1, <2>2, <2>3 DEF Stage, StageRecord, StageFails
  <2> QED BY <1>28, <2>1, <2>5, <2>6 DEF Stage, LoopDone
<1>29. CASE RestageBeforeRelease
  <2>1. fin.trigger \in RunOutcomes /\ Interrupted \in BOOLEAN
    BY <1>29 DEF RestageBeforeRelease, Interrupted, FinTypes
  <2>2. \A i \in BOOLEAN : TerminalRecord(i) \in RecordTypes /\ Fallback(i) \in RecordTypes
    BY <2>1, TerminalRecordType
  <2>3. Unpublished \in RecordTypes
    BY DEF Unpublished, RecordTypes
  <2>4. /\ [fin EXCEPT !.interrupted = TRUE] \in FinTypes
        /\ [fin EXCEPT !.interrupted = TRUE].trigger = fin.trigger
    BY DEF FinTypes
  <2>5. fin' \in FinTypes /\ fin'.trigger = fin.trigger
    BY <1>29, <2>1, <2>4 DEF RestageBeforeRelease, StageRecord, StageFails
  <2>6. staged' \in RecordTypes /\ result' \in RecordTypes
    BY <1>29, <2>1, <2>2, <2>3 DEF RestageBeforeRelease, StageRecord, StageFails
  <2>7. pc' \in {"release", "abort"} /\ pc \notin LoopPoints
    BY <1>29 DEF RestageBeforeRelease
  <2>8. /\ UNCHANGED <<position, locals, results, lastAccepted, lastTerm,
                      persistBlocked, cancelRequested, repo, childSignal, env, counts>>
        /\ UNCHANGED <<sealed, orphans, post, runJson, lease, quarantine>>
    BY <1>29 DEF RestageBeforeRelease, LoopDone
  <2>9. TypeOK'
    BY <2>5, <2>6, <2>7, <2>8
  <2>10. Placed'
    BY <2>1, <2>5, <2>7, <2>8
  <2> QED BY <2>9, <2>10
<1>30. CASE RestageAfterRelease
  <2>1. fin.trigger \in RunOutcomes /\ Interrupted \in BOOLEAN
    BY <1>30 DEF RestageAfterRelease, Interrupted, FinTypes
  <2>2. \A i \in BOOLEAN : TerminalRecord(i) \in RecordTypes /\ Fallback(i) \in RecordTypes
    BY <2>1, TerminalRecordType
  <2>3. Unpublished \in RecordTypes
    BY DEF Unpublished, RecordTypes
  <2>4. /\ [fin EXCEPT !.interrupted = TRUE] \in FinTypes
        /\ [fin EXCEPT !.interrupted = TRUE].trigger = fin.trigger
    BY DEF FinTypes
  <2>5. fin' \in FinTypes /\ fin'.trigger = fin.trigger
    BY <1>30, <2>1, <2>4 DEF RestageAfterRelease, StageRecord, StageFails
  <2>6. staged' \in RecordTypes /\ result' \in RecordTypes
    BY <1>30, <2>1, <2>2, <2>3 DEF RestageAfterRelease, StageRecord, StageFails
  <2>7. pc' \in {"seal", "sealFallback"} /\ pc \notin LoopPoints
    BY <1>30 DEF RestageAfterRelease
  <2>8. /\ UNCHANGED <<position, locals, results, lastAccepted, lastTerm,
                      persistBlocked, cancelRequested, repo, childSignal, env, counts>>
        /\ UNCHANGED <<sealed, orphans, post, runJson, lease, quarantine>>
    BY <1>30 DEF RestageAfterRelease, LoopDone
  <2>9. TypeOK'
    BY <2>5, <2>6, <2>7, <2>8
  <2>10. Placed'
    BY <2>1, <2>5, <2>7, <2>8
  <2> QED BY <2>9, <2>10
<1>31. CASE RestageAfterSeal
  <2>1. fin.trigger \in RunOutcomes /\ Interrupted \in BOOLEAN
    BY <1>31 DEF RestageAfterSeal, Interrupted, FinTypes
  <2>2. \A i \in BOOLEAN : TerminalRecord(i) \in RecordTypes /\ Fallback(i) \in RecordTypes
    BY <2>1, TerminalRecordType
  <2>3. Unpublished \in RecordTypes
    BY DEF Unpublished, RecordTypes
  <2>4. /\ [fin EXCEPT !.interrupted = TRUE] \in FinTypes
        /\ [fin EXCEPT !.interrupted = TRUE].trigger = fin.trigger
    BY DEF FinTypes
  <2>5. fin' \in FinTypes /\ fin'.trigger = fin.trigger
    BY <1>31, <2>1, <2>4 DEF RestageAfterSeal, StageRecord, StageFails
  <2>6. staged' \in RecordTypes /\ result' \in RecordTypes
    BY <1>31, <2>1, <2>2, <2>3 DEF RestageAfterSeal, StageRecord, StageFails
  <2>7. pc' \in {"commit", "done"} /\ pc \notin LoopPoints
    BY <1>31 DEF RestageAfterSeal
  <2>8. /\ UNCHANGED <<position, locals, results, lastAccepted, lastTerm,
                      persistBlocked, cancelRequested, repo, childSignal, env, counts>>
        /\ UNCHANGED <<sealed, orphans, post, runJson, lease, quarantine>>
    BY <1>31 DEF RestageAfterSeal, LoopDone
  <2>9. TypeOK'
    BY <2>5, <2>6, <2>7, <2>8
  <2>10. Placed'
    BY <2>1, <2>5, <2>7, <2>8
  <2> QED BY <2>9, <2>10
<1>32. CASE SealFallback
  <2>1. fin.trigger \in RunOutcomes /\ Interrupted \in BOOLEAN
    BY <1>32 DEF SealFallback, Interrupted, FinTypes
  <2>2. Fallback(Interrupted) \in RecordTypes
    BY <2>1, TerminalRecordType
  <2>3. [fin EXCEPT !.interrupted = Interrupted] \in FinTypes
    BY <2>1 DEF FinTypes
  <2> QED BY <1>32, <2>2, <2>3 DEF SealFallback, LoopDone
<1>33. CASE ReleaseLease
  BY <1>33 DEF ReleaseLease, LoopDone
<1>34. CASE Seal
  BY <1>34 DEF Seal, LoopDone
<1>35. CASE Commit
  <2>1. fin.trigger \in RunOutcomes /\ fin.interrupted \in BOOLEAN
    BY <1>35 DEF Commit, FinTypes
  <2>2. Fallback(fin.interrupted) \in RecordTypes
    BY <2>1, TerminalRecordType
  <2>3. Unpublished \in RecordTypes
    BY DEF Unpublished, RecordTypes
  <2> QED BY <1>35, <2>2, <2>3 DEF Commit, LoopDone
<1>36. CASE ProcessExit
  BY <1>36 DEF ProcessExit, orchVars
<1>37. CASE UNCHANGED vars
  BY <1>37 DEF vars, orchVars
<1> QED
  BY <1>1, <1>2, <1>3, <1>4, <1>5, <1>6, <1>7, <1>8, <1>9, <1>10, <1>11,
     <1>12, <1>13, <1>14, <1>15, <1>16, <1>17, <1>18, <1>19, <1>20, <1>21,
     <1>22, <1>23, <1>24, <1>25, <1>26, <1>27, <1>28, <1>29, <1>30, <1>31,
     <1>32, <1>33, <1>34, <1>35, <1>36, <1>37
  DEF Next, Program, Environment, Over, Invocation, Loop, Finalize

(* The initial state of a run has its types.                               *)
LEMMA TypeInvInit ==
  ASSUME Init, ConstantsAssumption
  PROVE  TypeInv
<1> USE DEF Init, OrchestratorInit, FinalizationInit, ConstantsAssumption
<1>1. Baseline \in GitStates /\ Unknown \in GitStates \cup {Unknown}
  BY DEF Baseline, GitStates
<1>2. NoCheck \in Checks
  BY DEF NoCheck, Checks
<1>3. NoFin \in FinTypes
  BY DEF NoFin, FinTypes, PersistenceStatuses
<1>4. Unpublished \in RecordTypes
  BY DEF Unpublished, RecordTypes
<1>5. /\ role \in Roles /\ cycle \in 0..MaxReviewCycles /\ attempt \in 1..MaxAttempts
      /\ pc \in LoopPoints /\ results \in Seq(ResultTypes)
  BY DEF Roles, NoCycle, LoopPoints
<1>6. TypeOK
  BY <1>1, <1>2, <1>3, <1>4, <1>5, NoAgentType DEF TypeOK
<1>7. Placed
  BY DEF Placed, Fits, NoAgent, NoResult, FinalPoints, None
<1> QED BY <1>6, <1>7 DEF TypeInv

(* The program never leaves its types, for any configuration, target and   *)
(* number of signals and edits: attempt and review_cycle stay within       *)
(* their limits, no event is one `transition` refuses, and the review      *)
(* status handed to the final gate is a ReviewStatus or None.              *)
THEOREM Typing == Spec => []TypeOK
<1>1. Init => TypeInv
  BY ConstantsAssumption, TypeInvInit
<1>2. TypeInv /\ [Next]_vars => TypeInv'
  BY ConstantsAssumption, TypeInvStep
<1>3. TypeInv => TypeOK
  BY DEF TypeInv
<1> QED BY <1>1, <1>2, <1>3, PTL DEF Spec

(* The stronger invariant, for the proofs that need it.                    *)
THEOREM PlacedTyping == Spec => []TypeInv
<1>1. Init => TypeInv
  BY ConstantsAssumption, TypeInvInit
<1>2. TypeInv /\ [Next]_vars => TypeInv'
  BY ConstantsAssumption, TypeInvStep
<1> QED BY <1>1, <1>2, PTL DEF Spec

-----------------------------------------------------------------------------
(* The safety of a run.  Each invariant is proved inductive together with  *)
(* TypeInv; the step lemmas have one case per group of actions that treats *)
(* its variables alike.                                                    *)

-----------------------------------------------------------------------------
(* The closed form of retry.py bounds the agents started.  The bound holds *)
(* because the place in the loop determines how many agents can have run:  *)
(* all attempts of the earlier logical invocations, and those of this one. *)

(* How many logical invocations precede (role, cycle) in the loop.         *)
Earlier(r, c) == IF r = "ARCHITECT" THEN 0 ELSE IF r = "CODER" THEN 2 * c - 1 ELSE 2 * c

NotStarted == {"enter", "before", "recheck", "launch", "sleep"}

RunsUpTo(attempts) == MaxAttempts * Earlier(role, cycle) + attempts

RunsInv == agentRuns <= IF pc \in NotStarted THEN RunsUpTo(attempt - 1) ELSE RunsUpTo(attempt)

(* The edges of `transition` that stay in the loop visit the logical       *)
(* invocations in their order.                                             *)
LEMMA SuccessorIsNext ==
  ASSUME TypeInv, ConstantsAssumption, pc = "decide", Successor.phase \in Roles
  PROVE  Earlier(Successor.phase, Successor.cycle) = Earlier(role, cycle) + 1
<1>1. /\ role \in Roles /\ cycle \in 0..MaxReviewCycles /\ MaxReviewCycles \in Nat
  BY DEF TypeInv, TypeOK, ConstantsAssumption
<1> DEFINE e == EventOf(Last(results))
<1>2. e.kind # "TERMINAL_OUTCOME"
  BY <1>1 DEF Successor, Transition, Moved, Roles, FailablePhases, Rejected
<1>3. e.kind \in {"ARCHITECT_READY", "CODER_COMPLETED", "REVIEWER_APPROVED",
                  "REVIEWER_CHANGES_REQUIRED"}
  <2>1. e.kind = EventOfResponse[Last(results).agent.response]
        /\ AttemptOutcome(Last(results)) = "SUCCEEDED"
    BY <1>2 DEF EventOf
  <2>2. Last(results) \in ResultTypes
    BY DEF TypeInv, TypeOK, Placed, Last
  <2>3. Last(results).agent.response \in ResponseTexts \ {"FAILED"}
    BY <2>1, <2>2, ClassifyAgent DEF AttemptOutcome, ResultTypes, AgentTypes, None
  <2> QED BY <2>1, <2>3 DEF EventOfResponse, ResponseTexts
<1>4. Successor = Transition([phase |-> role, cycle |-> cycle], e, MaxReviewCycles)
  BY DEF Successor
<1> HIDE DEF e
<1>5. CASE role = "ARCHITECT"
  BY <1>1, <1>2, <1>3, <1>4, <1>5 DEF Transition, Moved, Edges, Earlier, Roles, Rejected
<1>6. CASE role = "CODER"
  BY <1>1, <1>2, <1>3, <1>4, <1>6 DEF Transition, Moved, Edges, Earlier, Roles, Rejected
<1>7. CASE role = "REVIEWER"
  BY <1>1, <1>2, <1>3, <1>4, <1>7 DEF Transition, Moved, Edges, Earlier, Roles, Rejected
<1> QED BY <1>1, <1>5, <1>6, <1>7 DEF Roles

(* Multiplication by a constant, as the bound uses it.                     *)
LEMMA Product ==
  ASSUME NEW m \in Nat, NEW a \in Nat
  PROVE  /\ m * a \in Nat /\ m * (a + 1) = m * a + m
         /\ \A b \in Nat : a <= b => m * a <= m * b
OBVIOUS

(* The invocations of earlier roles and cycles are at most all of them.    *)
LEMMA EarlierInRange ==
  ASSUME TypeInv, ConstantsAssumption
  PROVE  Earlier(role, cycle) \in Nat /\ Earlier(role, cycle) <= 2 * MaxReviewCycles
BY DEF TypeInv, TypeOK, Placed, Earlier, ConstantsAssumption, Roles

(* A step that moves neither the loop nor its counters, and does not go    *)
(* back before the start of the agent, keeps the bound.                    *)
LEMMA RunsUnmoved ==
  ASSUME TypeInv, ConstantsAssumption, RunsInv,
         UNCHANGED <<position, agentRuns>>, pc' \in NotStarted => pc \in NotStarted
  PROVE  RunsInv'
<1>1. MaxAttempts * Earlier(role, cycle) \in Nat
  BY EarlierInRange, Product DEF ConstantsAssumption
<1> QED BY <1>1 DEF RunsInv, RunsUpTo, position, TypeInv, TypeOK

(* Every step keeps the bound.  Only StartAgent counts an agent, and only  *)
(* RetryAttempt and NextInvocation move the loop on.                       *)
LEMMA RunsInvStep ==
  ASSUME TypeInv, ConstantsAssumption, RunsInv, [Next]_vars
  PROVE  RunsInv'
<1> USE DEF position, env, counts, locals, NotStarted
<1>0. /\ MaxAttempts * Earlier(role, cycle) \in Nat /\ Earlier(role, cycle) \in Nat
      /\ attempt \in 1..MaxAttempts /\ agentRuns \in Nat /\ MaxAttempts \in Nat \ {0}
  BY EarlierInRange, Product DEF ConstantsAssumption, TypeInv, TypeOK
<1>1. CASE EnterRefused \/ OpenSinkFails \/ OpenSink \/ CheckBefore
  BY <1>1, RunsUnmoved DEF EnterRefused, OpenSinkFails, MayEnter, Raise, RaiseWith,
     OpenSink, CheckBefore
<1>2. CASE BlockInvocation \/ ControlPlaneUnchanged \/ HeaderFails
  BY <1>2, RunsUnmoved DEF BlockInvocation, Report, Raise, RaiseWith,
     ControlPlaneUnchanged, HeaderFails
<1>3. CASE SandboxFails \/ AgentExits \/ Promote \/ PromotionBlocked
  BY <1>3, RunsUnmoved DEF SandboxFails, Escape, AgentReturns, AgentExits, Promote,
     PromotionBlocked
<1>4. CASE WriteFooter \/ FooterFails \/ CheckAfter \/ CloseFails
  BY <1>4, RunsUnmoved DEF WriteFooter, AgentReturns, FooterFails, Raise, RaiseWith,
     CheckAfter, CloseFails
<1>5. CASE RecordAttempt \/ PersistFails \/ Sleep \/ FinishLoop
  BY <1>5, RunsUnmoved DEF RecordAttempt, Report, PersistFails, Raise, RaiseWith,
     Sleep, FinishLoop
<1>6. CASE StartAgent
  BY <1>0, <1>6 DEF StartAgent, RunsInv, RunsUpTo
<1>7. CASE RetryAttempt
  <2>1. /\ agentRuns' = agentRuns /\ attempt' = attempt + 1 /\ pc' = "sleep" /\ pc = "decide"
        /\ UNCHANGED <<role, cycle>>
    BY <1>7 DEF RetryAttempt
  <2> QED BY <1>0, <2>1 DEF RunsInv, RunsUpTo
<1>8. CASE NextInvocation
  <2>1. /\ agentRuns' = agentRuns /\ attempt' = 1 /\ pc' = "enter" /\ pc = "decide"
        /\ Earlier(role, cycle)' = Earlier(role, cycle) + 1
    BY <1>8, SuccessorIsNext DEF NextInvocation, Earlier
  <2>2. agentRuns <= MaxAttempts * Earlier(role, cycle) + MaxAttempts
    BY <1>0, <2>1 DEF RunsInv, RunsUpTo
  <2>3. MaxAttempts * (Earlier(role, cycle) + 1)
          = MaxAttempts * Earlier(role, cycle) + MaxAttempts
    BY <1>0, Product
  <2>4. RunsUpTo(attempt - 1)' = MaxAttempts * (Earlier(role, cycle) + 1) + 0
    BY <2>1 DEF RunsUpTo
  <2> QED BY <1>0, <2>1, <2>2, <2>3, <2>4 DEF RunsInv
<1>9. CASE Environment
  BY <1>9, RunsUnmoved DEF Environment, SignalPipeline, SignalRunner, EditTarget
<1>10. CASE Finalize
  BY <1>10, RunsUnmoved DEF Finalize, Postflight, Quarantine, Stage,
     RestageBeforeRelease, ReleaseLease, RestageAfterRelease, SealFallback, Seal,
     RestageAfterSeal, Commit, LoopDone
<1>11. CASE ProcessExit \/ UNCHANGED vars
  BY <1>11, RunsUnmoved DEF ProcessExit, vars, orchVars
<1> QED
  BY <1>1, <1>2, <1>3, <1>4, <1>5, <1>6, <1>7, <1>8, <1>9, <1>10, <1>11
  DEF Next, Program, Invocation, Loop, Over

(* However the reviews, the provider and the environment behave, a run     *)
(* starts no more agents than max_opencode_invocations allows.             *)
THEOREM InvocationBudget == Spec => []AgentRunsBounded
<1> DEFINE I == TypeInv /\ RunsInv
<1>1. Init => I
  <2> SUFFICES ASSUME Init PROVE I
    OBVIOUS
  <2>1. TypeInv
    BY ConstantsAssumption, TypeInvInit
  <2>2. MaxAttempts * Earlier(role, cycle) = 0
    BY Product, ConstantsAssumption DEF Init, OrchestratorInit, Earlier, ConstantsAssumption
  <2>3. pc = "enter" /\ attempt = 1 /\ agentRuns = 0
    BY DEF Init, OrchestratorInit
  <2>4. RunsInv
    BY <2>2, <2>3 DEF RunsInv, RunsUpTo, NotStarted
  <2> QED BY <2>1, <2>4
<1>2. I /\ [Next]_vars => I'
  BY ConstantsAssumption, TypeInvStep, RunsInvStep
<1>3. I => AgentRunsBounded
  <2> SUFFICES ASSUME I PROVE AgentRunsBounded
    OBVIOUS
  <2> DEFINE e == Earlier(role, cycle)
  <2>1. e \in Nat /\ e <= 2 * MaxReviewCycles /\ MaxReviewCycles \in Nat /\ MaxAttempts \in Nat
    BY EarlierInRange, ConstantsAssumption DEF ConstantsAssumption
  <2>2. agentRuns <= MaxAttempts * e + MaxAttempts /\ agentRuns \in Nat
    BY <2>1, Product DEF RunsInv, RunsUpTo, TypeInv, TypeOK
  <2> HIDE DEF e
  <2>3. MaxAttempts * (e + 1) <= MaxAttempts * (1 + 2 * MaxReviewCycles)
    BY <2>1, Product
  <2>4. MaxAttempts * (e + 1) = MaxAttempts * e + MaxAttempts
    BY <2>1, Product
  <2>5. MaxAttempts * e \in Nat /\ MaxAttempts * (1 + 2 * MaxReviewCycles) \in Nat
    BY <2>1, Product
  <2> DEFINE x == MaxAttempts * e
             y == MaxAttempts * (1 + 2 * MaxReviewCycles)
  <2>6. agentRuns <= x + MaxAttempts /\ x + MaxAttempts <= y /\ x \in Nat /\ y \in Nat
    BY <2>2, <2>3, <2>4, <2>5
  <2> HIDE DEF x, y
  <2>7. agentRuns <= y
    BY <2>1, <2>2, <2>6
  <2> QED BY <2>7 DEF y, AgentRunsBounded, MaxOpencodeInvocations, LogicalInvocationCount
<1> QED BY <1>1, <1>2, <1>3, PTL DEF Spec

-----------------------------------------------------------------------------
(* A cancellation lets at most one more agent start: the one whose log was *)
(* already open when it came.                                              *)

LateInv ==
  \/ lateRuns = 0
  \/ lateRuns = 1 /\ cancelRequested /\ pc \notin {"before", "recheck", "launch"}

(* A cancellation, once requested, is never forgotten, and only StartAgent *)
(* counts a late agent: a step that does not lead to it keeps the bound.   *)
LEMMA LateUnmoved ==
  ASSUME LateInv, lateRuns' = lateRuns, cancelRequested => cancelRequested',
         pc' \in {"before", "recheck", "launch"} =>
           pc \in {"before", "recheck", "launch"} \/ ~cancelRequested
  PROVE  LateInv'
BY DEF LateInv

(* What the orchestrator learned of a cancellation stays.                  *)
LEMMA AgentReturnsRemembers ==
  ASSUME NEW r, AgentReturns(r)
  PROVE  (cancelRequested => cancelRequested') /\ pc' = "after"
BY DEF AgentReturns

(* finalize_run never goes back to the loop.                               *)
LEMMA FinalizeStays ==
  ASSUME Finalize
  PROVE  pc' \notin LoopPoints \cup {"postflight"} /\ pc \in FinalPoints
<1> USE DEF LoopPoints, FinalPoints
<1>1. CASE Postflight \/ Quarantine \/ Stage \/ RestageBeforeRelease
  BY <1>1 DEF Postflight, Quarantine, Stage, RestageBeforeRelease
<1>2. CASE ReleaseLease \/ RestageAfterRelease \/ SealFallback
  BY <1>2 DEF ReleaseLease, RestageAfterRelease, SealFallback
<1>3. CASE Seal \/ RestageAfterSeal \/ Commit
  BY <1>3 DEF Seal, RestageAfterSeal, Commit
<1> QED BY <1>1, <1>2, <1>3 DEF Finalize

(* Every step keeps that at most one late agent started.                   *)
LEMMA LateInvStep ==
  ASSUME TypeInv, LateInv, [Next]_vars
  PROVE  LateInv'
<1> USE DEF position, env, counts, locals
<1>1. CASE EnterRefused \/ OpenSinkFails \/ OpenSink \/ CheckBefore
  BY <1>1, LateUnmoved DEF EnterRefused, OpenSinkFails, MayEnter, Raise, RaiseWith,
     OpenSink, CheckBefore
<1>2. CASE BlockInvocation \/ ControlPlaneUnchanged \/ HeaderFails
  BY <1>2, LateUnmoved DEF BlockInvocation, Report, Raise, RaiseWith,
     ControlPlaneUnchanged, HeaderFails
<1>3. CASE SandboxFails \/ PromotionBlocked
  <2>1. CASE Escape
    BY <2>1, LateUnmoved DEF Escape
  <2>2. CASE ~Escape
    BY <1>3, <2>2, AgentReturnsRemembers, LateUnmoved DEF SandboxFails, PromotionBlocked
  <2> QED BY <2>1, <2>2
<1>4. CASE AgentExits \/ Promote \/ FooterFails \/ CheckAfter \/ CloseFails
  BY <1>4, LateUnmoved DEF AgentExits, Promote, FooterFails, Raise, RaiseWith,
     CheckAfter, CloseFails
<1>5. CASE WriteFooter
  BY <1>5, AgentReturnsRemembers, LateUnmoved DEF WriteFooter
<1>6. CASE RecordAttempt \/ PersistFails \/ Sleep \/ FinishLoop
  BY <1>6, LateUnmoved DEF RecordAttempt, Report, PersistFails, Raise, RaiseWith,
     Sleep, FinishLoop
<1>7. CASE StartAgent
  BY <1>7 DEF StartAgent, LateInv
<1>8. CASE RetryAttempt \/ NextInvocation
  BY <1>8, LateUnmoved DEF RetryAttempt, NextInvocation
<1>9. CASE Environment
  <2>1. cancelRequested \in BOOLEAN
    BY DEF TypeInv, TypeOK
  <2>2. CASE SignalPipeline
    <3>1. cancelRequested => cancelRequested'
      BY <2>2 DEF SignalPipeline
    <3> QED BY <2>2, <3>1, LateUnmoved DEF SignalPipeline
  <2>3. CASE SignalRunner \/ EditTarget
    BY <2>3, LateUnmoved DEF SignalRunner, EditTarget
  <2> QED BY <1>9, <2>2, <2>3 DEF Environment
<1>10. CASE Finalize
  <2>1. LoopDone
    BY <1>10 DEF Finalize, Postflight, Quarantine, Stage, RestageBeforeRelease,
       ReleaseLease, RestageAfterRelease, SealFallback, Seal, RestageAfterSeal, Commit
  <2>2. pc' \notin {"before", "recheck", "launch"}
    BY <1>10, FinalizeStays DEF LoopPoints
  <2> QED BY <2>1, <2>2, LateUnmoved DEF LoopDone
<1>11. CASE ProcessExit \/ UNCHANGED vars
  BY <1>11, LateUnmoved DEF ProcessExit, vars, orchVars
<1> QED
  BY <1>1, <1>2, <1>3, <1>4, <1>5, <1>6, <1>7, <1>8, <1>9, <1>10, <1>11
  DEF Next, Program, Invocation, Loop, Over

(* After a handled signal at most one agent starts, whatever the number of *)
(* further signals, cycles and retries.                                    *)
THEOREM CancellationStops == Spec => []CancellationStopsTheLoop
<1>1. Init => TypeInv /\ LateInv
  BY ConstantsAssumption, TypeInvInit DEF Init, OrchestratorInit, LateInv
<1>2. TypeInv /\ LateInv /\ [Next]_vars => TypeInv' /\ LateInv'
  BY ConstantsAssumption, TypeInvStep, LateInvStep
<1>3. LateInv => CancellationStopsTheLoop
  BY DEF LateInv, CancellationStopsTheLoop
<1> QED BY <1>1, <1>2, <1>3, PTL DEF Spec

-----------------------------------------------------------------------------
(* An agent nobody confirmed dead.  From the moment its result is built    *)
(* the evidence travels with the run: in the AgentResult, in               *)
(* last_observed_termination_confirmed, in the persisted result, in the    *)
(* arguments of finalize_run, and at last in the quarantine marker.        *)

Evidence ==
  "agent" \in orphans =>
    \/ pc = "footer" /\ agent.proc.term = "NO"
    \/ pc \in {"after", "record"} /\ agent.proc.term = "NO" /\ lastTerm = "NO"
    \/ /\ pc = "decide" /\ Last(results).blocked = None
       /\ Last(results).agent.proc.term = "NO" /\ ~Last(results).retry
    \/ pc \in {"postflight", "quarantine"} /\ fin.term = "NO"
    \/ pc \notin LoopPoints \cup {"postflight", "quarantine"} /\ quarantine # "absent"

(* build_process_result never reports a success beside an unconfirmed      *)
(* termination.                                                            *)
NoFalseSuccess(a) == a.proc.term = "NO" => a.proc.outcome \in ProcessOutcomes \ {"SUCCEEDED"}

OrphanInv ==
  /\ Evidence
  /\ NoFalseSuccess(agent)
  /\ pc = "promote" => agent.proc.term = "YES"
  /\ pc = "decide" => NoFalseSuccess(Last(results).agent)
  /\ pc \in {"before", "recheck", "launch"} => ~persistBlocked
  /\ lease = "released" => pc \notin LoopPoints \cup {"postflight", "quarantine"}

(* An attempt whose termination is unconfirmed ends the loop.              *)
LEMMA UnconfirmedEndsLoop ==
  ASSUME TypeInv, OrphanInv, pc = "decide", "agent" \in orphans
  PROVE  /\ Successor.phase \notin Roles
         /\ TerminationConfirmed = "NO"
<1> DEFINE r == Last(results)
<1>1. /\ r.blocked = None /\ r.agent.proc.term = "NO"
      /\ r.agent.proc.outcome \in ProcessOutcomes \ {"SUCCEEDED"}
  BY DEF OrphanInv, Evidence, NoFalseSuccess, LoopPoints
<1>2. r \in ResultTypes /\ Len(results) \in DOMAIN results /\ r = results[Len(results)]
  BY DEF TypeInv, TypeOK, Placed, Last
<1>3. r.agent \in AgentTypes
  BY <1>2 DEF ResultTypes
<1>4. AttemptOutcome(r) # "SUCCEEDED"
  BY <1>1, <1>3, ClassifyAgent DEF AttemptOutcome, ProcessOutcomes, StopReasons, None
<1>5. role \in Roles
  BY DEF TypeInv, TypeOK
<1>6. Successor.phase \notin Roles
  BY <1>4, <1>5 DEF Successor, EventOf, Transition, Moved, Roles, FailablePhases
<1>7. TerminationConfirmed = "NO"
  BY <1>1, <1>2 DEF TerminationConfirmed, AgentResults
<1> QED BY <1>6, <1>7

(* No child outlives the build_process_result of a successful agent.       *)
LEMMA AgentResultEvidence ==
  ASSUME NEW a \in AgentResultSet
  PROVE  /\ NoFalseSuccess(a)
         /\ a.proc.term = "NO" => ~Promotable(a)
         /\ Promotable(a) => a.proc.term = "YES"
BY DEF AgentResultSet, ProcessResults, PossibleResults, NoFalseSuccess, Promotable,
       ProcessOutcomes, StopReasons

(* Leaving the loop for finalize_run keeps the evidence, when the outcome  *)
(* comes with what the orchestrator observed last.                         *)
LEMMA RaiseKeepsEvidence ==
  ASSUME OrphanInv, UNCHANGED finVars, NEW outcome, NEW footer,
         RaiseWith(outcome, footer), orphans' = orphans, pc \in LoopPoints,
         "agent" \in orphans =>
           (footer.term = "NO" \/ (footer.term = None /\ lastTerm = "NO"))
  PROVE  OrphanInv'
<1> USE DEF RaiseWith, OrphanInv, finVars, ClearLocals, LoopPoints
<1>1. agent' = NoAgent /\ pc' = "postflight" /\ lease # "released"
  OBVIOUS
<1>2. "agent" \in orphans' => fin'.term = "NO"
  BY DEF FinAfterError, None
<1>3. Evidence'
  BY <1>1, <1>2 DEF Evidence
<1>4. NoFalseSuccess(agent)'
  BY <1>1 DEF NoFalseSuccess, NoAgent, NoResult, None
<1> QED BY <1>1, <1>3, <1>4

(* Every step of the run keeps the evidence of an unconfirmed agent.       *)
LEMMA OrphanInvStep ==
  ASSUME TypeInv, ConstantsAssumption, OrphanInv, [Next]_vars
  PROVE  OrphanInv'
<1> USE DEF position, env, counts, locals, finVars, LoopPoints
<1>1. CASE EnterRefused /\ UNCHANGED finVars
  <2>1. "agent" \notin orphans
    BY <1>1 DEF EnterRefused, OrphanInv, Evidence
  <2> QED BY <1>1, <2>1, RaiseKeepsEvidence DEF EnterRefused, Raise
<1>2. CASE (OpenSinkFails \/ HeaderFails) /\ UNCHANGED finVars
  <2>1. "agent" \notin orphans
    BY <1>2 DEF OpenSinkFails, MayEnter, HeaderFails, OrphanInv, Evidence
  <2> QED BY <1>2, <2>1, RaiseKeepsEvidence DEF OpenSinkFails, MayEnter, HeaderFails, Raise
<1>3. CASE (CloseFails \/ PersistFails) /\ UNCHANGED finVars
  <2>1. "agent" \in orphans => lastTerm = "NO"
    BY <1>3 DEF CloseFails, PersistFails, OrphanInv, Evidence
  <2> QED BY <1>3, <2>1, RaiseKeepsEvidence DEF CloseFails, PersistFails, Raise, NoFooter
<1>4. CASE FooterFails /\ UNCHANGED finVars
  <2>1. "agent" \in orphans => agent.proc.term = "NO"
    BY <1>4 DEF FooterFails, OrphanInv, Evidence
  <2>2. PICK f : f.term = agent.proc.term /\ RaiseWith("LOGGING_ERROR", f)
    BY <1>4 DEF FooterFails
  <2>3. pc \in LoopPoints /\ orphans' = orphans
    BY <1>4 DEF FooterFails
  <2> QED BY <1>4, <2>1, <2>2, <2>3, RaiseKeepsEvidence
<1>5. CASE OpenSink /\ UNCHANGED finVars
  BY <1>5 DEF OpenSink, MayEnter, OrphanInv, Evidence, NoFalseSuccess
<1>6. CASE CheckBefore /\ UNCHANGED finVars
  <2>1. "agent" \in orphans' => "agent" \in orphans
    BY <1>6 DEF CheckBefore, OrphanAfterCheck
  <2> QED BY <1>6, <2>1 DEF CheckBefore, OrphanInv, Evidence, NoFalseSuccess
<1>7. CASE BlockInvocation /\ UNCHANGED finVars
  <2>1. "agent" \notin orphans /\ agent = NoAgent
    BY <1>7 DEF BlockInvocation, OrphanInv, Evidence, TypeInv, Placed
  <2>2. CASE Raise("LOGGING_ERROR")
    BY <1>7, <2>1, <2>2, RaiseKeepsEvidence DEF BlockInvocation, Raise
  <2>3. ASSUME NEW b, Report(b, FALSE) PROVE OrphanInv'
    <3>1. agent' = NoAgent /\ pc' = "decide" /\ Last(results').agent = NoAgent
      BY <2>1, <2>3 DEF Report, ClearLocals, Last, TypeInv, TypeOK
    <3> QED BY <1>7, <2>1, <3>1 DEF BlockInvocation, OrphanInv, Evidence,
               NoFalseSuccess, NoAgent, NoResult, None
  <2> QED BY <1>7, <2>2, <2>3 DEF BlockInvocation
<1>8. CASE ControlPlaneUnchanged /\ UNCHANGED finVars
  BY <1>8 DEF ControlPlaneUnchanged, OrphanInv, Evidence, NoFalseSuccess
<1>9. CASE SandboxFails /\ UNCHANGED finVars
  <2>1. "agent" \notin orphans' /\ lease # "released"
    BY <1>9 DEF SandboxFails, UtilityMaySurvive, OrphanInv, Evidence
  <2>2. CASE Escape
    BY <1>9, <2>1, <2>2 DEF Escape, ClearLocals, OrphanInv, Evidence, NoFalseSuccess,
       NoAgent, NoResult, None
  <2>3. CASE ~Escape
    BY <1>9, <2>1, <2>3 DEF SandboxFails, AgentReturns, OrphanInv, Evidence,
       NoFalseSuccess, SandboxFailure, NoAgent, NoResult
  <2> QED BY <2>2, <2>3
<1>10. CASE StartAgent /\ UNCHANGED finVars
  BY <1>10 DEF StartAgent, OrphanInv, Evidence, NoFalseSuccess
<1>11. CASE AgentExits /\ UNCHANGED finVars
  <2>1. "agent" \notin orphans /\ lease # "released"
    BY <1>11 DEF AgentExits, OrphanInv, Evidence
  <2>2. PICK a \in AgentResultSet :
          /\ agent' = a
          /\ pc' = IF Promotable(a) THEN "promote" ELSE "footer"
          /\ orphans' = IF a.proc.term = "NO" THEN orphans \cup {"agent"} ELSE orphans
    BY <1>11 DEF AgentExits
  <2> QED BY <1>11, <2>1, <2>2, AgentResultEvidence DEF AgentExits, OrphanInv, Evidence
<1>12. CASE Promote /\ UNCHANGED finVars
  BY <1>12 DEF Promote, OrphanInv, Evidence, NoFalseSuccess
<1>13. CASE PromotionBlocked /\ UNCHANGED finVars
  <2>1. "agent" \notin orphans' /\ lease # "released" /\ agent.proc.term = "YES"
    BY <1>13 DEF PromotionBlocked, UtilityMaySurvive, OrphanInv, Evidence
  <2>2. CASE Escape
    BY <1>13, <2>1, <2>2 DEF Escape, ClearLocals, OrphanInv, Evidence, NoFalseSuccess,
       NoAgent, NoResult, None
  <2>3. CASE ~Escape
    <3>1. agent'.proc = agent.proc /\ pc' = "footer"
      BY <1>13, <2>3 DEF PromotionBlocked, TypeInv, TypeOK, AgentTypes
    <3> QED BY <1>13, <2>1, <3>1 DEF OrphanInv, Evidence, NoFalseSuccess
  <2> QED BY <2>2, <2>3
<1>14. CASE WriteFooter /\ UNCHANGED finVars
  BY <1>14 DEF WriteFooter, AgentReturns, OrphanInv, Evidence, NoFalseSuccess
<1>15. CASE CheckAfter /\ UNCHANGED finVars
  <2>1. "agent" \in orphans' => "agent" \in orphans
    BY <1>15 DEF CheckAfter, OrphanAfterCheck
  <2> QED BY <1>15, <2>1 DEF CheckAfter, OrphanInv, Evidence, NoFalseSuccess
<1>16. CASE RecordAttempt /\ UNCHANGED finVars
  <2>1. /\ agent' = NoAgent /\ pc' = "decide"
        /\ Last(results').agent = agent /\ Last(results').blocked = None
        /\ Last(results').retry = RetryDecision
    BY <1>16 DEF RecordAttempt, Report, ClearLocals, Last, TypeInv, TypeOK
  <2>2. agent.proc.term = "NO" => ~RetryDecision
    BY DEF RetryDecision, RetryAuthorized
  <2>3. "agent" \in orphans => agent.proc.term = "NO"
    BY <1>16 DEF RecordAttempt, OrphanInv, Evidence
  <2> QED BY <1>16, <2>1, <2>2, <2>3 DEF RecordAttempt, OrphanInv, Evidence,
             NoFalseSuccess, NoAgent, NoResult, None
<1>17. CASE (RetryAttempt \/ Sleep) /\ UNCHANGED finVars
  BY <1>17 DEF RetryAttempt, Sleep, OrphanInv, Evidence, NoFalseSuccess
<1>18. CASE (NextInvocation \/ FinishLoop) /\ UNCHANGED finVars
  <2>1. "agent" \in orphans => Successor.phase \notin Roles /\ TerminationConfirmed = "NO"
    BY <1>18, UnconfirmedEndsLoop DEF NextInvocation, FinishLoop
  <2>2. CASE NextInvocation
    BY <1>18, <2>1, <2>2 DEF NextInvocation, OrphanInv, Evidence, NoFalseSuccess
  <2>3. CASE FinishLoop
    <3>1. fin'.term = TerminationConfirmed
      BY <2>3 DEF FinishLoop, FinAfterLoop
    <3> QED BY <1>18, <2>1, <2>3, <3>1 DEF FinishLoop, OrphanInv, Evidence, NoFalseSuccess
  <2> QED BY <1>18, <2>2, <2>3
<1>19. CASE Environment
  BY <1>19 DEF Environment, SignalPipeline, SignalRunner, EditTarget, OrphanInv,
     Evidence, NoFalseSuccess
<1>20. CASE Postflight
  <2>1. "agent" \in orphans' => "agent" \in orphans
    BY <1>20 DEF Postflight, OrphanAfterCheck
  <2> QED BY <1>20, <2>1 DEF Postflight, LoopDone, OrphanInv, Evidence, NoFalseSuccess
<1>21. CASE Quarantine
  BY <1>21 DEF Quarantine, LoopDone, OrphanInv, Evidence, NoFalseSuccess
<1>22. CASE Finalize /\ ~Postflight /\ ~Quarantine
  <2>1. pc \notin LoopPoints \cup {"postflight", "quarantine"}
    BY <1>22 DEF Finalize, Stage, RestageBeforeRelease, ReleaseLease,
       RestageAfterRelease, SealFallback, Seal, RestageAfterSeal, Commit
  <2>2. pc' \notin LoopPoints \cup {"postflight", "quarantine"}
    BY <1>22 DEF Finalize, Stage, RestageBeforeRelease, ReleaseLease,
       RestageAfterRelease, SealFallback, Seal, RestageAfterSeal, Commit
  <2>3. UNCHANGED <<orphans, quarantine, agent>>
    BY <1>22 DEF Finalize, Stage, RestageBeforeRelease, ReleaseLease, LoopDone,
       RestageAfterRelease, SealFallback, Seal, RestageAfterSeal, Commit
  <2> QED BY <2>1, <2>2, <2>3 DEF OrphanInv, Evidence, NoFalseSuccess
<1>23. CASE ProcessExit \/ UNCHANGED vars
  BY <1>23 DEF ProcessExit, vars, orchVars, OrphanInv, Evidence, NoFalseSuccess
<1> QED
  BY <1>1, <1>2, <1>3, <1>4, <1>5, <1>6, <1>7, <1>8, <1>9, <1>10, <1>11,
     <1>12, <1>13, <1>14, <1>15, <1>16, <1>17, <1>18, <1>19, <1>20, <1>21,
     <1>22, <1>23
  DEF Next, Program, Invocation, Loop, Over

(* No agent has run at the start.                                          *)
LEMMA OrphanInvInit == Init => OrphanInv
<1> SUFFICES ASSUME Init PROVE OrphanInv
  OBVIOUS
<1>1. /\ orphans = {} /\ pc = "enter" /\ agent = NoAgent /\ ~persistBlocked /\ lease = "held"
  BY DEF Init, OrchestratorInit, FinalizationInit
<1> QED BY <1>1 DEF OrphanInv, Evidence, NoFalseSuccess, NoAgent, NoResult, None

(* No lease is given back over an agent that may still run without a       *)
(* quarantine marker, or a failed attempt to write one, whatever fails in  *)
(* the attempt log, the result, the Git checks or the loop meanwhile.      *)
THEOREM OrphansQuarantined == Spec => []AgentOrphanQuarantined
<1>1. Init => TypeInv /\ OrphanInv
  BY ConstantsAssumption, TypeInvInit, OrphanInvInit
<1>2. TypeInv /\ OrphanInv /\ [Next]_vars => TypeInv' /\ OrphanInv'
  BY ConstantsAssumption, TypeInvStep, OrphanInvStep
<1>3. OrphanInv => AgentOrphanQuarantined
  BY DEF OrphanInv, Evidence, AgentOrphanQuarantined, LoopPoints
<1> QED BY <1>1, <1>2, <1>3, PTL DEF Spec

(* One action starts agents.                                               *)
LEMMA OnlyStartAgentCounts ==
  ASSUME [Next]_vars, agentRuns' # agentRuns
  PROVE  StartAgent
<1> SUFFICES ASSUME ~StartAgent PROVE agentRuns' = agentRuns
  OBVIOUS
<1> USE DEF counts
<1>1. CASE EnterRefused \/ OpenSinkFails \/ OpenSink \/ CheckBefore
  BY <1>1 DEF EnterRefused, OpenSinkFails, Raise, RaiseWith, OpenSink, CheckBefore
<1>2. CASE BlockInvocation \/ ControlPlaneUnchanged \/ HeaderFails
  BY <1>2 DEF BlockInvocation, Report, Raise, RaiseWith, ControlPlaneUnchanged, HeaderFails
<1>3. CASE SandboxFails \/ AgentExits \/ Promote \/ PromotionBlocked
  BY <1>3 DEF SandboxFails, Escape, AgentExits, Promote, PromotionBlocked
<1>4. CASE WriteFooter \/ FooterFails \/ CheckAfter \/ CloseFails
  BY <1>4 DEF WriteFooter, FooterFails, Raise, RaiseWith, CheckAfter, CloseFails
<1>5. CASE RecordAttempt \/ PersistFails \/ Loop
  BY <1>5 DEF RecordAttempt, Report, PersistFails, Raise, RaiseWith, Loop,
     RetryAttempt, Sleep, NextInvocation, FinishLoop
<1>6. CASE Environment
  BY <1>6 DEF Environment, SignalPipeline, SignalRunner, EditTarget
<1>7. CASE Finalize
  BY <1>7 DEF Finalize, Postflight, Quarantine, Stage, RestageBeforeRelease,
     ReleaseLease, RestageAfterRelease, SealFallback, Seal, RestageAfterSeal, Commit,
     LoopDone
<1>8. CASE ProcessExit \/ UNCHANGED vars
  BY <1>8 DEF ProcessExit, vars, orchVars
<1> QED BY <1>1, <1>2, <1>3, <1>4, <1>5, <1>6, <1>7, <1>8
        DEF Next, Program, Invocation, Over

(* No agent starts beside another that may still run, nor after evidence   *)
(* was lost.                                                               *)
THEOREM CleanStarts == Spec => AgentStartsClean
<1>1. Init => TypeInv /\ OrphanInv
  BY ConstantsAssumption, TypeInvInit, OrphanInvInit
<1>2. TypeInv /\ OrphanInv /\ [Next]_vars => TypeInv' /\ OrphanInv'
  BY ConstantsAssumption, TypeInvStep, OrphanInvStep
<1>3. TypeInv /\ OrphanInv /\ [Next]_vars =>
        (agentRuns' # agentRuns => "agent" \notin orphans /\ ~persistBlocked)
  <2> SUFFICES ASSUME TypeInv, OrphanInv, [Next]_vars, agentRuns' # agentRuns
               PROVE  "agent" \notin orphans /\ ~persistBlocked
    OBVIOUS
  <2>1. StartAgent
    BY OnlyStartAgentCounts
  <2> QED BY <2>1 DEF StartAgent, OrphanInv, Evidence, LoopPoints
<1> QED BY <1>1, <1>2, <1>3, PTL DEF Spec, AgentStartsClean
-----------------------------------------------------------------------------
(* Why every run ends.  Each step of the program brings it closer to its   *)
(* end by a count that starts at a number and never grows: the attempts    *)
(* the configuration still allows, then the steps of the one at hand.      *)

(* Attempts that may follow the current one.                               *)
AttemptsLeft ==
  MaxAttempts * (2 * MaxReviewCycles - Earlier(role, cycle)) + (MaxAttempts - attempt)

(* The steps from a point of an attempt, or of finalize_run, to the end of *)
(* the run if no other attempt follows.                                    *)
StepsFrom ==
  [sleep |-> 24, enter |-> 23, before |-> 22, recheck |-> 21, launch |-> 20,
   child |-> 19, promote |-> 18, footer |-> 17, after |-> 16, record |-> 15,
   decide |-> 14, postflight |-> 10, quarantine |-> 9, stage |-> 8, staged |-> 7,
   release |-> 6, abort |-> 6, released |-> 5, seal |-> 4, sealed |-> 3,
   sealFallback |-> 3, commit |-> 2, escaped |-> 1, done |-> 0]

Here == IF pc = "escaped" /\ lease = "released" THEN 0 ELSE StepsFrom[pc]

Remaining == (IF pc \in LoopPoints THEN 11 * AttemptsLeft ELSE 0) + Here

(* The count is a number wherever the program can be.                      *)
LEMMA RemainingType ==
  ASSUME TypeInv, ConstantsAssumption
  PROVE  /\ AttemptsLeft \in Nat /\ Here \in Nat /\ Remaining \in Nat
         /\ pc \in LoopPoints => Here \in 14..24
         /\ pc \notin LoopPoints => Here \in 0..10
<1>1. /\ 2 * MaxReviewCycles - Earlier(role, cycle) \in Nat
      /\ MaxAttempts \in Nat /\ MaxAttempts - attempt \in Nat
  BY EarlierInRange DEF TypeInv, TypeOK, ConstantsAssumption
<1>2. AttemptsLeft \in Nat
  BY <1>1, Product DEF AttemptsLeft
<1>3. pc \in LoopPoints \cup FinalPoints \cup Stopped
  BY DEF TypeInv, TypeOK
<1>4. pc \in LoopPoints => Here \in 14..24
  BY DEF LoopPoints, Here, StepsFrom
<1>5. pc \notin LoopPoints => Here \in 0..10
  BY <1>3 DEF FinalPoints, Stopped, Here, StepsFrom
<1> QED BY <1>2, <1>4, <1>5 DEF Remaining

(* A count is lowered with its second part, if the first is not added.     *)
LEMMA Lowered ==
  ASSUME NEW a \in Nat, NEW h \in Nat, NEW g \in Nat, g < h,
         NEW now, NEW next, next => now
  PROVE  (IF next THEN 11 * a ELSE 0) + g < (IF now THEN 11 * a ELSE 0) + h
OBVIOUS

(* A step that stays at the same attempt counts by its place alone, and    *)
(* one that leaves the loop by leaving it.                                 *)
LEMMA CloserInPlace ==
  ASSUME TypeInv, TypeInv', ConstantsAssumption, UNCHANGED position,
         pc' \in LoopPoints => pc \in LoopPoints, Here' < Here
  PROVE  Remaining' < Remaining
<1>1. AttemptsLeft' = AttemptsLeft /\ AttemptsLeft \in Nat /\ Here \in Nat /\ Here' \in Nat
  <2>1. AttemptsLeft' = AttemptsLeft
    BY DEF position, AttemptsLeft, Earlier
  <2>2. Here' \in Nat
    <3>1. pc' \in LoopPoints \cup FinalPoints \cup Stopped
      BY DEF TypeInv, TypeOK
    <3> QED BY <3>1 DEF LoopPoints, FinalPoints, Stopped, Here, StepsFrom
  <2> QED BY <2>1, <2>2, RemainingType
<1>2. Remaining = (IF pc \in LoopPoints THEN 11 * AttemptsLeft ELSE 0) + Here
      /\ Remaining' = (IF pc' \in LoopPoints THEN 11 * AttemptsLeft ELSE 0) + Here'
  BY <1>1 DEF Remaining, LoopPoints
<1> QED BY <1>1, <1>2, Lowered

(* No step of the loop goes round: a retry uses up an attempt, the next    *)
(* invocation of `transition` those of the one it follows.                 *)
LEMMA LoopComesCloser ==
  ASSUME TypeInv, TypeInv', ConstantsAssumption, Invocation \/ Loop, UNCHANGED finVars
  PROVE  Remaining' < Remaining
<1> USE DEF position, LoopPoints, Here, StepsFrom
<1>1. CASE EnterRefused \/ OpenSinkFails \/ OpenSink \/ CheckBefore
  BY <1>1, CloserInPlace DEF EnterRefused, OpenSinkFails, MayEnter, Raise, RaiseWith,
     OpenSink, CheckBefore
<1>2. CASE BlockInvocation \/ ControlPlaneUnchanged \/ HeaderFails \/ StartAgent
  BY <1>2, CloserInPlace DEF BlockInvocation, Report, Raise, RaiseWith,
     ControlPlaneUnchanged, HeaderFails, StartAgent
<1>3. CASE SandboxFails \/ AgentExits \/ Promote \/ PromotionBlocked
  BY <1>3, CloserInPlace DEF SandboxFails, Escape, AgentReturns, AgentExits, Promote,
     PromotionBlocked
<1>4. CASE WriteFooter \/ FooterFails \/ CheckAfter \/ CloseFails
  BY <1>4, CloserInPlace DEF WriteFooter, AgentReturns, FooterFails, Raise, RaiseWith,
     CheckAfter, CloseFails
<1>5. CASE RecordAttempt \/ PersistFails \/ Sleep \/ FinishLoop
  BY <1>5, CloserInPlace DEF RecordAttempt, Report, PersistFails, Raise, RaiseWith,
     Sleep, FinishLoop
<1>6. CASE RetryAttempt
  <2>1. /\ pc = "decide" /\ pc' = "sleep" /\ attempt' = attempt + 1
        /\ UNCHANGED <<role, cycle>>
    BY <1>6 DEF RetryAttempt
  <2>2. AttemptsLeft' = AttemptsLeft - 1
    <3> DEFINE x == MaxAttempts * (2 * MaxReviewCycles - Earlier(role, cycle))
    <3>1. x' = x
      BY <2>1 DEF Earlier
    <3>2. x \in Nat
      BY EarlierInRange, Product DEF ConstantsAssumption
    <3>3. AttemptsLeft = x + (MaxAttempts - attempt)
          /\ AttemptsLeft' = x' + (MaxAttempts - (attempt + 1))
      BY <2>1 DEF AttemptsLeft
    <3> HIDE DEF x
    <3> QED BY <3>1, <3>2, <3>3 DEF ConstantsAssumption, TypeInv, TypeOK
  <2> QED BY <2>1, <2>2, RemainingType DEF Remaining
<1>7. CASE NextInvocation
  <2> DEFINE left == 2 * MaxReviewCycles - Earlier(role, cycle)
  <2>1. /\ pc = "decide" /\ pc' = "enter" /\ attempt' = 1
        /\ Earlier(role, cycle)' = Earlier(role, cycle) + 1
    BY <1>7, SuccessorIsNext DEF NextInvocation, Earlier
  <2>2. Earlier(role, cycle)' <= 2 * MaxReviewCycles /\ Earlier(role, cycle) \in Nat
        /\ MaxReviewCycles \in Nat /\ MaxAttempts \in Nat /\ attempt \in 1..MaxAttempts
    <3>1. /\ role' \in Roles /\ cycle' \in 0..MaxReviewCycles /\ MaxReviewCycles \in Nat
          /\ role' # "ARCHITECT" => cycle' # 0
      BY DEF TypeInv, TypeOK, Placed, ConstantsAssumption, Roles
    <3>2. Earlier(role, cycle)' <= 2 * MaxReviewCycles
      <4>1. Earlier(role, cycle)' \in {0, 2 * cycle' - 1, 2 * cycle'}
        BY DEF Earlier
      <4> QED BY <3>1, <4>1
    <3> QED BY <3>2, EarlierInRange DEF ConstantsAssumption, TypeInv, TypeOK
  <2>3. left - 1 \in Nat /\ left' = left - 1
    BY <2>1, <2>2
  <2>4. MaxAttempts * (left - 1) \in Nat
        /\ MaxAttempts * left = MaxAttempts * (left - 1) + MaxAttempts
    <3>1. (left - 1) + 1 = left
      BY <2>2
    <3> HIDE DEF left
    <3> QED BY <2>2, <2>3, <3>1, Product
  <2>5. AttemptsLeft = MaxAttempts * left + (MaxAttempts - attempt)
        /\ AttemptsLeft' = MaxAttempts * left' + (MaxAttempts - 1)
    BY <2>1 DEF AttemptsLeft
  <2>6. AttemptsLeft' < AttemptsLeft
    <3> DEFINE m == MaxAttempts * (left - 1)
    <3>1. AttemptsLeft = m + MaxAttempts + (MaxAttempts - attempt)
          /\ AttemptsLeft' = m + (MaxAttempts - 1) /\ m \in Nat
      BY <2>3, <2>4, <2>5
    <3> HIDE DEF m
    <3> QED BY <2>2, <3>1
  <2>7. AttemptsLeft' \in Nat
    BY <2>2, <2>3, <2>4, <2>5
  <2> QED BY <2>1, <2>6, <2>7, RemainingType DEF Remaining
<1> QED
  BY <1>1, <1>2, <1>3, <1>4, <1>5, <1>6, <1>7 DEF Invocation, Loop

(* Nor does finalize_run, nor the exit of a process that died.             *)
LEMMA EndComesCloser ==
  ASSUME TypeInv, TypeInv', ConstantsAssumption, Finalize \/ ProcessExit
  PROVE  Remaining' < Remaining
<1>1. CASE Finalize
  <2>1. UNCHANGED position
    BY <1>1 DEF Finalize, Postflight, Quarantine, Stage, RestageBeforeRelease,
       ReleaseLease, RestageAfterRelease, SealFallback, Seal, RestageAfterSeal, Commit,
       LoopDone
  <2>2. \/ pc = "postflight" /\ pc' = "quarantine"
        \/ pc = "quarantine" /\ pc' \in {"stage", "escaped"}
        \/ pc = "stage" /\ pc' \in {"staged", "abort"}
        \/ pc = "staged" /\ pc' \in {"release", "abort"}
        \/ pc \in {"release", "abort"} /\ pc' \in {"released", "sealFallback"}
        \/ pc = "released" /\ pc' \in {"seal", "sealFallback"}
        \/ pc = "seal" /\ pc' = "sealed"
        \/ pc = "sealed" /\ pc' \in {"commit", "done"}
        \/ pc \in {"sealFallback", "commit"} /\ pc' = "done"
    BY <1>1 DEF Finalize, Postflight, Quarantine, Stage, RestageBeforeRelease,
       ReleaseLease, RestageAfterRelease, SealFallback, Seal, RestageAfterSeal, Commit
  <2>3. Here' < Here /\ pc' \notin LoopPoints
    BY <2>2 DEF Here, StepsFrom, LoopPoints
  <2> QED BY <2>1, <2>3, CloserInPlace
<1>2. CASE ProcessExit
  <2>1. UNCHANGED <<position, pc>> /\ pc = "escaped" /\ lease = "held" /\ lease' = "released"
    BY <1>2 DEF ProcessExit, orchVars
  <2> QED BY <2>1, CloserInPlace DEF Here, StepsFrom, LoopPoints
<1> QED BY <1>1, <1>2

(* Signals and edits neither prolong a run nor shorten it.                 *)
LEMMA EnvironmentPassesBy ==
  ASSUME Environment \/ Over \/ UNCHANGED vars
  PROVE  Remaining' = Remaining
<1>1. UNCHANGED <<pc, position, lease>>
  BY DEF Environment, SignalPipeline, SignalRunner, EditTarget, Over, vars, orchVars, finVars
<1> QED BY <1>1 DEF position, Remaining, AttemptsLeft, Earlier, Here

(* Whatever fails and whenever a cancellation comes, the program cannot go *)
(* round: every step it takes lowers a natural number that nothing raises, *)
(* so no configuration lets its loop, its retries or finalize_run run      *)
(* forever (run_issue_pipeline, run_provider_attempts).  That it also      *)
(* takes those steps is fairness, and checked by TLC (Termination).        *)
THEOREM EveryStepComesCloser ==
  Spec => /\ [](Remaining \in Nat)
          /\ [][IF Program THEN Remaining' < Remaining ELSE Remaining' = Remaining]_vars
<1>1. TypeInv => Remaining \in Nat
  BY ConstantsAssumption, RemainingType
<1>2. TypeInv /\ [Next]_vars =>
        [IF Program THEN Remaining' < Remaining ELSE Remaining' = Remaining]_vars
  <2> SUFFICES ASSUME TypeInv, Next
               PROVE  IF Program THEN Remaining' < Remaining ELSE Remaining' = Remaining
    OBVIOUS
  <2>1. TypeInv'
    BY ConstantsAssumption, TypeInvStep
  <2>2. CASE Program
    BY <2>1, <2>2, ConstantsAssumption, LoopComesCloser, EndComesCloser DEF Program
  <2>3. CASE ~Program
    BY <2>3, EnvironmentPassesBy DEF Next
  <2> QED BY <2>2, <2>3
<1> QED BY <1>1, <1>2, PlacedTyping, PTL DEF Spec
=============================================================================
