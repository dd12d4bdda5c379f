----------------------------- MODULE Orchestrator ---------------------------
(***************************************************************************)
(* The agent loop of one run: IssueOrchestrator.run_logical_invocation and *)
(* run_provider_attempts, driven by run_issue_pipeline, with the agent     *)
(* runner of cli.py (_CliAgentRunner) and the two branches by which        *)
(* run_composed_pipeline hands the run over to finalize_run.               *)
(*                                                                         *)
(* The main thread runs one step at a time.  Between two steps a signal    *)
(* handler may run, and somebody else may edit the target repository: the  *)
(* last two actions of the module.  No operation of the program's own      *)
(* touches the target except the promotion of the coder's sandbox.         *)
(***************************************************************************)
EXTENDS ProcessOutcome, Retry, Sequences

CONSTANTS
  MaxReviewCycles, \* execution.max_review_cycles
  MaxAttempts,     \* provider_retry.max_attempts
  Refs,            \* pairs (branch, HEAD) the target can be on
  Trees,           \* fingerprints of index and working tree
  BaseRef,         \* where the target stood at the preflight
  BaseTree,
  NoGit,           \* what a failed probe knows of the repository
  MayOrphan,       \* children that may outlive SIGKILL and its grace period
  MaxEdits,        \* bound: edits of the target from outside
  MaxSignals       \* bound: SIGINT/SIGTERM handled before the seal

ASSUME ConstantsAssumption ==
  /\ MaxReviewCycles \in Nat \ {0}
  /\ MaxAttempts \in Nat \ {0}
  /\ BaseRef \in Refs /\ BaseTree \in Trees
  /\ NoGit \notin Refs \cup Trees
  /\ MayOrphan \subseteq {"agent", "utility"}
  /\ MaxEdits \in Nat /\ MaxSignals \in Nat

Roles == {"ARCHITECT", "CODER", "REVIEWER"}

VARIABLES
  pc,              \* where the main thread is
  role, cycle, attempt,      \* arguments of the current invocation
  before, agent, after,      \* its locals: two Git checks, the AgentResult
  sandboxBase,     \* target_state captured by prepare_coder_sandbox
  results,         \* LogicalInvocationResults so far, in order
  lastAccepted,    \* _last_accepted_git_state
  lastTerm,        \* last_observed_termination_confirmed
  persistBlocked,  \* _persistence_blocked
  cancelRequested, \* _cancellation_requested
  sealed,          \* _cancellation_sealed
  fin,             \* the arguments of finalize_run
  repo,            \* the target repository
  orphans,         \* kinds of children whose termination nobody confirmed
  childSignal,     \* a signal the runner's own handler caught for the agent
  edits, signals,  \* bounds of the environment
  agentRuns, lateRuns        \* agents started, and started after a cancellation

locals == <<before, agent, after, sandboxBase>>
position == <<role, cycle, attempt>>
env == <<edits, signals>>
counts == <<agentRuns, lateRuns>>
orchVars == <<pc, position, locals, results, lastAccepted, lastTerm,
              persistBlocked, cancelRequested, sealed, fin, repo, orphans,
              childSignal, env, counts>>

-----------------------------------------------------------------------------
(* Data.                                                                   *)

GitStates == [ref : Refs, tree : Trees]
Baseline == [ref |-> BaseRef, tree |-> BaseTree]
Unknown == [ref |-> NoGit, tree |-> NoGit]
NoCheck == [status |-> None, state |-> Unknown]

Responses == [ARCHITECT |-> {"READY", "FAILED"},
              CODER |-> {"COMPLETED", "FAILED"},
              REVIEWER |-> {"APPROVED", "CHANGES_REQUIRED", "FAILED"}]

Diagnostics == {"RETRYABLE", "FATAL"}

NoAgent == [proc |-> NoResult, diag |-> None, response |-> None]

NoFin == [trigger |-> None, review |-> None, interrupted |-> FALSE,
          term |-> None, persistence |-> "OK", base |-> Unknown]

Last(s) == s[Len(s)]

-----------------------------------------------------------------------------
(* check_git_state: a capture that is stable and complete is compared with *)
(* the baseline; one that is not (drift while sampling, a probe that failed,*)
(* timed out or was interrupted) is INDETERMINATE.                         *)

CompareRefsOnly(baseline, r) ==  \* mutation
  IF repo.ref # baseline.ref THEN "UNSAFE" ELSE "SAFE"

Compare(baseline, r) ==
  IF \/ repo.ref # baseline.ref
     \/ repo.tree # baseline.tree /\ r # "CODER"
  THEN "UNSAFE" ELSE "SAFE"

GitChecks(baseline, r) ==
  {[status |-> Compare(baseline, r), state |-> repo],
   [status |-> "INDETERMINATE", state |-> Unknown]}

(* Only a probe that did not end well can have left its child behind.      *)
OrphanAfterCheck(check) ==
  \/ orphans' = orphans
  \/ /\ check.status = "INDETERMINATE"
     /\ orphans' = orphans \cup (MayOrphan \cap {"utility"})

-----------------------------------------------------------------------------
(* Leaving the loop.                                                       *)

FinAfterErrorIgnoringFooter(outcome, footer) ==  \* mutation
  [trigger |-> outcome, review |-> None,
   interrupted |-> outcome = "INTERRUPTED" \/ cancelRequested, term |-> lastTerm,
   persistence |-> IF outcome = "LOGGING_ERROR" THEN "INCOMPLETE" ELSE "OK",
   base |-> lastAccepted]

(* The `except OpenCodeToolsError` branch of run_composed_pipeline.        *)
FinAfterError(outcome, footer) ==
  [trigger |-> outcome,
   review |-> None,
   interrupted |-> \/ outcome = "INTERRUPTED"
                   \/ cancelRequested
                   \/ footer.interrupted,
   term |-> IF footer.term # None THEN footer.term ELSE lastTerm,
   persistence |-> IF outcome = "LOGGING_ERROR" THEN "INCOMPLETE" ELSE "OK",
   base |-> lastAccepted]

NoFooter == [interrupted |-> FALSE, term |-> None]

ClearLocals ==
  /\ before' = NoCheck /\ after' = NoCheck
  /\ agent' = NoAgent /\ sandboxBase' = Unknown

RaiseWith(outcome, footer) ==
  /\ fin' = FinAfterError(outcome, footer)
  /\ pc' = "postflight"
  /\ ClearLocals
  /\ UNCHANGED <<position, results, lastAccepted, lastTerm, cancelRequested,
                 sealed, repo, env, counts>>

Raise(outcome) == RaiseWith(outcome, NoFooter)

(* An exception run_composed_pipeline does not catch: nothing is finalized.*)
Escape ==
  /\ pc' = "escaped"
  /\ ClearLocals
  /\ UNCHANGED <<position, results, lastAccepted, lastTerm, persistBlocked,
                 cancelRequested, sealed, fin, repo, childSignal, env, counts>>

(* _termination_confirmed, _interrupted, _last_review_status and           *)
(* _last_accepted_git_state: the `else` branch derives its arguments from  *)
(* the whole history.  Only unblocked invocations have an AgentResult.     *)
AgentResults == {i \in DOMAIN results : results[i].blocked = None}

TerminationConfirmed ==
  IF AgentResults = {} THEN None
  ELSE IF \A i \in AgentResults : results[i].agent.proc.term = "YES"
       THEN "YES" ELSE "NO"

AnyInterrupted ==
  \E i \in AgentResults : results[i].agent.proc.outcome = "INTERRUPTED"

LastReviewUnfiltered ==  \* mutation
  LET reviews == {i \in DOMAIN results : results[i].role = "REVIEWER"}
  IN IF reviews = {} THEN None
     ELSE results[CHOOSE i \in reviews : \A j \in reviews : j <= i].agent.response

(* The last attempt of the last reviewer cycle, also when a later coder    *)
(* invocation ended the loop.                                              *)
LastReviewStatus ==
  LET reviews == {i \in DOMAIN results : results[i].role = "REVIEWER"}
      last == CHOOSE i \in reviews : \A j \in reviews : j <= i
      response == results[last].agent.response
  IN IF reviews # {} /\ response \in {"APPROVED", "CHANGES_REQUIRED"}
     THEN response ELSE None

(* _last_accepted_git_state(record)                                        *)
LastSafeState ==
  LET safe == {i \in AgentResults : results[i].after.status = "SAFE"}
      last == CHOOSE i \in safe : \A j \in safe : j <= i
  IN IF safe = {} THEN Baseline ELSE results[last].after.state

FinAfterLoop(trigger) ==
  [trigger |-> trigger,
   review |-> LastReviewStatus,
   interrupted |-> AnyInterrupted \/ cancelRequested,
   term |-> TerminationConfirmed,
   persistence |-> "OK",
   base |-> LastSafeState]

-----------------------------------------------------------------------------
OrchestratorInit ==
  /\ pc = "enter" /\ role = "ARCHITECT" /\ cycle = NoCycle /\ attempt = 1
  /\ before = NoCheck /\ agent = NoAgent /\ after = NoCheck
  /\ sandboxBase = Unknown
  /\ results = <<>>
  /\ lastAccepted = Baseline /\ lastTerm = None
  /\ persistBlocked = FALSE /\ cancelRequested = FALSE /\ sealed = FALSE
  /\ fin = NoFin
  /\ repo = Baseline
  /\ orphans = {} /\ childSignal = FALSE
  /\ edits = 0 /\ signals = 0
  /\ agentRuns = 0 /\ lateRuns = 0

EnterRefusedRetried ==  \* mutation: the retry loop swallows the refusal
  /\ pc = "enter"
  /\ persistBlocked \/ cancelRequested
  /\ \/ /\ attempt = 1
        /\ Raise(IF persistBlocked THEN "LOGGING_ERROR" ELSE "INTERRUPTED")
     \/ /\ attempt > 1 /\ pc' = "sleep"
        /\ UNCHANGED <<position, locals, results, lastAccepted, lastTerm,
                       cancelRequested, sealed, fin, repo, env, counts>>
  /\ UNCHANGED <<persistBlocked, orphans, childSignal>>

(* run_logical_invocation refuses to start after a persistence failure or  *)
(* a cancellation, else opens the attempt log.                             *)
EnterRefused ==
  /\ pc = "enter"
  /\ persistBlocked \/ cancelRequested
  /\ Raise(IF persistBlocked THEN "LOGGING_ERROR" ELSE "INTERRUPTED")
  /\ UNCHANGED <<persistBlocked, orphans, childSignal>>

MayEnterWhenCancelled == pc = "enter" /\ ~persistBlocked  \* mutation

MayEnter == pc = "enter" /\ ~persistBlocked /\ ~cancelRequested

OpenSinkFails ==
  /\ MayEnter
  /\ persistBlocked' = TRUE
  /\ Raise("LOGGING_ERROR")
  /\ UNCHANGED <<orphans, childSignal>>

OpenSink ==
  /\ MayEnter
  /\ pc' = "before"
  /\ UNCHANGED <<position, locals, results, lastAccepted, lastTerm,
                 persistBlocked, cancelRequested, sealed, fin, repo, orphans,
                 childSignal, env, counts>>

CheckBefore ==
  /\ pc = "before"
  /\ before' \in GitChecks(lastAccepted, None)
  /\ OrphanAfterCheck(before')
  /\ pc' = "recheck"
  /\ UNCHANGED <<position, agent, after, sandboxBase, results, lastAccepted,
                 lastTerm, persistBlocked, cancelRequested, sealed, fin, repo,
                 childSignal, env, counts>>

(* The LogicalInvocationResult; `blocked` names what kept the agent from   *)
(* running at all.                                                         *)
Report(blocked, retry) ==
  /\ results' = Append(results,
       [role |-> role, cycle |-> cycle, attempt |-> attempt,
        before |-> before, agent |-> agent, after |-> after,
        blocked |-> blocked, retry |-> retry])
  /\ pc' = "decide"
  /\ ClearLocals
  /\ UNCHANGED <<position, lastAccepted, lastTerm, cancelRequested, sealed,
                 fin, repo, env, counts>>

(* Not SAFE, or the control plane drifted: the sink is closed, which can   *)
(* fail in turn, and the agent does not run.                               *)
BlockInvocation ==
  /\ pc = "recheck"
  /\ LET blocked == IF before.status # "SAFE" THEN "GIT_SAFETY_ERROR"
                    ELSE "PROTOCOL_ERROR"
     IN Report(blocked, FALSE) \/ Raise("LOGGING_ERROR")
  /\ UNCHANGED <<persistBlocked, orphans, childSignal>>

ControlPlaneUnchanged ==
  /\ pc = "recheck" /\ before.status = "SAFE"
  /\ pc' = "launch"
  /\ UNCHANGED <<position, locals, results, lastAccepted, lastTerm,
                 persistBlocked, cancelRequested, sealed, fin, repo, orphans,
                 childSignal, env, counts>>

-----------------------------------------------------------------------------
(* _CliAgentRunner.run.                                                    *)

(* run() returned `result` to run_logical_invocation.                      *)
AgentReturns(result) ==
  /\ agent' = result
  /\ lastTerm' = result.proc.term
  /\ cancelRequested' = (cancelRequested \/ result.proc.interrupted)
  /\ persistBlocked' = (persistBlocked \/ result.proc.outcome = "LOGGING_ERROR")
  /\ pc' = "after"

UtilityMaySurvive ==
  orphans' \in {orphans, orphans \cup (MayOrphan \cap {"utility"})}

SandboxFailure ==
  [NoAgent EXCEPT !.proc = [outcome |-> "PROCESS_ERROR", interrupted |-> FALSE,
                            term |-> "YES"]]

(* prepare_coder_sandbox raised; writing that to the attempt log can raise *)
(* an OSError nobody catches.                                              *)
SandboxFails ==
  /\ pc = "launch" /\ role = "CODER"
  /\ UtilityMaySurvive
  /\ \/ /\ AgentReturns(SandboxFailure)
        /\ UNCHANGED <<position, before, after, sandboxBase, results,
                       lastAccepted, sealed, fin, repo, childSignal, env, counts>>
     \/ Escape

HeaderFails ==
  /\ pc = "launch"
  /\ Raise("LOGGING_ERROR")
  /\ UNCHANGED <<persistBlocked, orphans, childSignal>>

StartAgent ==
  /\ pc = "launch"
  /\ sandboxBase' = IF role = "CODER" THEN repo ELSE Unknown
  /\ agentRuns' = agentRuns + 1
  /\ lateRuns' = IF cancelRequested THEN lateRuns + 1 ELSE lateRuns
  /\ pc' = "child"
  /\ UNCHANGED <<position, before, agent, after, results, lastAccepted,
                 lastTerm, persistBlocked, cancelRequested, sealed, fin, repo,
                 orphans, childSignal, env>>

(* What SubprocessRunner.run can report of the agent (ProcessRunner).       *)
ProcessResults == PossibleResults(childSignal, "agent" \in MayOrphan)

(* stdout is classified for provider errors first; only without one, and   *)
(* without a timeout, is a terminal response looked for.                   *)
AgentResultSet ==
  {a \in [proc : ProcessResults, diag : Diagnostics \cup {None},
          response : Responses[role] \cup {None}] :
     a.response # None => a.diag = None /\ a.proc.outcome # "TIMEOUT"}

Promotable(a) ==
  /\ role = "CODER" /\ a.diag = None
  /\ a.proc.outcome = "SUCCEEDED" /\ a.response = "COMPLETED"

AgentExits ==
  /\ pc = "child"
  /\ \E a \in AgentResultSet :
       /\ agent' = a
       /\ pc' = IF Promotable(a) THEN "promote" ELSE "footer"
       /\ orphans' = IF a.proc.term = "NO" THEN orphans \cup {"agent"} ELSE orphans
  /\ childSignal' = FALSE
  /\ UNCHANGED <<position, before, after, sandboxBase, results, lastAccepted,
                 lastTerm, persistBlocked, cancelRequested, sealed, fin, repo,
                 env, counts>>

(* promote_coder_changes: the target must still be what the sandbox was    *)
(* cloned from; then the patch is applied to it.                           *)
Promote ==
  /\ pc = "promote" /\ repo = sandboxBase
  /\ \E t \in Trees : repo' = [repo EXCEPT !.tree = t]
  /\ pc' = "footer"
  /\ UNCHANGED <<position, locals, results, lastAccepted, lastTerm,
                 persistBlocked, cancelRequested, sealed, fin, orphans,
                 childSignal, env, counts>>

(* The target moved, a check refused the patch, or a git child failed: the *)
(* response is dropped.  A git apply cut short may have changed files.     *)
PromotionBlocked ==
  /\ pc = "promote"
  /\ UtilityMaySurvive
  /\ \/ /\ agent' = [agent EXCEPT !.response = None]
        /\ \/ repo' = repo
           \/ repo = sandboxBase /\ \E t \in Trees : repo' = [repo EXCEPT !.tree = t]
        /\ pc' = "footer"
        /\ UNCHANGED <<position, before, after, sandboxBase, results,
                       lastAccepted, lastTerm, persistBlocked, cancelRequested,
                       sealed, fin, childSignal, env, counts>>
     \/ Escape

WriteFooter ==
  /\ pc = "footer"
  /\ AgentReturns(agent)
  /\ UNCHANGED <<position, before, after, sandboxBase, results, lastAccepted,
                 sealed, fin, repo, orphans, childSignal, env, counts>>

(* _AttemptLogFooterError carries what the lost AgentResult knew.          *)
FooterFails ==
  /\ pc = "footer" /\ agent.proc.outcome # "LOGGING_ERROR"
  /\ RaiseWith("LOGGING_ERROR", [interrupted |-> agent.proc.interrupted,
                                 term |-> agent.proc.term])
  /\ UNCHANGED <<persistBlocked, orphans, childSignal>>

-----------------------------------------------------------------------------
(* The second half of run_logical_invocation.                              *)

CheckAfter ==
  /\ pc = "after"
  /\ after' \in GitChecks(before.state, role)
  /\ OrphanAfterCheck(after')
  /\ lastAccepted' = IF after'.status = "SAFE" THEN after'.state ELSE lastAccepted
  /\ pc' = "record"
  /\ UNCHANGED <<position, before, agent, sandboxBase, results, lastTerm,
                 persistBlocked, cancelRequested, sealed, fin, repo,
                 childSignal, env, counts>>

CloseFails ==
  /\ pc = "record"
  /\ Raise("LOGGING_ERROR")
  /\ UNCHANGED <<persistBlocked, orphans, childSignal>>

RetryDecision ==
  RetryAuthorized([outcome |-> ClassifyAgentResult(agent),
                   diag |-> agent.diag,
                   attempt |-> attempt,
                   term |-> agent.proc.term,
                   gitStatus |-> after.status,
                   persistence |-> "OK", \* of the record persisted last
                   role |-> role,
                   targetChanged |-> before.state.tree # after.state.tree,
                   cancelRequested |-> cancelRequested], MaxAttempts)

RecordAttempt ==
  /\ pc = "record"
  /\ Report(None, RetryDecision)
  /\ UNCHANGED <<persistBlocked, orphans, childSignal>>

PersistFails ==
  /\ pc = "record"
  /\ persistBlocked' = TRUE
  /\ Raise("LOGGING_ERROR")
  /\ UNCHANGED <<orphans, childSignal>>

-----------------------------------------------------------------------------
(* run_provider_attempts and run_issue_pipeline, on the last result.       *)

RetryAttempt ==
  /\ pc = "decide" /\ Last(results).retry
  /\ attempt' = attempt + 1
  /\ pc' = "sleep"
  /\ UNCHANGED <<role, cycle, locals, results, lastAccepted, lastTerm,
                 persistBlocked, cancelRequested, sealed, fin, repo, orphans,
                 childSignal, env, counts>>

(* Sleeper.sleep: a bounded backoff, cut short by a cancellation.          *)
Sleep ==
  /\ pc = "sleep"
  /\ pc' = "enter"
  /\ UNCHANGED <<position, locals, results, lastAccepted, lastTerm,
                 persistBlocked, cancelRequested, sealed, fin, repo, orphans,
                 childSignal, env, counts>>

AttemptOutcomeIgnoringGit(r) ==  \* mutation
  IF r.blocked # None THEN r.blocked ELSE ClassifyAgentResult(r.agent)

(* _attempt_result                                                         *)
AttemptOutcome(r) ==
  IF r.blocked # None THEN r.blocked
  ELSE IF r.after.status # "SAFE" THEN "GIT_SAFETY_ERROR"
  ELSE ClassifyAgentResult(r.agent)

EventOfResponse == [READY |-> "ARCHITECT_READY",
                    COMPLETED |-> "CODER_COMPLETED",
                    APPROVED |-> "REVIEWER_APPROVED",
                    CHANGES_REQUIRED |-> "REVIEWER_CHANGES_REQUIRED"]

(* _architect_event, _coder_event, _reviewer_event                         *)
EventOf(r) ==
  LET o == AttemptOutcome(r)
  IN IF o = "SUCCEEDED"
     THEN [kind |-> EventOfResponse[r.agent.response], outcome |-> None]
     ELSE [kind |-> "TERMINAL_OUTCOME", outcome |-> o]

Successor ==
  Transition([phase |-> role, cycle |-> cycle], EventOf(Last(results)), MaxReviewCycles)

NextInvocation ==
  /\ pc = "decide" /\ ~Last(results).retry
  /\ Successor.phase \in Roles
  /\ role' = Successor.phase /\ cycle' = Successor.cycle /\ attempt' = 1
  /\ pc' = "enter"
  /\ UNCHANGED <<locals, results, lastAccepted, lastTerm, persistBlocked,
                 cancelRequested, sealed, fin, repo, orphans, childSignal, env,
                 counts>>

FinishLoop ==
  /\ pc = "decide" /\ ~Last(results).retry
  /\ Successor.phase = "POSTFLIGHT"
  /\ fin' = FinAfterLoop(IF Successor.outcome = None THEN "SUCCEEDED"
                         ELSE Successor.outcome)
  /\ pc' = "postflight"
  /\ UNCHANGED <<position, locals, results, lastAccepted, lastTerm,
                 persistBlocked, cancelRequested, sealed, repo, orphans,
                 childSignal, env, counts>>

-----------------------------------------------------------------------------
(* The environment of the run.                                             *)

Stopped == {"done", "escaped"}

(* SIGINT or SIGTERM finds the handler of run_composed_pipeline installed: *)
(* request_cancellation, without effect once sealed.                       *)
SignalPipeline ==
  /\ pc \notin Stopped /\ signals < MaxSignals
  /\ cancelRequested' = (cancelRequested \/ ~sealed)
  /\ signals' = IF sealed THEN signals ELSE signals + 1
  /\ UNCHANGED <<pc, position, locals, results, lastAccepted, lastTerm,
                 persistBlocked, sealed, fin, repo, orphans, childSignal,
                 edits, counts>>

(* While a child runs, SubprocessRunner.run has installed its own handler. *)
(* Only the agent's result reports what it caught; a git child's does not  *)
(* reach the orchestrator, the check is at most INDETERMINATE.             *)
ChildRuns ==
  pc \in {"before", "recheck", "launch", "child", "promote", "after", "postflight"}

SignalRunner ==
  /\ ChildRuns /\ signals < MaxSignals
  /\ childSignal' = (childSignal \/ pc = "child")
  /\ signals' = signals + 1
  /\ UNCHANGED <<pc, position, locals, results, lastAccepted, lastTerm,
                 persistBlocked, cancelRequested, sealed, fin, repo, orphans,
                 edits, counts>>

EditTarget ==
  /\ pc \notin Stopped /\ edits < MaxEdits
  /\ \E s \in GitStates \ {repo} : repo' = s
  /\ edits' = edits + 1
  /\ UNCHANGED <<pc, position, locals, results, lastAccepted, lastTerm,
                 persistBlocked, cancelRequested, sealed, fin, orphans,
                 childSignal, signals, counts>>

Invocation ==
  \/ EnterRefused \/ OpenSinkFails \/ OpenSink \/ CheckBefore
  \/ BlockInvocation \/ ControlPlaneUnchanged
  \/ SandboxFails \/ HeaderFails \/ StartAgent \/ AgentExits
  \/ Promote \/ PromotionBlocked \/ WriteFooter \/ FooterFails
  \/ CheckAfter \/ CloseFails \/ RecordAttempt \/ PersistFails

Loop == RetryAttempt \/ Sleep \/ NextInvocation \/ FinishLoop

=============================================================================
