------------------------------ MODULE IssueRun ------------------------------
(***************************************************************************)
(* One issue run after a successful bootstrap (run_composed_pipeline): the *)
(* agent loop, then its finalization, in one process, with the signals and *)
(* the outside edits that may come between two steps; and what the run     *)
(* promises.                                                               *)
(***************************************************************************)
EXTENDS Finalization

Init == OrchestratorInit /\ FinalizationInit

Program ==
  \/ (Invocation \/ Loop) /\ UNCHANGED finVars
  \/ Finalize
  \/ ProcessExit

Environment == (SignalPipeline \/ SignalRunner \/ EditTarget) /\ UNCHANGED finVars

(* main has printed the result, or the process is gone.                    *)
Over == pc \in Stopped /\ lease = "released" /\ UNCHANGED vars

Next == Program \/ Environment \/ Over

Spec == Init /\ [][Next]_vars

(* Every wait of the program is bounded: children by their timeout and the *)
(* grace periods, the backoff by its deadline, the lock is non-blocking.   *)
(* Nothing is assumed of signals, edits, or which outcome a step has.      *)
FairSpec == Spec /\ WF_vars(Program)

-----------------------------------------------------------------------------
(* Types.                                                                  *)

Checks == [status : GitStatuses \cup {None}, state : GitStates \cup {Unknown}]

ResponseTexts == {"READY", "COMPLETED", "APPROVED", "CHANGES_REQUIRED", "FAILED"}

ProcessTypes == [outcome : ProcessOutcomes \cup {None}, interrupted : BOOLEAN,
                 term : {"YES", "NO", None}]

AgentTypes == [proc : ProcessTypes, diag : Diagnostics \cup {None},
               response : ResponseTexts \cup {None}]

ResultTypes == [role : Roles, cycle : 0..MaxReviewCycles, attempt : 1..MaxAttempts,
                before : Checks, agent : AgentTypes, after : Checks,
                blocked : {"GIT_SAFETY_ERROR", "PROTOCOL_ERROR", None},
                retry : BOOLEAN]

FinTypes == [trigger : RunOutcomes \cup {None},
             review : {"APPROVED", "CHANGES_REQUIRED", None},
             interrupted : BOOLEAN, term : {"YES", "NO", None},
             persistence : PersistenceStatuses, base : GitStates \cup {Unknown}]

RecordTypes == [final : {"APPROVED", "FAILED", None}, outcome : RunOutcomes \cup {None},
                exit : {-1, 0, 10, 20, 30, 40}, persistence : PersistenceStatuses \cup {None}]

LoopPoints == {"enter", "before", "recheck", "launch", "child", "promote",
               "footer", "after", "record", "decide", "sleep"}
FinalPoints == {"postflight", "quarantine", "stage", "staged", "release", "abort",
                "released", "seal", "sealFallback", "sealed", "commit"}

(* Every variable has its type; in particular the review handed to the     *)
(* final gate (_last_review_status) is a ReviewStatus or None, and attempt *)
(* and review_cycle stay within the configuration.                         *)
TypeOK ==
  /\ pc \in LoopPoints \cup FinalPoints \cup Stopped
  /\ role \in Roles /\ cycle \in 0..MaxReviewCycles /\ attempt \in 1..MaxAttempts
  /\ before \in Checks /\ after \in Checks /\ agent \in AgentTypes
  /\ sandboxBase \in GitStates \cup {Unknown}
  /\ results \in Seq(ResultTypes)
  /\ lastAccepted \in GitStates /\ repo \in GitStates
  /\ lastTerm \in {"YES", "NO", None}
  /\ persistBlocked \in BOOLEAN /\ cancelRequested \in BOOLEAN /\ sealed \in BOOLEAN
  /\ fin \in FinTypes
  /\ orphans \subseteq {"agent", "utility"} /\ childSignal \in BOOLEAN
  /\ edits \in Nat /\ signals \in Nat /\ agentRuns \in Nat /\ lateRuns \in Nat
  /\ post \in Checks
  /\ staged \in RecordTypes /\ runJson \in RecordTypes /\ result \in RecordTypes
  /\ lease \in {"held", "released"} /\ quarantine \in {"absent", "written", "failed"}

-----------------------------------------------------------------------------
(* Safety.                                                                 *)

(* No agent is started beside one whose termination was never confirmed,   *)
(* nor after the evidence of an attempt could not be written: the checks   *)
(* of classify_attempt_outcome, decide_retry and run_logical_invocation    *)
(* must leave no path around them.                                         *)
AgentStartsClean ==
  [][agentRuns' # agentRuns => "agent" \notin orphans /\ ~persistBlocked]_vars

(* A cancellation that arrives after the check at the entry of             *)
(* run_logical_invocation lets that one agent start, and never another.    *)
CancellationStopsTheLoop == lateRuns <= 1

(* max_opencode_invocations, the closed form of retry.py, bounds what the  *)
(* two nested loops of the orchestrator really start.                      *)
AgentRunsBounded == agentRuns <= MaxOpencodeInvocations(MaxReviewCycles, MaxAttempts)

(* The loop goes past an attempt only if the next is its retry or it       *)
(* succeeded with the target SAFE on both sides: whatever went wrong is in *)
(* the last result, where the outcome of the run is read.                  *)
OnlyLastAttemptFails ==
  \A i \in DOMAIN results :
    i < Len(results) =>
      /\ results[i].blocked = None
      /\ results[i].before.status = "SAFE" /\ results[i].after.status = "SAFE"
      /\ results[i].agent.proc.term = "YES"
      /\ results[i].retry \/ results[i].agent.proc.outcome = "SUCCEEDED"

(* A provider retry is the same invocation again, on the same target: the  *)
(* next attempt sees the tree its predecessor saw, or its before-check     *)
(* stops it (decide_retry with target_changed, then the recheck of         *)
(* _last_accepted_git_state).                                              *)
RetryStartsFromSameTree ==
  \A i \in DOMAIN results :
    (i < Len(results) /\ results[i].retry) =>
      LET next == results[i + 1]
      IN /\ next.role = results[i].role /\ next.cycle = results[i].cycle
         /\ next.attempt = results[i].attempt + 1
         /\ \/ next.blocked = "GIT_SAFETY_ERROR"
            \/ next.before.state = results[i].before.state

(* A cancellation accepted before the seal decides the run, however late   *)
(* it came: the answer is FAILED with one of the outcomes that outrank the *)
(* trigger, and run.json never says APPROVED.                              *)
CancellationDecides ==
  (cancelRequested \/ fin.interrupted) /\ pc = "done" =>
    /\ result.final = "FAILED" /\ result.exit # 0
    /\ result.outcome \in {"LOGGING_ERROR", "GIT_SAFETY_ERROR", "INTERRUPTED"}
    /\ runJson.final # "APPROVED"

(* What main announces is what run.json holds; when nothing was published, *)
(* the announcement is a persistence failure.                              *)
PublishedIsAnnounced ==
  pc = "done" =>
    \/ runJson # Unpublished /\ result = runJson
    \/ runJson = Unpublished /\ result.final = "FAILED" /\ result.exit = 40

(* APPROVED is published only when the last agent that ran was a reviewer  *)
(* that said so, about the very tree the postflight found, on the branch   *)
(* and commit of the baseline, and nothing runs any more.                  *)
ApprovedTreeWasReviewed ==
  runJson.final = "APPROVED" =>
    /\ results # <<>>
    /\ Last(results).role = "REVIEWER"
    /\ Last(results).agent.response = "APPROVED"
    /\ post.status = "SAFE" /\ post.state.ref = BaseRef
    /\ post.state = Last(results).before.state
    /\ "agent" \notin orphans

(* Whoever takes the lease next finds the marker of an agent that may      *)
(* still be running, unless writing it was tried and failed.               *)
AgentOrphanQuarantined ==
  "agent" \in orphans /\ lease = "released" => quarantine # "absent"

-----------------------------------------------------------------------------
(* Liveness: every run ends, with the lease given back.                    *)
Termination == <>(pc \in Stopped /\ lease = "released")

-----------------------------------------------------------------------------
(* Statements of the documents the code does not keep.                     *)

(* README.md:169-176: a process or provider error, a timeout, a protocol   *)
(* error exit 20 as FAILED; 0 is a run without any of them.                *)
ApprovedRunHasNoFailedAttempt ==
  runJson.final = "APPROVED" => runJson.outcome = "SUCCEEDED"

(* A signal the program handled before its last decision is not lost.      *)
HandledSignalFailsTheRun ==
  pc = "done" /\ signals > 0 => result.final = "FAILED"

(* ADR-006: a termination nobody confirmed quarantines the target.         *)
UnconfirmedTerminationQuarantines ==
  pc = "done" /\ orphans # {} => quarantine # "absent"
=============================================================================
