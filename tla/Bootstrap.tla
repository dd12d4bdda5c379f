------------------------------ MODULE Bootstrap -----------------------------
(***************************************************************************)
(* A whole run of the program as run.json tells it: main,                  *)
(* run_composed_pipeline and bootstrap_run with every failure on the way,  *)
(* an outline of the agent loop and of finalize_run (IssueRun has their    *)
(* detail), and every write of run.json through RunStore, with the process *)
(* killed, interrupted or deprived of power between any two system calls.  *)
(***************************************************************************)
EXTENDS RunStore, StateMachine

CONSTANT MaxAttemptRecords   \* bound: records persisted by the agent loop

VARIABLES
  at,         \* where the program is
  latest,     \* latest_record, then the record of the loop
  persisted,  \* persisted_record, NoRecord before the first write
  error,      \* outcome of the error caught, None when there is none
  lease,      \* the lease on the target
  trigger,    \* trigger_outcome given to finalize_run
  post,       \* effective_git_safety_status
  cancelled,  \* cancellation_requested: a signal the handlers saw
  interrupted, \* finalize_run's own: it decided under a cancellation
  answer      \* what main returns and announces

runVars == <<at, latest, persisted, error, lease, trigger, post, cancelled, interrupted, answer>>
vars == <<storeVars, runVars>>

Unanswered == [final |-> None, outcome |-> None, exit |-> -1]

FirstRecord ==
  [phase |-> "PREFLIGHT", baseline |-> FALSE, issue |-> FALSE, attempts |-> 0,
   error |-> None, persistence |-> "OK", final |-> None, outcome |-> None, exit |-> -1]

Init ==
  /\ StoreInit
  /\ at = "locate" /\ latest = NoRecord /\ persisted = NoRecord /\ error = None
  /\ lease = "none" /\ trigger = None /\ post = None /\ cancelled = FALSE
  /\ interrupted = FALSE /\ answer = Unanswered

Dead == {"done", "killed", "interrupted", "powerless"}

-----------------------------------------------------------------------------
(* Before a record exists: the answer is a pre-init failure, the lease is  *)
(* released by run_composed_pipeline, and nothing is promised.             *)
PreInitFailure(outcome) ==
  /\ answer' = [final |-> None, outcome |-> outcome,
                exit |-> ResolveExitCode("FAILED", outcome)]
  /\ at' = "done"
  /\ lease' = IF lease = "held" THEN "released" ELSE lease

(* build_run_request, load_app_config, the runtime root, the executables,  *)
(* check_runtime_location and resolve_target.                              *)
Locate ==
  /\ at = "locate"
  /\ \/ at' = "acquire" /\ UNCHANGED <<answer, lease>>
     \/ \E o \in PreflightOutcomes \cup {"LOGGING_ERROR"} : PreInitFailure(o)
  /\ UNCHANGED <<storeVars, latest, persisted, error, trigger, post, cancelled, interrupted>>

Acquire ==
  /\ at = "acquire"
  /\ \/ lease' = "held" /\ at' = "initialize" /\ answer' = answer
     \/ PreInitFailure("PREFLIGHT_ERROR")
  /\ UNCHANGED <<storeVars, latest, persisted, error, trigger, post, cancelled, interrupted>>

(* create_run_directory; a directory it made and could not verify stays.   *)
Initialize ==
  /\ at = "initialize"
  /\ \/ latest' = FirstRecord /\ at' = "persistFirst" /\ UNCHANGED <<answer, lease>>
     \/ PreInitFailure("LOGGING_ERROR") /\ latest' = latest
  /\ UNCHANGED <<storeVars, persisted, error, trigger, post, cancelled, interrupted>>

-----------------------------------------------------------------------------
(* From the first record on, an OpenCodeToolsError goes to the amendment.  *)
Fail(outcome) == error' = outcome /\ at' = "amend"

(* _persist_or_raise at one point of the program.                          *)
PersistAt(point, record) == at = point /\ Persist(record) /\ UNCHANGED runVars

PersistedAt(point, record, next) ==
  /\ at = point /\ Returns("OK")
  /\ persisted' = record /\ at' = next
  /\ UNCHANGED <<latest, error, lease, trigger, post, cancelled, interrupted, answer>>

PersistFailsAt(point) ==
  /\ at = point /\ Returns("FAILED")
  /\ Fail("LOGGING_ERROR")
  /\ UNCHANGED <<latest, persisted, lease, trigger, post, cancelled, interrupted, answer>>

Learn(new) ==
  /\ latest' = new
  /\ UNCHANGED <<storeVars, persisted, lease, trigger, post, cancelled, interrupted, answer>>

FirstPersist ==
  \/ PersistAt("persistFirst", latest)
  \/ PersistedAt("persistFirst", latest, "baseline")
  \/ PersistFailsAt("persistFirst")

(* git_safety.check without a baseline: SAFE, or the run ends.             *)
CheckBaseline ==
  /\ at = "baseline"
  /\ \/ Learn([latest EXCEPT !.baseline = TRUE]) /\ at' = "issue" /\ error' = error
     \/ Learn(latest) /\ Fail("GIT_SAFETY_ERROR")

(* resolve_repository and locate_issue.                                    *)
LocateIssue ==
  /\ at = "issue"
  /\ \/ Learn([latest EXCEPT !.issue = TRUE]) /\ at' = "verify" /\ error' = error
     \/ Learn(latest) /\ Fail("PREFLIGHT_ERROR")

(* opencode_preflight.verify                                               *)
VerifyOpenCode ==
  /\ at = "verify"
  /\ \/ Learn(latest) /\ at' = "persistReady" /\ error' = error
     \/ Learn(latest) /\ Fail("PREFLIGHT_ERROR")

Ready ==
  [latest EXCEPT !.phase = Transition([phase |-> "PREFLIGHT", cycle |-> NoCycle],
                                      [kind |-> "PREFLIGHT_SUCCEEDED"], 1).phase]

ReadyPersistUnchecked ==  \* mutation
  \/ PersistAt("persistReady", Ready)
  \/ /\ at = "persistReady" /\ (Returns("OK") \/ Returns("FAILED"))
     /\ latest' = Ready /\ persisted' = Ready /\ at' = "loop"
     /\ UNCHANGED <<error, lease, trigger, post, cancelled, interrupted, answer>>

ReadyPersist ==
  \/ PersistAt("persistReady", Ready)
  \/ /\ at = "persistReady" /\ Returns("OK")
     /\ latest' = Ready /\ persisted' = Ready /\ at' = "loop"
     /\ UNCHANGED <<error, lease, trigger, post, cancelled, interrupted, answer>>
  \/ PersistFailsAt("persistReady")

AmendedPersisted ==  \* mutation
  [(IF persisted = NoRecord THEN latest ELSE persisted)
     EXCEPT !.error = error, !.phase = "POSTFLIGHT"]

(* failure_record: everything learnt, and the error.                       *)
FailureRecord ==
  [latest EXCEPT !.error = error,
                 !.phase = Transition([phase |-> "PREFLIGHT", cycle |-> NoCycle],
                                      [kind |-> "TERMINAL_OUTCOME", outcome |-> error], 1).phase]

(* If it cannot be written, finalize_run gets the last record that was.    *)
Amend ==
  \/ PersistAt("amend", FailureRecord)
  \/ /\ at = "amend"
     /\ \/ Returns("OK") /\ latest' = FailureRecord /\ persisted' = FailureRecord
        \/ /\ Returns("FAILED") /\ persisted' = persisted
           /\ latest' = IF persisted = NoRecord THEN latest ELSE persisted
     /\ trigger' = error /\ at' = "postflight"
     /\ UNCHANGED <<error, lease, post, cancelled, interrupted, answer>>

-----------------------------------------------------------------------------
(* The agent loop in outline: it persists a record for every attempt, and  *)
(* ends with an outcome; a write that fails ends it.  Signals have handlers*)
(* from here to the end of finalize_run.                                   *)
HandlersInstalled ==
  at = "loop" \/ (error = None /\ at \in {"postflight", "stage", "staged", "released", "commit"})

AttemptRecord == [latest EXCEPT !.attempts = @ + 1]

LoopPersist ==
  /\ at = "loop"
  /\ \/ latest.attempts < MaxAttemptRecords /\ Persist(AttemptRecord) /\ UNCHANGED runVars
     \/ /\ Returns("OK")
        /\ latest' = AttemptRecord /\ persisted' = AttemptRecord
        /\ UNCHANGED <<at, error, lease, trigger, post, cancelled, interrupted, answer>>
     \/ /\ Returns("FAILED")
        /\ latest' = [latest EXCEPT !.error = "LOGGING_ERROR", !.persistence = "INCOMPLETE"]
        /\ trigger' = "LOGGING_ERROR" /\ at' = "postflight"
        /\ UNCHANGED <<persisted, error, lease, post, cancelled, interrupted, answer>>

LoopEnds ==
  /\ at = "loop" /\ io = Idle /\ at' = "postflight"
  /\ trigger' \in IF cancelled THEN {"INTERRUPTED"} ELSE {"SUCCEEDED", "PROVIDER_ERROR"}
  /\ UNCHANGED <<storeVars, latest, persisted, error, lease, post, cancelled, interrupted, answer>>

-----------------------------------------------------------------------------
(* finalize_run in outline.  Without a baseline there is no postflight.    *)
Postflight ==
  /\ at = "postflight" /\ at' = "stage"
  /\ post' \in IF latest.baseline THEN GitStatuses ELSE {"INDETERMINATE"}
  /\ UNCHANGED <<storeVars, latest, persisted, error, lease, trigger, cancelled, interrupted, answer>>

Decision(cut, persistence) ==
  LET outcome == ResolveTerminalOutcome(trigger, post, cut, persistence)
      review == IF trigger = "SUCCEEDED" /\ ~cut THEN "APPROVED" ELSE None
      final == EvaluateFinalGate(review, post, "ref", "ref", persistence)
  IN [final |-> final, outcome |-> outcome, exit |-> ResolveExitCode(final, outcome)]

TerminalRecord(cut) ==
  LET d == Decision(cut, latest.persistence)
  IN [latest EXCEPT !.phase = "FINISHED", !.final = d.final, !.outcome = d.outcome, !.exit = d.exit]

Late == cancelled /\ ~interrupted

StageCall ==
  /\ at = "stage" \/ (at \in {"staged", "released"} /\ Late)
  /\ StageFinal(TerminalRecord(cancelled)) /\ interrupted' = cancelled
  /\ UNCHANGED <<at, latest, persisted, error, lease, trigger, post, cancelled, answer>>

StageReturns ==
  /\ at \in {"stage", "staged", "released"} /\ Returns("OK")
  /\ at' = IF at = "stage" THEN "staged" ELSE at
  /\ UNCHANGED <<latest, persisted, error, lease, trigger, post, cancelled, interrupted, answer>>

ReleaseLease ==
  /\ at = "staged" /\ io = Idle /\ ~Late
  /\ lease' = "released" /\ at' = "released"
  /\ UNCHANGED <<storeVars, latest, persisted, error, trigger, post, cancelled, interrupted, answer>>

(* seal_cancellation, then commit_final.                                   *)
Commit ==
  \/ /\ at = "released" /\ ~Late /\ CommitFinal
     /\ at' = "commit"
     /\ UNCHANGED <<latest, persisted, error, lease, trigger, post, cancelled, interrupted, answer>>
  \/ /\ at = "commit" /\ Returns("OK")
     /\ answer' = Decision(interrupted, latest.persistence) /\ at' = "done"
     /\ UNCHANGED <<latest, persisted, error, lease, trigger, post, cancelled, interrupted>>

FallbackKeepingOutcome ==  \* mutation
  /\ at \in {"stage", "staged", "released", "commit"} /\ io.step = "FAILED"
  /\ AbortFinal
  /\ lease' = "released" /\ at' = "done"
  /\ answer' = Decision(cancelled, latest.persistence)
  /\ UNCHANGED <<latest, persisted, error, trigger, post, cancelled, interrupted>>

(* _fallback: the terminal record could not be staged or published.        *)
Fallback ==
  /\ at \in {"stage", "staged", "released", "commit"} /\ io.step = "FAILED"
  /\ AbortFinal
  /\ lease' = "released" /\ at' = "done"
  /\ answer' = [Decision(cancelled, "FAILED") EXCEPT !.final = "FAILED"]
  /\ UNCHANGED <<latest, persisted, error, trigger, post, cancelled, interrupted>>

-----------------------------------------------------------------------------
(* What may come between two steps.                                        *)

Signal ==
  /\ HandlersInstalled /\ at # "commit" /\ cancelled' = TRUE
  /\ UNCHANGED <<storeVars, at, latest, persisted, error, lease, trigger, post, interrupted, answer>>

(* A SIGINT where Python still has its own handler: main answers 130.  (One*)
(* that comes while a child runs is a child that failed.)                  *)
KeyboardInterrupt ==
  /\ at \notin Dead /\ ~HandlersInstalled
  /\ at' = "interrupted" /\ lease' = IF lease = "held" THEN "released" ELSE lease
  /\ answer' = [final |-> None, outcome |-> "INTERRUPTED", exit |-> 130]
  /\ UNCHANGED <<storeVars, latest, persisted, error, trigger, post, cancelled, interrupted>>

(* SIGKILL, or SIGTERM without a handler: the kernel drops the lease.      *)
Kill ==
  /\ at \notin Dead /\ at' = "killed"
  /\ lease' = IF lease = "held" THEN "released" ELSE lease
  /\ UNCHANGED <<storeVars, latest, persisted, error, trigger, post, cancelled, interrupted, answer>>

PowerLoss ==
  /\ LosePower
  /\ at' = IF at \in Dead THEN at ELSE "powerless"
  /\ UNCHANGED <<latest, persisted, error, lease, trigger, post, cancelled, interrupted, answer>>

Program ==
  \/ Locate \/ Acquire \/ Initialize \/ FirstPersist \/ CheckBaseline \/ LocateIssue
  \/ VerifyOpenCode \/ ReadyPersist \/ Amend \/ LoopPersist \/ LoopEnds \/ Postflight
  \/ StageCall \/ StageReturns \/ ReleaseLease \/ Commit \/ Fallback
  \/ at \notin Dead /\ SystemCall /\ UNCHANGED runVars

Next == Program \/ Signal \/ KeyboardInterrupt \/ Kill \/ PowerLoss

Spec == Init /\ [][Next]_vars

-----------------------------------------------------------------------------
(* run.json keeps its contract, whatever fails and whenever the process or *)
(* the machine stops (write, fsync, replace, fsync of the directory).      *)
KeepsContract == Contract!ContractSpec

(* main's answer and run.json tell the same story: what was published is   *)
(* what is announced, and without a terminal record the answer is a        *)
(* persistence failure, or a failure before the run had a record.          *)
AnsweredAsRecorded ==
  at = "done" /\ power =>
    IF RunJson.phase = "FINISHED"
    THEN answer = [final |-> RunJson.final, outcome |-> RunJson.outcome, exit |-> RunJson.exit]
    ELSE answer.final # "APPROVED" /\ (answer.exit = 40 \/ RunJson = NoRecord)

(* A program that ends by itself leaves no candidate or temporary file, if *)
(* none refused to go: every path of stage_final, commit_final and their   *)
(* failures discards what it made.                                         *)
NoTemporaryLeft == at = "done" /\ power => dir.temps \subseteq litter

(* Agents work only under the lease and a run.json that holds the baseline *)
(* and the issue; so it stays when the process dies, and, if no call       *)
(* failed, when the machine does: a recovery always knows what to compare  *)
(* the target with.                                                        *)
LoopIsRecorded ==
  /\ at = "loop" => lease = "held"
  /\ latest.phase = "ARCHITECT" /\ (power \/ faults = 0) =>
       /\ RunJson.phase \in {"ARCHITECT", "FINISHED"}
       /\ RunJson.baseline /\ RunJson.issue

(* While every write succeeds, the error that ended a bootstrap is in the  *)
(* record and is the outcome announced, unless the target is no longer     *)
(* SAFE; a later failure never takes away what was learnt before it.       *)
BootstrapErrorIsNamed ==
  error # None /\ faults = 0 /\ at = "done" /\ power =>
    /\ RunJson.error = error
    /\ answer.outcome = IF post = "SAFE" THEN error
                        ELSE ResolveTerminalOutcome(error, post, FALSE, "OK")
    /\ error = "PREFLIGHT_ERROR" => RunJson.baseline

-----------------------------------------------------------------------------
(* Statements of the documents the code does not keep.                     *)

(* bootstrap_run's docstring (orchestrator.py:1113): a second persistence  *)
(* failure is not allowed to mask the original error.  (It takes the       *)
(* baseline away, so that no postflight is made.)                          *)
AmendmentMasksNothing ==
  error = "PREFLIGHT_ERROR" /\ at = "done" /\ ~latest.baseline
    => answer.outcome \in {"PREFLIGHT_ERROR", "LOGGING_ERROR"}

(* README.md:175 and _render_preinit_interrupted: 130 is an interruption   *)
(* before a run could be initialized, and no artifact was created.         *)
InterruptedBeforeArtifacts == at = "interrupted" => RunJson = NoRecord
=============================================================================
