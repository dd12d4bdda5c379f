----------------------------- MODULE Finalization ---------------------------
(***************************************************************************)
(* finalize_run: postflight check, quarantine, terminal precedence, gate,  *)
(* and the two-phase publication of the terminal record through            *)
(* _CliRunStore (stage_final, commit_final, abort_final), with the lease   *)
(* released in between and the cancellation flag read again before every   *)
(* decision that cannot be taken back.                                     *)
(***************************************************************************)
EXTENDS Orchestrator

VARIABLES
  post,        \* the postflight GitCheckRecord
  staged,      \* _staged_final_record: durable, not yet run.json
  runJson,     \* the terminal record run.json holds, Unpublished before
  result,      \* the IssueResult returned to main
  lease,       \* the advisory lock on the target
  quarantine   \* the marker: absent, written, or tried in vain

finVars == <<post, staged, runJson, result, lease, quarantine>>
vars == <<orchVars, finVars>>

Unpublished == [final |-> None, outcome |-> None, exit |-> -1, persistence |-> None]

FinalizationInit ==
  /\ post = NoCheck
  /\ staged = Unpublished /\ runJson = Unpublished /\ result = Unpublished
  /\ lease = "held" /\ quarantine = "absent"

(* What finalize_run leaves alone of the orchestrator at every step.       *)
LoopDone == UNCHANGED <<position, locals, results, lastAccepted, lastTerm,
                        persistBlocked, cancelRequested, repo, childSignal,
                        env, counts>>

-----------------------------------------------------------------------------
(* An unconfirmed termination makes the postflight INDETERMINATE, whatever *)
(* the check saw.                                                          *)
EffectiveStatus == IF fin.term = "NO" THEN "INDETERMINATE" ELSE post.status

(* _build_terminal_record                                                  *)
TerminalRecord(interrupted) ==
  LET outcome == ResolveTerminalOutcome(fin.trigger, EffectiveStatus,
                                        interrupted, fin.persistence)
      final == EvaluateFinalGate(IF interrupted THEN None ELSE fin.review,
                                 EffectiveStatus, BaseRef, post.state.ref,
                                 fin.persistence)
  IN [final |-> final, outcome |-> outcome,
      exit |-> ResolveExitCode(final, outcome), persistence |-> fin.persistence]

(* _fallback: the result when the terminal record could not be published.  *)
Fallback(interrupted) ==
  LET outcome == ResolveTerminalOutcome(fin.trigger, EffectiveStatus,
                                        interrupted, "FAILED")
  IN [final |-> "FAILED", outcome |-> outcome,
      exit |-> ResolveExitCode("FAILED", outcome), persistence |-> "FAILED"]

(* _observe_cancellation and seal_cancellation read the same flag.         *)
Interrupted == fin.interrupted \/ cancelRequested
LateCancellation == cancelRequested /\ ~fin.interrupted

-----------------------------------------------------------------------------
Postflight ==
  /\ pc = "postflight"
  /\ post' \in GitChecks(fin.base, None)
  /\ OrphanAfterCheck(post')
  /\ pc' = "quarantine"
  /\ LoopDone /\ UNCHANGED <<sealed, fin, staged, runJson, result, lease, quarantine>>

(* lease.quarantine: a LoggingError is recorded and the run goes on; the   *)
(* PreflightError of _ensure_coordination_directory is not caught.         *)
Quarantine ==
  /\ pc = "quarantine"
  /\ \/ /\ fin.term = "NO"
        /\ quarantine' \in {"written", "failed"}
        /\ pc' = "stage"
     \/ /\ fin.term = "NO"
        /\ quarantine' = "failed"
        /\ pc' = "escaped"
     \/ /\ fin.term # "NO"
        /\ pc' = "stage" /\ quarantine' = quarantine
  /\ LoopDone /\ UNCHANGED <<sealed, fin, orphans, post, staged, runJson, result, lease>>

(* stage_final of a record built under `interrupted`; a failure aborts.    *)
StageRecord(interrupted) ==
  /\ fin' = [fin EXCEPT !.interrupted = interrupted]
  /\ staged' = TerminalRecord(interrupted)

StageFails(interrupted) ==
  /\ fin' = [fin EXCEPT !.interrupted = interrupted]
  /\ staged' = Unpublished

Stage ==
  /\ pc = "stage"
  /\ \/ StageRecord(Interrupted) /\ pc' = "staged"
     \/ StageFails(Interrupted) /\ pc' = "abort"
  /\ LoopDone /\ UNCHANGED <<sealed, orphans, post, runJson, result, lease, quarantine>>

(* A cancellation that arrived while the record was staged: it is built and*)
(* staged again.                                                           *)
RestageBeforeRelease ==
  /\ pc = "staged"
  /\ \/ LateCancellation /\ StageRecord(TRUE) /\ pc' = "release"
     \/ LateCancellation /\ StageFails(TRUE) /\ pc' = "abort"
     \/ ~LateCancellation /\ pc' = "release" /\ UNCHANGED <<fin, staged>>
  /\ LoopDone /\ UNCHANGED <<sealed, orphans, post, runJson, result, lease, quarantine>>

ReleaseLease ==
  /\ pc \in {"release", "abort"}
  /\ lease' = "released"
  /\ pc' = IF pc = "release" THEN "released" ELSE "sealFallback"
  /\ LoopDone /\ UNCHANGED <<sealed, fin, orphans, post, staged, runJson, result, quarantine>>

RestageAfterRelease ==
  /\ pc = "released"
  /\ \/ LateCancellation /\ StageRecord(TRUE) /\ pc' = "seal"
     \/ LateCancellation /\ StageFails(TRUE) /\ pc' = "sealFallback"
     \/ ~LateCancellation /\ pc' = "seal" /\ UNCHANGED <<fin, staged>>
  /\ LoopDone /\ UNCHANGED <<sealed, orphans, post, runJson, result, lease, quarantine>>

SealWithoutReading ==  \* mutation
  /\ pc = "seal"
  /\ sealed' = TRUE
  /\ pc' = "commit"
  /\ LoopDone /\ UNCHANGED <<fin, orphans, post, staged, runJson, result, lease, quarantine>>

(* After an abort: seal, then answer with the fallback.                    *)
SealFallback ==
  /\ pc = "sealFallback"
  /\ sealed' = TRUE
  /\ fin' = [fin EXCEPT !.interrupted = Interrupted]
  /\ result' = Fallback(Interrupted)
  /\ pc' = "done"
  /\ LoopDone /\ UNCHANGED <<orphans, post, staged, runJson, lease, quarantine>>

(* seal_cancellation closes the door and returns what was accepted.        *)
Seal ==
  /\ pc = "seal"
  /\ sealed' = TRUE
  /\ pc' = "sealed"
  /\ LoopDone /\ UNCHANGED <<fin, orphans, post, staged, runJson, result, lease, quarantine>>

RestageAfterSeal ==
  /\ pc = "sealed"
  /\ \/ /\ LateCancellation /\ StageRecord(TRUE)
        /\ pc' = "commit" /\ result' = result
     \/ /\ LateCancellation /\ StageFails(TRUE)
        /\ pc' = "done" /\ result' = Fallback(TRUE)
     \/ /\ ~LateCancellation
        /\ pc' = "commit" /\ UNCHANGED <<fin, staged, result>>
  /\ LoopDone /\ UNCHANGED <<sealed, orphans, post, runJson, lease, quarantine>>

CommitIgnoringFailure ==  \* mutation
  /\ pc = "commit"
  /\ runJson' \in {staged, runJson} /\ result' = staged
  /\ staged' = Unpublished
  /\ pc' = "done"
  /\ LoopDone /\ UNCHANGED <<sealed, fin, orphans, post, lease, quarantine>>

(* commit_final: os.replace, the only step that publishes a result.        *)
Commit ==
  /\ pc = "commit"
  /\ \/ runJson' = staged /\ result' = staged
     \/ runJson' = runJson /\ result' = Fallback(fin.interrupted)
  /\ staged' = Unpublished
  /\ pc' = "done"
  /\ LoopDone /\ UNCHANGED <<sealed, fin, orphans, post, lease, quarantine>>

(* The process died of an exception: the kernel drops its flock.           *)
ProcessExit ==
  /\ pc = "escaped" /\ lease = "held"
  /\ lease' = "released"
  /\ UNCHANGED <<orchVars, post, staged, runJson, result, quarantine>>

Finalize ==
  \/ Postflight \/ Quarantine \/ Stage \/ RestageBeforeRelease \/ ReleaseLease
  \/ RestageAfterRelease \/ SealFallback \/ Seal \/ RestageAfterSeal \/ Commit
=============================================================================
