------------------------- MODULE IssueRunResultProofs ------------------------
(***************************************************************************)
(* What a run answers, for every configuration: from which attempts the    *)
(* answer is read, about which tree it speaks, and that what is announced  *)
(* is what was published, whenever a cancellation came.                    *)
(*                                                                         *)
(* Three inductive invariants beside TypeInv and OrphanInv.  LoopInv       *)
(* follows the states the orchestrator accepted through the history of     *)
(* results, AnswerInv the record that is staged, sealed and committed, and *)
(* ReviewInv the review and the tree that finalize_run is given.           *)
(***************************************************************************)
EXTENDS IssueRunProofs

-----------------------------------------------------------------------------
(* The loop.                                                               *)

(* A result SubprocessRunner.run really returned, read as _classify does.  *)
Real(a) ==
  /\ a.proc.outcome \in ProcessOutcomes
  /\ a.proc.outcome = "SUCCEEDED" => a.proc.term = "YES"
  /\ a.response # None => a.diag = None

(* What run_logical_invocation guarantees of any result it returns.        *)
Sound(r) ==
  /\ r.blocked = None => r.before.status = "SAFE" /\ Real(r.agent)
  /\ r.blocked # None => r.agent.response = None /\ ~r.retry
  /\ r.retry => /\ r.blocked = None /\ r.after.status = "SAFE"
                /\ r.agent.proc.term = "YES" /\ r.agent.diag # None

(* What the loop has seen of a result it went past.                        *)
Passed(r) ==
  /\ r.blocked = None /\ r.before.status = "SAFE" /\ r.after.status = "SAFE"
  /\ r.agent.proc.term = "YES"
  /\ r.retry \/ r.agent.proc.outcome = "SUCCEEDED"
  /\ ~(r.role = "REVIEWER" /\ r.agent.response = "APPROVED")

HistoryInv ==
  /\ \A i \in 1..Len(results) : Sound(results[i])
  /\ \A i \in 1..Len(results) :
       i < Len(results) \/ pc \in LoopPoints \ {"decide"} => Passed(results[i])

WithAgent == {"promote", "footer", "after", "record"}
Launched == {"launch", "child"} \cup WithAgent

(* _last_accepted_git_state and the two checks around an agent.            *)
AcceptedInv ==
  /\ pc \in LoopPoints =>
       lastAccepted = IF pc = "record" /\ after.status = "SAFE" THEN after.state ELSE LastSafeState
  /\ pc \in Launched => before.status = "SAFE"
  /\ pc \in Launched \cup {"recheck"} /\ before.status = "SAFE" => before.state = LastSafeState
  /\ pc \in WithAgent => Real(agent)
  /\ pc = "record" /\ after.status = "SAFE" =>
       /\ after.state \in GitStates /\ after.state.ref = before.state.ref
       /\ role # "CODER" => after.state = before.state

(* The retry in progress, and where the loop stands after a result.        *)
RetryInv ==
  /\ RetryStartsFromSameTree
  /\ pc \in LoopPoints \ {"decide"} /\ Len(results) > 0 /\ Last(results).retry =>
       /\ role = Last(results).role /\ cycle = Last(results).cycle
       /\ attempt = Last(results).attempt + 1
       /\ LastSafeState = Last(results).before.state
  /\ pc = "decide" /\ Last(results).blocked = None
       /\ (Last(results).role # "CODER" \/ Last(results).retry) =>
       LastSafeState = Last(results).before.state

LoopInv == HistoryInv /\ AcceptedInv /\ RetryInv

-----------------------------------------------------------------------------
(* The finalization.                                                       *)

Finishing == FinalPoints \cup {"done"}
StagedPoints == {"staged", "release", "released", "seal", "sealed", "commit"}

(* What finalize_run is given and what its own check saw.                  *)
ReviewInv ==
  /\ pc \in Finishing /\ fin.review = "APPROVED" =>
       /\ Len(results) > 0
       /\ Last(results).role = "REVIEWER" /\ Last(results).agent.response = "APPROVED"
       /\ fin.base = Last(results).before.state
  /\ pc \in Finishing \ {"postflight"} /\ post.status = "SAFE" => post.state = fin.base
  /\ pc \in Finishing /\ "agent" \in orphans => fin.term = "NO"

PublishInv ==
  /\ pc # "done" => result = Unpublished /\ runJson = Unpublished
  /\ pc \in StagedPoints => staged = TerminalRecord(fin.interrupted)
  /\ pc \in {"sealed", "commit", "done"} => sealed
  /\ pc = "commit" => ~LateCancellation
  /\ pc = "done" => runJson \in {Unpublished, TerminalRecord(fin.interrupted)}

-----------------------------------------------------------------------------
(* Who changes what.                                                       *)

(* The loop leaves for finalize_run through one door, or not at all.       *)
LEMMA LoopStays ==
  ASSUME Invocation \/ Loop
  PROVE  /\ pc \in LoopPoints /\ pc' \in LoopPoints \cup {"postflight", "escaped"}
         /\ sealed' = sealed
<1> USE DEF LoopPoints
<1>1. CASE EnterRefused \/ OpenSinkFails \/ OpenSink \/ CheckBefore
  BY <1>1 DEF EnterRefused, OpenSinkFails, MayEnter, Raise, RaiseWith, OpenSink, CheckBefore
<1>2. CASE BlockInvocation \/ ControlPlaneUnchanged \/ HeaderFails \/ StartAgent
  BY <1>2 DEF BlockInvocation, Report, Raise, RaiseWith, ControlPlaneUnchanged, HeaderFails,
     StartAgent
<1>3. CASE SandboxFails \/ AgentExits \/ Promote \/ PromotionBlocked
  BY <1>3 DEF SandboxFails, Escape, AgentReturns, AgentExits, Promote, PromotionBlocked
<1>4. CASE WriteFooter \/ FooterFails \/ CheckAfter \/ CloseFails
  BY <1>4 DEF WriteFooter, AgentReturns, FooterFails, Raise, RaiseWith, CheckAfter, CloseFails
<1>5. CASE RecordAttempt \/ PersistFails \/ Loop
  BY <1>5 DEF RecordAttempt, Report, PersistFails, Raise, RaiseWith, Loop,
     RetryAttempt, Sleep, NextInvocation, FinishLoop
<1> QED BY <1>1, <1>2, <1>3, <1>4, <1>5 DEF Invocation

(* Signals and edits of the target touch no variable of the program, and   *)
(* no signal counts once the cancellation is sealed.                       *)
LEMMA EnvironmentStays ==
  ASSUME TypeInv, Environment
  PROVE  /\ UNCHANGED <<pc, position, locals, results, lastAccepted, sealed, fin, orphans, finVars>>
         /\ sealed => cancelRequested' = cancelRequested
<1>1. cancelRequested \in BOOLEAN /\ sealed \in BOOLEAN
  BY DEF TypeInv, TypeOK
<1> QED BY <1>1 DEF Environment, SignalPipeline, SignalRunner, EditTarget, position, locals

(* finalize_run touches nothing of the loop.                               *)
LEMMA FinalizeKeepsLoop == ASSUME Finalize PROVE LoopDone
BY DEF Finalize, Postflight, Quarantine, Stage, RestageBeforeRelease,
   ReleaseLease, RestageAfterRelease, SealFallback, Seal, RestageAfterSeal, Commit

-----------------------------------------------------------------------------
(* The record that is staged is the one the current arguments build.       *)

(* It is built again for another answer of the cancellation,               *)
LEMMA RecordFollows ==
  ASSUME fin \in FinTypes, NEW i \in BOOLEAN, post' = post, fin' = [fin EXCEPT !.interrupted = i]
  PROVE  TerminalRecord(fin.interrupted)' = TerminalRecord(i) /\ fin'.interrupted = i
<1>1. /\ fin'.interrupted = i /\ fin'.trigger = fin.trigger /\ fin'.review = fin.review
      /\ fin'.term = fin.term /\ fin'.persistence = fin.persistence
  BY DEF FinTypes
<1> QED BY <1>1 DEF TerminalRecord, EffectiveStatus

(* and is the same one while the arguments are.                            *)
LEMMA RecordStays ==
  ASSUME post' = post, fin' = fin
  PROVE  TerminalRecord(fin.interrupted)' = TerminalRecord(fin.interrupted)
BY DEF TerminalRecord, EffectiveStatus

(* What the two records say.                                               *)
LEMMA RecordSays ==
  ASSUME fin \in FinTypes, fin.trigger \in RunOutcomes, NEW i \in BOOLEAN
  PROVE  /\ TerminalRecord(i) # Unpublished
         /\ i => /\ TerminalRecord(i).final = "FAILED" /\ TerminalRecord(i).exit # 0
                 /\ TerminalRecord(i).outcome \in {"LOGGING_ERROR", "GIT_SAFETY_ERROR", "INTERRUPTED"}
         /\ Fallback(i).final = "FAILED" /\ Fallback(i).exit = 40
         /\ Fallback(i).outcome = "LOGGING_ERROR"
<1>1. \A r, g, b, p, q : EvaluateFinalGate(r, g, b, p, q) \in {"APPROVED", "FAILED"}
  BY DEF EvaluateFinalGate
<1>2. TerminalRecord(i) # Unpublished
  BY <1>1 DEF TerminalRecord, Unpublished, None
<1>3. \A t, g, p : ResolveTerminalOutcome(t, g, TRUE, p) \in
                     {"LOGGING_ERROR", "GIT_SAFETY_ERROR", "INTERRUPTED"}
  BY DEF ResolveTerminalOutcome, TerminalCauses
<1>4. \A o \in {"LOGGING_ERROR", "GIT_SAFETY_ERROR", "INTERRUPTED"} : ExitCodeByOutcome[o] # 0
  BY DEF ExitCodeByOutcome, RunOutcomes
<1>5. i => TerminalRecord(i).final = "FAILED"
  BY DEF TerminalRecord, EvaluateFinalGate, None
<1>6. i => TerminalRecord(i).outcome \in {"LOGGING_ERROR", "GIT_SAFETY_ERROR", "INTERRUPTED"}
  BY <1>3 DEF TerminalRecord
<1>7. TerminalRecord(i).exit = ResolveExitCode(TerminalRecord(i).final, TerminalRecord(i).outcome)
  BY DEF TerminalRecord
<1>8. i => TerminalRecord(i).exit # 0
  BY <1>4, <1>5, <1>6, <1>7 DEF ResolveExitCode
<1>9. /\ Fallback(i).final = "FAILED" /\ Fallback(i).outcome = "LOGGING_ERROR"
      /\ Fallback(i).exit = 40
  BY DEF Fallback, ResolveTerminalOutcome, TerminalCauses, ResolveExitCode, ExitCodeByOutcome,
     RunOutcomes, PreflightOutcomes
<1> QED BY <1>2, <1>5, <1>6, <1>8, <1>9

AnswerInv == PublishInv /\ CancellationDecides /\ PublishedIsAnnounced

(* No step makes the answer differ from the record.                        *)
LEMMA AnswerStep ==
  ASSUME TypeInv, AnswerInv, [Next]_vars PROVE AnswerInv'
<1> USE DEF AnswerInv, PublishInv, StagedPoints, LoopPoints, finVars
<1>0. /\ fin \in FinTypes /\ fin.interrupted \in BOOLEAN /\ cancelRequested \in BOOLEAN
      /\ pc \in FinalPoints => fin.trigger \in RunOutcomes
      /\ Interrupted \in BOOLEAN
  BY DEF TypeInv, TypeOK, Placed, FinTypes, Interrupted
<1>1. CASE (Invocation \/ Loop) /\ UNCHANGED finVars
  BY <1>1, LoopStays DEF CancellationDecides, PublishedIsAnnounced
<1>2. CASE Environment
  <2>1. UNCHANGED <<pc, sealed, fin, post, staged, runJson, result>>
    BY <1>2, EnvironmentStays
  <2>2. pc \in {"commit", "done"} => cancelRequested' = cancelRequested
    BY <1>0, <1>2, EnvironmentStays
  <2>3. TerminalRecord(fin.interrupted)' = TerminalRecord(fin.interrupted)
    BY <2>1, RecordStays
  <2>4. PublishInv'
    BY <2>1, <2>2, <2>3 DEF LateCancellation
  <2> QED BY <2>1, <2>2, <2>4 DEF CancellationDecides, PublishedIsAnnounced
<1>3. CASE Postflight \/ Quarantine
  BY <1>3 DEF Postflight, Quarantine, LoopDone, CancellationDecides, PublishedIsAnnounced
<1>4. CASE Stage
  <2>1. CASE StageRecord(Interrupted) /\ pc' = "staged"
    BY <1>0, <1>4, <2>1, RecordFollows
       DEF Stage, StageRecord, LoopDone, CancellationDecides, PublishedIsAnnounced
  <2>2. CASE pc' = "abort"
    BY <1>4, <2>2 DEF Stage, LoopDone, CancellationDecides, PublishedIsAnnounced
  <2> QED BY <1>4, <2>1, <2>2 DEF Stage
<1>5. CASE RestageBeforeRelease
  <2>1. CASE StageRecord(TRUE)
    BY <1>0, <1>5, <2>1, RecordFollows
       DEF RestageBeforeRelease, StageRecord, LoopDone, CancellationDecides, PublishedIsAnnounced
  <2>2. CASE pc' = "abort"
    BY <1>5, <2>2 DEF RestageBeforeRelease, LoopDone, CancellationDecides, PublishedIsAnnounced
  <2>3. CASE UNCHANGED <<fin, staged>>
    BY <1>5, <2>3, RecordStays
       DEF RestageBeforeRelease, LoopDone, CancellationDecides, PublishedIsAnnounced
  <2> QED BY <1>5, <2>1, <2>2, <2>3 DEF RestageBeforeRelease
<1>6. CASE ReleaseLease \/ Seal
  BY <1>6, RecordStays
     DEF ReleaseLease, Seal, LoopDone, CancellationDecides, PublishedIsAnnounced
<1>7. CASE RestageAfterRelease
  <2>1. CASE StageRecord(TRUE)
    BY <1>0, <1>7, <2>1, RecordFollows
       DEF RestageAfterRelease, StageRecord, LoopDone, CancellationDecides, PublishedIsAnnounced
  <2>2. CASE pc' = "sealFallback"
    BY <1>7, <2>2 DEF RestageAfterRelease, LoopDone, CancellationDecides, PublishedIsAnnounced
  <2>3. CASE UNCHANGED <<fin, staged>>
    BY <1>7, <2>3, RecordStays
       DEF RestageAfterRelease, LoopDone, CancellationDecides, PublishedIsAnnounced
  <2> QED BY <1>7, <2>1, <2>2, <2>3 DEF RestageAfterRelease
<1>8. CASE SealFallback
  <2>1. /\ pc = "sealFallback" /\ pc' = "done" /\ sealed' = TRUE
        /\ result' = Fallback(Interrupted) /\ runJson' = Unpublished
    BY <1>8 DEF SealFallback
  <2>2. pc \in FinalPoints
    BY <2>1 DEF FinalPoints
  <2>3. /\ result'.final = "FAILED" /\ result'.exit = 40 /\ result'.outcome = "LOGGING_ERROR"
    BY <1>0, <2>1, <2>2, RecordSays
  <2> QED BY <2>1, <2>3 DEF CancellationDecides, PublishedIsAnnounced, Unpublished, None
<1>9. CASE RestageAfterSeal
  <2>1. pc = "sealed" /\ sealed' = sealed /\ runJson' = Unpublished /\ pc \in FinalPoints
    BY <1>9 DEF RestageAfterSeal, FinalPoints
  <2>2. CASE StageRecord(TRUE) /\ pc' = "commit" /\ result' = result
    <3>1. UNCHANGED <<post, cancelRequested>>
      BY <1>9 DEF RestageAfterSeal, LoopDone
    <3> QED BY <1>0, <2>1, <2>2, <3>1, RecordFollows
            DEF StageRecord, LateCancellation, CancellationDecides, PublishedIsAnnounced
  <2>3. CASE pc' = "done"
    <3>1. result' = Fallback(TRUE)
      BY <1>9, <2>3 DEF RestageAfterSeal
    <3>2. result'.final = "FAILED" /\ result'.exit = 40 /\ result'.outcome = "LOGGING_ERROR"
      BY <1>0, <2>1, <3>1, RecordSays
    <3> QED BY <2>1, <2>3, <3>2 DEF CancellationDecides, PublishedIsAnnounced, Unpublished, None
  <2>4. CASE ~LateCancellation /\ pc' = "commit" /\ UNCHANGED <<fin, staged, result>>
    <3>1. cancelRequested' = cancelRequested /\ post' = post
      BY <1>9 DEF RestageAfterSeal, LoopDone
    <3> QED BY <2>1, <2>4, <3>1, RecordStays
            DEF LateCancellation, CancellationDecides, PublishedIsAnnounced
  <2> QED BY <1>9, <2>2, <2>3, <2>4 DEF RestageAfterSeal
<1>10. CASE Commit
  <2>1. /\ pc = "commit" /\ pc' = "done" /\ pc \in FinalPoints /\ sealed' = sealed
        /\ UNCHANGED <<fin, post, cancelRequested>>
        /\ staged = TerminalRecord(fin.interrupted) /\ runJson = Unpublished
    BY <1>10 DEF Commit, LoopDone, FinalPoints
  <2>2. cancelRequested => fin.interrupted
    BY <2>1 DEF LateCancellation
  <2>3. TerminalRecord(fin.interrupted)' = TerminalRecord(fin.interrupted)
    BY <2>1, RecordStays
  <2>4. CASE runJson' = staged /\ result' = staged
    <3>1. PublishInv'
      BY <2>1, <2>3, <2>4
    <3>2. CancellationDecides'
      BY <1>0, <2>1, <2>2, <2>4, RecordSays DEF CancellationDecides
    <3>3. PublishedIsAnnounced'
      BY <1>0, <2>1, <2>4, RecordSays DEF PublishedIsAnnounced
    <3> QED BY <3>1, <3>2, <3>3
  <2>5. CASE runJson' = runJson /\ result' = Fallback(fin.interrupted)
    <3>1. result'.final = "FAILED" /\ result'.exit = 40 /\ result'.outcome = "LOGGING_ERROR"
      BY <1>0, <2>1, <2>5, RecordSays
    <3> QED BY <2>1, <2>5, <3>1 DEF CancellationDecides, PublishedIsAnnounced, Unpublished, None
  <2> QED BY <1>10, <2>4, <2>5 DEF Commit
<1>11. CASE ProcessExit \/ UNCHANGED vars
  <2>1. UNCHANGED <<pc, sealed, cancelRequested, fin, post, staged, runJson, result>>
    BY <1>11 DEF ProcessExit, vars, orchVars
  <2> QED BY <2>1, RecordStays DEF LateCancellation, CancellationDecides, PublishedIsAnnounced
<1> QED
  BY <1>1, <1>2, <1>3, <1>4, <1>5, <1>6, <1>7, <1>8, <1>9, <1>10, <1>11
  DEF Next, Program, Finalize, Over

(* Before the loop there is neither.                                       *)
LEMMA AnswerInit == Init => AnswerInv
BY DEF Init, OrchestratorInit, FinalizationInit, AnswerInv, PublishInv, StagedPoints,
   CancellationDecides, PublishedIsAnnounced

(* Every reachable state satisfies it, with the types.                     *)
THEOREM AnswerInvariant == Spec => []AnswerInv
<1>1. Init => TypeInv /\ AnswerInv
  BY ConstantsAssumption, TypeInvInit, AnswerInit
<1>2. TypeInv /\ AnswerInv /\ [Next]_vars => TypeInv' /\ AnswerInv'
  BY ConstantsAssumption, TypeInvStep, AnswerStep
<1> QED BY <1>1, <1>2, PTL DEF Spec

(* Whenever it comes before the seal, a cancellation makes the answer      *)
(* FAILED with an outcome that outranks the trigger; run.json agrees.      *)
THEOREM CancellationPrevails == Spec => []CancellationDecides
<1>1. AnswerInv => CancellationDecides
  BY DEF AnswerInv
<1> QED BY <1>1, AnswerInvariant, PTL

(* The answer main prints is the record published in run.json, or admits   *)
(* that nothing was published.                                             *)
THEOREM AnswerIsTheRecord == Spec => []PublishedIsAnnounced
<1>1. AnswerInv => PublishedIsAnnounced
  BY DEF AnswerInv
<1> QED BY <1>1, AnswerInvariant, PTL

-----------------------------------------------------------------------------
(* How _last_accepted_git_state follows the history.                       *)

(* It depends on the history alone.                                        *)
LEMMA SafeStays == ASSUME results' = results PROVE LastSafeState' = LastSafeState
BY DEF LastSafeState, AgentResults

(* A new result that ran and ended SAFE is the last one; any other leaves  *)
(* the last one where it was.                                              *)
LEMMA AppendSafe ==
  ASSUME results \in Seq(ResultTypes), NEW r \in ResultTypes, results' = Append(results, r)
  PROVE  LastSafeState' = IF r.blocked = None /\ r.after.status = "SAFE"
                          THEN r.after.state ELSE LastSafeState
<1> DEFINE n == Len(results)
           safe == {i \in AgentResults : results[i].after.status = "SAFE"}
           top(S) == CHOOSE i \in S : \A j \in S : j <= i
<1>1. /\ n \in Nat /\ DOMAIN results = 1..n /\ DOMAIN results' = 1..(n + 1)
      /\ results'[n + 1] = r /\ \A i \in 1..n : results'[i] = results[i]
  OBVIOUS
<1>2. /\ LastSafeState = IF safe = {} THEN Baseline ELSE results[top(safe)].after.state
      /\ LastSafeState' = IF safe' = {} THEN Baseline ELSE results'[top(safe')].after.state
  BY DEF LastSafeState
<1>3. /\ \A i : i \in safe <=> /\ i \in 1..n /\ results[i].blocked = None
                               /\ results[i].after.status = "SAFE"
      /\ \A i : i \in safe' <=> /\ i \in 1..(n + 1) /\ results'[i].blocked = None
                                /\ results'[i].after.status = "SAFE"
  BY <1>1 DEF AgentResults
<1> HIDE DEF safe
<1>4. CASE r.blocked = None /\ r.after.status = "SAFE"
  <2>1. safe' = safe \cup {n + 1} /\ safe \subseteq 1..n
    BY <1>1, <1>3, <1>4
  <2>2. n + 1 \in safe' /\ \A j \in safe' : j <= n + 1
    BY <1>1, <2>1
  <2>3. top(safe') \in safe' /\ \A j \in safe' : j <= top(safe')
    BY <2>2
  <2>4. top(safe') = n + 1
    <3> DEFINE t == top(safe')
    <3>1. t \in safe' /\ n + 1 <= t
      BY <2>2, <2>3
    <3>2. t \in 1..(n + 1)
      BY <1>3, <3>1
    <3> HIDE DEF t
    <3>3. t = n + 1
      BY <1>1, <3>1, <3>2
    <3> QED BY <3>3 DEF t
  <2>5. safe' # {}
    BY <2>2
  <2> HIDE DEF top
  <2> QED BY <1>1, <1>2, <1>4, <2>4, <2>5
<1>5. CASE ~(r.blocked = None /\ r.after.status = "SAFE")
  <2>1. safe' = safe /\ safe \subseteq 1..n
    <3>1. \A i : i \in safe' <=> i \in safe
      BY <1>1, <1>3, <1>5
    <3> QED BY <1>3, <3>1
  <2>2. CASE safe = {}
    BY <1>2, <1>3, <1>5, <2>1, <2>2
  <2>3. CASE safe # {}
    <3>1. top(safe) \in safe
      <4>1. \E i \in safe : \A j \in safe : j <= i
        BY <1>1, <2>1, <2>3, LastIndexExists
      <4> QED BY <4>1
    <3>2. results'[top(safe)] = results[top(safe)]
      BY <1>1, <2>1, <3>1
    <3>3. top(safe') = top(safe)
      BY <2>1
    <3> HIDE DEF top
    <3> QED BY <1>2, <1>3, <1>5, <2>1, <2>3, <3>2, <3>3
  <2> QED BY <2>2, <2>3
<1> QED BY <1>4, <1>5

(* Every result SubprocessRunner.run returns for the agent is real.        *)
LEMMA AgentResultReal == ASSUME NEW a \in AgentResultSet PROVE Real(a)
BY DEF AgentResultSet, ProcessResults, PossibleResults, Real

(* Only an attempt the provider disturbed may be repeated, on a target     *)
(* that was SAFE and, for a coder, still the same.                         *)
LEMMA RetryEvidence ==
  ASSUME RetryDecision, agent \in AgentTypes
  PROVE  /\ agent.diag # None /\ agent.proc.term = "YES" /\ after.status = "SAFE"
         /\ role = "CODER" => before.state.tree = after.state.tree
BY DEF RetryDecision, RetryAuthorized, None

(* The loop goes on only past a success, or not an approval.               *)
LEMMA NextPassed ==
  ASSUME TypeInv, HistoryInv, pc = "decide", Successor.phase \in Roles, ~Last(results).retry
  PROVE  Passed(Last(results))
<1> DEFINE r == Last(results)
           e == EventOf(r)
<1>1. r \in ResultTypes /\ Sound(r) /\ r.role = role /\ role \in Roles /\ r.agent \in AgentTypes
  <2>1. Len(results) \in 1..Len(results) /\ r = results[Len(results)]
    BY DEF TypeInv, TypeOK, Placed, Last
  <2>2. r \in ResultTypes /\ r.role = role /\ role \in Roles
    BY <2>1 DEF TypeInv, TypeOK, Placed
  <2>3. Sound(r)
    BY <2>1 DEF HistoryInv
  <2> QED BY <2>2, <2>3 DEF ResultTypes
<1>2. Successor = Transition([phase |-> role, cycle |-> cycle], e, MaxReviewCycles)
  BY DEF Successor
<1>3. AttemptOutcome(r) = "SUCCEEDED"
  BY <1>1, <1>2 DEF EventOf, Transition, Moved, Roles, FailablePhases
<1>4. r.blocked = None /\ r.after.status = "SAFE" /\ ClassifyAgentResult(r.agent) = "SUCCEEDED"
  BY <1>1, <1>3 DEF AttemptOutcome, ResultTypes
<1>5. r.agent.proc.outcome = "SUCCEEDED" /\ r.agent.proc.term = "YES" /\ r.before.status = "SAFE"
  BY <1>1, <1>4, ClassifyAgent DEF Sound, Real, ProcessOutcomes, StopReasons, None
<1>6. ~(r.role = "REVIEWER" /\ r.agent.response = "APPROVED")
  <2> SUFFICES ASSUME r.role = "REVIEWER", r.agent.response = "APPROVED" PROVE FALSE
    OBVIOUS
  <2>1. e.kind = "REVIEWER_APPROVED" /\ role = "REVIEWER"
    BY <1>1, <1>3 DEF EventOf, EventOfResponse
  <2> HIDE DEF e
  <2> QED BY <1>2, <2>1 DEF Transition, Moved, Edges, Roles, FailablePhases
<1> QED BY <1>4, <1>5, <1>6 DEF Passed

Between == LoopPoints \ {"decide"}

(* Leaving the loop, or moving outside it, adds nothing to the history.    *)
LEMMA LeftLoop ==
  ASSUME LoopInv, results' = results, pc' \notin LoopPoints
  PROVE  LoopInv'
BY DEF LoopInv, HistoryInv, AcceptedInv, RetryInv, RetryStartsFromSameTree, WithAgent,
       Launched, LoopPoints, Sound, Real, Passed

(* Between two results the history and the retry stand still.              *)
LEMMA HistoryStands ==
  ASSUME LoopInv, UNCHANGED <<results, position>>, pc \in Between, pc' \in Between
  PROVE  HistoryInv' /\ RetryInv' /\ LastSafeState' = LastSafeState
<1>1. LastSafeState' = LastSafeState
  BY SafeStays
<1>2. HistoryInv'
  BY DEF LoopInv, HistoryInv, Between, LoopPoints, Sound, Real, Passed
<1>3. RetryStartsFromSameTree'
  BY DEF LoopInv, RetryInv, RetryStartsFromSameTree
<1>4. RetryInv'
  BY <1>1, <1>3 DEF LoopInv, RetryInv, Between, position, Last
<1> QED BY <1>1, <1>2, <1>4

(* Every step of an invocation up to its result.                           *)
LEMMA InvocationStep ==
  ASSUME TypeInv, LoopInv,
         \/ OpenSink \/ CheckBefore \/ ControlPlaneUnchanged \/ SandboxFails
         \/ StartAgent \/ AgentExits \/ Promote \/ PromotionBlocked
         \/ WriteFooter \/ CheckAfter
  PROVE  LoopInv'
<1> USE DEF position, locals, Between, LoopPoints
<1>0. /\ before \in Checks /\ agent \in AgentTypes /\ repo \in GitStates
      /\ lastAccepted \in GitStates /\ role \in Roles
  BY DEF TypeInv, TypeOK
<1>1. CASE OpenSink
  <2>1. HistoryInv' /\ RetryInv' /\ LastSafeState' = LastSafeState
    BY <1>1, HistoryStands DEF OpenSink, MayEnter
  <2>2. AcceptedInv'
    BY <1>1, <2>1 DEF OpenSink, MayEnter, LoopInv, AcceptedInv, WithAgent, Launched
  <2> QED BY <2>1, <2>2 DEF LoopInv
<1>2. CASE CheckBefore
  <2>1. HistoryInv' /\ RetryInv' /\ LastSafeState' = LastSafeState
    BY <1>2, HistoryStands DEF CheckBefore
  <2>2. before'.status = "SAFE" => before'.state = lastAccepted
    BY <1>0, <1>2 DEF CheckBefore, GitChecks, Compare, None, GitStates
  <2>3. AcceptedInv'
    BY <1>2, <2>1, <2>2 DEF CheckBefore, LoopInv, AcceptedInv, WithAgent, Launched
  <2> QED BY <2>1, <2>3 DEF LoopInv
<1>3. CASE ControlPlaneUnchanged \/ StartAgent
  <2>1. HistoryInv' /\ RetryInv' /\ LastSafeState' = LastSafeState
    BY <1>3, HistoryStands DEF ControlPlaneUnchanged, StartAgent
  <2>2. AcceptedInv'
    BY <1>3, <2>1 DEF ControlPlaneUnchanged, StartAgent, LoopInv, AcceptedInv, WithAgent, Launched
  <2> QED BY <2>1, <2>2 DEF LoopInv
<1>4. CASE (SandboxFails \/ PromotionBlocked) /\ Escape
  BY <1>4, LeftLoop, SafeStays DEF Escape
<1>5. CASE SandboxFails /\ ~Escape
  <2>1. /\ pc = "launch" /\ pc' = "after" /\ agent' = SandboxFailure
        /\ UNCHANGED <<results, position, before, lastAccepted>>
    BY <1>5 DEF SandboxFails, AgentReturns
  <2>2. HistoryInv' /\ RetryInv' /\ LastSafeState' = LastSafeState
    BY <2>1, HistoryStands
  <2>3. Real(SandboxFailure)
    BY DEF Real, SandboxFailure, NoAgent, NoResult, ProcessOutcomes
  <2>4. AcceptedInv'
    BY <2>1, <2>2, <2>3 DEF LoopInv, AcceptedInv, WithAgent, Launched, Real
  <2> QED BY <2>2, <2>4 DEF LoopInv
<1>6. CASE AgentExits
  <2>1. /\ pc = "child" /\ pc' \in {"promote", "footer"}
        /\ UNCHANGED <<results, position, before, lastAccepted>>
    BY <1>6 DEF AgentExits
  <2>2. Real(agent')
    BY <1>6, AgentResultReal DEF AgentExits
  <2>3. HistoryInv' /\ RetryInv' /\ LastSafeState' = LastSafeState
    BY <2>1, HistoryStands
  <2>4. AcceptedInv'
    BY <2>1, <2>2, <2>3 DEF LoopInv, AcceptedInv, WithAgent, Launched, Real
  <2> QED BY <2>3, <2>4 DEF LoopInv
<1>7. CASE (PromotionBlocked /\ ~Escape) \/ Promote \/ WriteFooter
  <2>1. /\ pc \in {"promote", "footer"} /\ pc' \in {"footer", "after"}
        /\ UNCHANGED <<results, position, before, lastAccepted>>
        /\ agent' = agent \/ agent' = [agent EXCEPT !.response = None]
    BY <1>7 DEF PromotionBlocked, Promote, WriteFooter, AgentReturns
  <2>2. Real(agent')
    BY <1>0, <2>1 DEF LoopInv, AcceptedInv, WithAgent, Real, AgentTypes
  <2>3. HistoryInv' /\ RetryInv' /\ LastSafeState' = LastSafeState
    BY <2>1, HistoryStands
  <2>4. AcceptedInv'
    BY <2>1, <2>2, <2>3 DEF LoopInv, AcceptedInv, WithAgent, Launched, Real
  <2> QED BY <2>3, <2>4 DEF LoopInv
<1>8. CASE CheckAfter
  <2>1. /\ pc = "after" /\ pc' = "record" /\ UNCHANGED <<results, position, before, agent>>
        /\ lastAccepted' = IF after'.status = "SAFE" THEN after'.state ELSE lastAccepted
        /\ after' \in GitChecks(before.state, role)
    BY <1>8 DEF CheckAfter
  <2>2. HistoryInv' /\ RetryInv' /\ LastSafeState' = LastSafeState
    BY <2>1, HistoryStands
  <2>3. before.status = "SAFE" /\ before.state = LastSafeState /\ Real(agent)
        /\ lastAccepted = LastSafeState
    BY <2>1 DEF LoopInv, AcceptedInv, WithAgent, Launched
  <2>4. before.state \in GitStates
    BY <1>0, <2>1, <2>3 DEF LoopInv, AcceptedInv
  <2>5. after'.status = "SAFE" =>
          /\ after'.state \in GitStates /\ after'.state.ref = before.state.ref
          /\ role # "CODER" => after'.state = before.state
    BY <1>0, <2>1, <2>4 DEF GitChecks, Compare, GitStates
  <2>6. AcceptedInv'
    BY <2>1, <2>2, <2>3, <2>5 DEF AcceptedInv, WithAgent, Launched, Real
  <2> QED BY <2>2, <2>6 DEF LoopInv
<1> QED BY <1>1, <1>2, <1>3, <1>4, <1>5, <1>6, <1>7, <1>8

(* The result run_logical_invocation returns.                              *)
Outcome(blocked, retry) ==
  [role |-> role, cycle |-> cycle, attempt |-> attempt, before |-> before,
   agent |-> agent, after |-> after, blocked |-> blocked, retry |-> retry]

(* A result that is sound, starts where its predecessor's retry must, and  *)
(* tells where the target was left, keeps the invariant of the loop.       *)
LEMMA ReportStep ==
  ASSUME TypeInv, LoopInv, pc \in Between,
         NEW blocked \in {"GIT_SAFETY_ERROR", "PROTOCOL_ERROR", None},
         NEW retry \in BOOLEAN, Report(blocked, retry),
         Sound(Outcome(blocked, retry)),
         blocked = "GIT_SAFETY_ERROR" \/ before.state = LastSafeState,
         blocked = None => lastAccepted = IF after.status = "SAFE" THEN after.state
                                          ELSE LastSafeState,
         blocked # None => lastAccepted = LastSafeState,
         blocked = None /\ (role # "CODER" \/ retry) => lastAccepted = before.state
  PROVE  LoopInv'
<1> DEFINE r == Outcome(blocked, retry)
           n == Len(results)
<1>1. r \in ResultTypes /\ results \in Seq(ResultTypes)
  BY DEF TypeInv, TypeOK, ResultTypes, Outcome
<1>2. /\ results' = Append(results, r) /\ pc' = "decide"
      /\ UNCHANGED <<lastAccepted, position>>
  BY DEF Report, Outcome
<1>3. /\ n \in Nat /\ Len(results') = n + 1 /\ results'[n + 1] = r
      /\ \A i \in 1..n : results'[i] = results[i]
      /\ Last(results') = r
      /\ DOMAIN results = 1..n /\ DOMAIN results' = 1..(n + 1)
  BY <1>1, <1>2 DEF Last
<1>4. /\ r.blocked = blocked /\ r.retry = retry /\ r.role = role /\ r.cycle = cycle
      /\ r.attempt = attempt /\ r.before = before /\ r.after = after
  BY DEF Outcome
<1>5. LastSafeState' = IF blocked = None /\ after.status = "SAFE" THEN after.state
                       ELSE LastSafeState
  BY <1>1, <1>2, <1>4, AppendSafe
<1>6. Sound(r)
  OBVIOUS
<1> HIDE DEF r
<1>7. HistoryInv'
  <2>1. \A i \in 1..n : Sound(results[i]) /\ Passed(results[i])
    BY DEF LoopInv, HistoryInv, Between
  <2>2. \A i \in 1..(n + 1) : Sound(results'[i])
    BY <1>3, <1>6, <2>1
  <2>3. \A i \in 1..(n + 1) : i < n + 1 => Passed(results'[i])
    BY <1>3, <2>1
  <2> QED BY <1>2, <1>3, <2>2, <2>3 DEF HistoryInv, Between, Sound, Real, Passed
<1>8. AcceptedInv'
  BY <1>2, <1>5 DEF AcceptedInv, WithAgent, Launched
<1>9. RetryStartsFromSameTree'
  <2> SUFFICES ASSUME NEW i \in 1..(n + 1), i < n + 1, results'[i].retry
               PROVE  /\ results'[i + 1].role = results'[i].role
                      /\ results'[i + 1].cycle = results'[i].cycle
                      /\ results'[i + 1].attempt = results'[i].attempt + 1
                      /\ \/ results'[i + 1].blocked = "GIT_SAFETY_ERROR"
                         \/ results'[i + 1].before.state = results'[i].before.state
    BY <1>3 DEF RetryStartsFromSameTree
  <2>1. CASE i < n
    <3>1. i \in 1..n /\ i + 1 \in 1..n
      BY <1>3, <2>1
    <3> QED BY <1>3, <2>1, <3>1 DEF LoopInv, RetryInv, RetryStartsFromSameTree
  <2>2. CASE i = n
    <3>1. results'[i] = Last(results) /\ results'[i + 1] = r /\ n > 0
      BY <1>3, <2>2 DEF Last
    <3>2. /\ role = Last(results).role /\ cycle = Last(results).cycle
          /\ attempt = Last(results).attempt + 1
          /\ LastSafeState = Last(results).before.state
      BY <3>1 DEF LoopInv, RetryInv, Between
    <3> QED BY <1>4, <3>1, <3>2
  <2>3. i < n \/ i = n
    <3>1. n \in Nat /\ i \in Nat /\ i < n + 1
      BY <1>3
    <3> HIDE DEF n
    <3> QED BY <3>1
  <2> QED BY <2>1, <2>2, <2>3
<1>10. RetryInv'
  BY <1>2, <1>3, <1>4, <1>5, <1>9 DEF RetryInv
<1> QED BY <1>7, <1>8, <1>10 DEF LoopInv

(* The two ways an invocation ends with a result.                          *)
LEMMA BlockStep ==
  ASSUME TypeInv, LoopInv, BlockInvocation
  PROVE  LoopInv'
<1> DEFINE b == IF before.status # "SAFE" THEN "GIT_SAFETY_ERROR" ELSE "PROTOCOL_ERROR"
<1>1. CASE Raise("LOGGING_ERROR")
  BY <1>1, LeftLoop DEF Raise, RaiseWith, LoopPoints
<1>2. CASE Report(b, FALSE)
  <2>1. pc = "recheck" /\ agent = NoAgent
    BY DEF BlockInvocation, TypeInv, Placed
  <2>2. b \in {"GIT_SAFETY_ERROR", "PROTOCOL_ERROR"} /\ b # None
    BY DEF None
  <2>3. b # "GIT_SAFETY_ERROR" => before.status = "SAFE"
    OBVIOUS
  <2> HIDE DEF b
  <2>4. Sound(Outcome(b, FALSE))
    BY <2>1, <2>2 DEF Sound, Outcome, NoAgent
  <2>5. lastAccepted = LastSafeState
    BY <2>1 DEF LoopInv, AcceptedInv, LoopPoints
  <2>6. b = "GIT_SAFETY_ERROR" \/ before.state = LastSafeState
    BY <2>1, <2>3 DEF LoopInv, AcceptedInv
  <2>7. pc \in Between
    BY <2>1 DEF Between, LoopPoints
  <2> QED BY <1>2, <2>2, <2>4, <2>5, <2>6, <2>7, ReportStep
<1> QED BY <1>1, <1>2 DEF BlockInvocation

(* An attempt that is recorded is judged, and its decision to retry with   *)
(* it.                                                                     *)
LEMMA RecordStep ==
  ASSUME TypeInv, LoopInv, RecordAttempt
  PROVE  LoopInv'
<1>1. /\ pc = "record" /\ Report(None, RetryDecision) /\ RetryDecision \in BOOLEAN
  BY DEF RecordAttempt, RetryDecision, RetryAuthorized
<1>2. /\ before.status = "SAFE" /\ before.state = LastSafeState /\ Real(agent)
      /\ lastAccepted = IF after.status = "SAFE" THEN after.state ELSE LastSafeState
      /\ after.status = "SAFE" =>
           /\ after.state \in GitStates /\ after.state.ref = before.state.ref
           /\ role # "CODER" => after.state = before.state
  BY <1>1 DEF LoopInv, AcceptedInv, LoopPoints, Launched, WithAgent
<1>3. agent \in AgentTypes /\ before \in Checks
  BY DEF TypeInv, TypeOK
<1>4. RetryDecision => /\ agent.diag # None /\ agent.proc.term = "YES" /\ after.status = "SAFE"
                       /\ role = "CODER" => before.state.tree = after.state.tree
  BY <1>3, RetryEvidence
<1>5. RetryDecision => after.state = before.state
  <2> SUFFICES ASSUME RetryDecision, role = "CODER" PROVE after.state = before.state
    BY <1>2, <1>4
  <2>1. before.state \in [ref : Refs \cup {NoGit}, tree : Trees \cup {NoGit}]
    BY <1>3 DEF Checks, GitStates, Unknown
  <2> QED BY <1>2, <1>4, <2>1 DEF GitStates
<1>6. Sound(Outcome(None, RetryDecision))
  BY <1>2, <1>4 DEF Sound, Outcome
<1>7. (role # "CODER" \/ RetryDecision) => lastAccepted = before.state
  BY <1>2, <1>4, <1>5
<1>8. pc \in Between
  BY <1>1 DEF Between, LoopPoints
<1> QED BY <1>1, <1>2, <1>6, <1>7, <1>8, ReportStep DEF None

(* Going on after a result.                                                *)
LEMMA AdvanceStep ==
  ASSUME TypeInv, LoopInv, pc = "decide", results' = results,
         UNCHANGED <<lastAccepted>>, Passed(Last(results)),
         pc' \in {"sleep", "enter"},
         Last(results).retry =>
           role' = role /\ cycle' = cycle /\ attempt' = attempt + 1
  PROVE  LoopInv'
<1>1. /\ LastSafeState' = LastSafeState /\ lastAccepted = LastSafeState
      /\ Len(results) \in Nat
  BY SafeStays DEF LoopInv, AcceptedInv, LoopPoints, TypeInv, TypeOK
<1>2. /\ Last(results).role = role /\ Last(results).cycle = cycle
      /\ Last(results).attempt = attempt /\ Last(results) = results[Len(results)]
  BY DEF TypeInv, Placed, Last
<1>3. HistoryInv'
  <2>1. \A i \in 1..Len(results) : Passed(results[i])
    BY <1>1, <1>2 DEF LoopInv, HistoryInv
  <2> QED BY <2>1 DEF LoopInv, HistoryInv, Sound, Real, Passed
<1>4. AcceptedInv'
  BY <1>1 DEF AcceptedInv, WithAgent, Launched
<1>5. RetryStartsFromSameTree'
  BY DEF LoopInv, RetryInv, RetryStartsFromSameTree
<1>6. Last(results).blocked = None
  BY DEF Passed
<1>7. RetryInv'
  BY <1>1, <1>2, <1>5, <1>6 DEF LoopInv, RetryInv, Last
<1> QED BY <1>3, <1>4, <1>7 DEF LoopInv

(* An attempt that is retried left the target as it found it.              *)
LEMMA RetryPassed ==
  ASSUME TypeInv, LoopInv, pc = "decide", Last(results).retry
  PROVE  Passed(Last(results))
<1>1. Last(results) = results[Len(results)] /\ Len(results) \in 1..Len(results)
  BY DEF Last, TypeInv, TypeOK, Placed
<1>2. Sound(Last(results))
  BY <1>1 DEF LoopInv, HistoryInv
<1> QED BY <1>2 DEF Sound, Passed, Real, None

(* Every step keeps what the loop knows of its history.                    *)
LEMMA LoopInvStep ==
  ASSUME TypeInv, LoopInv, [Next]_vars
  PROVE  LoopInv'
<1> USE DEF position, locals
<1>1. CASE EnterRefused \/ OpenSinkFails \/ HeaderFails \/ FooterFails \/ CloseFails \/ PersistFails
  BY <1>1, LeftLoop DEF EnterRefused, OpenSinkFails, HeaderFails, FooterFails, CloseFails,
     PersistFails, Raise, RaiseWith, LoopPoints
<1>2. CASE \/ OpenSink \/ CheckBefore \/ ControlPlaneUnchanged \/ SandboxFails
           \/ StartAgent \/ AgentExits \/ Promote \/ PromotionBlocked
           \/ WriteFooter \/ CheckAfter
  BY <1>2, InvocationStep
<1>3. CASE BlockInvocation \/ RecordAttempt
  BY <1>3, BlockStep, RecordStep
<1>4. CASE RetryAttempt
  BY <1>4, RetryPassed, AdvanceStep DEF RetryAttempt
<1>5. CASE NextInvocation
  BY <1>5, NextPassed, AdvanceStep DEF NextInvocation, LoopInv
<1>6. CASE Sleep
  <2>1. HistoryInv' /\ RetryInv' /\ LastSafeState' = LastSafeState
    BY <1>6, HistoryStands DEF Sleep, Between, LoopPoints
  <2>2. AcceptedInv'
    BY <1>6, <2>1 DEF Sleep, LoopInv, AcceptedInv, WithAgent, Launched, LoopPoints
  <2> QED BY <2>1, <2>2 DEF LoopInv
<1>7. CASE FinishLoop
  BY <1>7, LeftLoop DEF FinishLoop, LoopPoints
<1>8. CASE Environment \/ ProcessExit \/ UNCHANGED vars
  <2>1. UNCHANGED <<pc, position, locals, results, lastAccepted>>
    BY <1>8 DEF Environment, SignalPipeline, SignalRunner, EditTarget, ProcessExit, vars, orchVars
  <2>2. LastSafeState' = LastSafeState
    BY <2>1, SafeStays
  <2>3. HistoryInv' /\ AcceptedInv'
    BY <2>1, <2>2 DEF LoopInv, HistoryInv, AcceptedInv, Sound, Real, Passed, WithAgent, Launched
  <2>4. RetryStartsFromSameTree'
    BY <2>1 DEF LoopInv, RetryInv, RetryStartsFromSameTree
  <2>5. RetryInv'
    BY <2>1, <2>2, <2>4 DEF LoopInv, RetryInv, Last
  <2> QED BY <2>3, <2>5 DEF LoopInv
<1>9. CASE Finalize
  BY <1>9, FinalizeKeepsLoop, FinalizeStays, LeftLoop DEF LoopDone
<1> QED
  BY <1>1, <1>2, <1>3, <1>4, <1>5, <1>6, <1>7, <1>8, <1>9
  DEF Next, Program, Invocation, Loop, Over

(* Nothing ran yet.                                                        *)
LEMMA LoopInvInit == Init => LoopInv
<1> SUFFICES ASSUME Init PROVE LoopInv
  OBVIOUS
<1>1. results = <<>> /\ pc = "enter" /\ lastAccepted = Baseline
  BY DEF Init, OrchestratorInit
<1>2. AgentResults = {}
  BY <1>1 DEF AgentResults
<1>3. LastSafeState = Baseline
  BY <1>2 DEF LastSafeState
<1> QED BY <1>1, <1>3 DEF LoopInv, HistoryInv, AcceptedInv, RetryInv,
        RetryStartsFromSameTree, WithAgent, Launched

(* Every reachable state satisfies it, with the types.                     *)
THEOREM LoopInvariant == Spec => [](TypeInv /\ LoopInv)
<1>1. Init => TypeInv /\ LoopInv
  BY ConstantsAssumption, TypeInvInit, LoopInvInit
<1>2. TypeInv /\ LoopInv /\ [Next]_vars => TypeInv' /\ LoopInv'
  BY ConstantsAssumption, TypeInvStep, LoopInvStep
<1> QED BY <1>1, <1>2, PTL DEF Spec

(* Whatever went wrong is in the last result: the outcome of the run, read *)
(* there, misses nothing.                                                  *)
THEOREM FailuresAreLast == Spec => []OnlyLastAttemptFails
<1>1. TypeInv /\ LoopInv => OnlyLastAttemptFails
  <2> SUFFICES ASSUME TypeInv, LoopInv, NEW i \in DOMAIN results, i < Len(results)
               PROVE  Passed(results[i])
    BY DEF OnlyLastAttemptFails, Passed
  <2>1. i \in 1..Len(results)
    BY DEF TypeInv, TypeOK
  <2> QED BY <2>1 DEF LoopInv, HistoryInv
<1> QED BY <1>1, LoopInvariant, PTL

(* A provider retry repeats the invocation on the tree its predecessor     *)
(* saw, or is stopped by its own check.                                    *)
THEOREM RetriesRepeat == Spec => []RetryStartsFromSameTree
<1>1. LoopInv => RetryStartsFromSameTree
  BY DEF LoopInv, RetryInv
<1> QED BY <1>1, LoopInvariant, PTL

-----------------------------------------------------------------------------
(* What was reviewed.                                                      *)

(* Only the last result can be an approval, and then the tree the loop     *)
(* accepted last is the one its reviewer was started on.                   *)
LEMMA ApprovalIsLast ==
  ASSUME TypeInv, LoopInv, pc = "decide", LastReviewStatus = "APPROVED"
  PROVE  /\ Len(results) > 0
         /\ Last(results).role = "REVIEWER" /\ Last(results).agent.response = "APPROVED"
         /\ LastSafeState = Last(results).before.state
<1> DEFINE n == Len(results)
           reviews == {i \in DOMAIN results : results[i].role = "REVIEWER"}
<1>1. n \in Nat /\ n > 0 /\ DOMAIN results = 1..n /\ Last(results) = results[n]
  BY DEF TypeInv, TypeOK, Placed, Last
<1>2. PICK i \in reviews : (\A j \in reviews : j <= i) /\ results[i].agent.response = "APPROVED"
  <2>1. reviews # {} /\ results[CHOOSE i \in reviews : \A j \in reviews : j <= i].agent.response = "APPROVED"
    BY DEF LastReviewStatus, None
  <2>2. \E i \in reviews : \A j \in reviews : j <= i
    BY <1>1, <2>1, LastIndexExists
  <2>3. \A k \in reviews : k <= (CHOOSE i \in reviews : \A j \in reviews : j <= i)
    BY <2>2
  <2>4. (CHOOSE i \in reviews : \A j \in reviews : j <= i) \in reviews
    BY <2>2
  <2> HIDE DEF reviews
  <2> QED BY <2>1, <2>3, <2>4
<1>3. i \in 1..n /\ results[i].role = "REVIEWER" /\ results[i].agent.response = "APPROVED"
  BY <1>1, <1>2
<1>4. ~(i < n)
  BY <1>3 DEF LoopInv, HistoryInv, Passed
<1>5. i = n
  <2> HIDE DEF n
  <2> QED BY <1>1, <1>3, <1>4
<1>6. Last(results).role = "REVIEWER" /\ Last(results).agent.response = "APPROVED"
  BY <1>1, <1>3, <1>5
<1>7. Last(results).blocked = None
  BY <1>1, <1>3, <1>5 DEF LoopInv, HistoryInv, Sound, None
<1> QED BY <1>1, <1>6, <1>7 DEF LoopInv, RetryInv

(* Outside finalize_run there is nothing to keep.                          *)
LEMMA ReviewOutside == ASSUME pc' \notin Finishing PROVE ReviewInv'
BY DEF ReviewInv, Finishing

(* A step of finalize_run that keeps its arguments, the history and the    *)
(* postflight keeps what they say of each other.                           *)
LEMMA ReviewStays ==
  ASSUME ReviewInv, pc \in Finishing, pc' \in Finishing, pc = "postflight" => pc' = "postflight",
         fin'.review = fin.review, fin'.base = fin.base, fin'.term = fin.term,
         results' = results, post' = post, "agent" \in orphans' => "agent" \in orphans
  PROVE  ReviewInv'
BY DEF ReviewInv, Last

(* Every step keeps it.                                                    *)
LEMMA ReviewInvStep ==
  ASSUME TypeInv, LoopInv, OrphanInv, OrphanInv', ReviewInv, [Next]_vars
  PROVE  ReviewInv'
<1> USE DEF Finishing, FinalPoints
<1>0. fin \in FinTypes /\ repo \in GitStates
  BY DEF TypeInv, TypeOK
<1>1. CASE (Invocation \/ Loop) /\ UNCHANGED finVars
  <2>1. pc' \in LoopPoints \cup {"postflight", "escaped"}
    BY <1>1, LoopStays
  <2>2. CASE pc' # "postflight"
    BY <2>1, <2>2, ReviewOutside DEF LoopPoints
  <2>3. CASE FinishLoop
    <3>1. /\ pc = "decide" /\ pc' = "postflight" /\ results' = results
          /\ fin'.review = LastReviewStatus /\ fin'.base = LastSafeState
      BY <2>3 DEF FinishLoop, FinAfterLoop
    <3>2. "agent" \in orphans' => fin'.term = "NO"
      BY <3>1 DEF OrphanInv, Evidence, LoopPoints
    <3> QED BY <3>1, <3>2, ApprovalIsLast DEF ReviewInv
  <2>4. CASE pc' = "postflight" /\ ~FinishLoop
    <3>1. fin'.review = None
      <4>1. CASE EnterRefused \/ OpenSinkFails \/ HeaderFails \/ FooterFails \/ CloseFails \/ PersistFails
        BY <4>1 DEF EnterRefused, OpenSinkFails, HeaderFails, FooterFails, CloseFails,
           PersistFails, Raise, RaiseWith, FinAfterError
      <4>2. CASE BlockInvocation
        BY <2>4, <4>2 DEF BlockInvocation, Report, Raise, RaiseWith, FinAfterError
      <4>3. CASE \/ OpenSink \/ CheckBefore \/ ControlPlaneUnchanged \/ SandboxFails
                 \/ StartAgent \/ AgentExits \/ Promote \/ PromotionBlocked
                 \/ WriteFooter \/ CheckAfter \/ RecordAttempt
                 \/ RetryAttempt \/ Sleep \/ NextInvocation
        BY <2>4, <4>3 DEF OpenSink, CheckBefore, ControlPlaneUnchanged, SandboxFails, Escape,
           AgentReturns, StartAgent, AgentExits, Promote, PromotionBlocked, WriteFooter,
           CheckAfter, RecordAttempt, Report, RetryAttempt, Sleep, NextInvocation
      <4> QED BY <1>1, <2>4, <4>1, <4>2, <4>3 DEF Invocation, Loop
    <3>2. "agent" \in orphans' => fin'.term = "NO"
      BY <2>4 DEF OrphanInv, Evidence, LoopPoints
    <3> QED BY <2>4, <3>1, <3>2 DEF ReviewInv, None
  <2> QED BY <2>2, <2>3, <2>4
<1>2. CASE Environment
  <2>1. UNCHANGED <<pc, fin, results, post, orphans>>
    BY <1>2, EnvironmentStays DEF finVars
  <2>2. pc \in Finishing \/ pc' \notin Finishing
    BY <2>1
  <2> QED BY <2>1, <2>2, ReviewStays, ReviewOutside
<1>3. CASE Postflight
  <2>1. /\ pc = "postflight" /\ pc' = "quarantine" /\ UNCHANGED <<fin, results>>
        /\ post' \in GitChecks(fin.base, None)
    BY <1>3 DEF Postflight, LoopDone
  <2>2. "agent" \in orphans' => "agent" \in orphans
    BY <1>3 DEF Postflight, OrphanAfterCheck
  <2>3. post'.status = "SAFE" => post'.state = fin.base
    BY <1>0, <2>1 DEF GitChecks, Compare, None, FinTypes, GitStates, Unknown
  <2> QED BY <2>1, <2>2, <2>3 DEF ReviewInv, Last
<1>4. CASE Quarantine /\ pc' = "escaped"
  BY <1>4, ReviewOutside
<1>5. CASE Finalize /\ ~Postflight /\ pc' # "escaped"
  <2>1. pc \in Finishing \ {"postflight"} /\ pc' \in Finishing
    BY <1>5 DEF Finalize, Quarantine, Stage, RestageBeforeRelease, ReleaseLease,
       RestageAfterRelease, SealFallback, Seal, RestageAfterSeal, Commit
  <2>2. UNCHANGED <<results, post, orphans>>
    BY <1>5 DEF Finalize, Quarantine, Stage, RestageBeforeRelease, ReleaseLease, LoopDone,
       RestageAfterRelease, SealFallback, Seal, RestageAfterSeal, Commit
  <2>3. fin' = fin \/ \E i : fin' = [fin EXCEPT !.interrupted = i]
    BY <1>5 DEF Finalize, Quarantine, Stage, RestageBeforeRelease, ReleaseLease,
       RestageAfterRelease, SealFallback, Seal, RestageAfterSeal, Commit, StageRecord, StageFails
  <2>4. fin'.review = fin.review /\ fin'.base = fin.base /\ fin'.term = fin.term
    BY <1>0, <2>3 DEF FinTypes
  <2> QED BY <2>1, <2>2, <2>4, ReviewStays
<1>6. CASE ProcessExit \/ UNCHANGED vars
  <2>1. UNCHANGED <<pc, fin, results, post, orphans>>
    BY <1>6 DEF ProcessExit, vars, orchVars, finVars
  <2>2. pc \in Finishing \/ pc' \notin Finishing
    BY <2>1
  <2> QED BY <2>1, <2>2, ReviewStays, ReviewOutside
<1>7. Quarantine \/ pc' # "escaped" \/ ~Finalize
  BY DEF Finalize, Postflight, Stage, RestageBeforeRelease, ReleaseLease,
     RestageAfterRelease, SealFallback, Seal, RestageAfterSeal, Commit
<1> QED BY <1>1, <1>2, <1>3, <1>4, <1>5, <1>6, <1>7 DEF Next, Program, Over

(* APPROVED is published only of the tree the last reviewer saw and        *)
(* approved, still on the baseline's branch and commit, with no agent      *)
(* left running.                                                           *)
THEOREM ApprovalIsOfThisTree == Spec => []ApprovedTreeWasReviewed
<1> DEFINE I == TypeInv /\ OrphanInv /\ LoopInv /\ AnswerInv /\ ReviewInv
<1>1. Init => I
  <2>1. Init => ReviewInv
    BY DEF Init, OrchestratorInit, ReviewInv, Finishing, FinalPoints
  <2> QED BY <2>1, ConstantsAssumption, TypeInvInit, OrphanInvInit, LoopInvInit, AnswerInit
<1>2. I /\ [Next]_vars => I'
  BY ConstantsAssumption, TypeInvStep, OrphanInvStep, LoopInvStep, AnswerStep, ReviewInvStep
<1>3. I => ApprovedTreeWasReviewed
  <2> SUFFICES ASSUME I, runJson.final = "APPROVED" PROVE ApprovedTreeWasReviewed
    BY DEF ApprovedTreeWasReviewed
  <2>1. pc = "done" /\ runJson = TerminalRecord(fin.interrupted)
    BY DEF AnswerInv, PublishInv, Unpublished, None
  <2>2. /\ fin.review = "APPROVED" /\ EffectiveStatus = "SAFE" /\ post.state.ref = BaseRef
    BY <2>1 DEF TerminalRecord, EvaluateFinalGate, None
  <2>3. fin.term # "NO" /\ post.status = "SAFE"
    BY <2>2 DEF EffectiveStatus
  <2>4. pc \in Finishing \ {"postflight"}
    BY <2>1 DEF Finishing
  <2>5. /\ Len(results) > 0 /\ Last(results).role = "REVIEWER"
        /\ Last(results).agent.response = "APPROVED"
        /\ post.state = Last(results).before.state /\ "agent" \notin orphans
    BY <2>2, <2>3, <2>4 DEF ReviewInv
  <2> QED BY <2>2, <2>3, <2>5 DEF ApprovedTreeWasReviewed
<1> QED BY <1>1, <1>2, <1>3, PTL DEF Spec
=============================================================================
