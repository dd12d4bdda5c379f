------------------------- MODULE ProcessRunnerProofs -------------------------
(***************************************************************************)
(* The verdict of SubprocessRunner.run, the completeness of what it logged *)
(* and its contract, for any number of chunks and whether or not a process *)
(* can outlive SIGKILL.                                                    *)
(*                                                                         *)
(* The sink lock is held by the reader that is inside the sink, so a main  *)
(* thread that closed the writes and then found the lock free has the log  *)
(* to itself.  A stop reason is fixed before the escalation, and a signal  *)
(* that came before an exit code was accepted is such a reason.            *)
(***************************************************************************)
EXTENDS ProcessRunner, TLAPS

(* Program points of the main thread, in the order of run().               *)
Waiting == {"fault", "cancel", "poll", "recheck", "deadline"}
Escalating == {"term", "grace", "kill", "lastGrace"}
Ending == {"restore", "join", "close", "quiesce", "report"}
Points == {"spawn"} \cup Waiting \cup Escalating \cup Ending \cup {"done"}

ExitCodes == {None, "zero", "nonzero"}
Results == [outcome : ProcessOutcomes, interrupted : BOOLEAN, term : {"YES", "NO"}]

MainType ==
  /\ pc \in Points
  /\ stop \in {None} \cup StopReasons
  /\ code \in ExitCodes /\ exit \in ExitCodes
  /\ confirmed \in BOOLEAN /\ observed \in BOOLEAN
  /\ result \in {NoResult} \cup Results

ThreadType ==
  /\ sent \in [Streams -> Nat] /\ pipe \in [Streams -> Nat]
  /\ counted \in [Streams -> Nat] /\ logged \in [Streams -> Nat]
  /\ reader \in [Streams -> {"read", "admit", "write", "failed", "ended"}]
  /\ faulted \in [Streams -> BOOLEAN]
  /\ lock \in Streams \cup {None}

WorldType ==
  /\ child \in {"absent", "running", "exited"}
  /\ helper \in [state : {"none", "running", "gone"}, inGroup : BOOLEAN, piped : BOOLEAN]
  /\ cancelled \in BOOLEAN /\ inTime \in BOOLEAN /\ late \in BOOLEAN
  /\ feeding \in BOOLEAN /\ sinkFault \in BOOLEAN /\ writesClosed \in BOOLEAN

RunnerTypeOK == MainType /\ ThreadType /\ WorldType

(* What the main thread knows where it is.                                 *)
VerdictInv ==
  /\ pc \in {"spawn"} \cup Waiting => stop = None /\ code = None
  /\ pc \in {"spawn"} \cup Waiting \cup Escalating => confirmed
  /\ pc \in Escalating => stop # None
  /\ inTime => cancelled
  /\ inTime /\ pc \in Ending => stop # None
  /\ stop = "INTERRUPTED" => cancelled
  /\ observed => cancelled

(* run() answers once, with something its contract allows.                 *)
ResultInv ==
  /\ pc = "done" <=> result # NoResult
  /\ pc = "done" => result \in PossibleResults(cancelled, TRUE)

(* A child is there from the spawn on, and an exit code is its own.        *)
ChildInv ==
  /\ pc = "spawn" => child = "absent"
  /\ child = "absent" => pc \in {"spawn", "done"} /\ ~PipesHeld
  /\ helper.state # "none" => child # "absent"
  /\ code # None => child = "exited" /\ code = exit
  /\ exit # None <=> child = "exited"

(* A reader starts with the child and ends when nobody can write to its    *)
(* stream any more.                                                        *)
StreamInv ==
  \A s \in Streams :
    /\ child = "absent" => reader[s] = "read"
    /\ reader[s] = "ended" => pipe[s] = 0 /\ child = "exited" /\ ~PipesHeld

JoinedInv ==
  pc \in {"close", "quiesce", "report"} /\ confirmed =>
    \A s \in Streams : reader[s] = "ended"

(* The lock is held exactly by the reader inside the sink, and while no    *)
(* write failed every chunk counted is in the sink or on its way.          *)
LockInv ==
  /\ \A s \in Streams : reader[s] = "write" <=> lock = s
  /\ AllWritten => \A s \in Streams :
       counted[s] = logged[s] + (IF reader[s] = "write" THEN 1 ELSE 0)

(* Once the writes are closed a free lock stays free.                      *)
ClosedInv ==
  /\ pc \in {"quiesce", "report"} => writesClosed
  /\ pc = "report" /\ stop # "LOGGING_ERROR" => lock = None
  /\ pc = "done" /\ result.outcome # "LOGGING_ERROR" =>
       lock = None /\ snapshot = counted /\ (writesClosed \/ child = "absent")

(* An exit code of a run that succeeded and ended streams do not change.   *)
SuccessInv ==
  pc = "done" /\ result.outcome = "SUCCEEDED" =>
    child = "exited" /\ exit = "zero" /\ \A s \in Streams : reader[s] = "ended"

RunnerInv ==
  /\ RunnerTypeOK /\ VerdictInv /\ ResultInv /\ ChildInv /\ StreamInv /\ JoinedInv
  /\ LockInv /\ ClosedInv /\ SuccessInv /\ SignalBeforeExitWins

USE DEF verdict, answer, processes, time, threads, Waiting, Escalating, Ending, Points,
        ExitCodes, Results, StopReasons, ProcessOutcomes, Streams

(* The invariant holds at the call.                                        *)
LEMMA RunnerInit == Init => RunnerInv
<1> SUFFICES ASSUME Init PROVE RunnerInv
  OBVIOUS
<1>1. RunnerTypeOK
  BY DEF Init, RunnerTypeOK, MainType, ThreadType, WorldType, NoResult, NoHelper, None
<1>2. VerdictInv /\ ResultInv /\ ChildInv
  BY DEF Init, VerdictInv, ResultInv, ChildInv, NoResult, NoHelper, PipesHeld, None
<1>3. StreamInv /\ JoinedInv /\ LockInv
  BY DEF Init, StreamInv, JoinedInv, LockInv, PipesHeld, NoHelper, None
<1>4. ClosedInv /\ SuccessInv /\ SignalBeforeExitWins
  BY DEF Init, ClosedInv, SuccessInv, SignalBeforeExitWins, NoResult
<1> QED BY <1>1, <1>2, <1>3, <1>4 DEF RunnerInv

-----------------------------------------------------------------------------
(* Who changes what.                                                       *)
LEMMA MainLeavesThreads == ASSUME Main PROVE UNCHANGED threads
BY DEF Main, SpawnFails, Report, ReturnResult, Spawn, CheckSinkFault, CheckCancelled, Poll, Recheck,
   CheckDeadline, StopFor, Go, SendTerm, Grace, SendKill, LastGrace, RestoreHandlers,
   JoinThreads, CloseWrites, Quiesce

(* run() itself moves no clock and sends no signal, and ends once.         *)
LEMMA MainLeavesWorld ==
  ASSUME Main PROVE UNCHANGED <<time, sent>> /\ pc # "done"
BY DEF Main, SpawnFails, Report, ReturnResult, Spawn, CheckSinkFault, CheckCancelled, Poll, Recheck,
   CheckDeadline, StopFor, Go, SendTerm, Grace, SendKill, LastGrace, RestoreHandlers,
   JoinThreads, CloseWrites, Quiesce

(* Only Popen and SIGKILL change the child or its group.                   *)
LEMMA MainLeavesChild ==
  ASSUME Main, ~Spawn, ~SendKill PROVE UNCHANGED <<child, exit, helper>>
BY DEF Main, SpawnFails, Report, ReturnResult, CheckSinkFault, CheckCancelled, Poll, Recheck,
   CheckDeadline, StopFor, Go, SendTerm, Grace, LastGrace, RestoreHandlers, JoinThreads,
   CloseWrites, Quiesce

(* The threads of the streams touch no variable of run().                  *)
LEMMA ThreadsLeaveMain ==
  ASSUME Threads PROVE UNCHANGED <<pc, verdict, answer, time, processes, writesClosed>>
BY DEF Threads, StdinWritten, ReadChunk, ReadEnd, AdmitChunk, WriteChunk,
   WriteFails, NoteFault, ReaderRest

(* The child, the signals and the clock touch no variable of the runner.   *)
LEMMA WorldLeavesRunner ==
  ASSUME World
  PROVE  UNCHANGED <<pc, verdict, answer, reader, faulted, feeding, lock, sinkFault, counted,
                     logged, writesClosed>>
BY DEF World, Output, Fork, ChildExits, HelperExits, Signal, DeadlinePasses, WorldRest

-----------------------------------------------------------------------------
(* The types.                                                              *)
LEMMA MainTypeStep ==
  ASSUME RunnerTypeOK, [Next]_runnerVars PROVE MainType'
<1> USE DEF RunnerTypeOK, MainType, ThreadType, WorldType
<1>1. CASE SpawnFails
  BY <1>1 DEF SpawnFails, Report, BuildOutcome
<1>2. CASE ReturnResult
  BY <1>2 DEF ReturnResult, Report, BuildOutcome
<1>3. CASE Spawn \/ CheckSinkFault \/ CheckCancelled \/ Poll \/ Recheck \/ CheckDeadline
  BY <1>3 DEF Spawn, CheckSinkFault, CheckCancelled, Poll, Recheck, CheckDeadline, StopFor, Go
<1>4. CASE SendTerm \/ Grace \/ SendKill \/ LastGrace
  BY <1>4 DEF SendTerm, Grace, SendKill, LastGrace, Go
<1>5. CASE RestoreHandlers \/ JoinThreads \/ CloseWrites \/ Quiesce
  BY <1>5 DEF RestoreHandlers, JoinThreads, CloseWrites, Quiesce, Go
<1>6. CASE Threads
  BY <1>6, ThreadsLeaveMain
<1>7. CASE World
  <2>1. exit' \in ExitCodes
    BY <1>7 DEF World, Output, Fork, ChildExits, HelperExits, Signal, DeadlinePasses
  <2> QED BY <1>7, <2>1, WorldLeavesRunner
<1>8. CASE Returned \/ UNCHANGED runnerVars
  BY <1>8 DEF Returned, runnerVars
<1> QED BY <1>1, <1>2, <1>3, <1>4, <1>5, <1>6, <1>7, <1>8 DEF Next, Main

(* The same for the threads of the streams.                                *)
LEMMA ThreadTypeStep ==
  ASSUME RunnerTypeOK, RunnerAssumption, [Next]_runnerVars PROVE ThreadType'
<1> USE DEF RunnerTypeOK, ThreadType
<1>1. CASE Main
  BY <1>1, MainLeavesThreads, MainLeavesWorld
<1>2. CASE StdinWritten
  BY <1>2 DEF StdinWritten
<1>3. ASSUME NEW s \in Streams, ReadChunk(s) \/ ReadEnd(s) \/ AdmitChunk(s) PROVE ThreadType'
  BY <1>3 DEF ReadChunk, ReadEnd, AdmitChunk, Reader, ReaderRest
<1>4. ASSUME NEW s \in Streams, WriteChunk(s) PROVE ThreadType'
  BY <1>4 DEF WriteChunk, Reader, ReaderRest
<1>5. ASSUME NEW s \in Streams, WriteFails(s) PROVE ThreadType'
  BY <1>5 DEF WriteFails, Reader, ReaderRest
<1>6. CASE World
  BY <1>6 DEF World, Output, Fork, ChildExits, HelperExits, Signal, DeadlinePasses, WorldRest
<1>7. CASE Returned \/ UNCHANGED runnerVars
  BY <1>7 DEF Returned, runnerVars
<1>8. ASSUME NEW s \in Streams, NoteFault(s) PROVE ThreadType'
  <2>1. faulted' \in [Streams -> BOOLEAN]
    BY <1>8, Zenon DEF NoteFault
  <2> QED BY <1>8, <2>1 DEF NoteFault, Reader, ReaderRest
<1> QED BY <1>1, <1>2, <1>3, <1>4, <1>5, <1>6, <1>7, <1>8 DEF Next, Threads

(* The same for the child, the signals and the clock.                      *)
LEMMA WorldTypeStep ==
  ASSUME RunnerTypeOK, [Next]_runnerVars PROVE WorldType'
<1> USE DEF RunnerTypeOK, MainType, ThreadType, WorldType
<1>1. CASE Spawn \/ SendKill
  BY <1>1 DEF Spawn, SendKill
<1>2. CASE Main /\ ~Spawn /\ ~SendKill
  <2>1. writesClosed' = TRUE \/ writesClosed' = writesClosed
    BY <1>2 DEF Main, SpawnFails, ReturnResult, CheckSinkFault, CheckCancelled, Poll, Recheck,
       CheckDeadline, StopFor, Go, SendTerm, Grace, LastGrace, RestoreHandlers, JoinThreads,
       CloseWrites, Quiesce
  <2> QED BY <1>2, <2>1, MainLeavesThreads, MainLeavesWorld, MainLeavesChild
<1>3. CASE Threads
  <2>1. UNCHANGED <<child, helper, time, writesClosed>>
    BY <1>3, ThreadsLeaveMain
  <2>2. feeding' = FALSE \/ feeding' = feeding
    BY <1>3 DEF Threads, StdinWritten, ReadChunk, ReadEnd, AdmitChunk, WriteChunk,
       WriteFails, NoteFault, ReaderRest
  <2>3. sinkFault' = TRUE \/ sinkFault' = sinkFault
    BY <1>3 DEF Threads, StdinWritten, ReadChunk, ReadEnd, AdmitChunk, WriteChunk,
       WriteFails, NoteFault, ReaderRest
  <2> QED BY <2>1, <2>2, <2>3, Zenon
<1>4. CASE World
  <2>1. UNCHANGED <<feeding, sinkFault, writesClosed>>
    BY <1>4, WorldLeavesRunner
  <2>2. child' \in {"absent", "running", "exited"}
    BY <1>4 DEF World, Output, Fork, ChildExits, HelperExits, Signal, DeadlinePasses, WorldRest
  <2>3. helper' \in [state : {"none", "running", "gone"}, inGroup : BOOLEAN, piped : BOOLEAN]
    BY <1>4 DEF World, Output, Fork, ChildExits, HelperExits, Signal, DeadlinePasses, WorldRest
  <2>4. cancelled' \in BOOLEAN /\ inTime' \in BOOLEAN /\ late' \in BOOLEAN
    <3>1. CASE Signal
      BY <3>1 DEF Signal
    <3>2. CASE DeadlinePasses
      BY <3>2, Zenon DEF DeadlinePasses
    <3>3. CASE ~Signal /\ ~DeadlinePasses
      BY <1>4, <3>3 DEF World, Output, Fork, ChildExits, HelperExits
    <3> QED BY <3>1, <3>2, <3>3
  <2> QED BY <2>1, <2>2, <2>3, <2>4
<1>5. CASE Returned \/ UNCHANGED runnerVars
  BY <1>5 DEF Returned, runnerVars
<1> QED BY <1>1, <1>2, <1>3, <1>4, <1>5 DEF Next

(* What the result admits follows from what the main thread knows.         *)
LEMMA ReportedIsPossible ==
  ASSUME RunnerTypeOK, VerdictInv, ReturnResult
  PROVE  /\ result' \in PossibleResults(cancelled, TRUE)
         /\ result' # NoResult
         /\ result'.outcome = BuildOutcome(stop, code, confirmed)
<1> USE DEF RunnerTypeOK, MainType, WorldType
<1> QED BY DEF ReturnResult, Report, BuildOutcome, VerdictInv, PossibleResults, NoResult, None

(* A child that could not be started: interrupted, or an error.            *)
LEMMA SpawnFailureIsPossible ==
  ASSUME RunnerTypeOK, VerdictInv, SpawnFails
  PROVE  /\ result' \in PossibleResults(cancelled, TRUE)
         /\ result' # NoResult
         /\ result'.outcome \in {"INTERRUPTED", "PROCESS_ERROR"}
<1> USE DEF RunnerTypeOK, MainType, WorldType
<1> QED BY DEF SpawnFails, Report, BuildOutcome, VerdictInv, PossibleResults, NoResult, None

(* Only the two returns leave an answer.                                   *)
LEMMA NobodyElseAnswers ==
  ASSUME RunnerTypeOK, [Next]_runnerVars, ~SpawnFails, ~ReturnResult
  PROVE  UNCHANGED answer /\ (pc' = "done" <=> pc = "done")
<1> USE DEF RunnerTypeOK, MainType
<1>1. CASE Main
  BY <1>1 DEF Main, Spawn, CheckSinkFault, CheckCancelled, Poll, Recheck, CheckDeadline,
     StopFor, Go, SendTerm, Grace, SendKill, LastGrace, RestoreHandlers, JoinThreads,
     CloseWrites, Quiesce
<1>2. CASE Threads \/ World
  BY <1>2, ThreadsLeaveMain, WorldLeavesRunner
<1>3. CASE Returned \/ UNCHANGED runnerVars
  BY <1>3 DEF Returned, runnerVars
<1> QED BY <1>1, <1>2, <1>3 DEF Next

(* A signal after the return is not this call's: the handler is gone.      *)
LEMMA DoneIsDeaf ==
  ASSUME RunnerTypeOK, [Next]_runnerVars, pc = "done"
  PROVE  UNCHANGED <<pc, verdict, answer, cancelled, inTime, writesClosed>>
<1> USE DEF RunnerTypeOK, MainType
<1>1. ~Main
  BY MainLeavesWorld
<1>2. CASE Threads
  BY <1>2, ThreadsLeaveMain
<1>3. CASE World
  <2>1. UNCHANGED <<cancelled, inTime>>
    BY <1>3 DEF World, Output, Fork, ChildExits, HelperExits, Signal, DeadlinePasses, HandlerInstalled
  <2> QED BY <1>3, <2>1, WorldLeavesRunner
<1>4. CASE Returned \/ UNCHANGED runnerVars
  BY <1>4 DEF Returned, runnerVars
<1> QED BY <1>1, <1>2, <1>3, <1>4 DEF Next

(* The result returned stays one of those the contract allows.             *)
LEMMA ResultStep ==
  ASSUME RunnerTypeOK, VerdictInv, ResultInv, [Next]_runnerVars PROVE ResultInv'
<1>1. CASE SpawnFails
  <2>1. pc' = "done" /\ cancelled' = cancelled
    BY <1>1 DEF SpawnFails, Report
  <2> QED BY <1>1, <2>1, SpawnFailureIsPossible DEF ResultInv
<1>2. CASE ReturnResult
  <2>1. pc' = "done" /\ cancelled' = cancelled
    BY <1>2 DEF ReturnResult, Report
  <2> QED BY <1>2, <2>1, ReportedIsPossible DEF ResultInv
<1>3. CASE ~SpawnFails /\ ~ReturnResult
  <2>1. UNCHANGED result /\ (pc' = "done" <=> pc = "done")
    BY <1>3, NobodyElseAnswers
  <2>2. pc = "done" => cancelled' = cancelled
    BY DoneIsDeaf
  <2> QED BY <2>1, <2>2 DEF ResultInv
<1> QED BY <1>1, <1>2, <1>3

(* What run() has decided, and why, at each of its points.                 *)
LEMMA VerdictStep ==
  ASSUME RunnerTypeOK, VerdictInv, [Next]_runnerVars PROVE VerdictInv'
<1> USE DEF RunnerTypeOK, MainType, WorldType, VerdictInv, None
<1>1. CASE SpawnFails \/ ReturnResult
  <2>1. pc' = "done" /\ UNCHANGED <<verdict, time>>
    BY <1>1 DEF SpawnFails, ReturnResult, Report
  <2> QED BY <2>1
<1>2. CASE Spawn \/ CheckSinkFault \/ CheckCancelled \/ Poll
  BY <1>2 DEF Spawn, CheckSinkFault, CheckCancelled, Poll, StopFor, Go
<1>3. CASE Recheck \/ CheckDeadline
  BY <1>3 DEF Recheck, CheckDeadline, StopFor, Go
<1>4. CASE SendTerm \/ Grace \/ SendKill \/ LastGrace
  BY <1>4 DEF SendTerm, Grace, SendKill, LastGrace, Go
<1>5. CASE RestoreHandlers
  BY <1>5 DEF RestoreHandlers, Go
<1>6. CASE JoinThreads \/ CloseWrites \/ Quiesce
  BY <1>6 DEF JoinThreads, CloseWrites, Quiesce, Go
<1>7. CASE Threads
  BY <1>7, ThreadsLeaveMain
<1>8. CASE Signal
  BY <1>8 DEF Signal, WorldRest, HandlerInstalled
<1>9. CASE World /\ ~Signal
  <2>1. UNCHANGED <<pc, verdict, answer, cancelled, inTime>>
    BY <1>9 DEF World, Output, Fork, ChildExits, HelperExits, DeadlinePasses, WorldRest
  <2> QED BY <2>1
<1>10. CASE Returned \/ UNCHANGED runnerVars
  BY <1>10 DEF Returned, runnerVars
<1> QED BY <1>1, <1>2, <1>3, <1>4, <1>5, <1>6, <1>7, <1>8, <1>9, <1>10 DEF Next, Main

-----------------------------------------------------------------------------
(* The child and its streams.                                              *)
LEMMA ChildStep ==
  ASSUME RunnerTypeOK, VerdictInv, ChildInv, [Next]_runnerVars PROVE ChildInv'
<1> USE DEF RunnerTypeOK, MainType, WorldType, ChildInv, VerdictInv, PipesHeld, None
<1>1. CASE SpawnFails \/ ReturnResult
  <2>1. pc' = "done" /\ UNCHANGED <<verdict, processes>>
    BY <1>1 DEF SpawnFails, ReturnResult, Report
  <2> QED BY <2>1
<1>2. CASE Spawn \/ CheckSinkFault \/ CheckCancelled \/ Poll
  BY <1>2 DEF Spawn, CheckSinkFault, CheckCancelled, Poll, StopFor, Go
<1>3. CASE Recheck \/ CheckDeadline
  BY <1>3 DEF Recheck, CheckDeadline, StopFor, Go
<1>4. CASE SendTerm \/ Grace \/ LastGrace
  BY <1>4 DEF SendTerm, Grace, LastGrace, Go
<1>5. CASE SendKill
  BY <1>5 DEF SendKill
<1>6. CASE RestoreHandlers \/ JoinThreads \/ CloseWrites \/ Quiesce
  BY <1>6 DEF RestoreHandlers, JoinThreads, CloseWrites, Quiesce, Go
<1>7. CASE Threads
  BY <1>7, ThreadsLeaveMain
<1>8. CASE World
  BY <1>8 DEF World, Output, Fork, ChildExits, HelperExits, Signal, DeadlinePasses, WorldRest
<1>9. CASE Returned \/ UNCHANGED runnerVars
  BY <1>9 DEF Returned, runnerVars
<1> QED BY <1>1, <1>2, <1>3, <1>4, <1>5, <1>6, <1>7, <1>8, <1>9 DEF Next, Main

(* A stream at its end stays there: nobody is left to write to it.         *)
LEMMA StreamStep ==
  ASSUME RunnerTypeOK, ChildInv, StreamInv, [Next]_runnerVars PROVE StreamInv'
<1> USE DEF RunnerTypeOK, MainType, ThreadType, WorldType, ChildInv, StreamInv, PipesHeld
<1>1. CASE Spawn
  BY <1>1 DEF Spawn
<1>2. CASE SendKill
  BY <1>2 DEF SendKill
<1>3. CASE Main /\ ~Spawn /\ ~SendKill
  BY <1>3, MainLeavesThreads, MainLeavesChild
<1>4. CASE StdinWritten
  BY <1>4 DEF StdinWritten
<1>5. ASSUME NEW s \in Streams, ReadChunk(s) PROVE StreamInv'
  BY <1>5 DEF ReadChunk, Reader, ReaderRest
<1>6. ASSUME NEW s \in Streams, ReadEnd(s) PROVE StreamInv'
  BY <1>6 DEF ReadEnd, Reader, ReaderRest
<1>7. ASSUME NEW s \in Streams, AdmitChunk(s) \/ WriteChunk(s) \/ WriteFails(s) \/ NoteFault(s)
      PROVE  StreamInv'
  BY <1>7 DEF AdmitChunk, WriteChunk, WriteFails, NoteFault, Reader, ReaderRest
<1>8. ASSUME NEW s \in Streams, Output(s) PROVE StreamInv'
  BY <1>8 DEF Output, WorldRest
<1>9. CASE Fork \/ ChildExits \/ HelperExits \/ Signal \/ DeadlinePasses
  BY <1>9 DEF Fork, ChildExits, HelperExits, Signal, DeadlinePasses, WorldRest
<1>10. CASE Returned \/ UNCHANGED runnerVars
  BY <1>10 DEF Returned, runnerVars
<1> QED BY <1>1, <1>2, <1>3, <1>4, <1>5, <1>6, <1>7, <1>8, <1>9, <1>10 DEF Next, Threads, World

(* A termination still confirmed after the joins is one of the readers too.*)
LEMMA JoinedStep ==
  ASSUME RunnerTypeOK, StreamInv, JoinedInv, [Next]_runnerVars PROVE JoinedInv'
<1> USE DEF RunnerTypeOK, MainType, ThreadType, WorldType, JoinedInv
<1>1. CASE JoinThreads
  BY <1>1 DEF JoinThreads, Go
<1>2. CASE CloseWrites \/ Quiesce
  BY <1>2 DEF CloseWrites, Quiesce, Go
<1>3. CASE Main /\ ~JoinThreads /\ ~CloseWrites /\ ~Quiesce
  BY <1>3 DEF Main, SpawnFails, Report, ReturnResult, Spawn, CheckSinkFault, CheckCancelled, Poll,
     Recheck, CheckDeadline, StopFor, Go, SendTerm, Grace, SendKill, LastGrace, RestoreHandlers
<1>4. CASE StdinWritten
  BY <1>4 DEF StdinWritten
<1>5. ASSUME NEW s \in Streams,
             \/ ReadChunk(s) \/ ReadEnd(s) \/ AdmitChunk(s)
             \/ WriteChunk(s) \/ WriteFails(s) \/ NoteFault(s)
      PROVE  JoinedInv'
  BY <1>5 DEF ReadChunk, ReadEnd, AdmitChunk, WriteChunk, WriteFails, NoteFault, Reader,
     ReaderRest
<1>6. CASE World
  BY <1>6, WorldLeavesRunner
<1>7. CASE Returned \/ UNCHANGED runnerVars
  BY <1>7 DEF Returned, runnerVars
<1> QED BY <1>1, <1>2, <1>3, <1>4, <1>5, <1>6, <1>7 DEF Next, Threads

-----------------------------------------------------------------------------
(* The sink.                                                               *)
LEMMA LockStep ==
  ASSUME RunnerTypeOK, LockInv, [Next]_runnerVars PROVE LockInv'
<1> USE DEF RunnerTypeOK, ThreadType, LockInv, AllWritten, None
<1>1. CASE Main \/ World \/ StdinWritten
  BY <1>1, MainLeavesThreads, WorldLeavesRunner DEF StdinWritten
<1>2. ASSUME NEW s \in Streams, ReadChunk(s) PROVE LockInv'
  BY <1>2 DEF ReadChunk, Reader, ReaderRest
<1>3. ASSUME NEW s \in Streams, ReadEnd(s) PROVE LockInv'
  BY <1>3 DEF ReadEnd, Reader, ReaderRest
<1>4. ASSUME NEW s \in Streams, AdmitChunk(s) PROVE LockInv'
  BY <1>4 DEF AdmitChunk, Reader, ReaderRest
<1>5. ASSUME NEW s \in Streams, WriteChunk(s) PROVE LockInv'
  BY <1>5 DEF WriteChunk, Reader, ReaderRest
<1>6. ASSUME NEW s \in Streams, WriteFails(s) PROVE LockInv'
  BY <1>6 DEF WriteFails, Reader, ReaderRest
<1>7. CASE Returned \/ UNCHANGED runnerVars
  BY <1>7 DEF Returned, runnerVars
<1>8. ASSUME NEW s \in Streams, NoteFault(s) PROVE LockInv'
  BY <1>8 DEF NoteFault, Reader, ReaderRest
<1> QED BY <1>1, <1>2, <1>3, <1>4, <1>5, <1>6, <1>7, <1>8 DEF Next, Threads

(* With the writes closed nobody takes the lock, with no child nobody      *)
(* reads: a free lock then stays free and the counts stay what they are.   *)
LEMMA FreeLockStays ==
  ASSUME RunnerTypeOK, ChildInv, StreamInv, [Next]_runnerVars, pc # "spawn", lock = None,
         writesClosed \/ child = "absent"
  PROVE  lock' = None /\ counted' = counted /\ (writesClosed' \/ child' = "absent")
<1> USE DEF RunnerTypeOK, MainType, ThreadType, WorldType, ChildInv, StreamInv
<1>1. CASE Main
  <2>1. writesClosed
    BY <1>1, MainLeavesWorld
  <2>2. writesClosed' = writesClosed \/ writesClosed' = TRUE
    BY <1>1 DEF Main, SpawnFails, Report, ReturnResult, Spawn, CheckSinkFault, CheckCancelled, Poll,
       Recheck, CheckDeadline, StopFor, Go, SendTerm, Grace, SendKill, LastGrace,
       RestoreHandlers, JoinThreads, CloseWrites, Quiesce
  <2> QED BY <1>1, <2>1, <2>2, MainLeavesThreads
<1>2. CASE Threads
  <2>1. UNCHANGED <<lock, counted>>
    BY <1>2 DEF Threads, StdinWritten, ReadChunk, ReadEnd, AdmitChunk, WriteChunk,
       WriteFails, NoteFault
  <2> QED BY <1>2, <2>1, ThreadsLeaveMain
<1>3. CASE World
  <2>1. child = "absent" => child' = "absent"
    BY <1>3 DEF World, Output, Fork, ChildExits, HelperExits, Signal, DeadlinePasses
  <2> QED BY <1>3, <2>1, WorldLeavesRunner
<1>4. CASE Returned \/ UNCHANGED runnerVars
  BY <1>4 DEF Returned, runnerVars
<1> QED BY <1>1, <1>2, <1>3, <1>4 DEF Next

(* Once a result other than a lost log is there, no chunk is on its way to *)
(* the sink, and the counts are final.                                     *)
LEMMA ClosedStep ==
  ASSUME RunnerInv, [Next]_runnerVars PROVE ClosedInv'
<1> USE DEF RunnerInv, ClosedInv, MainType, RunnerTypeOK
<1>1. CASE SpawnFails
  <2>1. pc = "spawn" /\ pc' = "done" /\ snapshot' = counted /\ UNCHANGED <<child, lock, counted>>
    BY <1>1 DEF SpawnFails, Report
  <2>2. child = "absent" /\ lock = None
    BY <2>1 DEF ChildInv, StreamInv, LockInv, ThreadType, None
  <2> QED BY <2>1, <2>2
<1>2. CASE ReturnResult
  <2>1. /\ pc = "report" /\ pc' = "done" /\ snapshot' = counted
        /\ UNCHANGED <<lock, counted, writesClosed>>
    BY <1>2 DEF ReturnResult, Report
  <2>2. result'.outcome # "LOGGING_ERROR" => stop # "LOGGING_ERROR"
    BY <1>2, ReportedIsPossible DEF BuildOutcome, None
  <2> QED BY <2>1, <2>2
<1>3. CASE CloseWrites \/ Quiesce
  BY <1>3 DEF CloseWrites, Quiesce, Go
<1>4. CASE Main /\ ~SpawnFails /\ ~ReturnResult /\ ~CloseWrites /\ ~Quiesce
  BY <1>4 DEF Main, Spawn, CheckSinkFault, CheckCancelled, Poll, Recheck, CheckDeadline, StopFor, Go,
     SendTerm, Grace, SendKill, LastGrace, RestoreHandlers, JoinThreads
<1>5. CASE ~Main
  <2>1. UNCHANGED <<pc, stop, answer, writesClosed>>
    BY <1>5, ThreadsLeaveMain, WorldLeavesRunner DEF Next, Returned, runnerVars
  <2>2. lock = None /\ pc # "spawn" /\ (writesClosed \/ child = "absent") =>
          lock' = None /\ counted' = counted /\ (writesClosed' \/ child' = "absent")
    BY FreeLockStays
  <2> QED BY <2>1, <2>2
<1> QED BY <1>1, <1>2, <1>3, <1>4, <1>5

-----------------------------------------------------------------------------
(* The result, once it is returned.                                        *)
LEMMA SuccessStep ==
  ASSUME RunnerInv, [Next]_runnerVars PROVE SuccessInv'
<1> USE DEF RunnerInv, SuccessInv, RunnerTypeOK
<1>1. CASE SpawnFails
  BY <1>1, SpawnFailureIsPossible
<1>2. CASE ReturnResult
  <2>1. pc = "report" /\ UNCHANGED <<child, exit, reader>>
    BY <1>2 DEF ReturnResult, Report
  <2>2. SUFFICES ASSUME result'.outcome = "SUCCEEDED"
                 PROVE  child = "exited" /\ exit = "zero" /\ \A s \in Streams : reader[s] = "ended"
    BY <2>1
  <2>3. stop = None /\ code = "zero" /\ confirmed
    BY <1>2, <2>2, ReportedIsPossible DEF BuildOutcome, MainType
  <2> QED BY <2>1, <2>3 DEF ChildInv, JoinedInv, None
<1>3. CASE ~SpawnFails /\ ~ReturnResult
  <2>1. SUFFICES ASSUME pc = "done", result.outcome = "SUCCEEDED"
                 PROVE  child' = "exited" /\ exit' = "zero" /\ \A s \in Streams : reader'[s] = "ended"
    BY <1>3, NobodyElseAnswers
  <2>2. ~Main
    BY <2>1, MainLeavesWorld
  <2>3. child = "exited" /\ exit = "zero" /\ \A s \in Streams : reader[s] = "ended"
    BY <2>1
  <2>4. CASE Threads
    <3>1. \A s \in Streams : reader'[s] = "ended"
      BY <2>3, <2>4 DEF Threads, StdinWritten, ReadChunk, ReadEnd, AdmitChunk, WriteChunk,
       WriteFails, NoteFault
    <3> QED BY <2>3, <2>4, <3>1, ThreadsLeaveMain
  <2>5. CASE World
    <3>1. UNCHANGED <<child, exit>>
      BY <2>3, <2>5 DEF World, Output, Fork, ChildExits, HelperExits, Signal, DeadlinePasses
    <3> QED BY <2>3, <2>5, <3>1, WorldLeavesRunner
  <2>6. CASE Returned \/ UNCHANGED runnerVars
    BY <2>3, <2>6 DEF Returned, runnerVars
  <2> QED BY <2>2, <2>4, <2>5, <2>6 DEF Next
<1> QED BY <1>1, <1>2, <1>3

(* A signal that came in time stays in the answer.                         *)
LEMMA SignalStep ==
  ASSUME RunnerInv, [Next]_runnerVars PROVE SignalBeforeExitWins'
<1> USE DEF RunnerInv, SignalBeforeExitWins, RunnerTypeOK
<1>1. CASE SpawnFails
  <2>1. pc = "spawn" /\ inTime' = inTime /\ (cancelled => result'.outcome = "INTERRUPTED")
    BY <1>1 DEF SpawnFails, Report, BuildOutcome, None
  <2> QED BY <2>1 DEF VerdictInv
<1>2. CASE ReturnResult
  <2>1. pc = "report" /\ inTime' = inTime
    BY <1>2 DEF ReturnResult, Report
  <2>2. stop # None => result'.outcome = stop /\ stop \in StopReasons
    BY <1>2, ReportedIsPossible DEF BuildOutcome, MainType
  <2> QED BY <2>1, <2>2 DEF VerdictInv
<1>3. CASE ~SpawnFails /\ ~ReturnResult
  BY <1>3, NobodyElseAnswers, DoneIsDeaf
<1> QED BY <1>1, <1>2, <1>3

(* Every step keeps every part.                                            *)
LEMMA RunnerStep == RunnerAssumption /\ RunnerInv /\ [Next]_runnerVars => RunnerInv'
<1> SUFFICES ASSUME RunnerAssumption, RunnerInv, [Next]_runnerVars PROVE RunnerInv'
  OBVIOUS
<1>1. RunnerTypeOK'
  BY MainTypeStep, ThreadTypeStep, WorldTypeStep DEF RunnerInv, RunnerTypeOK
<1>2. VerdictInv' /\ ResultInv' /\ ChildInv'
  BY VerdictStep, ResultStep, ChildStep DEF RunnerInv
<1>3. StreamInv' /\ JoinedInv' /\ LockInv'
  BY StreamStep, JoinedStep, LockStep DEF RunnerInv
<1>4. ClosedInv' /\ SuccessInv' /\ SignalBeforeExitWins'
  BY ClosedStep, SuccessStep, SignalStep
<1> QED BY <1>1, <1>2, <1>3, <1>4 DEF RunnerInv

(* Every reachable state of a call satisfies the invariant.                *)
THEOREM RunnerInvariant == Spec => []RunnerInv
BY RunnerInit, RunnerStep, RunnerAssumption, PTL DEF Spec

-----------------------------------------------------------------------------
(* A signal the handler saw before the main thread accepted an exit code   *)
(* ends the run as INTERRUPTED, or as the stop that was on its way: the    *)
(* second look at `cancelled` after poll() leaves no gap.                  *)
THEOREM SignalIsNotSwallowed == Spec => []SignalBeforeExitWins
<1>1. RunnerInv => SignalBeforeExitWins
  BY DEF RunnerInv
<1> QED BY <1>1, RunnerInvariant, PTL

(* SUCCEEDED is reported of a child that exited with 0 and whose streams   *)
(* were read to their end, with nobody left to write to them.              *)
THEOREM SuccessIsWhole == Spec => []SuccessIsComplete
<1>1. RunnerInv => SuccessIsComplete
  BY DEF RunnerInv, SuccessInv, SuccessIsComplete, StreamInv
<1> QED BY <1>1, RunnerInvariant, PTL

(* The byte counts reported beside a sink no write failed on are those of  *)
(* the log, also while a reader that outlived its join is still running.   *)
THEOREM CountsAreTheLog == Spec => []CountsMatchLog
<1>1. RunnerInv => CountsMatchLog
  <2> SUFFICES ASSUME RunnerInv, pc = "done", result.outcome # "LOGGING_ERROR", AllWritten
               PROVE  snapshot = logged
    BY DEF CountsMatchLog
  <2>1. snapshot = counted /\ lock = None
    BY DEF RunnerInv, ClosedInv
  <2>2. \A s \in Streams : counted[s] = logged[s]
    BY <2>1 DEF RunnerInv, LockInv, RunnerTypeOK, ThreadType, None
  <2> QED BY <2>1, <2>2 DEF RunnerInv, RunnerTypeOK, ThreadType
<1> QED BY <1>1, RunnerInvariant, PTL

(* Two readers are never inside the sink together, and none is when the    *)
(* caller may write its footer.                                            *)
THEOREM SinkIsExclusive == Spec => []SinkHasOneUser
<1>1. RunnerInv => SinkHasOneUser
  BY DEF RunnerInv, ClosedInv, LockInv, SinkHasOneUser, RunnerTypeOK, ThreadType, None
<1> QED BY <1>1, RunnerInvariant, PTL

(* No step adds to the log of a run that has returned, unless it returned  *)
(* a logging error.                                                        *)
THEOREM LogIsTheCallers == Spec => LogStaysClosed
<1>1. RunnerInv /\ [Next]_runnerVars =>
        [logged' # logged => pc # "done" \/ result.outcome = "LOGGING_ERROR"]_runnerVars
  <2> SUFFICES ASSUME RunnerInv, [Next]_runnerVars, logged' # logged, pc = "done"
               PROVE  result.outcome = "LOGGING_ERROR"
    OBVIOUS
  <2>1. PICK s \in Streams : WriteChunk(s)
    <3>1. ~Main /\ ~World
      BY MainLeavesThreads, WorldLeavesRunner
    <3> QED BY <3>1 DEF Next, Threads, StdinWritten, ReadChunk, ReadEnd, AdmitChunk,
       WriteFails, NoteFault, Returned, runnerVars
  <2>2. lock = s
    BY <2>1 DEF WriteChunk, RunnerInv, LockInv
  <2> QED BY <2>2 DEF RunnerInv, ClosedInv, None
<1> QED BY <1>1, RunnerInvariant, PTL DEF Spec, LogStaysClosed

-----------------------------------------------------------------------------
(* The contract speaks of the same records.                                *)
LEMMA SameRecords ==
  /\ Promise!NoResult = NoResult
  /\ \A c : Promise!PossibleResults(c, TRUE) = PossibleResults(c, TRUE)
BY DEF Promise!NoResult, NoResult, Promise!None, None, Promise!PossibleResults, PossibleResults,
   Promise!ProcessOutcomes, Promise!StopReasons

(* The threads of process.py implement the contract its callers rely on: a *)
(* handled signal is a Catch, the two returns are the Return, every other  *)
(* step a stutter.                                                         *)
THEOREM Refinement == Spec => ImplementsContract
<1>1. Init => Promise!ContractInit
  BY SameRecords DEF Init, Promise!ContractInit
<1>2. RunnerInv /\ [Next]_runnerVars => [Promise!Catch \/ Promise!Return]_(Promise!contractVars)
  <2> SUFFICES ASSUME RunnerInv, [Next]_runnerVars
               PROVE  [Promise!Catch \/ Promise!Return]_(Promise!contractVars)
    OBVIOUS
  <2>1. CASE SpawnFails
    <3>1. pc = "spawn" /\ UNCHANGED cancelled
      BY <2>1 DEF SpawnFails
    <3>2. result = NoResult
      BY <3>1 DEF RunnerInv, ResultInv
    <3> QED BY <2>1, <3>1, <3>2, SpawnFailureIsPossible, SameRecords DEF RunnerInv, Promise!Return
  <2>2. CASE ReturnResult
    <3>1. pc = "report" /\ UNCHANGED cancelled
      BY <2>2 DEF ReturnResult
    <3>2. result = NoResult
      BY <3>1 DEF RunnerInv, ResultInv
    <3> QED BY <2>2, <3>1, <3>2, ReportedIsPossible, SameRecords DEF RunnerInv, Promise!Return
  <2>3. CASE Signal
    <3>1. cancelled' = TRUE /\ UNCHANGED result /\ pc # "done"
      BY <2>3 DEF Signal, WorldRest, HandlerInstalled
    <3>2. result = NoResult
      BY <3>1 DEF RunnerInv, ResultInv
    <3> QED BY <3>1, <3>2, SameRecords DEF Promise!Catch
  <2>4. CASE ~SpawnFails /\ ~ReturnResult /\ ~Signal
    <3>1. UNCHANGED cancelled
      <4>1. World => UNCHANGED cancelled
        BY <2>4 DEF World, Output, Fork, ChildExits, HelperExits, DeadlinePasses
      <4> QED BY <4>1, MainLeavesWorld, ThreadsLeaveMain DEF Next, Returned, runnerVars
    <3>2. UNCHANGED result
      BY <2>4, NobodyElseAnswers DEF RunnerInv
    <3> QED BY <3>1, <3>2 DEF Promise!contractVars
  <2> QED BY <2>1, <2>2, <2>3, <2>4
<1> QED BY <1>1, <1>2, RunnerInvariant, PTL DEF Spec, ImplementsContract, Promise!Contract
=============================================================================
