---------------------------- MODULE ProcessRunner ----------------------------
(***************************************************************************)
(* One call of SubprocessRunner.run (process.py): the main thread with its *)
(* wait loop, its TERM/KILL escalation and the sealing of the log; the two *)
(* reader threads and the stdin writer; the child, a process it may have   *)
(* forked, the handler of SIGINT and SIGTERM, and the clock.               *)
(*                                                                         *)
(* Every wait with a timeout is one step that is enabled whatever became   *)
(* of what it waits for: the time it takes is not modelled, its bound is.  *)
(***************************************************************************)
EXTENDS ProcessOutcome

CONSTANTS
  MaxChunks,   \* bound: chunks written to each stream
  MayOutlive   \* BOOLEAN: a process can outlive SIGKILL by the whole grace

ASSUME RunnerAssumption == MaxChunks \in Nat /\ MayOutlive \in BOOLEAN

Streams == {"stdout", "stderr"}

VARIABLES
  pc,          \* where the main thread is
  stop,        \* the one of timed_out, interrupted, logging_error that is set
  code,        \* return_code, None while unknown
  confirmed,   \* termination_confirmed
  observed,    \* interruption_observed
  result,      \* the ProcessResult returned
  snapshot,    \* the byte counts in it
  cancelled,   \* the Event of the signal handler
  inTime,      \* history: it was set before an exit code was accepted
  late,        \* the deadline has passed
  child,       \* the spawned process, leader of its group
  exit,        \* its exit code
  helper,      \* a process the child forked: its state, whether it is still in
               \* the group and whether it kept stdout and stderr
  sent, pipe,  \* chunks written to each stream so far, and not read yet
  reader,      \* where each _StreamReader is
  faulted,     \* its local flag
  feeding,     \* the _StdinWriter is alive
  lock,        \* sink_lock
  sinkFault, writesClosed,   \* the two shared Events
  counted, logged            \* chunks in the byte count, chunks in the sink

verdict == <<stop, code, confirmed, observed>>
answer == <<result, snapshot>>
processes == <<child, exit, helper, sent>>
time == <<cancelled, inTime, late>>
threads == <<pipe, reader, faulted, feeding, lock, sinkFault, counted, logged>>
runnerVars == <<pc, verdict, answer, time, processes, threads, writesClosed>>

-----------------------------------------------------------------------------
NoHelper == [state |-> "none", inGroup |-> FALSE, piped |-> FALSE]

PipesHeld == child = "running" \/ (helper.state = "running" /\ helper.piped)

(* The runner's handler is installed from before the spawn until the old   *)
(* one is put back after the wait and the escalation.                      *)
HandlerInstalled == pc \in {"spawn", "fault", "cancel", "poll", "recheck", "deadline",
                            "term", "grace", "kill", "lastGrace", "restore"}

Init ==
  /\ pc = "spawn" /\ stop = None /\ code = None /\ confirmed = TRUE /\ observed = FALSE
  /\ result = NoResult /\ snapshot = [s \in Streams |-> 0]
  /\ cancelled = FALSE /\ inTime = FALSE /\ late = FALSE
  /\ child = "absent" /\ exit = None /\ helper = NoHelper
  /\ sent = [s \in Streams |-> 0] /\ pipe = [s \in Streams |-> 0]
  /\ reader = [s \in Streams |-> "read"] /\ faulted = [s \in Streams |-> FALSE]
  /\ feeding = TRUE /\ lock = None
  /\ sinkFault = FALSE /\ writesClosed = FALSE
  /\ counted = [s \in Streams |-> 0] /\ logged = [s \in Streams |-> 0]

-----------------------------------------------------------------------------
(* The main thread.                                                        *)

Go(to) ==
  /\ pc' = to
  /\ UNCHANGED <<answer, time, processes, threads, writesClosed>>

Report(outcome, interrupted, term) ==
  /\ result' = [outcome |-> outcome, interrupted |-> interrupted,
                term |-> IF term THEN "YES" ELSE "NO"]
  /\ snapshot' = counted
  /\ pc' = "done"

(* Popen raised: there is no child and no thread.                          *)
SpawnFails ==
  /\ pc = "spawn"
  /\ Report(BuildOutcome(IF cancelled THEN "INTERRUPTED" ELSE None, None, TRUE),
            cancelled, TRUE)
  /\ UNCHANGED <<verdict, time, processes, threads, writesClosed>>

Spawn ==
  /\ pc = "spawn"
  /\ child' = "running"
  /\ pc' = "fault"
  /\ UNCHANGED <<verdict, answer, time, exit, helper, sent, threads, writesClosed>>

(* _wait_for_exit_or_deadline, one test per step.                          *)
StopFor(reason) == stop' = reason /\ Go("term") /\ UNCHANGED <<code, confirmed, observed>>

CheckSinkFault ==
  /\ pc = "fault"
  /\ \/ sinkFault /\ StopFor("LOGGING_ERROR")
     \/ ~sinkFault /\ Go("cancel") /\ UNCHANGED verdict

CheckCancelled ==
  /\ pc = "cancel"
  /\ \/ cancelled /\ StopFor("INTERRUPTED")
     \/ ~cancelled /\ Go("poll") /\ UNCHANGED verdict

Poll ==
  /\ pc = "poll"
  /\ Go(IF child = "exited" THEN "recheck" ELSE "deadline")
  /\ UNCHANGED verdict

AcceptWithoutRecheck ==  \* mutation
  /\ pc = "recheck"
  /\ code' = exit /\ Go("restore") /\ UNCHANGED <<stop, confirmed, observed>>

(* The cancellation is looked at once more before the exit code counts.    *)
Recheck ==
  /\ pc = "recheck"
  /\ \/ cancelled /\ StopFor("INTERRUPTED")
     \/ ~cancelled /\ code' = exit /\ Go("restore") /\ UNCHANGED <<stop, confirmed, observed>>

CheckDeadline ==
  /\ pc = "deadline"
  /\ \/ late /\ StopFor("TIMEOUT")
     \/ ~late /\ Go("fault") /\ UNCHANGED verdict

(* _escalate_and_confirm_termination.                                      *)
SendTerm == pc = "term" /\ Go("grace") /\ UNCHANGED verdict

Grace ==
  /\ pc = "grace"
  /\ \/ /\ child = "exited" /\ code' = exit /\ Go("restore")
        /\ UNCHANGED <<stop, confirmed, observed>>
     \/ child = "running" /\ Go("kill") /\ UNCHANGED verdict

(* SIGKILL ends whoever is in the group, unless it sits in the kernel.     *)
Killed(alive) == IF MayOutlive THEN {alive, FALSE} ELSE {FALSE}

SendKill ==
  /\ pc = "kill"
  /\ \E c \in Killed(child = "running"), h \in Killed(helper.state = "running") :
       /\ child' = IF c THEN child ELSE "exited"
       /\ exit' = IF c \/ child = "exited" THEN exit ELSE "nonzero"
       /\ helper' = IF helper.inGroup /\ helper.state = "running" /\ ~h
                    THEN [helper EXCEPT !.state = "gone"] ELSE helper
  /\ pc' = "lastGrace"
  /\ UNCHANGED <<verdict, answer, time, sent, threads, writesClosed>>

LastGrace ==
  /\ pc = "lastGrace"
  /\ code' = exit
  /\ confirmed' = (child = "exited")
  /\ Go("restore")
  /\ UNCHANGED <<stop, observed>>

(* finally: the previous handlers are back.                                *)
RestoreHandlers ==
  /\ pc = "restore"
  /\ observed' = (stop = "INTERRUPTED")
  /\ Go("join")
  /\ UNCHANGED <<stop, code, confirmed>>

JoinIgnoringSurvivors ==  \* mutation
  pc = "join" /\ Go("close") /\ UNCHANGED verdict

(* Three bounded joins, then who is still alive.                           *)
JoinThreads ==
  /\ pc = "join"
  /\ confirmed' = (confirmed /\ ~feeding /\ \A s \in Streams : reader[s] = "ended")
  /\ Go("close")
  /\ UNCHANGED <<stop, code, observed>>

CloseWrites ==
  /\ pc = "close"
  /\ writesClosed' = TRUE
  /\ pc' = "quiesce"
  /\ UNCHANGED <<verdict, answer, time, processes, threads>>

QuiesceWithoutLock ==  \* mutation
  pc = "quiesce" /\ Go("report") /\ UNCHANGED verdict

QuiesceUnbounded ==  \* mutation
  pc = "quiesce" /\ lock = None /\ Go("report") /\ UNCHANGED verdict

(* Bounded wait for the write in flight; past it the log is given up.      *)
Quiesce ==
  /\ pc = "quiesce"
  /\ \/ lock = None /\ Go("report") /\ UNCHANGED verdict
     \/ /\ lock # None
        /\ stop' = "LOGGING_ERROR" /\ confirmed' = FALSE
        /\ Go("report")
        /\ UNCHANGED <<code, observed>>

ReturnResult ==
  /\ pc = "report"
  /\ Report(BuildOutcome(stop, code, confirmed),
            stop = "INTERRUPTED" \/ (stop = "LOGGING_ERROR" /\ observed), confirmed)
  /\ UNCHANGED <<verdict, time, processes, threads, writesClosed>>

Main ==
  \/ SpawnFails \/ Spawn \/ CheckSinkFault \/ CheckCancelled \/ Poll \/ Recheck
  \/ CheckDeadline \/ SendTerm \/ Grace \/ SendKill \/ LastGrace \/ RestoreHandlers
  \/ JoinThreads \/ CloseWrites \/ Quiesce \/ ReturnResult

-----------------------------------------------------------------------------
(* The threads.                                                            *)

ReaderRest == UNCHANGED <<pc, verdict, answer, time, processes, feeding, writesClosed>>

Reader(s, to) == reader' = [reader EXCEPT ![s] = to]

(* read1 returned a chunk; after a fault it is discarded.                  *)
ReadChunk(s) ==
  /\ child # "absent" /\ reader[s] = "read" /\ pipe[s] > 0
  /\ pipe' = [pipe EXCEPT ![s] = @ - 1]
  /\ Reader(s, IF faulted[s] THEN "read" ELSE "admit")
  /\ ReaderRest /\ UNCHANGED <<faulted, lock, sinkFault, counted, logged>>

(* End of file: nobody holds the other end any more.  (A read of a pipe    *)
(* that only its reader closes does not fail.)                             *)
ReadEnd(s) ==
  /\ child # "absent" /\ reader[s] = "read" /\ pipe[s] = 0 /\ ~PipesHeld
  /\ Reader(s, "ended")
  /\ ReaderRest /\ UNCHANGED <<pipe, faulted, lock, sinkFault, counted, logged>>

AdmitAnyway(s) ==  \* mutation
  /\ reader[s] = "admit"
  /\ lock' = s /\ Reader(s, "write")
  /\ counted' = [counted EXCEPT ![s] = @ + 1]
  /\ ReaderRest /\ UNCHANGED <<pipe, faulted, sinkFault, logged>>

AdmitAfterClose(s) ==  \* mutation
  /\ reader[s] = "admit" /\ lock = None
  /\ lock' = s /\ Reader(s, "write")
  /\ counted' = [counted EXCEPT ![s] = @ + 1]
  /\ ReaderRest /\ UNCHANGED <<pipe, faulted, sinkFault, logged>>

(* Under the lock: once the writes are closed the chunk is dropped, else   *)
(* it is counted and handed to the sink.                                   *)
AdmitChunk(s) ==
  /\ reader[s] = "admit" /\ lock = None
  /\ \/ writesClosed /\ Reader(s, "read") /\ UNCHANGED <<lock, counted>>
     \/ /\ ~writesClosed
        /\ lock' = s /\ Reader(s, "write")
        /\ counted' = [counted EXCEPT ![s] = @ + 1]
  /\ ReaderRest /\ UNCHANGED <<pipe, faulted, sinkFault, logged>>

WriteChunk(s) ==
  /\ reader[s] = "write"
  /\ logged' = [logged EXCEPT ![s] = @ + 1]
  /\ lock' = None /\ Reader(s, "read")
  /\ ReaderRest /\ UNCHANGED <<pipe, faulted, sinkFault, counted>>

(* OSError of sink.write leaves the lock; only then is it made known.      *)
WriteFails(s) ==
  /\ reader[s] = "write"
  /\ lock' = None /\ Reader(s, "failed")
  /\ ReaderRest /\ UNCHANGED <<pipe, faulted, sinkFault, counted, logged>>

NoteFault(s) ==
  /\ reader[s] = "failed"
  /\ sinkFault' = TRUE /\ faulted' = [faulted EXCEPT ![s] = TRUE]
  /\ Reader(s, "read")
  /\ ReaderRest /\ UNCHANGED <<pipe, lock, counted, logged>>

StdinWritten ==
  /\ child # "absent" /\ feeding
  /\ feeding' = FALSE
  /\ UNCHANGED <<pc, verdict, answer, time, processes, pipe, reader, faulted, lock,
                 sinkFault, counted, logged, writesClosed>>

Threads ==
  \/ StdinWritten
  \/ \E s \in Streams :
       \/ ReadChunk(s) \/ ReadEnd(s)
       \/ AdmitChunk(s) \/ WriteChunk(s) \/ WriteFails(s) \/ NoteFault(s)

-----------------------------------------------------------------------------
(* The processes, the user and the clock.                                  *)

WorldRest == UNCHANGED <<pc, verdict, answer, reader, faulted, feeding, lock, sinkFault,
                         counted, logged, writesClosed>>

Output(s) ==
  /\ PipesHeld /\ sent[s] < MaxChunks
  /\ sent' = [sent EXCEPT ![s] = @ + 1] /\ pipe' = [pipe EXCEPT ![s] = @ + 1]
  /\ WorldRest /\ UNCHANGED <<time, child, exit, helper>>

Fork ==
  /\ child = "running" /\ helper = NoHelper
  /\ \E inGroup, piped \in BOOLEAN :
       helper' = [state |-> "running", inGroup |-> inGroup, piped |-> piped]
  /\ WorldRest /\ UNCHANGED <<time, child, exit, sent, pipe>>

ChildExits ==
  /\ child = "running"
  /\ child' = "exited" /\ exit' \in {"zero", "nonzero"}
  /\ WorldRest /\ UNCHANGED <<time, helper, sent, pipe>>

HelperExits ==
  /\ helper.state = "running"
  /\ helper' = [helper EXCEPT !.state = "gone"]
  /\ WorldRest /\ UNCHANGED <<time, child, exit, sent, pipe>>

Signal ==
  /\ HandlerInstalled /\ ~cancelled
  /\ cancelled' = TRUE
  /\ inTime' = (pc \in {"spawn", "fault", "cancel", "poll", "recheck"})
  /\ WorldRest /\ UNCHANGED <<late, child, exit, helper, sent, pipe>>

DeadlinePasses ==
  /\ ~late
  /\ late' = TRUE
  /\ WorldRest /\ UNCHANGED <<cancelled, inTime, child, exit, helper, sent, pipe>>

World ==
  \/ \E s \in Streams : Output(s)
  \/ Fork \/ ChildExits \/ HelperExits \/ Signal \/ DeadlinePasses

Returned == pc = "done" /\ UNCHANGED runnerVars

Next == Main \/ Threads \/ World \/ Returned

Spec == Init /\ [][Next]_runnerVars

(* The main thread is scheduled and the clock advances.  Nothing is assumed*)
(* of the child, of its helpers, of the sink or of the other threads.      *)
FairSpec == Spec /\ WF_runnerVars(Main) /\ WF_runnerVars(DeadlinePasses)

-----------------------------------------------------------------------------
(* A signal handled before the exit code was accepted is never swallowed by*)
(* that exit code (the two looks at `cancelled` around poll()).            *)
SignalBeforeExitWins ==
  pc = "done" /\ inTime => result.outcome \notin {"SUCCEEDED", "PROCESS_ERROR"}

(* SUCCEEDED: the child exited 0, and every byte that anyone wrote or could*)
(* still write to its streams has been read.                               *)
SuccessIsComplete ==
  pc = "done" /\ result.outcome = "SUCCEEDED" =>
    exit = "zero" /\ \A s \in Streams : pipe[s] = 0 /\ ~PipesHeld /\ reader[s] = "ended"

(* The byte counts of a result that does not admit a logging error are     *)
(* those of the log, now and later, also when a reader is still running -  *)
(* unless a write failed, which a reader may not have made known yet.      *)
AllWritten == ~sinkFault /\ \A s \in Streams : reader[s] # "failed"

CountsMatchLog ==
  pc = "done" /\ result.outcome # "LOGGING_ERROR" /\ AllWritten => snapshot = logged

(* The sink has one user at a time: one of the readers, or the caller,     *)
(* which writes its footer to it unless the result is a logging error.     *)
SinkHasOneUser ==
  LET caller == IF pc = "done" /\ result.outcome # "LOGGING_ERROR" THEN {"caller"} ELSE {}
      users == {s \in Streams : reader[s] = "write"} \cup caller
  IN \A u, v \in users : u = v

(* Once run() has returned a result that is not a logging error the log    *)
(* belongs to the caller: no reader adds to it.                            *)
LogStaysClosed ==
  [][logged' # logged => pc # "done" \/ result.outcome = "LOGGING_ERROR"]_runnerVars

(* run() returns, whatever the child, its helpers, the sink and the other  *)
(* threads do or fail to do.                                               *)
Returns == <>(pc = "done")

(* The threads together keep what the callers rely on.                     *)
Promise == INSTANCE ProcessContract
             WITH caught <- cancelled, reported <- result, MayOutlive <- TRUE
ImplementsContract == Promise!Contract

-----------------------------------------------------------------------------
(* Statements of the documents the code does not keep.                     *)

(* system-design 10.1: a failure of the sink becomes LOGGING_ERROR.        *)
SinkFaultIsReported ==
  pc = "done" /\ sinkFault => result.outcome # "SUCCEEDED"

(* system-design 10.2: after the escalation a termination is confirmed only*)
(* if the process group is gone.                                           *)
ConfirmedMeansGroupGone ==
  pc = "done" /\ result.outcome \in StopReasons /\ result.term = "YES" =>
    ~(helper.state = "running" /\ helper.inGroup)
=============================================================================
