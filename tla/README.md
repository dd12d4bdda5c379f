# A TLA+ model of OpenCode Tools

OpenCode Tools (`src/src/opencode_tools/`) is a command that drives three
agents, an architect, a coder and a reviewer, through one GitHub issue. Python
owns the lifecycle: a phase automaton with two loops (provider retries and
review cycles), child processes with deadlines and escalation, a lock on the
target repository with a quarantine marker, a disposable clone for the coder
whose changes are promoted to the target, Git checks before and after every
agent, and a terminal record that is staged, sealed against late cancellation
and published. This directory models that lifecycle and what it decides on (the
record on disk, the sampling of the target, the answer of an agent), checks it
with TLC and proves its main safety properties with TLAPS.

Paths below are relative to `src/src/opencode_tools/` unless they name a
document of the repository.

## The system

### Components, their state and their operations

| Component | State | Operations | Modules |
|---|---|---|---|
| State machine and precedences (`state_machine.py`) | none: pure functions | `transition`, `classify_attempt_outcome`, `resolve_terminal_outcome`, `evaluate_final_gate`, `resolve_exit_code` | `StateMachine` |
| Retry policy (`retry.py`) | none | `decide_retry`, backoff delays and budgets, `max_opencode_invocations` | `Retry` |
| Orchestrator (`orchestrator.py`) | `last_accepted` Git state, last termination, persistence blocked, cancellation requested, sealed | `run_logical_invocation`, `run_provider_attempts`, `run_issue_pipeline`, `request_cancellation`, `seal_cancellation` | `Orchestrator`, `IssueRun` |
| Bootstrap (`orchestrator.py`, `cli.py`) | `latest_record`, `persisted_record`, the lease | `bootstrap_run`, and `main` before and after it | `Bootstrap`, one step in `TargetLease` |
| Finalization (`orchestrator.py`, `_CliRunStore` of `cli.py`) | staged record, published record, lease, marker | `finalize_run`: postflight, quarantine, stage, release, seal, commit or abort | `Finalization` |
| Composition root (`cli.py`) | the run as a whole | `run_composed_pipeline`, `_CliAgentRunner.run`, `_SystemSleeper`, the functions that derive the arguments of `finalize_run` | `Orchestrator`, `IssueRun`, `Bootstrap`, `AgentResponse` |
| Child-process runner (`process.py`) | the child and its group, two reader threads, a stdin writer, a sink under a lock, three events | `SubprocessRunner.run` | `ProcessRunner`, `ProcessContract`, `ProcessOutcome` |
| Target lease (`locking.py`) | a lock file, its flock, `quarantine-v1.json` | `acquire`, `quarantine`, `release` | `TargetLease` |
| Coder sandbox (`coder_sandbox.py`) | a clone, its pristine snapshot, the promotion index, the captured target state | `prepare_coder_sandbox`, `promote_coder_changes`, `cleanup_coder_sandbox` | `Promotion` |
| Git safety (`git_safety.py`) | none of its own; it reads the target | `resolve_target`, `capture_git_state`, `check_git_state` | `GitSampling`; one step in `Orchestrator` and `TargetLease` |
| Run store (`runlog.py`, `_CliRunStore`) | a run directory: `run.json`, temporary files, attempt logs | prepare, commit and discard a record; open, write, close a log | `RunStore`, `RunLogContract`; in outline in `Finalization` |
| OpenCode adapter (`opencode.py`) | a bounded capture of one child's output; the digest of the control plane | `recheck_control_plane`, `classify_provider_signal`, `decode_run_transport`, `verify_agent_identity`; preflight checks | `AgentResponse`, `ControlPlane`, partly |
| Response protocol (`protocol.py`) | none | `parse_agent_response` | `AgentResponse` |
| GitHub adapter (`github.py`), configuration (`config.py`), prompting (`prompting.py`), ports and errors, arguments and rendering | none | parsing, read-only probes, wording | not modelled |

### How they interact

`main` composes everything in one process and one main thread.
`bootstrap_run` resolves the target, takes the lease, makes the run directory
and captures the baseline. The orchestrator then calls, for every attempt:
the attempt log (open), Git safety (a check), the agent runner, Git safety
again, the attempt log (close), the run store (`run.json` is replaced). For a
coder the agent runner makes a clone, runs the child in it and promotes the
clone. `finalize_run` takes over when the loop ends or raises. Git probes and
agents are children of `SubprocessRunner.run`, the only place with threads.

What is shared is small: the cancellation flags, written by signal handlers
(that of the pipeline, and while a child runs that of the runner, which
replaces it); the sink, its lock and its events, shared by the main thread and
the readers; the target repository, which other programs edit at any time; and
the coordination directory, which other runs of the program use.

### What is hard

- a signal between any two steps, and a flag read before the step it decides;
- children that ignore SIGTERM, hold their pipes open through a descendant, or
  survive SIGKILL for longer than the program waits;
- a failure of the log or of the record while the evidence of such a child is
  on its way to the finalization;
- retries and review cycles against limits, over a target that may have moved;
- a terminal record whose content depends on a flag that may change while it is
  written, published after the lease was given back;
- locks and markers across crashes, with runs that checked at different times;
- which paths of a tree a coder changed, when directories, files, links,
  ignore rules and checkout filters change, and a patch that stops half way;
- a record replaced by rename, with system calls that fail and a power loss
  between any two of them, on a program whose own failure handling writes again;
- a target read by twelve Git commands and a read per path, none of which holds
  it still, and compared with what was read before;
- the last word of an agent picked out of a stream that may go on, be cut, name
  another session or come from another agent; and an authority (its permission
  rules) whose listing changes order from call to call.

`PROJECT.json` lists each of these as a hazard at its line, with the property
that covers it.

### What makes each component correct

- *State machine*: the outcome of a run is the highest-ranked of what happened;
  APPROVED needs a review, a SAFE postflight and a published record.
- *Retry and loop*: bounded agents; a retry only of an attempt that left the
  target as it was, beside nothing that is still running; nothing goes on after
  a failure, so the last result tells the outcome.
- *Finalization*: what is announced is what was published; a cancellation
  accepted before the seal decides; every ending gives the lease back.
- *Process runner*: it returns whatever the child does; a success is complete;
  a signal that came first wins; log and counts agree; nobody writes to a log
  that was handed back.
- *Lease*: exclusion across crashes; a refusal means that somebody is there; a
  marker reaches the runs that come after it.
- *Sandbox*: the patch is exactly what the coder changed; nothing else of the
  target is touched; a promotion is whole and its result is what was reviewed.
- *Run store and bootstrap*: `run.json` is always a complete record, the newest
  or, after a power loss, one no older than the last that is known to be on disk;
  agents start from a record that can be recovered from; the first error is the
  one announced; no temporary file is left.
- *Git safety*: an accepted state is one the target had; SAFE twice frames a
  moment of rest; UNSAFE and INDETERMINATE always have a cause.
- *Agent answer*: the text acted on is the last word of the session, a sentence
  of the protocol, by the agent that was asked, under the permissions that were
  accepted.

## The modules

```
StateMachine -- ProcessOutcome --+-- ProcessContract
                                 +-- ProcessRunner    implements ProcessContract
                                 |     ProcessRunnerProofs
Retry ---------------------------+-- Orchestrator -- Finalization -- IssueRun
                                 MCIssueRun, IssueRunProofs -- IssueRunResultProofs
TargetLease -- TargetLeaseProofs
Promotion --+-- MCPromotion
            +-- PromotionProofs
RunStore ---+-- RunLogContract      (RunStore implements it)
            +-- Bootstrap -- BootstrapProofs    (with StateMachine)
GitSampling -- GitSamplingProofs
ControlPlane -- AgentResponse --+-- MCAgentResponse    (with ProcessOutcome)
                                +-- AgentResponseProofs
```

**`StateMachine`** translates the pure decisions: the table of `transition`,
the precedence of attempt signals, the precedence of terminal causes, the final
gate and the exit codes. A rejected transition (`ValueError` in the code) is a
phase of its own, `REJECTED`, and the type invariant of `IssueRun` shows that no
run gets there.

**`Retry`** is `decide_retry` and the closed form of the number of agent
invocations. Delays are floating point and are left out; that the sleep can be
cut short by a signal is in `Orchestrator`.

**`Orchestrator`** is the loop. `pc` names the places of
`run_logical_invocation` between which a handler or an outside edit can make a
difference: `enter`, `before`, `recheck`, `launch`, `child`, `promote`,
`footer`, `after`, `record`, then `decide` and `sleep` of the loops around it.
`before`, `agent` and `after` are the function's locals; `results` is the list
of `LogicalInvocationResult`s; `lastAccepted` is `_last_accepted_git_state`.
`repo` is the target as Git sees it, a pair of a ref and a fingerprint, and
`orphans` is the truth about children that survived, which the program sees
only through the results of its calls. Every handler that can raise has its own
action (`OpenSinkFails`, `SandboxFails`, `HeaderFails`, `FooterFails`,
`CloseFails`, `PersistFails`), since what each failure loses on the way out is
what several properties are about. `Raise` and `Escape` are the two ways out of
`run_composed_pipeline`: an `OpenCodeToolsError` goes on to `finalize_run`,
anything else leaves the process.

**`Finalization`** is `finalize_run` from the postflight to the seal, with the
cancellation flag read again at each of the places where the code does.
`staged`, `runJson` and `result` are the record in its temporary file, the one
published and the one announced.

**`IssueRun`** composes the two, and states what a run promises.
**`MCIssueRun`** gives TLC a view of it, described with the bounds.

**`ProcessOutcome`** says which results a call of `SubprocessRunner.run` can
have, as a function of whether a signal was caught and whether a child can
outlive SIGKILL. `Orchestrator` uses it for every child. **`ProcessRunner`** is
that call in full: the wait loop test by test (`CheckSinkFault`,
`CheckCancelled`, `Poll`, `Recheck`, `CheckDeadline`), the escalation
(`SendTerm`, `Grace`, `SendKill`, `LastGrace`), the join, the sealing of the
sink (`CloseWrites`, `Quiesce`) and the report, beside two readers that take
the sink lock, the stdin writer, a child, and a process the child may fork with
or without its pipes, in or out of its group. A write that fails leaves the lock
first (`WriteFails`) and is made known in a step of its own (`NoteFault`). **`ProcessContract`** is the
abstract specification between the two: signals may be caught, and one possible
result is returned at most once. `ProcessRunner` is checked to implement it.

**`TargetLease`** is several runs on one target: `resolve_target`, the look at
the marker, the open and the flock as separate steps, then the run under the
lease in outline, the marker, the release, and a crash at any point. A file is
an inode, so that a lock file that is removed and made again is another lock.

**`Promotion`** is one coder attempt on the file system. A tree is a function
from paths to entries (a mode and a text), directories being implied. The clone,
the pristine snapshot, the candidates of `git ls-files`, the classification of
each path, the order of removals and additions in the promotion index, and the
patch are translated. `git apply` is external; it is modelled as three phases,
a check of every path, the unlinking of old files and the writing of new ones,
as the program has to assume of it. **`MCPromotion`** gives the paths and
entries for TLC.

**`RunStore`** is the run directory under the operations of `_CliRunStore`:
`Persist`, `StageFinal`, `CommitFinal` and `AbortFinal` start, and each system
call of `runlog.py` is a step (`OpenTemp`, `WriteTemp`, `SyncTemp`, `Swap`,
`Replace`, `SyncDirectory`) that succeeds or fails. `dir` is what the directory
names; `onDisk` is the set of directories a power loss may leave, every one
since the last directory fsync, and a file that was not fsynced is then torn.
**`RunLogContract`** is what a reader of `run.json` may rely on, in three
actions: a complete record takes the place of the one before, the newest may
become settled, and a power loss goes back no further than that.

**`Bootstrap`** drives it with a whole run: `main`, every step of
`bootstrap_run` in its order and with its failure (`latest` and `persisted` are
`latest_record` and `persisted_record`), the amendment, an outline of the loop
and `finalize_run` with its re-reads of the flag, and the answer. A kill, a
`KeyboardInterrupt` where no handler is installed and a power loss may come
between any two steps, system calls included.

**`GitSampling`** is `check_git_state` twice in a row, as a before and an after:
per check up to two passes of six probes, `lstat`, type, content and `lstat` of
every path (in any order: the code walks a set), and the six probes again. The
target is a function from paths to contents with an index, a tree, a branch and
a commit; every edit makes something new, so contents are numbers.

**`AgentResponse`** follows one `opencode run` from the recheck of the control
plane to the `AgentResult`: lines are captured up to a limit, the child ends with
any result of `ProcessOutcome`, `DecodeRunTransport` folds `DecodeLine` over the
lines as the code's loop does, `ParseAgentResponse` applies the parser's checks in
their order, and `Verify` has the export name the author of every message.
**`ControlPlane`** is the canonical order of permission rules and, as external
definitions, what OpenCode makes of a rule list. **`MCAgentResponse`** gives the
directories and patterns; it has TLC forget what later steps do not read (`VIEW`)
and permute messages and texts.

Definitions marked `mutation` are plausible mistakes in the definition after
them; no action uses them. `PROJECT.json` pairs each property with one that
breaks it.

## The runs

| Run | Instance | Question |
|---|---|---|
| `issue_run` | 2 cycles, 2 attempts, 1 outside edit, 1 signal, agents and Git children may survive | Which attempts may be followed by another one, and from which tree, and how many agents start? Does a signal at any point stop the loop and decide the run? Was the approved tree reviewed, and does the evidence of a surviving agent reach the marker? |
| `termination` | 1 cycle, 2 attempts, 1 signal, agents may survive, fairness of the program | Does every run end with the lease given back, through retries, backoffs and failures? |
| `process` | 1 chunk per stream, 1 forked helper, processes may survive SIGKILL | Does `SubprocessRunner.run` return, in time and with a true result? Does it keep the contract? |
| `lease` | 3 runs | Exclusion, the reach of the marker and the meaning of a refusal, across crashes. |
| `promotion` | 4 paths, 2 outside edits, `git apply` may be killed | Is the patch what the coder changed, and what is in the target afterwards? |
| `bootstrap` | 3 failing system calls, 2 attempt records | What is on disk and what is answered, whatever fails and whenever the process or the machine stops? Does the store implement the contract? |
| `sampling` | 2 paths, 2 edits, 1 failing probe or read, 2 checks of 2 passes | What do an accepted state, SAFE, UNSAFE and INDETERMINATE mean of a target that moves? |
| `response` | up to 4 lines and one over the limit, over 2 messages, 2 sessions and 2 texts; 4 logical lines; 3 rules over 5 patterns | Which text is the answer, is it a sentence of the protocol, whose is it, and which policies pass the recheck? |
| `lost_signal`, `dirty_baseline`, `partial_promotion`, `deleted_file` | small | One statement of the documents each that the code does not keep; see below. |

### Properties

*Loop and finalization.* `OnlyLastAttemptFails`: the loop goes past an attempt
only to its retry or after a success with a SAFE target on both sides.
`RetryStartsFromSameTree`: a retry sees the tree its predecessor saw, or is
blocked. `AgentStartsClean`: no agent starts beside one that may still run, or
after evidence was lost. `CancellationStopsTheLoop`: a cancellation accepted
after the entry check lets one agent start, never two. `AgentRunsBounded`: the
closed form bounds the loops. `CancellationDecides`: a cancellation accepted
before the seal makes the run FAILED however late it came, and `run.json` never
says APPROVED. `PublishedIsAnnounced`: announced is published, or a persistence
failure. `ApprovedTreeWasReviewed`: an APPROVED run ends with a reviewer that
said so of the tree the postflight found. `AgentOrphanQuarantined`: a surviving
agent has its marker when the lease is released, unless writing it was tried.
`Termination`: every run ends, and without its lease.

*Process runner.* `SignalBeforeExitWins`, `SuccessIsComplete`, `CountsMatchLog`,
`SinkHasOneUser`, `LogStaysClosed`, `Returns` and the refinement `ImplementsContract`.

*Lease.* `OneHolder`, `LaterRunsSeeTheMarker`, `RefusalMeansHolder`.

*Promotion.* `PatchIsTheDelta`: the patch has exactly the paths the coder
changed, whatever checkout filters, links and ignore rules make of them.
`OnlyTheDeltaIsTouched`: the rest of the target stays as others left it, also
when `git apply` is killed. `PromotedIsWhole`: a promotion has every path of
the delta, merged where somebody edited the same file. `PromotedTreeIsTheClone`:
without an edit after the check, the target is the tree the coder left.

*Record and bootstrap.* `KeepsContract`: the files implement `RunLogContract`
through every failure, kill and power loss. `AnsweredAsRecorded`: exit code,
outcome and final status announced are those of the terminal record, and without
one the answer is a persistence failure, never APPROVED. `LoopIsRecorded`:
agents work under the lease and a record with baseline and issue, which survives
the process, and the machine if no call had failed. `BootstrapErrorIsNamed`: the
error that ended a bootstrap is in the record and is announced, with everything
learnt before it, as long as every write succeeds. `NoTemporaryLeft`: a program
that ends by itself leaves no candidate and no temporary file, unless its
removal failed.

*Sampling.* `AcceptedStateWasReal`: with one edit during the pass, an accepted
state is one the target had, never a mixture. `AgreementFramesTheGap`: after two
SAFE checks the target was, all the time between them, what the first recorded
(for a coder: on that branch and commit), also with more edits.
`UnsafeMeansEdited` and `IndeterminateHasACause`: a check blames only after an
edit, and fails closed only if something was edited, failed or could not be
recorded on every pass it made.

*Answer.* `DecodedTextIsTerminal`: the line-by-line decoder accepts exactly the
text that, said of the whole stream, is the session's last word.
`ResponseFollowsTheGrammar`: the parser's checks accept exactly the sentences of
the protocol, and read the status each states. `ReportedTextIsTheAgentsOwn`: a
success or reported failure was written by the agent asked, in a session of its
own, by a child that ended by itself. `RecheckSeesThePolicy`: no agent runs under
other effective permissions than those accepted, and the order of the grants of
unrelated directories at the end of a list ends no run.

`IssueRun`, `TargetLease` and `Promotion` have one type invariant each,
`TypeOK`, `LeaseTypeOK` and `PromotionTypeOK`. That of `IssueRun` is more than typing: it includes that the review
read by `_last_review_status` is a review status, since the function reads it
from whatever response came last.

### Bounds, and why they are enough

- *Cycles and attempts.* The two loops meet at their limits: 2 attempts show a
  first attempt, a retry and a last one that may not be repeated; 2 cycles show
  the way back to the coder and the exhausted one. `issue_run` has both at once,
  so that the closed form of the number of agents is compared in both factors.
  `termination` has one cycle: the loop of the cycles is left by the same
  decision as in two, and the measure below covers any number. It has no outside
  edit: what an edit does to the loop is a check that is not SAFE, and a check may be
  INDETERMINATE at any time.
- *View.* `issue_run` identifies states by `MCIssueRun!View`. While the loop
  runs it leaves out the attempts before the last two, but for what is read of
  them later: whether a termination is unconfirmed, whether something was
  interrupted, the last review and the last SAFE state. Once the loop has ended
  it leaves out everything `finalize_run` was not handed. No step and no property
  tells two states with the same view apart: properties of the whole history
  (`OnlyLastAttemptFails`, `RetryStartsFromSameTree`) are about one attempt and
  the one after it, and are violated, if at all, as soon as that one is recorded.
  `termination` has no view.
- *Refs and trees.* Two of each: the baseline and something else. A third would
  matter only if the code compared two changes with each other; it compares
  with the last accepted state.
- *One outside edit, one signal.* Each property is about one event at the wrong
  moment. A second signal sets a flag that is set. `promotion` has two edits,
  one before and one after the check, because that pair has its own meaning.
- *One chunk per stream, one helper.* A chunk is admitted, written or refused
  independently of those before it. One helper covers each way of outliving the
  child: in or out of the group, with or without the pipes.
- *Three faults* in `bootstrap`: the call that fails, the unlink that should
  clean up after it, and one more in the handling of the failure (the amendment,
  the terminal record). Two attempt records make the log longer than one
  replacement.
- *Two paths, two edits, one failure* in `sampling`: one path read before and
  one after an edit, an edit on each of two passes or two on one, and a failure
  beside them. A second check compares with the first; a third would compare
  the same way.
- *Four lines* in `response`, which are also the limit of the decoder, so that
  a fifth is refused: two messages, each with a text and a conclusion,
  or a conclusion between texts and something after it; the decoder's state
  (`last`, `activity`, one candidate per message) is exhausted by fewer. *Four
  logical lines* are a body line, the issue, the status and one too many. *Three
  rules* over nested, unrelated, bare and literal patterns give every pair in
  every order with something before, between or after.
- *Three runs* in `lease`: one that leaves something behind, one that takes
  over, one that looked in between.
- *Four paths* in `promotion`: a directory that may become a file, a tracked
  and an ignored file in it, and a file whose checkout differs from its blob.
  Every pair that the index, the ignore rules or a link can set against each
  other is there.

### Fairness

`IssueRun!FairSpec` is weak fairness of the program's own steps taken together.
Every wait of the program is bounded: a child by its deadline and two grace
periods, a thread join and the sink's quiescence by a timeout, the backoff by
the policy's delay, the lock by `LOCK_NB`. Which outcome a step has is never
assumed, nor that a signal or an edit occurs.
`ProcessRunner!FairSpec` is weak fairness of the main thread and of the clock
reaching the deadline. Nothing is assumed of the child, its helpers, the sink or
the other threads: a reader may hang in `write` for ever, and `Returns` holds
all the same. The other modules state safety only and assume no fairness.

## What is proved

`tlapm` proves the following for every value of the constants, from the named
assumptions on the constants alone (`ConstantsAssumption`: positive limits, a
baseline among the refs and trees, a marker for an unknown state that is
neither; `LeaseAssumption`: nobody is not a run; `RunnerAssumption`: the bound
on chunks is a number; `PromotionAssumption`: what others put into the target
are plain files, what the coder may leave are entries; `ControlPlaneAssumption`:
patterns are distinct and made of path components, the bound on rules is a
number; `ResponseAssumption`: messages are finitely many, the decoder's markers
are not texts, the bounds on lines are numbers; `Bootstrap` and `GitSampling`
need none). The bounds on edits, signals, faults and chunks are constants too,
so the theorems hold for any number of them.

| Theorem | Says |
|---|---|
| `IssueRunProofs!Typing` | a run keeps its types: limits are kept, `transition` is never given an event it refuses, the reviewed status is one |
| `IssueRunProofs!InvocationBudget` | no more agents start than `max_opencode_invocations` |
| `IssueRunProofs!CancellationStops` | at most one agent starts after a cancellation |
| `IssueRunProofs!OrphansQuarantined` | no lease is released over a surviving agent without a marker, or an attempt to write one |
| `IssueRunProofs!EveryStepComesCloser` | a natural number is lowered by every step of the program and left alone by signals and edits: no run goes round its loops for ever |
| `IssueRunProofs!CleanStarts` | no agent starts beside one that may still run, or after evidence was lost |
| `IssueRunResultProofs!FailuresAreLast`, `RetriesRepeat` | what went wrong is in the last result; a retry starts from the tree its predecessor saw |
| `IssueRunResultProofs!CancellationPrevails`, `AnswerIsTheRecord`, `ApprovalIsOfThisTree` | a cancellation before the seal decides; what is announced is what was published; APPROVED speaks of the tree the postflight found |
| `ProcessRunnerProofs!SignalIsNotSwallowed`, `SuccessIsWhole`, `CountsAreTheLog`, `SinkIsExclusive`, `LogIsTheCallers` | the five safety properties of `SubprocessRunner.run` |
| `ProcessRunnerProofs!Refinement` | `ProcessRunner` implements `ProcessContract` |
| `TargetLeaseProofs!LeaseTyping`, `Exclusion`, `MarkerReaches`, `RefusalsAreTrue` | the four properties of the lease, for any number of runs |
| `BootstrapProofs!Answered`, `ErrorNamed`, `NoLitter`, `LoopRecorded` | the four properties of the record, for any number of faults and attempts |
| `BootstrapProofs!Refinement` | the run directory implements `RunLogContract` |
| `GitSamplingProofs!Framed`, `BlameHasAnEdit`, `FailuresHaveACause`, `AcceptedIsReal` | what SAFE, UNSAFE, INDETERMINATE and an accepted state say of a target others edit, for any paths and any number of edits |
| `AgentResponseProofs!Recheck` | a child starts only under the permissions the preflight accepted, for rule lists of any length; unrelated grants listed in another order do not stop it |
| `AgentResponseProofs!Decoder` | what `decode_run_transport` finds line by line is the text with which the whole stream ends, for streams of any length up to any limit; beyond the limit it finds nothing |
| `AgentResponseProofs!OwnText` | a response the loop acts on is of the agent that was asked, in a session where no other wrote |
| `AgentResponseProofs!Grammar` | `parse_agent_response` accepts the sentences of the protocol and nothing else, for texts of any length |
| `PromotionProofs!TreesStay`, `PatchTellsTheDelta`, `OthersAreLeftAlone`, `SuccessIsWhole`, `ReviewerSeesTheClone` | the five properties of a promotion, for any paths, entries, ignore rules and checkout filters |

**The run.** `TypeOK` is not inductive: that `attempt` stays within its limit
after `RetryAttempt` depends on the last result having been recorded for this
attempt and on `decide_retry` having compared it, and that `transition` accepts
the next event depends on a response being one its role can give. `Placed` says
those things, and `TypeInv == TypeOK /\ Placed` is inductive. The other
invariants rest on it:

- `RunsInv` ties `agentRuns` to the place in the loop. `Earlier(role, cycle)`
  counts the logical invocations before this one; the lemma `SuccessorIsNext`
  shows that every edge of the automaton that stays in the loop goes to the next
  one, which is why two nested loops have a closed form.
- `LateInv`: a late agent is counted by an invocation that was open when the
  cancellation came, and no other can open.
- `OrphanInv` follows the evidence of a surviving agent from the `AgentResult`
  through the result record and the arguments of `finalize_run` to the marker.
  It needs, beside `Evidence`, that no reported success hides an unconfirmed
  termination (from `PossibleResults`), that `lastTerm` agrees with the attempt
  under way, and that a failed persistence leaves the loop.
- `EveryStepComesCloser` needs no invariant but `TypeInv`. The measure
  `Remaining` weighs the attempts that are left (those of the invocations after
  this one, counted with `Earlier`, and those of this one) by the eleven places of
  an attempt, and adds the steps from `pc` to the end of the run. A step inside
  an attempt lowers the second part, a retry or the next invocation the first. So
  a run makes finitely many steps of its own, at most `Remaining` of its first
  state, whatever is decided on the way and however others interleave.
- `LoopInv` follows the states the orchestrator accepted. `HistoryInv`: every
  result is one `run_logical_invocation` can return, and those the loop went
  past are successes or retries. `AcceptedInv`: while an attempt is under way
  `_last_accepted_git_state` is the state of the last SAFE check in the history
  (`LastSafeState`), with which the recheck compared the new one. `RetryInv`:
  between a retried result and the next attempt that state is the one the first
  attempt saw, since a retry asks for an unchanged target.
- `AnswerInv` follows the terminal record. Until the seal it may be restaged;
  `PublishInv` says that what is staged is always the record of the flag as it
  was read last, that the seal comes before every ending, and that a commit is
  reached only if no cancellation came between that reading and the seal.
- `ReviewInv` carries the review from `_last_review_status` (the last reviewer
  result, which `LoopInv` shows to be the last result) and its tree through the
  arguments of `finalize_run` to the postflight.

**The process runner.** The properties speak of the moment of the return and
later, while readers may still run. `RunnerInv` says what the main thread knows
at each place: `VerdictInv` (a stop reason is fixed before the escalation; a
signal that came in time leaves the wait loop with one), `JoinedInv` (past a
join that was confirmed every reader has ended), `LockInv` (the lock is held by
exactly the reader inside the sink, and a chunk that is counted is in the log or
in that reader's hand) and `ClosedInv` (a main thread that closed the writes and
then found the lock free has the log to itself). With `StreamInv` (a reader ends
only when nobody can write to its stream) they give the properties, and that
every step is one of `ProcessContract` or leaves `cancelled` and `result` alone.

**The lease.** `LeaseInv` is `LeaseTypeOK`, `LockInv` (a lock is held by exactly the
run under the lease, through the inode that the lock file names: since nobody
removes the file, all runs open one inode) and `MarkerInv` (what had ended when a
run found no marker has no agent left that ought to have one).

**The record.** The proof has two halves. `StoreInv` is about the files and
holds under every caller: whatever sequence of `Persist`, `StageFinal`,
`CommitFinal` and `AbortFinal` is asked for and whichever system call fails, a
file is published once, when it is complete and on disk (`FileInv`); the
directory, and each one a power loss may leave, names a version not older than
the settled one (`DirInv`); and the call under way is as far as its temporary
file (`CallInv`). The refinement rests on it alone: the log of the contract is
read off the published files, the visible version off the name `run.json`, and
`ContractStep` shows that only the rename (`PublishStep`), the fsync of the
directory and the power loss are visible, each as its action of the contract.
`RunInv` is about the program: what `latest_record` holds at each step
(`LatestInv`), which record the call under way was given (`WritingInv`), hence
which were published (`WrittenInv`), and what became of the first error
(`ErrorInv`). While the store works the program waits, so a step of one leaves
the other's half alone.

**The promotion.** `IsTree` is not inductive by itself: a removal and an addition
keep a tree a tree only if they come in an order in which no path is ever under
a file, and that the index is one after `Removed` and `Changed` depends on the
clone being one. The lemmas `RemovedIs`, `ChangedIs`, `IndexIs` and `PatchIs` say
path by path what those steps leave, whatever the order of the paths, and that
what is left is the delta. `PromotionInv` then has the patch while it is applied
(`PatchInv`), what git's check of every path established (`CheckedInv`: a path
is as the coder got it, or merged), the target between the deletions and the
creations (`CreateInv`), and the promoted target path by path (`WholeInv`),
together with `OnlyTheDeltaIsTouched`, which is inductive beside them.

**The samples.** Nothing is put back, so each part of the target (HEAD, branch,
an index entry, the content of a file) has a rank that only grows: `Later` for
every edit, and `Moved` for one part at least. What a probe or a read saw is not
later than the target (`ProbedInv`, `ReadInv`: a read inside its `lstat` bracket
is what the file was, as long as the sample is stable). So after the reads a
sample that is not `Gone` in some part is `Matched`: it is the target as it is
now, all but the status, and any edit from then on makes a part go (`EditGone`).
The status compares with HEAD's tree too and has no rank; that the second round
repeats it (`StatusInv`) is what makes an accepted sample the target, or gone
(`JudgedNow`). A part that is gone when the second check begins cannot be seen
again: `GapInv` says, place by place, that the second sample shows it wherever it
has looked (`Shown`), by a later index entry, a later file, an untracked path
that was not there, or, for a file that was both written and staged between two
probes, an instability. Hence a second SAFE leaves no part gone, and the target
stood still. `CleanInv` (a pass without an edit, a failure or a missing file saw
the target as it is) gives `BlameHasAnEdit` and `FailuresHaveACause`.
`RealInv` follows a pass until its target has had three states: undisturbed, the
sample is the target but for a branch that was switched meanwhile; disturbed
once, what comes of it depends on where the edit fell, in the first round (the
reads and the second round are of the new target), between the rounds (both
rounds print the same, so that one file differs at most, and it is read once), or
in the second round (the sample is of the old target).

**The answer.** Three loops of the code go through a list of any length: over
the permission rules, the lines of the stream and the lines of the text. The
first two are a `FoldLeft`, which the prover can unfold into a choice of a
recursive function; that there is one (`CanonicalExists`, `DecodedExists`) gives
the state after each element. What those states say is shown by induction over
the number of elements read. The induction theorems of the library take an
operator, which no installed prover can instantiate; `SetInduction` says the same
of a set, and is applied to the set of the positions at which the statement holds.

- *Rules.* After `n` rules the state of the canonicalization (what is written out
  and the subgroup held back) decides every directory as the first `n` rules do
  (`Decided`, `StateDecides`). The reason is that the patterns of a subgroup do
  not overlap (`Apartness`), so that at most one of its rules matches a directory
  (`MatchingOverlap`) and the order `sorted` gives them does not matter. Two
  lists with one canonical form thus decide alike. Conversely unrelated grants at
  the end all stay in the last subgroup, which is a set.
- *Lines.* `DecodedUpTo` says what the decoder knows after `k` lines: the text
  each message holds by then, the message that concluded last with nothing after
  it, and that one session wrote.
- *Text.* `ParsedIsSaid` reads the checks of the parser as one statement about
  the positions of a text (`Said`); `SentenceIsSaid` does so for the grammar.
- *Author.* `OwnInv` says place by place where a response comes from; `Verify` is
  the only step that lets one through, and it asks about the whole session.

`Sorted` picks the sorted subgroup out of its orders instead of using `SortSeq`
of the module `TLC`, which has an implementation in TLC and a definition the
prover cannot expand.

Only model-checked: the two liveness properties (`Termination` of `IssueRun`,
`Returns` of `ProcessRunner`), which need reasoning about ENABLED. Of the first,
`EveryStepComesCloser` proves that the program cannot go on for ever; that it
does not stop short of its end is what TLC adds. Every
invariant and action property of the passing runs is a theorem as well, and so
are the two refinements.

## Where code and documents disagree

Each of the four is a run with the expected outcome *violation*; `PROJECT.json`
quotes the document's line beside the code's.

1. `HandledSignalFailsTheRun`. While a child runs, the runner's handler replaces
   the pipeline's. A signal handled while a Git probe runs, or after the last
   look at the flag, is remembered by nobody, and the run goes on.
2. `BaselineIsClean`. Cleanliness is tested before the lease is taken and not
   again under it. A run that passed the test while another held the lease takes
   that run's changes as its baseline.
3. `BlockedLeavesTheTarget`. `git apply` unlinks files before it writes, and
   does not undo. A coder that replaced a directory by a file meets an ignored
   file in that directory of the target: the tracked files are gone, the file is
   not written, and the attempt is reported as one that left no trace.
4. `RestingTargetIsDeterminate`. A tracked file that is gone and not staged makes
   every pass unstable (`git_safety.py:993`), so a check of a target at rest is
   INDETERMINATE, although the design gives `missing` as a type a path is
   recorded with. A deletion promoted from the coder therefore ends the run with
   GIT_SAFETY_ERROR, whatever the reviewer would have said.

More statements of the documents are not kept. They are defined in the modules,
and adding the name under `INVARIANTS` in a copy of the configuration shows the
counterexample:

- `ApprovedRunHasNoFailedAttempt` (`MCIssueRun`, `IssueRun.cfg`):
  `_last_review_status` takes the response of the last reviewer attempt whatever
  that attempt was classified as. A reviewer that printed APPROVED and then failed
  (non-zero exit, interrupted, log lost) ends as APPROVED with exit code 0, with
  the failure as `outcome` in `run.json` (`README.md:173`).
- `ConfirmedMeansGroupGone` (`ProcessRunner`, `ProcessRunner.cfg`): the escalation
  waits for the leader of the group and sends SIGKILL only if the leader is still
  there. A member that ignored SIGTERM and holds no pipe survives a confirmed
  termination (`tasks/system-design-opencode-tools.md:598`).
- `UnconfirmedTerminationQuarantines` (`MCIssueRun`, `IssueRun.cfg` with
  `MayOrphan = {"utility"}`): a Git child that outlives its SIGKILL makes a check
  INDETERMINATE but writes no marker, since `finalize_run` is told about agents
  only (`docs/recovery.md`, *Quarantine*).
- `SinkFaultIsReported` (`ProcessRunner`, `ProcessRunner.cfg`): a sink that fails
  after the last look at `sink_fault` leaves a truncated log beside SUCCEEDED.
- `QuarantineBlocks` (`TargetLease`, `TargetLease.cfg`): the marker is tested
  before the lock. A run that tested it while another was still under the lease
  can take the lock after that one wrote the marker. `LaterRunsSeeTheMarker` is
  what does hold.
- `AmendmentMasksNothing` (`Bootstrap`, `Bootstrap.cfg`): `bootstrap_run`'s
  docstring (`orchestrator.py:1113`) has a second persistence failure never mask
  the original error. If the amendment cannot be written, the finalization gets
  the first record, which has no baseline; it makes no postflight, and a
  PREFLIGHT_ERROR is announced as GIT_SAFETY_ERROR.
- `InterruptedBeforeArtifacts` (`Bootstrap`, `Bootstrap.cfg`): exit code 130 is
  documented (`README.md:175`, `cli.py:1365`) as an interruption before any
  artifact was made. Handlers are installed after the bootstrap only, so that
  `run.json` may be there, in phase PREFLIGHT.

Two more were seen while modelling and are outside the instances: a capture that
overflows drops the whole chunk, so a provider signal in that chunk is lost and
the attempt is a PROTOCOL_ERROR instead of a PROVIDER_ERROR; and
`compute_control_plane_digest` says that the order of grants of unrelated
directories cannot register as drift, while a grant that overlaps an earlier one
closes the subgroup, so that moving an unrelated grant across it does.
`RecheckSeesThePolicy` therefore speaks of grants at the end of a list whose
overlapping neighbours stay in place.

## Assumptions of the models

- A response, a provider diagnostic and the result of the control-plane digest
  are arbitrary inputs of `Orchestrator`; `AgentResponse` shows which of them a
  child can cause.
- A Git check in `Orchestrator` is one step that sees the repository at that
  moment or fails. `GitSampling` shows when that is so: `AcceptedStateWasReal`
  for one edit during a pass. With two or more, the state accepted may be a
  mixture; that the next check sees the difference is `AgreementFramesTheGap`.
- `GitSampling`: every write shows in `lstat`, and nothing restores what was
  there before (the design puts that out of its threat model); a symlink is a
  regular file with another content, the executable bit part of the content;
  submodule entries and the swap of a file for a FIFO between type and read are
  left out; a deadline that passes before the retry is one of the outcomes of
  the comparison (`Unstable`).
- `RunStore`: a rename is atomic in memory; the disk may keep any directory since
  the last fsync, and a torn file is recognizable. Outside of the power loss the
  file system does what its calls say.
- `Bootstrap`: the loop and the finalization are outlines whose detail is in
  `IssueRun`; what may be on the target is one status.
- `AgentResponse`: every shape the decoder refuses in one line is one line,
  `invalid`, output that is not UTF-8 included; the limit on lines is a small number; an `error` event without a
  trusted code is like `step_start`; the lines of the text are chosen when they
  are parsed; the four debug calls of the recheck are one listing of one agent's
  rules, where patterns are `*`, a literal or a prefix with `*`. What OpenCode
  makes of a rule list (the last match decides) is taken from
  `_effective_permission_action`.
- `ProcessRunner`: a read of a pipe that only its reader closes does not fail, so
  that a reader ends at the end of its stream. It takes a step of a bounded wait as instantaneous; what matters
  is which of the things waited for has happened when it ends.
- `Promotion`: nobody edits the target inside `git apply`; the clone is at rest
  once its coder is done (`docs/security-and-privacy.md` accepts a process left
  behind as a residual risk); names are arbitrary, hence so is the order in which
  `git apply` writes; a file that was edited elsewhere takes the hunks or does
  not, and one that did has the text `merged`; a submodule is a reason to refuse
  and nothing more.
- `TargetLease`: the user lifts the marker as `docs/recovery.md` says, once no
  process is left. An agent that outlives a crashed run has no marker; the lease
  promises nothing about it, and neither does the property.

## Not modelled

- *Configuration*: `config.py` is a pure function from a TOML file; its numbers
  are constants.
- *Read-only probes*: `github.py` and the preflight of `opencode.py` (version,
  help, debug config, permission matrix, shell policies: `check_debug_agent` and
  what it calls). Each is a predicate of one answer, asked once before the run;
  `Bootstrap` has them as steps that succeed or fail. The check-ignore probes of
  the runtime root are part of `Locate`.
- *Wording*: `prompting.py`, argument parsing, rendering, the text of messages.
- *Numbers*: backoff delays and time budgets are floating point. Checks and
  attempts have sequence numbers no decision reads.
- *`cleanup_coder_sandbox`*: it removes a directory nobody reads any more.
- *Ownership and modes* of the runtime root and the run directory: checks of one
  `stat` each, whose failure is a step of `Bootstrap`.

## Plan

In order of importance; all are done.

1. `StateMachine`, `Retry`: the decisions everything else applies.
2. `Orchestrator`, `Finalization`, `IssueRun`: the run, with failures at every
   handler, signals and outside edits.
3. `ProcessOutcome`, `ProcessContract`, `ProcessRunner`: the child-process
   runner and the abstract specification the run relies on.
4. `IssueRunProofs`: typing, the invocation budget, cancellation, orphans, the
   measure.
5. `TargetLease`: several runs, crashes, the marker.
6. `TargetLeaseProofs`: exclusion and the reach of the marker for any number of
   runs.
7. `Promotion`: what a patch has, and what it does to a target others edit.
8. The disagreements above.
9. `RunStore`, `RunLogContract`: the file system under `runlog.py` and what it
   promises.
10. `Bootstrap`: the order of a whole run, each step failing, on that store.
11. `GitSampling`: what two samples of a moving target say about it.
12. `ControlPlane`, `AgentResponse`: from the output of a child to a response.
13. `ProcessRunnerProofs`, `IssueRunResultProofs`, `BootstrapProofs`,
    `PromotionProofs`: the safety properties and the two refinements for every
    value of the constants.
14. `GitSamplingProofs`: what the verdicts of two checks say, for any set of
    paths and any number of edits.
15. `AgentResponseProofs`: the permissions, the decoder, the grammar and the
    author, for lists of any length.

## Running

```
tlc -config IssueRun.cfg MCIssueRun.tla
tlapm IssueRunProofs.tla
```

The largest instances are `issue_run`, `termination`, `response` and `promotion`,
each within a few minutes. The proofs take one to three minutes a module.
