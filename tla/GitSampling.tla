---------------------------- MODULE GitSampling -----------------------------
(***************************************************************************)
(* How git_safety.py reads the target, which nothing holds still while it  *)
(* is read: check_git_state and, under it, the sampling passes of          *)
(* capture_git_state.  Two checks in a row are modelled, the second        *)
(* compared with the first, as a before and an after of the orchestrator.  *)
(*                                                                         *)
(* A content, a branch or a commit is the number of the edit that made it: *)
(* no edit puts back what was there before.                                *)
(***************************************************************************)
EXTENDS Naturals, Sequences, FiniteSets, SequencesExt

CONSTANTS
  Paths,       \* paths of the target git does not ignore
  MaxEdits,    \* bound: edits of the target, by anybody
  MaxFailures  \* bound: git probes and reads that fail

ASSUME SamplingAssumption == MaxEdits \in Nat /\ MaxFailures \in Nat

VARIABLES
  world,       \* what the target is
  edits, failures,
  at,          \* where the program is
  check,       \* the check_git_state under way, 0 before the first
  pass,        \* attempt_index of capture_git_state, from 1
  probe,       \* the git probe that comes next
  first,       \* raw outputs of the six probes before the reads
  again,       \* and after them
  pending,     \* paths still to be read
  reading,     \* the path being read, with what was seen of it
  entries,     \* path_entries, in the order of the reads
  stable,      \* per_path_stable
  taken,       \* the GitCheckRecords made
  seen,        \* history: every state the target had during this pass
  gap,         \* history: every state it had between the two checks
  spoiled      \* history: passes with an edit, a failure or an unrecordable path

target == <<world, edits>>
sample == <<probe, first, again, pending, reading, entries, stable>>
vars == <<target, failures, at, check, pass, sample, taken, seen, gap, spoiled>>

-----------------------------------------------------------------------------
(* The target.                                                             *)

Missing == [kind |-> "missing", content |-> 0]
Regular(n) == [kind |-> "regular", content |-> n]
Special(n) == [kind |-> "other", content |-> n]

Exists(w, p) == w.file[p].kind # "missing"
Tracked(w) == {p \in Paths : w.index[p] # 0}
Untracked(w) == {p \in Paths : w.index[p] = 0 /\ Exists(w, p)}

(* One path of `git status --porcelain`: that a file differs from the      *)
(* index, never how.                                                       *)
StatusLine(w, p) ==
  [staged |-> w.index[p] # w.tree[p],
   worktree |-> IF p \in Untracked(w) THEN "?"
                ELSE IF p \notin Tracked(w) \/ w.file[p] = Regular(w.index[p]) THEN " "
                ELSE IF Exists(w, p) THEN "M" ELSE "D"]

(* _STATE_PROBES, and what each prints.                                    *)
Probes == <<"branch", "head", "status", "index", "tracked", "untracked">>

Raw(w) == [branch    |-> IF w.detached THEN 0 ELSE w.branch,
           head      |-> w.head,
           status    |-> [p \in Paths |-> StatusLine(w, p)],
           index     |-> w.index,
           tracked   |-> Tracked(w),
           untracked |-> Untracked(w)]

(* (inode, mtime, size), or None: every write shows in it.                 *)
LstatSignature(w, p) == w.file[p]

-----------------------------------------------------------------------------
(* What the code makes of a sample.                                        *)

Unread == [unread |-> TRUE]
Torn == Regular(0)      \* what a read returns while the file is rewritten

DigestInReadOrder(list) == list  \* mutation

(* build_git_state_fingerprint sorts the entries by path.                  *)
Digest(list) == ToSet(list)

GitState(raw, paths) ==
  [branch |-> raw.branch, head |-> raw.head,
   fingerprint |-> [status |-> raw.status, index |-> raw.index, tracked |-> raw.tracked,
                    untracked |-> raw.untracked, paths |-> paths]]

NoState == [branch |-> 0, head |-> 0, fingerprint |-> Unread]

(* What a capture that sees the whole target at one instant returns.       *)
StateOf(w) ==
  GitState(Raw(w), {[path |-> p, entry |-> w.file[p]] : p \in Tracked(w) \cup Untracked(w)})

Drifted(state, baseline) ==
  state.branch # baseline.branch \/ state.head # baseline.head

VerdictOnPorcelain(state, baseline, role) ==  \* mutation
  IF baseline = NoState
  THEN IF state.branch = 0 THEN "INDETERMINATE" ELSE "SAFE"
  ELSE IF \/ Drifted(state, baseline)
          \/ state.fingerprint.status # baseline.fingerprint.status /\ role # "CODER"
       THEN "UNSAFE" ELSE "SAFE"

(* check_git_state, once a capture was accepted.                           *)
Verdict(state, baseline, role) ==
  IF baseline = NoState
  THEN IF state.branch = 0 THEN "INDETERMINATE" ELSE "SAFE"
  ELSE IF \/ Drifted(state, baseline)
          \/ state.fingerprint # baseline.fingerprint /\ role # "CODER"
       THEN "UNSAFE" ELSE "SAFE"

GitCheckRecord(status, state, role) ==
  [status |-> status, state |-> state, role |-> role]

Baseline == IF taken = <<>> THEN NoState ELSE Last(taken).state

-----------------------------------------------------------------------------
Unprobed == [k \in ToSet(Probes) |-> Unread]

(* resolve_target asked for a clean working tree and an attached branch.   *)
CleanWorlds ==
  {[branch |-> 1, detached |-> FALSE, head |-> 1, tree |-> tree, index |-> tree,
    file |-> [p \in Paths |-> IF tree[p] = 0 THEN Missing ELSE Regular(1)]] :
     tree \in [Paths -> {0, 1}]}

Init ==
  /\ world \in CleanWorlds /\ edits = 0 /\ failures = 0
  /\ at = "between" /\ check = 0 /\ pass = 1
  /\ probe = 1 /\ first = Unprobed /\ again = Unprobed
  /\ pending = {} /\ reading = Unread /\ entries = <<>> /\ stable = TRUE
  /\ taken = <<>>
  /\ seen = {} /\ gap = {} /\ spoiled = {}

PassKeepingStable(n) ==  \* mutation
  /\ pass' = n /\ at' = "first"
  /\ probe' = 1 /\ first' = Unprobed /\ again' = Unprobed
  /\ pending' = {} /\ reading' = Unread /\ entries' = <<>> /\ stable' = stable
  /\ seen' = {StateOf(world)}

(* _sample_git_state_once begins with nothing of an earlier pass.          *)
StartPass(n) ==
  /\ pass' = n /\ at' = "first"
  /\ probe' = 1 /\ first' = Unprobed /\ again' = Unprobed
  /\ pending' = {} /\ reading' = Unread /\ entries' = <<>> /\ stable' = TRUE
  /\ seen' = {StateOf(world)}

(* A first check that is not SAFE ends the run.                            *)
StartCheck ==
  /\ at = "between" /\ check < 2
  /\ check = 1 => taken[1].status = "SAFE"
  /\ check' = check + 1
  /\ StartPass(1)
  /\ UNCHANGED <<target, failures, taken, gap, spoiled>>

Finish(status, state, role) ==
  /\ taken' = Append(taken, GitCheckRecord(status, state, role))
  /\ at' = "between"
  /\ gap' = IF check = 1 THEN {StateOf(world)} ELSE gap

(* An error of _INDETERMINATE_CAPTURE_CODES, which no retry would resolve. *)
GiveUp ==
  /\ Finish("INDETERMINATE", NoState, "NONE")
  /\ spoiled' = spoiled \cup {<<check, pass>>}
  /\ UNCHANGED <<target, check, pass, sample, seen>>

Fails == failures < MaxFailures /\ failures' = failures + 1 /\ GiveUp

-----------------------------------------------------------------------------
Probing(at0, old, new) ==
  /\ at = at0
  /\ new = [old EXCEPT ![Probes[probe]] = Raw(world)[Probes[probe]]]

FirstProbe ==
  /\ Probing("first", first, first')
  /\ IF probe < Len(Probes)
     THEN probe' = probe + 1 /\ UNCHANGED <<at, pending>>
     ELSE /\ probe' = 1 /\ pending' = first'.tracked \cup first'.untracked
          /\ at' = IF pending' = {} THEN "again" ELSE "read"
  /\ UNCHANGED <<target, failures, check, pass, again, reading, entries, stable,
                 taken, seen, gap, spoiled>>

ProbeFails == at \in {"first", "again"} /\ Fails

(* _capture_path_entry: lstat, build_fingerprint_path_entry (which looks   *)
(* at the type, then reads), lstat.  The paths come in the order of a set. *)
Lstat ==
  /\ at = "read"
  /\ \E p \in pending :
       /\ reading' = [path |-> p, before |-> LstatSignature(world, p), entry |-> Missing]
       /\ pending' = pending \ {p}
  /\ at' = "type"
  /\ UNCHANGED <<target, failures, check, pass, probe, first, again, entries,
                 stable, taken, seen, gap, spoiled>>

LookAtType ==
  /\ at = "type"
  /\ LET file == world.file[reading.path]
     IN \/ /\ file.kind = "other"
           /\ GiveUp /\ UNCHANGED failures
        \/ /\ file.kind # "other"
           /\ reading' = [reading EXCEPT !.entry = file]
           /\ at' = IF file = Missing THEN "lstat" ELSE "content"
           /\ UNCHANGED <<target, failures, check, pass, probe, first, again, pending,
                          entries, stable, taken, seen, gap, spoiled>>

(* A file rewritten since is read as it was, as it is, or as a mixture; one*)
(* that went away cannot be read.                                          *)
ReadContent ==
  /\ at = "content"
  /\ LET file == world.file[reading.path]
     IN \/ /\ reading' \in {[reading EXCEPT !.entry = f] :
                            f \in IF file = reading.entry THEN {file}
                                  ELSE {reading.entry, Torn} \cup ({file} \ {Missing})}
           /\ at' = "lstat"
           /\ UNCHANGED <<target, failures, check, pass, probe, first, again, pending,
                          entries, stable, taken, seen, gap, spoiled>>
        \/ file = Missing /\ GiveUp /\ UNCHANGED failures

ReadFails == at = "content" /\ Fails

LstatIgnored ==  \* mutation
  /\ at = "lstat"
  /\ entries' = Append(entries, [path |-> reading.path, entry |-> reading.entry])
  /\ stable' = (stable /\ reading.entry # Missing)
  /\ spoiled' = IF reading.entry = Missing THEN spoiled \cup {<<check, pass>>} ELSE spoiled
  /\ at' = IF pending = {} THEN "again" ELSE "read"
  /\ UNCHANGED <<target, failures, check, pass, probe, first, again, pending, reading,
                 taken, seen, gap>>

LstatAgain ==
  /\ at = "lstat"
  /\ entries' = Append(entries, [path |-> reading.path, entry |-> reading.entry])
  /\ stable' = (/\ stable /\ reading.entry # Missing
                /\ LstatSignature(world, reading.path) = reading.before)
  /\ spoiled' = IF reading.entry = Missing THEN spoiled \cup {<<check, pass>>} ELSE spoiled
  /\ at' = IF pending = {} THEN "again" ELSE "read"
  /\ UNCHANGED <<target, failures, check, pass, probe, first, again, pending, reading,
                 taken, seen, gap>>

ProbeAgain ==
  /\ Probing("again", again, again')
  /\ IF probe < Len(Probes) THEN probe' = probe + 1 /\ at' = at
     ELSE probe' = 1 /\ at' = "judge"
  /\ UNCHANGED <<target, failures, check, pass, first, pending, reading, entries, stable,
                 taken, seen, gap, spoiled>>

-----------------------------------------------------------------------------
(* The comparison at the end of a pass, and capture_git_state's retry.     *)
Agreed == stable /\ first = again

Roles == IF check = 1 THEN {"NONE"} ELSE {"NONE", "CODER"}

Accept ==
  /\ at = "judge" /\ Agreed
  /\ LET state == GitState(first, Digest(entries))
     IN \E role \in Roles : Finish(Verdict(state, Baseline, role), state, role)
  /\ UNCHANGED <<target, failures, check, pass, sample, seen, spoiled>>

(* One retry, unless the deadline passed; the second instability is final. *)
Retry ==
  /\ at = "judge" /\ ~Agreed /\ pass = 1
  /\ StartPass(2)
  /\ UNCHANGED <<target, failures, check, taken, gap, spoiled>>

Unstable ==
  /\ at = "judge" /\ ~Agreed
  /\ Finish("INDETERMINATE", NoState, "NONE")
  /\ UNCHANGED <<target, failures, check, pass, sample, seen, spoiled>>

-----------------------------------------------------------------------------
(* Whoever edits the target: the user, another program, an agent.          *)
Edit(new) ==
  /\ edits < MaxEdits /\ edits' = edits + 1
  /\ world' = new
  /\ seen' = IF at = "between" THEN seen ELSE seen \cup {StateOf(world')}
  /\ gap' = IF at = "between" /\ check = 1 THEN gap \cup {StateOf(world')} ELSE gap
  /\ spoiled' = IF at = "between" THEN spoiled ELSE spoiled \cup {<<check, pass>>}
  /\ UNCHANGED <<failures, at, check, pass, sample, taken>>

(* The content an edit writes is its own number, from 2; only a file that  *)
(* was there from the beginning goes away, and its path is free once.      *)
Fresh == edits + 2

Write == \E p \in Paths, f \in {Regular(Fresh), Special(Fresh), Missing} :
  /\ f = Missing => world.file[p] = Regular(1)
  /\ Edit([world EXCEPT !.file[p] = f])

Stage == \E p \in Paths :
  /\ world.file[p].kind # "other" /\ world.index[p] # world.file[p].content
  /\ Edit([world EXCEPT !.index[p] = world.file[p].content])

Commit == Edit([world EXCEPT !.head = Fresh, !.tree = world.index])

(* git switch: another branch, on the same commit or another, or none.     *)
Switch == \E d \in BOOLEAN, h \in {world.head, Fresh} :
  Edit([world EXCEPT !.branch = Fresh, !.detached = d, !.head = h])

-----------------------------------------------------------------------------
Program ==
  \/ StartCheck \/ FirstProbe \/ ProbeFails \/ Lstat \/ LookAtType \/ ReadContent
  \/ ReadFails \/ LstatAgain \/ ProbeAgain \/ Accept \/ Retry \/ Unstable

(* Both checks were made, or the first ended the run.                      *)
Over ==
  /\ at = "between"
  /\ check = 2 \/ (check = 1 /\ taken[1].status # "SAFE")
  /\ UNCHANGED vars

Next == Program \/ Write \/ Stage \/ Commit \/ Switch \/ Over

Spec == Init /\ [][Next]_vars

-----------------------------------------------------------------------------
Record == Last(taken)'
Ended == Len(taken') > Len(taken)

(* A state that is accepted is one the target really had during the pass,  *)
(* if it was edited at most once meanwhile: the lstat brackets and the     *)
(* second round of probes let no mixture of two states through.            *)
AcceptedStateWasReal ==
  [][Ended /\ Record.state # NoState /\ Cardinality(seen) <= 2
       => Record.state \in seen]_vars

(* A check fails closed for a cause only: on every pass it made something  *)
(* was edited, failed or could not be recorded (or HEAD is detached when   *)
(* the baseline is taken).  The retry is a pass like the first.            *)
IndeterminateHasACause ==
  [][Ended /\ Record.status = "INDETERMINATE" =>
       \/ check = 1 /\ Record.state # NoState /\ Record.state.branch = 0
       \/ \A n \in 1..pass : <<check, n>> \in spoiled']_vars

(* Two SAFE checks in a row frame a moment when the target stood still:    *)
(* between them it was always what the first one recorded, except for the  *)
(* files when the coder may change them.  No single check can promise it.  *)
AgreementFramesTheGap ==
  Len(taken) = 2 /\ taken[2].status = "SAFE" =>
    \A state \in gap :
      IF taken[2].role = "CODER" THEN ~Drifted(state, taken[1].state)
      ELSE state = taken[1].state

(* A check blames nobody for nothing: UNSAFE only after an edit that came  *)
(* later than the beginning of the check it compares with.                 *)
UnsafeMeansEdited ==
  Len(taken) = 2 /\ taken[2].status = "UNSAFE" => spoiled # {} \/ Cardinality(gap) > 1

-----------------------------------------------------------------------------
(* Statements of the documents the code does not keep.                     *)

(* system-design-opencode-tools.md:717-720 (git-state-v1): `missing` is one*)
(* of the types a path is recorded with, and only special files, paths     *)
(* outside the target, unreadable or unsupported ones are INDETERMINATE.   *)
(* The code finds a tracked file that is gone unstable on every pass.      *)
RestingTargetIsDeterminate ==
  [][/\ Ended /\ pass = 2 /\ failures' = 0 /\ Cardinality(seen) = 1
     /\ ~world.detached /\ ~\E p \in Paths : world.file[p].kind = "other"
     => Record.status # "INDETERMINATE"]_vars
=============================================================================
