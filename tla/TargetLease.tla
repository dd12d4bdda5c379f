----------------------------- MODULE TargetLease -----------------------------
(***************************************************************************)
(* Several runs of the program, each a process of its own, against one     *)
(* target: the checks before the lease (resolve_target, the marker), the   *)
(* advisory lock of locking.py, the run under the lease as IssueRun        *)
(* details it, the quarantine and the release, with a crash at any point.  *)
(*                                                                         *)
(* Runs have no memory in common but the files of the coordination         *)
(* directory and the target.  The holder's metadata file is read into the  *)
(* message of a refusal only and is left out.                              *)
(***************************************************************************)
EXTENDS Naturals

CONSTANTS
  Runs,        \* processes started on the target
  Nobody       \* holder of a lock that is free

ASSUME LeaseAssumption == Nobody \notin Runs

VARIABLES
  at,          \* where each run is
  file,        \* the inode target.lock names, 0 when there is none
  inodes,      \* inodes made so far
  fd,          \* the inode each run has open
  holder,      \* who holds the flock of each inode
  marker,      \* quarantine-v1.json exists
  tree,        \* the target's index and working tree
  baseline,    \* the tree each run captured as its baseline
  orphans,     \* runs whose agent may outlive their lease
  unmarked,    \* history: those whose marker was lost to a crash or an error
  before       \* history: runs that were over when each looked for the marker

leaseVars == <<at, file, inodes, fd, holder, marker, tree, baseline, orphans,
               unmarked, before>>
lockFile == <<file, inodes>>
flock == <<fd, holder>>
target == <<tree, baseline>>
agents == <<orphans, unmarked>>

Leased == {"leased", "working", "unsure", "finishing"}
InLease(r) == at[r] \in Leased
Over == {"rejected", "refused", "ended", "crashed"}

Free(i) == i \in DOMAIN holder => holder[i] = Nobody

Init ==
  /\ at = [r \in Runs |-> "idle"]
  /\ file = 0 /\ inodes = 0
  /\ fd = [r \in Runs |-> 0] /\ holder = [i \in {} |-> Nobody]
  /\ marker = FALSE
  /\ tree = "clean" /\ baseline = [r \in Runs |-> "none"]
  /\ orphans = {} /\ unmarked = {}
  /\ before = [r \in Runs |-> {}]

Go(r, to) == at' = [at EXCEPT ![r] = to]

(* Closing the descriptor, in release() or by the kernel.                  *)
Drop(r) ==
  /\ holder' = [i \in DOMAIN holder |-> IF holder[i] = r THEN Nobody ELSE holder[i]]
  /\ fd' = [fd EXCEPT ![r] = 0]

-----------------------------------------------------------------------------
(* bootstrap_run.                                                          *)

(* resolve_target: a clean target, a branch and a HEAD, or no run at all.  *)
Resolve(r) ==
  /\ at[r] = "idle"
  /\ \/ tree = "clean" /\ Go(r, "resolved")
     \/ Go(r, "rejected")
  /\ UNCHANGED <<lockFile, flock, marker, target, agents, before>>

(* acquire() looks for the marker first.                                   *)
CheckMarker(r) ==
  /\ at[r] = "resolved"
  /\ Go(r, IF marker THEN "rejected" ELSE "unquarantined")
  /\ before' = [before EXCEPT ![r] = {q \in Runs : at[q] = "ended"}]
  /\ UNCHANGED <<lockFile, flock, marker, target, agents>>

OpenLockExclusively(r) ==  \* mutation
  /\ at[r] = "unquarantined"
  /\ \/ /\ file = 0
        /\ file' = inodes + 1 /\ inodes' = inodes + 1
        /\ fd' = [fd EXCEPT ![r] = inodes + 1]
        /\ Go(r, "opened")
     \/ /\ file # 0
        /\ Go(r, "refused") /\ UNCHANGED <<lockFile, fd>>
  /\ UNCHANGED <<holder, marker, target, agents, before>>

(* The lock file is created if it is not there; an existing one is opened. *)
(* The coordination directory or the open can fail.                        *)
OpenLock(r) ==
  /\ at[r] = "unquarantined"
  /\ \/ /\ file # 0
        /\ fd' = [fd EXCEPT ![r] = file]
        /\ Go(r, "opened") /\ UNCHANGED lockFile
     \/ /\ file = 0
        /\ file' = inodes + 1 /\ inodes' = inodes + 1
        /\ fd' = [fd EXCEPT ![r] = inodes + 1]
        /\ Go(r, "opened")
     \/ Go(r, "rejected") /\ UNCHANGED <<lockFile, fd>>
  /\ UNCHANGED <<holder, marker, target, agents, before>>

(* flock(LOCK_EX | LOCK_NB) on the inode that was opened.                  *)
Lock(r) ==
  /\ at[r] = "opened"
  /\ \/ /\ Free(fd[r])
        /\ holder' = [i \in DOMAIN holder \cup {fd[r]} |->
                        IF i = fd[r] THEN r ELSE holder[i]]
        /\ Go(r, "leased") /\ UNCHANGED fd
     \/ /\ ~Free(fd[r])
        /\ Go(r, "refused") /\ Drop(r)
     \/ Go(r, "rejected") /\ Drop(r)  \* no reliable lock on this filesystem
  /\ UNCHANGED <<lockFile, marker, target, agents, before>>

(* The rest of the bootstrap: the baseline is whatever the target holds    *)
(* now; a failure of any step goes to the end of the run.                  *)
Bootstrap(r) ==
  /\ at[r] = "leased"
  /\ \/ Go(r, "working") /\ baseline' = [baseline EXCEPT ![r] = tree]
     \/ Go(r, "finishing") /\ UNCHANGED baseline
  /\ UNCHANGED <<lockFile, flock, marker, tree, agents, before>>

-----------------------------------------------------------------------------
(* The run under the lease; IssueRun has its steps.                        *)

Promote(r) ==
  /\ at[r] = "working"
  /\ tree' = "dirty"
  /\ UNCHANGED <<at, lockFile, flock, marker, baseline, agents, before>>

(* The loop ends, with the termination of its last agent confirmed or not. *)
EndLoop(r) ==
  /\ at[r] = "working"
  /\ \/ Go(r, "finishing") /\ UNCHANGED orphans
     \/ Go(r, "unsure") /\ orphans' = orphans \cup {r}
  /\ UNCHANGED <<lockFile, flock, marker, target, unmarked, before>>

SkipQuarantine(r) ==  \* mutation
  /\ at[r] = "unsure"
  /\ Go(r, "finishing")
  /\ UNCHANGED <<lockFile, flock, marker, target, agents, before>>

(* write_quarantine, an atomic replace.  A LoggingError is recorded, and   *)
(* the run goes on to its end; a PreflightError ends the process.          *)
Quarantine(r) ==
  /\ at[r] = "unsure"
  /\ \/ /\ marker' = TRUE /\ Go(r, "finishing")
        /\ UNCHANGED <<flock, unmarked>>
     \/ /\ marker' = marker /\ unmarked' = unmarked \cup {r}
        /\ \/ Go(r, "finishing") /\ UNCHANGED flock
           \/ Go(r, "crashed") /\ Drop(r)
  /\ UNCHANGED <<lockFile, target, orphans, before>>

ReleaseUnlinking(r) ==  \* mutation
  /\ at[r] = "finishing"
  /\ file' = 0 /\ Drop(r) /\ Go(r, "ended")
  /\ UNCHANGED <<inodes, marker, target, agents, before>>

ReleaseWhileInherited(r) ==  \* mutation: a child has the descriptor too
  /\ at[r] = "finishing"
  /\ fd' = [fd EXCEPT ![r] = 0] /\ Go(r, "ended")
  /\ UNCHANGED <<lockFile, holder, marker, target, agents, before>>

(* release(): the file stays on disk.                                      *)
Release(r) ==
  /\ at[r] = "finishing"
  /\ Drop(r) /\ Go(r, "ended")
  /\ UNCHANGED <<lockFile, marker, target, agents, before>>

(* SIGKILL, or the machine: the kernel closes the descriptor.  An agent    *)
(* that was running goes on.                                               *)
Crash(r) ==
  /\ at[r] \notin Over \cup {"idle"}
  /\ Drop(r) /\ Go(r, "crashed")
  /\ \/ UNCHANGED orphans
     \/ at[r] = "working" /\ orphans' = orphans \cup {r}
  /\ unmarked' = IF marker THEN unmarked ELSE unmarked \cup {r}
  /\ UNCHANGED <<lockFile, marker, target, before>>

-----------------------------------------------------------------------------
(* Outside the program.                                                    *)

OrphanEnds(r) ==
  /\ r \in orphans /\ ~InLease(r)
  /\ orphans' = orphans \ {r}
  /\ UNCHANGED <<at, lockFile, flock, marker, target, unmarked, before>>

(* The user commits or discards what a run left in the target.             *)
CleanTarget ==
  /\ tree = "dirty"
  /\ tree' = "clean"
  /\ UNCHANGED <<at, lockFile, flock, marker, baseline, agents, before>>

(* docs/recovery.md: the user removes the marker once no process is left.  *)
LiftQuarantine ==
  /\ marker /\ orphans = {}
  /\ marker' = FALSE
  /\ UNCHANGED <<at, lockFile, flock, target, agents, before>>

AllOver == (\A r \in Runs : at[r] \in Over) /\ UNCHANGED leaseVars

Step(r) ==
  \/ Resolve(r) \/ CheckMarker(r) \/ OpenLock(r) \/ Lock(r) \/ Bootstrap(r)
  \/ Promote(r) \/ EndLoop(r) \/ Quarantine(r) \/ Release(r) \/ Crash(r)

Next ==
  \/ \E r \in Runs : Step(r) \/ OrphanEnds(r)
  \/ CleanTarget \/ LiftQuarantine \/ AllOver

Spec == Init /\ [][Next]_leaseVars

-----------------------------------------------------------------------------
Phases == {"idle", "resolved", "unquarantined", "opened"} \cup Leased \cup Over

(* Every variable has its type, and a flock is held by a run that has its  *)
(* inode open.                                                             *)
LeaseTypeOK ==
  /\ at \in [Runs -> Phases]
  /\ file \in 0..inodes /\ inodes \in Nat
  /\ fd \in [Runs -> 0..inodes]
  /\ DOMAIN holder \subseteq 1..inodes
  /\ \A i \in DOMAIN holder :
       holder[i] \in Runs \cup {Nobody} /\ (holder[i] \in Runs => fd[holder[i]] = i)
  /\ marker \in BOOLEAN
  /\ tree \in {"clean", "dirty"} /\ baseline \in [Runs -> {"none", "clean", "dirty"}]
  /\ orphans \subseteq Runs /\ unmarked \subseteq Runs
  /\ before \in [Runs -> SUBSET Runs]

(* At most one run is between its lock and its release, whoever crashed    *)
(* before and whichever file they opened.                                  *)
OneHolder == \A r, q \in Runs : InLease(r) /\ InLease(q) => r = q

(* A run that looked for the marker after another had ended in order works *)
(* on the target only if no agent of that one is left, or its marker could *)
(* not be written.                                                         *)
LaterRunsSeeTheMarker ==
  \A r \in Runs : at[r] = "working" =>
    \A q \in before[r] : q \in orphans => q \in unmarked

(* A run is told that the target is locked only while another one holds    *)
(* it: a file left behind by a crash means nothing.                        *)
RefusalMeansHolder ==
  [][\A r \in Runs : at[r] # "refused" /\ at'[r] = "refused" =>
       \E q \in Runs \ {r} : InLease(q)]_leaseVars

-----------------------------------------------------------------------------
(* Statements of the documents the code does not keep.                     *)

(* docs/recovery.md: a quarantined target blocks every future run.         *)
QuarantineBlocks == \A r \in Runs : at[r] \in {"leased", "working"} => ~marker

(* README and system-design 8.2: the baseline of a run is a clean tree.    *)
BaselineIsClean == \A r \in Runs : baseline[r] # "dirty"
=============================================================================
