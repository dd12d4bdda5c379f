------------------------- MODULE TargetLeaseProofs --------------------------
(***************************************************************************)
(* Exclusion, the reach of the quarantine marker and the meaning of a      *)
(* refusal, for any number of runs.                                        *)
(*                                                                         *)
(* All runs open the same inode, since nobody removes the lock file; its   *)
(* flock is held by the run that is between its lock and its release.  The *)
(* marker is there for every run that ended beside an agent, until nothing *)
(* is left of any of them.                                                 *)
(***************************************************************************)
EXTENDS TargetLease, TLAPS

(* A lock is held exactly by the run under the lease, through the inode it *)
(* has open, which is the one the lock file names.                         *)
LockInv ==
  /\ \A r \in Runs : fd[r] # 0 => fd[r] = file
  /\ \A i \in DOMAIN holder :
       holder[i] \in Runs => fd[holder[i]] = i /\ InLease(holder[i])
  /\ \A r \in Runs : InLease(r) =>
       fd[r] # 0 /\ fd[r] \in DOMAIN holder /\ holder[fd[r]] = r
  /\ \A r \in Runs : at[r] = "opened" => fd[r] # 0
  /\ \A r \in Runs : at[r] \notin {"opened"} \cup Leased => fd[r] = 0

Marked(q) == q \in orphans => q \in unmarked

PastTheMarker == {"unquarantined", "opened"} \cup Leased

(* Of the runs that had ended when r found no marker, none has an agent    *)
(* left that ought to have one; a run at its end has its marker.           *)
MarkerInv ==
  /\ \A q \in orphans : at[q] \in {"unsure", "finishing", "ended", "crashed"}
  /\ \A q \in Runs : at[q] \in {"finishing", "ended"} => Marked(q) \/ marker
  /\ \A r \in Runs : at[r] \in PastTheMarker =>
       \A q \in before[r] : at[q] = "ended" /\ Marked(q)

LeaseInv == LeaseTypeOK /\ LockInv /\ MarkerInv

USE LeaseAssumption DEF Leased, Over, InLease, PastTheMarker, lockFile, flock, target, agents

-----------------------------------------------------------------------------
(* Closing a descriptor frees what it held and nothing else.               *)
LEMMA DropFrees ==
  ASSUME LeaseTypeOK, LockInv, NEW r \in Runs, Drop(r)
  PROVE  /\ DOMAIN holder' = DOMAIN holder
         /\ \A i \in DOMAIN holder :
              holder'[i] \in Runs => holder'[i] = holder[i] /\ holder[i] # r
         /\ \A i \in DOMAIN holder :
              holder[i] # r => holder'[i] = holder[i]
         /\ \A i \in DOMAIN holder : holder'[i] \in Runs \cup {Nobody}
         /\ fd' = [fd EXCEPT ![r] = 0]
BY DEF Drop, LeaseTypeOK, LockInv

(* Nobody holds anything at the start.                                     *)
LEMMA InitHolds == Init => LeaseInv
<1> SUFFICES ASSUME Init PROVE LeaseInv
  OBVIOUS
<1>1. DOMAIN holder = {}
  BY DEF Init
<1>2. LeaseTypeOK
  <2>1. at \in [Runs -> Phases] /\ baseline \in [Runs -> {"none", "clean", "dirty"}]
    BY DEF Init, Phases
  <2>2. before \in [Runs -> SUBSET Runs] /\ fd \in [Runs -> 0..inodes]
    BY DEF Init
  <2>3. /\ DOMAIN holder \subseteq 1..inodes
        /\ \A i \in DOMAIN holder :
             holder[i] \in Runs \cup {Nobody} /\ (holder[i] \in Runs => fd[holder[i]] = i)
    BY <1>1
  <2>4. /\ file \in 0..inodes /\ inodes \in Nat
        /\ tree \in {"clean", "dirty"}
        /\ orphans \subseteq Runs /\ unmarked \subseteq Runs
    BY DEF Init
  <2>5. marker \in BOOLEAN
    BY Zenon DEF Init
  <2> QED BY <2>1, <2>2, <2>3, <2>4, <2>5 DEF LeaseTypeOK
<1>3. LockInv
  BY <1>1 DEF Init, LockInv
<1>4. MarkerInv
  BY DEF Init, MarkerInv, Marked
<1> QED BY <1>2, <1>3, <1>4 DEF LeaseInv

(* The lock and the types, step by step.                                   *)
LEMMA LockStep == LeaseTypeOK /\ LockInv /\ [Next]_leaseVars => LeaseTypeOK' /\ LockInv'
<1> SUFFICES ASSUME LeaseTypeOK, LockInv, [Next]_leaseVars PROVE LeaseTypeOK' /\ LockInv'
  OBVIOUS
<1>1. ASSUME NEW r \in Runs, Resolve(r) PROVE LeaseTypeOK' /\ LockInv'
  BY <1>1 DEF Resolve, Go, LeaseTypeOK, LockInv, Phases
<1>2. ASSUME NEW r \in Runs, CheckMarker(r) PROVE LeaseTypeOK' /\ LockInv'
  BY <1>2 DEF CheckMarker, Go, LeaseTypeOK, LockInv, Phases
<1>3. ASSUME NEW r \in Runs, OpenLock(r) PROVE LeaseTypeOK' /\ LockInv'
  BY <1>3 DEF OpenLock, Go, LeaseTypeOK, LockInv, Phases
<1>4. ASSUME NEW r \in Runs, Lock(r) PROVE LeaseTypeOK' /\ LockInv'
  <2>1. CASE at'[r] = "leased"
    BY <1>4, <2>1 DEF Lock, Free, Go, LeaseTypeOK, LockInv, Phases
  <2>2. CASE at'[r] # "leased"
    <3>1. Drop(r) /\ (Go(r, "refused") \/ Go(r, "rejected"))
      BY <1>4, <2>2 DEF Lock, Go, LeaseTypeOK
    <3>2. UNCHANGED <<lockFile, marker, target, agents, before>> /\ at[r] = "opened"
      BY <1>4 DEF Lock
    <3> QED BY <3>1, <3>2, DropFrees DEF Go, LeaseTypeOK, LockInv, Phases
  <2> QED BY <2>1, <2>2
<1>5. ASSUME NEW r \in Runs, Bootstrap(r) PROVE LeaseTypeOK' /\ LockInv'
  BY <1>5 DEF Bootstrap, Go, LeaseTypeOK, LockInv, Phases
<1>6. ASSUME NEW r \in Runs, Promote(r) PROVE LeaseTypeOK' /\ LockInv'
  BY <1>6 DEF Promote, LeaseTypeOK, LockInv
<1>7. ASSUME NEW r \in Runs, EndLoop(r) PROVE LeaseTypeOK' /\ LockInv'
  BY <1>7 DEF EndLoop, Go, LeaseTypeOK, LockInv, Phases
<1>8. ASSUME NEW r \in Runs, Quarantine(r) PROVE LeaseTypeOK' /\ LockInv'
  <2>1. CASE at'[r] = "finishing"
    <3>1. /\ at[r] = "unsure" /\ Go(r, "finishing") /\ UNCHANGED <<flock, lockFile>>
          /\ UNCHANGED <<target, orphans, before>>
          /\ marker' \in BOOLEAN /\ unmarked' \subseteq Runs
      BY <1>8, <2>1 DEF Quarantine, Go, LeaseTypeOK
    <3> QED BY <3>1 DEF Go, LeaseTypeOK, LockInv, Phases
  <2>2. CASE at'[r] # "finishing"
    <3>1. /\ Drop(r) /\ Go(r, "crashed") /\ unmarked' = unmarked \cup {r}
          /\ marker' = marker /\ UNCHANGED <<lockFile, target, orphans, before>>
      BY <1>8, <2>2 DEF Quarantine, Go, LeaseTypeOK
    <3> QED BY <3>1, DropFrees DEF Go, LeaseTypeOK, LockInv, Phases
  <2> QED BY <2>1, <2>2
<1>9. ASSUME NEW r \in Runs, Release(r) PROVE LeaseTypeOK' /\ LockInv'
  BY <1>9, DropFrees DEF Release, Go, LeaseTypeOK, LockInv, Phases
<1>10. ASSUME NEW r \in Runs, Crash(r) PROVE LeaseTypeOK' /\ LockInv'
  BY <1>10, DropFrees DEF Crash, Go, LeaseTypeOK, LockInv, Phases
<1>11. ASSUME NEW r \in Runs, OrphanEnds(r) PROVE LeaseTypeOK' /\ LockInv'
  BY <1>11 DEF OrphanEnds, LeaseTypeOK, LockInv
<1>12. ASSUME CleanTarget PROVE LeaseTypeOK' /\ LockInv'
  BY <1>12 DEF CleanTarget, LeaseTypeOK, LockInv
<1>13. ASSUME LiftQuarantine PROVE LeaseTypeOK' /\ LockInv'
  BY <1>13 DEF LiftQuarantine, LeaseTypeOK, LockInv
<1>14. ASSUME UNCHANGED leaseVars PROVE LeaseTypeOK' /\ LockInv'
  BY <1>14 DEF leaseVars, LeaseTypeOK, LockInv
<1> QED
  BY <1>1, <1>2, <1>3, <1>4, <1>5, <1>6, <1>7, <1>8, <1>9, <1>10, <1>11, <1>12,
     <1>13, <1>14 DEF Next, Step, AllOver

(* The marker.                                                             *)
LEMMA MarkerStep == LeaseTypeOK /\ MarkerInv /\ [Next]_leaseVars => MarkerInv'
<1> SUFFICES ASSUME LeaseTypeOK, MarkerInv, [Next]_leaseVars PROVE MarkerInv'
  OBVIOUS
<1> USE DEF LeaseTypeOK, MarkerInv, Marked
<1>1. ASSUME NEW r \in Runs, Resolve(r) PROVE MarkerInv'
  BY <1>1 DEF Resolve, Go
<1>2. ASSUME NEW r \in Runs, CheckMarker(r) PROVE MarkerInv'
  BY <1>2 DEF CheckMarker, Go
<1>3. ASSUME NEW r \in Runs, OpenLock(r) PROVE MarkerInv'
  BY <1>3 DEF OpenLock, Go
<1>4. ASSUME NEW r \in Runs, Lock(r) PROVE MarkerInv'
  BY <1>4 DEF Lock, Go
<1>5. ASSUME NEW r \in Runs, Bootstrap(r) PROVE MarkerInv'
  BY <1>5 DEF Bootstrap, Go
<1>6. ASSUME NEW r \in Runs, Promote(r) PROVE MarkerInv'
  BY <1>6 DEF Promote
<1>7. ASSUME NEW r \in Runs, EndLoop(r) PROVE MarkerInv'
  BY <1>7 DEF EndLoop, Go
<1>8. ASSUME NEW r \in Runs, Quarantine(r) PROVE MarkerInv'
  <2>1. /\ at[r] = "unsure" /\ (Go(r, "finishing") \/ Go(r, "crashed"))
        /\ UNCHANGED <<orphans, before>>
    BY <1>8 DEF Quarantine
  <2>2. CASE marker' = TRUE /\ UNCHANGED unmarked
    BY <2>1, <2>2 DEF Go
  <2>3. CASE marker' = marker /\ unmarked' = unmarked \cup {r}
    BY <2>1, <2>3 DEF Go
  <2> QED BY <1>8, <2>2, <2>3 DEF Quarantine
<1>9. ASSUME NEW r \in Runs, Release(r) PROVE MarkerInv'
  BY <1>9 DEF Release, Go
<1>10. ASSUME NEW r \in Runs, Crash(r) PROVE MarkerInv'
  <2>1. /\ at[r] \notin Over \cup {"idle"} /\ Go(r, "crashed")
        /\ UNCHANGED <<marker, before>>
    BY <1>10 DEF Crash
  <2>2. orphans' \subseteq orphans \cup {r} /\ unmarked \subseteq unmarked'
    BY <1>10 DEF Crash
  <2> QED BY <2>1, <2>2 DEF Go
<1>11. ASSUME NEW r \in Runs, OrphanEnds(r) PROVE MarkerInv'
  BY <1>11 DEF OrphanEnds
<1>12. ASSUME CleanTarget PROVE MarkerInv'
  BY <1>12 DEF CleanTarget
<1>13. ASSUME LiftQuarantine PROVE MarkerInv'
  BY <1>13 DEF LiftQuarantine
<1>14. ASSUME UNCHANGED leaseVars PROVE MarkerInv'
  BY <1>14 DEF leaseVars
<1> QED
  BY <1>1, <1>2, <1>3, <1>4, <1>5, <1>6, <1>7, <1>8, <1>9, <1>10, <1>11, <1>12,
     <1>13, <1>14 DEF Next, Step, AllOver

(* The invariant holds of every run, for any set of runs and any bound.    *)
THEOREM LeaseInvariant == Spec => []LeaseInv
<1>1. LeaseInv /\ [Next]_leaseVars => LeaseInv'
  BY LockStep, MarkerStep DEF LeaseInv
<1> QED BY InitHolds, <1>1, PTL DEF Spec

-----------------------------------------------------------------------------
(* Every variable of any number of runs keeps its type.                    *)
THEOREM LeaseTyping == Spec => []LeaseTypeOK
BY LeaseInvariant, PTL DEF LeaseInv

(* The flock of locking.py excludes: never two runs between their lock and *)
(* their release, after whatever crashes.                                  *)
THEOREM Exclusion == Spec => []OneHolder
<1>1. LeaseInv => OneHolder
  BY DEF LeaseInv, LockInv, OneHolder
<1> QED BY LeaseInvariant, <1>1, PTL

(* A run that passed the marker check after another had ended in order     *)
(* never works beside an agent of that one which ought to have a marker.   *)
THEOREM MarkerReaches == Spec => []LaterRunsSeeTheMarker
<1>1. LeaseInv => LaterRunsSeeTheMarker
  BY DEF LeaseInv, MarkerInv, Marked, LaterRunsSeeTheMarker
<1> QED BY LeaseInvariant, <1>1, PTL

(* A refusal of the lock names a run that holds it.                        *)
THEOREM RefusalsAreTrue == Spec => RefusalMeansHolder
<1>1. ASSUME LeaseInv, [Next]_leaseVars, NEW r \in Runs,
             at[r] # "refused", at'[r] = "refused"
      PROVE  \E q \in Runs \ {r} : InLease(q)
  <2>0. at \in [Runs -> Phases]
    BY <1>1 DEF LeaseInv, LeaseTypeOK
  <2>1. PICK q \in Runs : Step(q)
    BY <1>1 DEF Next, AllOver, leaseVars, OrphanEnds, CleanTarget, LiftQuarantine
  <2>2. \E to \in Phases : Go(q, to) \/ UNCHANGED at
    BY <2>1 DEF Step, Resolve, CheckMarker, OpenLock, Lock, Bootstrap, Promote, EndLoop,
       Quarantine, Release, Crash, Phases
  <2>3. q = r /\ Go(r, "refused")
    BY <1>1, <2>0, <2>2 DEF Go
  <2>4. OpenLock(r) \/ Lock(r)
    BY <2>0, <2>1, <2>3 DEF Go, Step, Resolve, CheckMarker, Bootstrap, Promote, EndLoop,
       Quarantine, Release, Crash
  <2>5. Lock(r) /\ ~Free(fd[r])
    BY <2>0, <2>3, <2>4 DEF Go, OpenLock, Lock
  <2>6. fd[r] \in DOMAIN holder /\ holder[fd[r]] \in Runs /\ InLease(holder[fd[r]])
    BY <1>1, <2>5 DEF Free, LeaseInv, LeaseTypeOK, LockInv
  <2> QED BY <2>5, <2>6 DEF Lock
<1>2. LeaseInv /\ [Next]_leaseVars =>
        [\A r \in Runs : at[r] # "refused" /\ at'[r] = "refused" =>
           \E q \in Runs \ {r} : InLease(q)]_leaseVars
  BY <1>1
<1> QED BY LeaseInvariant, <1>2, PTL DEF Spec, RefusalMeansHolder
=============================================================================
