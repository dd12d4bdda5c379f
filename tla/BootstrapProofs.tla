--------------------------- MODULE BootstrapProofs --------------------------
(***************************************************************************)
(* run.json for any number of failing system calls and any length of the   *)
(* agent loop: that it keeps the contract of RunLogContract, that main's   *)
(* answer tells what it holds, that nothing else stays in the directory,   *)
(* and what it holds of the bootstrap.                                     *)
(*                                                                         *)
(* Two inductive invariants.  StoreInv is about the files alone and holds  *)
(* for every caller of _CliRunStore; RunInv says which record the program  *)
(* is writing at each of its points, and what was written before.          *)
(***************************************************************************)
EXTENDS Bootstrap, SequenceTheorems, TLAPS

-----------------------------------------------------------------------------
(* The store.                                                              *)

Records ==
  [phase : {"PREFLIGHT", "ARCHITECT", "POSTFLIGHT", "FINISHED"},
   baseline : BOOLEAN, issue : BOOLEAN, attempts : Nat,
   error : RunOutcomes \cup {None}, persistence : {"OK", "INCOMPLETE"},
   final : {"APPROVED", "FAILED", None}, outcome : RunOutcomes \cup {None}, exit : Int]

Files == [record : Records, state : {"empty", "written", "durable"}]
Dirs == [run : Nat, temps : SUBSET (Nat \ {0})]
Calls == [op : {"none", "persist", "stage", "commit"},
          step : {"idle", "open", "write", "sync", "swap", "replace",
                  "syncDirectory", "OK", "FAILED"},
          file : Nat, record : Records \cup {NoRecord}]

StoreTypes ==
  /\ files \in Seq(Files) /\ dir \in onDisk /\ onDisk \subseteq Dirs
  /\ io \in Calls /\ staged \in Nat /\ litter \subseteq Nat
  /\ published \in Seq(Nat) /\ settled \in Nat /\ settled <= Len(published)
  /\ faults \in Nat /\ power \in BOOLEAN

(* The file that was run.json when k records had been published.           *)
Version(k) == IF k = 0 THEN NoFile ELSE published[k]

Exists(f) == f \in 1..Len(files)
Unpublished(f) == \A k \in 1..Len(published) : published[k] # f
Durable(f) == Exists(f) /\ files[f].state = "durable"

(* A candidate under way: made, not yet anything's name or staged.         *)
Candidate == io.step \in {"write", "sync", "swap", "replace"}

(* What the directories name, and what of it is on disk.                   *)
DirInv ==
  /\ \A d \in onDisk : \E k \in settled..Len(published) : d.run = Version(k)
  /\ power => dir.run = Version(Len(published))
  /\ power => dir.temps \subseteq litter \cup {staged} \cup (IF Candidate THEN {io.file} ELSE {})

(* Every file published or staged is complete, and published once.         *)
FileInv ==
  /\ \A j, k \in 1..Len(published) : published[j] = published[k] => j = k
  /\ \A k \in 1..Len(published) : Durable(published[k])
  /\ staged # NoFile => Durable(staged) /\ Unpublished(staged)

(* How far the call under way is.                                          *)
CallInv ==
  /\ io.step = "idle" => io = Idle
  /\ io.step = "open" => io.op \in {"persist", "stage"} /\ io.record \in Records
  /\ Candidate => Exists(io.file) /\ Unpublished(io.file)
  /\ Candidate /\ io.op # "commit" => io.file # staged /\ files[io.file].record = io.record
  /\ io.step \in {"write", "sync"} => io.op \in {"persist", "stage"}
  /\ io.step = "swap" => io.op = "stage" /\ Durable(io.file)
  /\ io.step = "replace" => /\ io.op \in {"persist", "commit"} /\ Durable(io.file)
                            /\ io.op = "commit" => io.file = staged
  /\ io.step = "syncDirectory" => io.op \in {"persist", "commit"}
  /\ io.step = "syncDirectory" \/ (io.step = "OK" /\ io.op # "stage") =>
       /\ Len(published) > 0 /\ published[Len(published)] = io.file
       /\ io.op = "persist" => files[io.file].record = io.record
       /\ io.op = "commit" => staged = NoFile
  /\ io.step = "OK" /\ io.op = "stage" => staged = io.file /\ staged # NoFile
                                          /\ files[staged].record = io.record
  /\ io.step = "FAILED" /\ io.op = "commit" => staged = NoFile
  /\ faults = 0 => /\ io.step # "FAILED"
                   /\ \/ settled = Len(published)
                      \/ io.step = "syncDirectory" /\ settled + 1 = Len(published)

StoreInv == StoreTypes /\ DirInv /\ FileInv /\ CallInv

-----------------------------------------------------------------------------
(* The run.                                                                *)

Early == {"locate", "acquire", "initialize"}
Preparing == {"persistFirst", "baseline", "issue", "verify", "persistReady"}
Finishing == {"postflight", "stage", "staged", "released", "commit"}

RunTypes ==
  /\ at \in Early \cup Preparing \cup {"amend", "loop"} \cup Finishing \cup Dead
  /\ latest \in Records \cup {NoRecord} /\ persisted \in Records \cup {NoRecord}
  /\ error \in RunOutcomes \cup {None}
  /\ cancelled \in BOOLEAN /\ interrupted \in BOOLEAN
  /\ at \in Finishing => trigger \in RunOutcomes
  /\ at \in Finishing \ {"postflight"} => post \in GitStatuses
  /\ ~power => at \in Dead
  /\ at \in Early => lease \in {"none", "held"}
  /\ at \in {"initialize", "amend", "loop"} \cup Preparing => lease = "held"

(* What latest_record holds at each point.                                 *)
LatestInv ==
  /\ at \notin Early \cup Dead => latest \in Records
  /\ at \in Early => persisted = NoRecord
  /\ at \in Preparing \cup {"amend"} =>
       /\ latest.phase = "PREFLIGHT" /\ latest.persistence = "OK"
       /\ \/ persisted = NoRecord
          \/ persisted.phase = "PREFLIGHT" /\ persisted.persistence = "OK"
  /\ at = "loop" => latest.phase = "ARCHITECT"
  /\ at \notin Dead => latest.phase # "FINISHED"
  /\ at \in {"issue", "verify", "persistReady"} => latest.baseline
  /\ at \in {"verify", "persistReady"} => latest.issue
  /\ latest.phase = "ARCHITECT" =>
       latest.baseline /\ latest.issue /\ at \in {"loop"} \cup Finishing \cup Dead

(* Which record is being written.                                          *)
Writing(op, record) == io = Idle \/ (io.op = op /\ io.record = record)

WritingInv ==
  /\ at \in Early \cup {"baseline", "issue", "verify", "postflight", "done"} => io = Idle
  /\ at = "persistFirst" => Writing("persist", latest)
  /\ at = "persistReady" => Writing("persist", Ready)
  /\ at = "amend" => Writing("persist", FailureRecord)
  /\ at = "loop" => Writing("persist", AttemptRecord)
  /\ at \in {"stage", "staged", "released"} => Writing("stage", TerminalRecord(interrupted))
  /\ at = "commit" => io.op = "commit" /\ io.step # "idle"
  /\ at \in Early => published = <<>>
  /\ at \in Early \cup {"done"} => staged = NoFile
  /\ at \in {"staged", "released"} /\ io = Idle =>
       staged # NoFile /\ files[staged].record = TerminalRecord(interrupted)
  /\ at = "commit" /\ io.step # "FAILED" =>
       Exists(io.file) /\ files[io.file].record = TerminalRecord(interrupted)

(* What was written: nothing terminal before the commit, and, once the     *)
(* loop began, nothing without the baseline and the issue.                 *)
Recorded(k) == files[published[k]].record
Committed == at = "commit" /\ io.step \in {"syncDirectory", "OK"}
LoopRecord(r) == r.phase \in {"ARCHITECT", "FINISHED"} /\ r.baseline /\ r.issue

WrittenInv ==
  /\ at \notin Dead /\ ~Committed =>
       \A k \in 1..Len(published) : Recorded(k).phase # "FINISHED"
  /\ latest.phase = "ARCHITECT" =>
       /\ Len(published) > 0 /\ LoopRecord(Recorded(Len(published)))
       /\ faults = 0 => /\ settled > 0
                        /\ \A k \in settled..Len(published) : LoopRecord(Recorded(k))

(* The error that ended a bootstrap.                                       *)
ErrorInv ==
  /\ at \in Early \cup Preparing \cup {"loop"} => error = None
  /\ at \in Early \cup Preparing \cup {"amend"} => ~cancelled /\ ~interrupted
  /\ at = "amend" => error # None
  /\ error # None => ~cancelled /\ ~interrupted
  /\ at = "amend" /\ error = "PREFLIGHT_ERROR" => latest.baseline
  /\ at \in Finishing /\ error # None /\ faults = 0 =>
       /\ latest.error = error /\ trigger = error /\ latest.persistence = "OK"
       /\ error = "PREFLIGHT_ERROR" => latest.baseline

AnswerInv == AnsweredAsRecorded /\ BootstrapErrorIsNamed

RunInv == RunTypes /\ LatestInv /\ WritingInv /\ WrittenInv /\ ErrorInv /\ AnswerInv

-----------------------------------------------------------------------------
(* The files.                                                              *)

(* Writing to a file changes no other, and no record.                      *)
LEMMA FillFiles ==
  ASSUME files \in Seq(Files), NEW f \in 1..Len(files),
         NEW s \in {"empty", "written", "durable"},
         files' = [files EXCEPT ![f].state = s]
  PROVE  /\ files' \in Seq(Files) /\ Len(files') = Len(files)
         /\ \A g \in 1..Len(files) : /\ files'[g].record = files[g].record
                                     /\ g # f => files'[g] = files[g]
         /\ files'[f].state = s
<1>1. \A g \in 1..Len(files) : files[g] \in Files
  OBVIOUS
<1>2. [files[f] EXCEPT !.state = s] \in Files
  BY <1>1 DEF Files
<1>3. files' = [files EXCEPT ![f] = [files[f] EXCEPT !.state = s]]
  OBVIOUS
<1>4. files' \in Seq(Files) /\ Len(files') = Len(files)
  BY <1>2, <1>3
<1>5. files'[f] = [files[f] EXCEPT !.state = s] /\ \A g \in 1..Len(files) : g # f => files'[g] = files[g]
  BY <1>3
<1>6. files'[f].record = files[f].record /\ files'[f].state = s
  BY <1>1, <1>5 DEF Files
<1> QED BY <1>4, <1>5, <1>6

(* Removing a temporary file touches neither run.json nor what is on disk. *)
LEMMA UnlinkKeeps ==
  ASSUME StoreTypes, NEW f \in Nat, Unlink(f)
  PROVE  /\ dir' \in onDisk' /\ onDisk' \subseteq Dirs /\ litter' \subseteq Nat
         /\ dir'.run = dir.run
         /\ \A d \in onDisk' : d \in onDisk \/ d.run = dir.run
         /\ dir'.temps \subseteq litter' \cup (dir.temps \ {f})
         /\ litter \subseteq litter'
<1>1. dir \in Dirs
  BY DEF StoreTypes
<1>2. CASE Rename([dir EXCEPT !.temps = @ \ {f}]) /\ litter' = litter
  BY <1>1, <1>2 DEF Rename, StoreTypes, Dirs
<1>3. CASE UNCHANGED <<dir, onDisk>> /\ litter' = litter \cup {f}
  BY <1>3 DEF StoreTypes
<1> QED BY <1>2, <1>3 DEF Unlink

(* While run.json is not replaced, every directory names what it named.    *)
LEMMA NamesStand ==
  ASSUME StoreTypes, DirInv, UNCHANGED <<published, settled, power>>, dir'.run = dir.run,
         \A d \in onDisk' : d \in onDisk \/ d.run = dir.run
  PROVE  /\ \A d \in onDisk' : \E k \in (settled..Len(published))' : d.run = Version(k)'
         /\ power' => dir'.run = Version(Len(published))'
<1>1. dir \in onDisk
  BY DEF StoreTypes
<1>2. \A k : Version(k)' = Version(k)
  BY DEF Version
<1>3. \A d \in onDisk : \E k \in settled..Len(published) : d.run = Version(k)
  BY DEF DirInv
<1>4. \A d \in onDisk' : \E e \in onDisk : d.run = e.run
  BY <1>1
<1>5. power => dir.run = Version(Len(published))
  BY DEF DirInv
<1> QED BY <1>2, <1>3, <1>4, <1>5

(* Every call the program makes of the store.                              *)
StoreCall ==
  \/ \E r \in Records : Persist(r) \/ StageFinal(r)
  \/ CommitFinal
  \/ Returns("OK") \/ Returns("FAILED")
  \/ AbortFinal
  \/ UNCHANGED storeVars

(* Calling and returning change no file.                                   *)
LEMMA CallStep ==
  ASSUME StoreInv, \/ \E r \in Records : Persist(r) \/ StageFinal(r)
                   \/ CommitFinal \/ Returns("OK") \/ Returns("FAILED")
  PROVE  StoreInv'
<1>1. /\ UNCHANGED <<files, dir, onDisk, staged, faults, litter, published, settled, power>>
  BY DEF Persist, StageFinal, CommitFinal, Returns, Call
<1>2. \/ io' = Idle /\ io.step \in {"OK", "FAILED"}
      \/ /\ io = Idle /\ io'.op \in {"persist", "stage"} /\ io'.step = "open"
         /\ io'.file = NoFile /\ io'.record \in Records /\ io' \in Calls
      \/ /\ io = Idle /\ staged # NoFile /\ io'.op = "commit" /\ io'.step = "replace"
         /\ io'.file = staged /\ io'.record = NoRecord /\ io' \in Calls
  <2>1. CASE \E r \in Records : Persist(r) \/ StageFinal(r)
    BY <2>1 DEF Persist, StageFinal, Call, Calls, NoFile
  <2>2. CASE CommitFinal
    BY <2>2 DEF CommitFinal, Call, Calls, NoFile, StoreInv, StoreTypes
  <2>3. CASE Returns("OK") \/ Returns("FAILED")
    BY <2>3 DEF Returns
  <2> QED BY <2>1, <2>2, <2>3
<1>3. Idle \in Calls /\ Idle.step = "idle" /\ Idle.op = "none" /\ Idle.file = NoFile
  BY DEF Idle, Calls, NoFile
<1>4. StoreTypes' /\ FileInv'
  BY <1>1, <1>2, <1>3 DEF StoreInv, StoreTypes, FileInv, Durable, Exists, Unpublished
<1>5. DirInv'
  <2>1. Candidate => io.step \notin {"OK", "FAILED", "idle"}
    BY DEF Candidate
  <2>2. ~Candidate
    BY <1>2, <1>3, <2>1
  <2>3. /\ \A d \in onDisk' : \E k \in (settled..Len(published))' : d.run = Version(k)'
        /\ power' => dir'.run = Version(Len(published))'
    BY <1>1, NamesStand DEF StoreInv
  <2> QED BY <1>1, <2>2, <2>3 DEF StoreInv, DirInv
<1>6. CallInv'
  BY <1>1, <1>2, <1>3 DEF StoreInv, CallInv, FileInv, Candidate, Exists, Unpublished, Durable, NoFile
<1> QED BY <1>4, <1>5, <1>6 DEF StoreInv

(* abort_final discards the candidate kept.                                *)
LEMMA AbortStep ==
  ASSUME StoreInv, AbortFinal
  PROVE  StoreInv'
<1> USE DEF NoFile
<1>1. /\ UNCHANGED <<files, faults, published, settled, power>> /\ staged' = NoFile
      /\ io' = Idle /\ io.step \in {"idle", "FAILED"}
  BY DEF AbortFinal
<1>2. /\ dir' \in onDisk' /\ onDisk' \subseteq Dirs /\ litter' \subseteq Nat
      /\ dir'.run = dir.run
      /\ \A d \in onDisk' : d \in onDisk \/ d.run = dir.run
      /\ dir'.temps \subseteq litter' \cup (dir.temps \ {staged})
      /\ litter \subseteq litter'
  <2>1. CASE staged = NoFile
    <3>1. UNCHANGED <<dir, onDisk, litter>> /\ dir \in Dirs
      BY <2>1 DEF AbortFinal, StoreInv, StoreTypes
    <3>2. 0 \notin dir.temps
      BY <3>1 DEF Dirs
    <3> QED BY <2>1, <3>1, <3>2 DEF StoreInv, StoreTypes
  <2>2. CASE staged # NoFile
    BY <2>2, UnlinkKeeps DEF AbortFinal, StoreInv, StoreTypes
  <2> QED BY <2>1, <2>2
<1>3. Idle \in Calls /\ Idle.step = "idle" /\ Idle.op = "none" /\ Idle.file = NoFile
  BY DEF Idle, Calls
<1>4. StoreTypes' /\ FileInv'
  BY <1>1, <1>2, <1>3 DEF StoreInv, StoreTypes, FileInv, Durable, Exists, Unpublished
<1>5. DirInv'
  <2>1. ~Candidate
    BY <1>1 DEF Candidate
  <2>2. /\ \A d \in onDisk' : \E k \in (settled..Len(published))' : d.run = Version(k)'
        /\ power' => dir'.run = Version(Len(published))'
    BY <1>1, <1>2, NamesStand DEF StoreInv
  <2> QED BY <1>1, <1>2, <2>1, <2>2 DEF StoreInv, DirInv
<1>6. CallInv'
  BY <1>1, <1>3 DEF StoreInv, CallInv, Candidate
<1> QED BY <1>4, <1>5, <1>6 DEF StoreInv

(* A new temporary file.                                                   *)
LEMMA OpenStep ==
  ASSUME StoreInv, OpenTemp
  PROVE  StoreInv'
<1> USE DEF NoFile
<1>0. io.step = "open" /\ io \in Calls /\ dir \in Dirs /\ Len(files) \in Nat
  BY DEF OpenTemp, StoreInv, StoreTypes
<1>1. CASE Fault /\ Step("FAILED") /\ UNCHANGED <<files, dir, onDisk>>
  <2>1. /\ UNCHANGED <<files, dir, onDisk, staged, litter, published, settled, power>>
        /\ faults' = faults + 1 /\ faults \in Nat
        /\ io' \in Calls /\ io'.step = "FAILED" /\ io'.op = io.op
    BY <1>0, <1>1 DEF OpenTemp, Fault, Step, Calls, StoreInv, StoreTypes
  <2>2. io'.op \in {"persist", "stage"}
    BY <1>0, <2>1 DEF StoreInv, CallInv
  <2>3. StoreTypes' /\ FileInv'
    BY <2>1 DEF StoreInv, StoreTypes, FileInv, Durable, Exists, Unpublished
  <2>4. DirInv'
    <3>1. /\ \A d \in onDisk' : \E k \in (settled..Len(published))' : d.run = Version(k)'
          /\ power' => dir'.run = Version(Len(published))'
      BY <2>1, NamesStand DEF StoreInv
    <3>2. ~Candidate
      BY <1>0 DEF Candidate
    <3> QED BY <2>1, <3>1, <3>2 DEF StoreInv, DirInv
  <2>5. CallInv'
    BY <2>1, <2>2 DEF CallInv, Candidate
  <2> QED BY <2>3, <2>4, <2>5 DEF StoreInv
<1>2. CASE /\ files' = Append(files, [record |-> io.record, state |-> "empty"])
           /\ Rename([dir EXCEPT !.temps = @ \cup {Len(files')}])
           /\ io' = [io EXCEPT !.step = "write", !.file = Len(files')]
           /\ faults' = faults
  <2> DEFINE n == Len(files)
  <2>1. io.record \in Records /\ io.op \in {"persist", "stage"}
    BY <1>0 DEF StoreInv, CallInv
  <2>2. /\ files \in Seq(Files) /\ files' \in Seq(Files) /\ Len(files') = n + 1
        /\ files'[n + 1].record = io.record /\ \A g \in 1..n : files'[g] = files[g]
    <3>1. [record |-> io.record, state |-> "empty"] \in Files
      BY <2>1 DEF Files
    <3> QED BY <1>2, <3>1 DEF StoreInv, StoreTypes
  <2>3. /\ io' \in Calls /\ io'.step = "write" /\ io'.op = io.op /\ io'.file = n + 1
        /\ io'.record = io.record
    <3>1. io' = [io EXCEPT !.step = "write", !.file = n + 1] /\ n + 1 \in Nat
      BY <1>0, <1>2, <2>2
    <3> HIDE DEF n
    <3> QED BY <1>0, <3>1 DEF Calls
  <2>4. /\ UNCHANGED <<staged, litter, published, settled, power, faults>>
        /\ dir'.run = dir.run /\ dir'.temps = dir.temps \cup {n + 1}
        /\ dir' \in Dirs /\ onDisk' = onDisk \cup {dir'}
    BY <1>0, <1>2, <2>2 DEF OpenTemp, Rename, Dirs
  <2>5. StoreTypes'
    BY <2>2, <2>3, <2>4 DEF StoreInv, StoreTypes
  <2>6. FileInv'
    BY <2>2, <2>4 DEF StoreInv, FileInv, Durable, Exists, Unpublished
  <2>7. DirInv'
    <3>1. /\ \A d \in onDisk' : \E k \in (settled..Len(published))' : d.run = Version(k)'
          /\ power' => dir'.run = Version(Len(published))'
      BY <2>4, NamesStand DEF StoreInv
    <3>2. ~Candidate /\ Candidate'
      BY <1>0, <2>3 DEF Candidate
    <3> QED BY <2>3, <2>4, <3>1, <3>2 DEF StoreInv, DirInv
  <2>8. CallInv'
    <3> HIDE DEF n
    <3>1. n + 1 \in 1..Len(files') /\ n + 1 # 0
      BY <1>0, <2>2 DEF n
    <3>2. staged # n + 1
      BY <1>0, <3>1 DEF StoreInv, FileInv, Durable, Exists, n
    <3>3. \A k \in 1..Len(published) : published[k] # n + 1
      BY <1>0 DEF StoreInv, FileInv, Durable, Exists, n
    <3>4. /\ Exists(io.file)' /\ Unpublished(io.file)' /\ io'.file # staged'
          /\ files'[io'.file].record = io'.record
      BY <2>2, <2>3, <2>4, <3>1, <3>2, <3>3 DEF Exists, Unpublished
    <3>5. faults' = 0 => settled' = Len(published')
      BY <1>0, <2>4 DEF StoreInv, CallInv
    <3> QED BY <2>1, <2>3, <3>4, <3>5 DEF CallInv, Candidate
  <2> QED BY <2>5, <2>6, <2>7, <2>8 DEF StoreInv
<1> QED BY <1>1, <1>2 DEF OpenTemp

(* The failure of a call on a candidate: it is discarded.                  *)
LEMMA DiscardStep ==
  ASSUME StoreInv, Candidate, Fault, Step("FAILED"), Unlink(io.file), files' = files,
         UNCHANGED <<published, settled, power>>,
         staged' = IF io.op = "commit" THEN NoFile ELSE staged
  PROVE  StoreInv'
<1> USE DEF NoFile
<1>1. /\ faults' = faults + 1 /\ faults \in Nat /\ io \in Calls
      /\ io' \in Calls /\ io'.step = "FAILED" /\ io'.op = io.op
  BY DEF Fault, Step, Calls, StoreInv, StoreTypes
<1>2. /\ dir' \in onDisk' /\ onDisk' \subseteq Dirs /\ litter' \subseteq Nat
      /\ dir'.run = dir.run
      /\ \A d \in onDisk' : d \in onDisk \/ d.run = dir.run
      /\ dir'.temps \subseteq litter' \cup (dir.temps \ {io.file})
      /\ litter \subseteq litter'
  BY <1>1, UnlinkKeeps DEF StoreInv, StoreTypes, Calls
<1>3. io.op = "commit" => io.file = staged
  BY DEF StoreInv, CallInv, Candidate
<1>4. StoreTypes' /\ FileInv'
  BY <1>1, <1>2 DEF StoreInv, StoreTypes, FileInv, Durable, Exists, Unpublished
<1>5. DirInv'
  <2>1. /\ \A d \in onDisk' : \E k \in (settled..Len(published))' : d.run = Version(k)'
        /\ power' => dir'.run = Version(Len(published))'
    BY <1>2, NamesStand DEF StoreInv
  <2>2. power => dir'.temps \subseteq litter' \cup {staged'}
    BY <1>2, <1>3 DEF StoreInv, DirInv
  <2> QED BY <2>1, <2>2 DEF DirInv
<1>6. CallInv'
  BY <1>1 DEF CallInv, Candidate
<1> QED BY <1>4, <1>5, <1>6 DEF StoreInv

(* write and fsync of a candidate.                                         *)
LEMMA FillStep ==
  ASSUME StoreInv, WriteTemp \/ SyncTemp
  PROVE  StoreInv'
<1> USE DEF NoFile
<1>0. /\ io.step \in {"write", "sync"} /\ io \in Calls /\ Candidate
      /\ io.op \in {"persist", "stage"} /\ Exists(io.file) /\ Unpublished(io.file)
      /\ io.file # staged /\ files[io.file].record = io.record
  BY DEF WriteTemp, SyncTemp, Fill, StoreInv, StoreTypes, CallInv, Candidate
<1>1. CASE Fault /\ Step("FAILED") /\ Unlink(io.file) /\ files' = files
  <2>1. UNCHANGED <<staged, published, settled, power>>
    BY DEF WriteTemp, SyncTemp, Fill
  <2> QED BY <1>0, <1>1, <2>1, DiscardStep
<1>2. ASSUME NEW state \in {"written", "durable"}, NEW to,
             files' = [files EXCEPT ![io.file].state = state],
             Step(to), UNCHANGED <<dir, onDisk, faults, litter, staged, published, settled, power>>,
             \/ to = "sync"
             \/ state = "durable" /\ to = Prepared
      PROVE  StoreInv'
  <2>1. /\ files' \in Seq(Files) /\ Len(files') = Len(files)
        /\ \A g \in 1..Len(files) : /\ files'[g].record = files[g].record
                                    /\ g # io.file => files'[g] = files[g]
        /\ files'[io.file].state = state
    BY <1>0, <1>2, FillFiles DEF Exists, StoreInv, StoreTypes
  <2>2. /\ io' \in Calls /\ io'.step = to /\ io'.op = io.op /\ io'.file = io.file
        /\ io'.record = io.record /\ to \in {"sync", "swap", "replace"}
        /\ to = "swap" => io.op = "stage" /\ state = "durable"
        /\ to = "replace" => io.op = "persist" /\ state = "durable"
    BY <1>0, <1>2 DEF Step, Calls, Prepared
  <2>3. StoreTypes'
    BY <1>2, <2>1, <2>2 DEF StoreInv, StoreTypes
  <2>4. FileInv'
    BY <1>0, <1>2, <2>1 DEF StoreInv, FileInv, Durable, Exists, Unpublished
  <2>5. DirInv'
    <3>1. /\ \A d \in onDisk' : \E k \in (settled..Len(published))' : d.run = Version(k)'
          /\ power' => dir'.run = Version(Len(published))'
      BY <1>2, NamesStand DEF StoreInv
    <3>2. Candidate'
      BY <2>2 DEF Candidate
    <3> QED BY <1>0, <1>2, <2>2, <3>1, <3>2 DEF StoreInv, DirInv
  <2>6. CallInv'
    <3>1. faults' = 0 => settled' = Len(published')
      BY <1>0, <1>2 DEF StoreInv, CallInv
    <3>2. Exists(io.file)' /\ Unpublished(io.file)' /\ files'[io.file].record = io.record
      BY <1>0, <1>2, <2>1, <2>2 DEF Exists, Unpublished
    <3> QED BY <1>0, <1>2, <2>1, <2>2, <3>1, <3>2 DEF CallInv, Candidate, Durable
  <2> QED BY <2>3, <2>4, <2>5, <2>6 DEF StoreInv
<1>3. CASE WriteTemp
  BY <1>1, <1>2, <1>3 DEF WriteTemp, Fill
<1>4. CASE SyncTemp
  BY <1>1, <1>2, <1>4 DEF SyncTemp, Fill
<1> QED BY <1>3, <1>4

(* The new candidate is kept, the one before it discarded.                 *)
LEMMA SwapStep ==
  ASSUME StoreInv, Swap
  PROVE  StoreInv'
<1> USE DEF NoFile
<1>0. /\ io.step = "swap" /\ io \in Calls /\ io.op = "stage" /\ Candidate
      /\ Durable(io.file) /\ Unpublished(io.file)
      /\ io.file # staged /\ files[io.file].record = io.record
  BY DEF Swap, StoreInv, StoreTypes, CallInv, Candidate
<1>1. /\ UNCHANGED <<files, faults, published, settled, power>> /\ staged' = io.file
      /\ io' \in Calls /\ io'.step = "OK" /\ io'.op = "stage" /\ io'.file = io.file
      /\ io'.record = io.record
  BY <1>0 DEF Swap, Step, Calls
<1>2. /\ dir' \in onDisk' /\ onDisk' \subseteq Dirs /\ litter' \subseteq Nat
      /\ dir'.run = dir.run
      /\ \A d \in onDisk' : d \in onDisk \/ d.run = dir.run
      /\ dir'.temps \subseteq litter' \cup (dir.temps \ {staged})
      /\ litter \subseteq litter'
  <2>1. CASE staged = NoFile
    <3>1. UNCHANGED <<dir, onDisk, litter>> /\ dir \in Dirs
      BY <2>1 DEF Swap, StoreInv, StoreTypes
    <3>2. 0 \notin dir.temps
      BY <3>1 DEF Dirs
    <3> QED BY <2>1, <3>1, <3>2 DEF StoreInv, StoreTypes
  <2>2. CASE staged # NoFile
    BY <2>2, UnlinkKeeps DEF Swap, StoreInv, StoreTypes
  <2> QED BY <2>1, <2>2
<1>3. StoreTypes' /\ FileInv'
  <2>1. io.file \in Nat
    BY <1>0 DEF Calls
  <2> QED BY <1>0, <1>1, <1>2, <2>1 DEF StoreInv, StoreTypes, FileInv, Durable, Exists, Unpublished
<1>4. DirInv'
  <2>1. /\ \A d \in onDisk' : \E k \in (settled..Len(published))' : d.run = Version(k)'
        /\ power' => dir'.run = Version(Len(published))'
    BY <1>1, <1>2, NamesStand DEF StoreInv
  <2> QED BY <1>0, <1>1, <1>2, <2>1 DEF StoreInv, DirInv
<1>5. CallInv'
  <2>1. faults' = 0 => settled' = Len(published')
    BY <1>0, <1>1 DEF StoreInv, CallInv
  <2>2. io.file # NoFile
    BY <1>0 DEF Durable, Exists
  <2> QED BY <1>0, <1>1, <2>1, <2>2 DEF CallInv, Candidate
<1> QED BY <1>3, <1>4, <1>5 DEF StoreInv

(* The candidate becomes run.json.                                         *)
LEMMA ReplaceStep ==
  ASSUME StoreInv, Replace
  PROVE  StoreInv'
<1> USE DEF NoFile
<1>n. PICK N \in Nat : N = Len(published)
  BY DEF StoreInv, StoreTypes
<1>0. /\ io.step = "replace" /\ io \in Calls /\ io.op \in {"persist", "commit"} /\ Candidate
      /\ Durable(io.file) /\ Unpublished(io.file)
      /\ io.op = "commit" => io.file = staged
      /\ io.op = "persist" => io.file # staged /\ files[io.file].record = io.record
  BY DEF Replace, StoreInv, StoreTypes, CallInv, Candidate
<1>1. /\ UNCHANGED <<files, settled, power>>
      /\ staged' = IF io.op = "commit" THEN NoFile ELSE staged
  BY DEF Replace
<1>2. CASE Fault /\ Step("FAILED") /\ Unlink(io.file) /\ published' = published
  BY <1>0, <1>1, <1>2, DiscardStep
<1>3. CASE /\ Rename([run |-> io.file, temps |-> dir.temps \ {io.file}])
           /\ published' = Append(published, io.file)
           /\ Step("syncDirectory") /\ UNCHANGED <<faults, litter>>
  <2>1. /\ published \in Seq(Nat) /\ N \in Nat /\ settled \in Nat /\ settled <= N
        /\ dir \in Dirs /\ io.file \in Nat
    BY <1>n, <1>0 DEF StoreInv, StoreTypes, Calls
  <2>2. /\ published' \in Seq(Nat) /\ Len(published') = N + 1
        /\ published'[N + 1] = io.file /\ \A k \in 1..N : published'[k] = published[k]
    BY <1>n, <1>3, <2>1
  <2>3. /\ dir'.run = io.file /\ dir'.temps = dir.temps \ {io.file} /\ dir' \in Dirs
        /\ onDisk' = onDisk \cup {dir'}
    BY <1>3, <2>1 DEF Rename, Dirs
  <2>4. /\ io' \in Calls /\ io'.step = "syncDirectory" /\ io'.op = io.op /\ io'.file = io.file
        /\ io'.record = io.record
    BY <1>0, <1>3 DEF Step, Calls
  <2>5. StoreTypes'
    <3>1. settled' <= Len(published') /\ staged' \in Nat
      BY <1>1, <2>1, <2>2 DEF StoreInv, StoreTypes
    <3> QED BY <1>1, <1>3, <2>2, <2>3, <2>4, <3>1 DEF StoreInv, StoreTypes
  <2>6. FileInv'
    <3>1. \A j \in 1..N : published[j] # io.file
      BY <1>n, <1>0 DEF Unpublished
    <3>2. \A j, k \in 1..N : published[j] = published[k] => j = k
      BY <1>n DEF StoreInv, FileInv
    <3>3. \A j, k \in 1..(N + 1) : published'[j] = published'[k] => j = k
      <4> TAKE j, k \in 1..(N + 1)
      <4>1. (j \in 1..N \/ j = N + 1) /\ (k \in 1..N \/ k = N + 1)
        BY <2>1
      <4> QED BY <2>2, <3>1, <3>2, <4>1
    <3>4. \A k \in 1..N : Durable(published[k])
      BY <1>n DEF StoreInv, FileInv
    <3>5. \A k \in 1..(N + 1) : Durable(published[k])'
      <4> TAKE k \in 1..(N + 1)
      <4>1. k \in 1..N \/ k = N + 1
        BY <2>1
      <4> QED BY <1>0, <1>1, <2>2, <3>4, <4>1 DEF Durable, Exists
    <3>6. staged' # NoFile => Durable(staged)' /\ Unpublished(staged)'
      <4> SUFFICES ASSUME staged' # NoFile PROVE Durable(staged)' /\ Unpublished(staged)'
        OBVIOUS
      <4>1. io.op = "persist" /\ staged' = staged /\ staged # io.file
            /\ Durable(staged) /\ Unpublished(staged)
        BY <1>0, <1>1 DEF StoreInv, FileInv
      <4>2. \A k \in 1..(N + 1) : published'[k] # staged
        <5> TAKE k \in 1..(N + 1)
        <5>1. k \in 1..N \/ k = N + 1
          BY <2>1
        <5> QED BY <1>n, <2>2, <4>1, <5>1 DEF Unpublished
      <4> QED BY <1>1, <2>2, <4>1, <4>2 DEF Durable, Exists, Unpublished
    <3> QED BY <2>2, <3>3, <3>5, <3>6 DEF FileInv
  <2>7. DirInv'
    <3>1. \A d \in onDisk : \E k \in settled..N : d.run = Version(k)
      BY <1>n DEF StoreInv, DirInv
    <3>2. \A k \in 0..N : Version(k)' = Version(k)
      <4> TAKE k \in 0..N
      <4>1. k = 0 \/ k \in 1..N
        BY <2>1
      <4> QED BY <2>2, <4>1 DEF Version
    <3>3. Version(N + 1)' = io.file
      BY <2>1, <2>2 DEF Version
    <3>4. \A d \in onDisk' : \E k \in settled..(N + 1) : d.run = Version(k)'
      <4> TAKE d \in onDisk'
      <4>1. CASE d \in onDisk
        <5>1. PICK k \in settled..N : d.run = Version(k)
          BY <3>1, <4>1
        <5>2. k \in 0..N /\ k \in settled..(N + 1)
          BY <2>1
        <5> QED BY <3>2, <5>1, <5>2
      <4>2. CASE d = dir'
        <5>1. N + 1 \in settled..(N + 1) /\ d.run = Version(N + 1)'
          BY <2>1, <2>3, <3>3, <4>2
        <5> QED BY <5>1
      <4> QED BY <2>3, <4>1, <4>2
    <3>5. power' => dir'.temps \subseteq litter' \cup {staged'}
      BY <1>0, <1>1, <1>3, <2>3 DEF StoreInv, DirInv
    <3>6. dir'.run = Version(Len(published))'
      BY <2>1, <2>2, <2>3 DEF Version
    <3>7. \A d \in onDisk' : \E k \in (settled..Len(published))' : d.run = Version(k)'
      BY <1>1, <2>2, <3>4
    <3> QED BY <2>4, <3>5, <3>6, <3>7 DEF DirInv, Candidate
  <2>8. CallInv'
    <3>1. faults' = 0 => settled' + 1 = Len(published')
      BY <1>n, <1>0, <1>1, <1>3, <2>2 DEF StoreInv, CallInv
    <3>2. Len(published') > 0 /\ published'[Len(published')] = io'.file
      BY <2>1, <2>2, <2>4
    <3> QED BY <1>0, <1>1, <2>4, <3>1, <3>2 DEF CallInv, Candidate
  <2> QED BY <2>5, <2>6, <2>7, <2>8 DEF StoreInv
<1> QED BY <1>2, <1>3 DEF Replace

(* fsync of the directory, which may fail unnoticed.                       *)
LEMMA SyncDirectoryStep ==
  ASSUME StoreInv, power, SyncDirectory
  PROVE  StoreInv'
<1> USE DEF NoFile
<1>0. /\ io.step = "syncDirectory" /\ io \in Calls /\ io.op \in {"persist", "commit"}
      /\ Len(published) > 0 /\ published[Len(published)] = io.file
      /\ io.op = "persist" => files[io.file].record = io.record
      /\ io.op = "commit" => staged = NoFile
      /\ ~Candidate
  BY DEF SyncDirectory, StoreInv, StoreTypes, CallInv, Candidate
<1>1. /\ UNCHANGED <<files, dir, staged, litter, published, power>>
      /\ io' \in Calls /\ io'.step = "OK" /\ io'.op = io.op /\ io'.file = io.file
      /\ io'.record = io.record
  BY <1>0 DEF SyncDirectory, Step, Calls
<1>2. \/ onDisk' = {dir} /\ settled' = Len(published) /\ faults' = faults
      \/ faults' = faults + 1 /\ UNCHANGED <<onDisk, settled>>
  BY DEF SyncDirectory, Fault
<1>3. StoreTypes'
  BY <1>1, <1>2 DEF StoreInv, StoreTypes
<1>4. FileInv'
  BY <1>1 DEF StoreInv, FileInv, Durable, Exists, Unpublished
<1>5. DirInv'
  <2>1. /\ \A d \in onDisk : \E k \in settled..Len(published) : d.run = Version(k)
        /\ dir.run = Version(Len(published)) /\ Len(published) \in Nat
        /\ dir.temps \subseteq litter \cup {staged}
    BY <1>0 DEF StoreInv, DirInv, StoreTypes
  <2>2. \A k : Version(k)' = Version(k)
    BY <1>1 DEF Version
  <2>3. \A d \in onDisk' : \E k \in settled'..Len(published) : d.run = Version(k)
    <3>1. Len(published) \in Len(published)..Len(published)
      BY <2>1
    <3> QED BY <1>2, <2>1, <3>1
  <2> QED BY <1>1, <2>1, <2>2, <2>3 DEF DirInv
<1>6. CallInv'
  <2>1. faults' = 0 => settled' = Len(published')
    BY <1>1, <1>2 DEF StoreInv, StoreTypes
  <2> QED BY <1>0, <1>1, <2>1 DEF CallInv, Candidate
<1> QED BY <1>3, <1>4, <1>5, <1>6 DEF StoreInv

(* The power goes.                                                         *)
LEMMA PowerStep ==
  ASSUME StoreInv, LosePower
  PROVE  StoreInv'
<1>1. /\ UNCHANGED <<files, io, staged, faults, litter, published, settled>>
      /\ power' = FALSE /\ dir' \in onDisk /\ onDisk' = {dir'}
  BY DEF LosePower
<1>2. StoreTypes' /\ FileInv' /\ CallInv'
  BY <1>1 DEF StoreInv, StoreTypes, FileInv, CallInv, Durable, Exists, Unpublished, Candidate
<1>3. DirInv'
  <2>1. \A k : Version(k)' = Version(k)
    BY <1>1 DEF Version
  <2> QED BY <1>1, <2>1 DEF StoreInv, DirInv
<1> QED BY <1>2, <1>3 DEF StoreInv

(* Whatever the calls, the files keep their invariant.                     *)
LEMMA StoreStep ==
  ASSUME StoreInv, \/ StoreCall
                   \/ power /\ SystemCall
                   \/ LosePower
  PROVE  StoreInv'
<1>1. CASE UNCHANGED storeVars
  <2>1. UNCHANGED <<files, dir, onDisk, io, staged, faults, litter, published, settled, power>>
    BY <1>1 DEF storeVars
  <2>2. \A k : Version(k)' = Version(k)
    BY <2>1 DEF Version
  <2>3. StoreTypes' /\ FileInv' /\ CallInv'
    BY <2>1 DEF StoreInv, StoreTypes, FileInv, CallInv, Durable, Exists, Unpublished, Candidate
  <2>4. DirInv'
    BY <2>1, <2>2 DEF StoreInv, DirInv, Candidate
  <2> QED BY <2>3, <2>4 DEF StoreInv
<1>2. CASE StoreCall
  BY <1>1, <1>2, CallStep, AbortStep DEF StoreCall
<1>3. CASE power /\ SystemCall
  BY <1>3, OpenStep, FillStep, SwapStep, ReplaceStep, SyncDirectoryStep DEF SystemCall
<1>4. CASE LosePower
  BY <1>4, PowerStep
<1> QED BY <1>2, <1>3, <1>4

-----------------------------------------------------------------------------
(* The contract of run.json.  The mapping reads the log off the files that *)
(* were published, which are complete, and the visible version off the     *)
(* name run.json.                                                          *)

RunLog == [k \in DOMAIN published |-> Readable(published[k])]
Seen == IF dir.run = NoFile THEN 0 ELSE CHOOSE k \in DOMAIN published : published[k] = dir.run

(* A name that is one of pairwise distinct files tells which one.          *)
LEMMA WhichVersion ==
  ASSUME NEW p \in Seq(Nat), \A j, k \in 1..Len(p) : p[j] = p[k] => j = k,
         \A k \in 1..Len(p) : p[k] # 0,
         NEW m \in 0..Len(p), NEW r, r = IF m = 0 THEN 0 ELSE p[m]
  PROVE  (IF r = 0 THEN 0 ELSE CHOOSE k \in DOMAIN p : p[k] = r) = m
<1>1. CASE m = 0
  BY <1>1
<1>2. CASE m # 0
  <2>1. m \in 1..Len(p) /\ r = p[m] /\ r # 0 /\ DOMAIN p = 1..Len(p)
    BY <1>2
  <2>2. \A k \in DOMAIN p : p[k] = r => k = m
    BY <2>1
  <2>3. (CHOOSE k \in DOMAIN p : p[k] = r) = m
    BY <2>1, <2>2
  <2> QED BY <2>1, <2>3
<1> QED BY <1>1, <1>2

(* So the version that is seen is the one the directory names.             *)
LEMMA SeenIs ==
  ASSUME StoreInv, NEW m \in 0..Len(published), dir.run = Version(m)
  PROVE  Seen = m
<1>1. \A k \in 1..Len(published) : published[k] # 0
  BY DEF StoreInv, FileInv, Durable, Exists
<1> QED BY <1>1, WhichVersion DEF StoreInv, StoreTypes, FileInv, Version, Seen, NoFile

(* The same after a step.                                                  *)
LEMMA SeenIsNext ==
  ASSUME StoreInv', NEW m \in (0..Len(published))', dir'.run = Version(m)'
  PROVE  Seen' = m
<1>1. \A k \in 1..Len(published') : published'[k] # 0
  BY DEF StoreInv, FileInv, Durable, Exists
<1> QED BY <1>1, WhichVersion DEF StoreInv, StoreTypes, FileInv, Version, Seen, NoFile

(* What was published is readable, whatever happened to the power.         *)
LEMMA LogIs ==
  ASSUME StoreInv
  PROVE  RunLog = [k \in 1..Len(published) |-> files[published[k]].record]
<1>1. \A k \in 1..Len(published) : Readable(published[k]) = files[published[k]].record
  BY DEF StoreInv, FileInv, Durable, Readable
<1> QED BY <1>1 DEF RunLog, StoreInv, StoreTypes

(* The same after a step.                                                  *)
LEMMA LogIsNext ==
  ASSUME StoreInv'
  PROVE  RunLog' = [k \in 1..Len(published') |-> files'[published'[k]].record]
<1>1. \A k \in 1..Len(published') : Readable(published[k])' = files'[published'[k]].record
  BY DEF StoreInv, FileInv, Durable, Readable
<1> QED BY <1>1 DEF RunLog, StoreInv, StoreTypes

(* No step but Replace, SyncDirectory and LosePower shows in the contract. *)
LEMMA SilentStep ==
  ASSUME StoreInv, StoreInv', UNCHANGED <<published, settled, power>>, dir'.run = dir.run,
         \A f \in 1..Len(files) : files'[f].record = files[f].record
  PROVE  RunLog' = RunLog /\ Seen' = Seen /\ settled' = settled /\ power' = power
<1>1. \A k \in 1..Len(published) : files'[published'[k]].record = files[published[k]].record
  BY DEF StoreInv, FileInv, Durable, Exists
<1>2. RunLog' = RunLog
  BY <1>1, LogIs, LogIsNext
<1> QED BY <1>2 DEF Seen

(* A function on 1..n is a sequence of length n.                           *)
LEMMA FunctionIsSequence ==
  ASSUME NEW S, NEW n \in Nat, NEW f \in [1..n -> S]
  PROVE  f \in Seq(S) /\ Len(f) = n
<1>1. f \in Seq(S)
  BY SeqDef
<1>2. 1..Len(f) = 1..n /\ Len(f) \in Nat
  BY <1>1, LenProperties
<1> QED BY <1>1, <1>2

(* Publication appends a complete record and shows it.                     *)
LEMMA PublishStep ==
  ASSUME StoreInv, StoreInv', power, Replace, published' = Append(published, io.file)
  PROVE  Contract!Publish
<1>n. PICK N \in Nat : N = Len(published)
  BY DEF StoreInv, StoreTypes
<1>1. /\ io.step = "replace" /\ io.file \in Nat /\ Candidate /\ published \in Seq(Nat)
      /\ files' = files /\ settled' = settled /\ power' = power
  BY DEF Replace, StoreInv, StoreTypes, Calls, Candidate
<1>2. Durable(io.file) /\ files \in Seq(Files)
  BY <1>1 DEF StoreInv, StoreTypes, CallInv
<1>3. /\ Len(published') = N + 1 /\ published'[N + 1] = io.file
      /\ \A k \in 1..N : published'[k] = published[k]
  BY <1>n, <1>1
<1>4. files[io.file].record \in Records
  <2>1. files[io.file] \in Files
    BY <1>2 DEF Durable, Exists
  <2> QED BY <2>1 DEF Files
<1> DEFINE r == files[io.file].record
<1>5. r # Torn
  BY <1>4 DEF Records, Torn
<1>6. /\ RunLog = [k \in 1..N |-> files[published[k]].record]
      /\ RunLog' = [k \in 1..(N + 1) |-> files[published'[k]].record]
  BY <1>n, <1>1, <1>3, LogIs, LogIsNext
<1>7. /\ Len(RunLog') = N + 1 /\ RunLog'[N + 1] = r /\ RunLog' # <<>>
  <2> DEFINE S == {files[published'[k]].record : k \in 1..(N + 1)}
  <2>1. RunLog' \in [1..(N + 1) -> S]
    BY <1>6
  <2> HIDE DEF S
  <2>2. RunLog' \in Seq(S) /\ Len(RunLog') = N + 1
    BY <2>1, FunctionIsSequence
  <2>3. RunLog'[N + 1] = r
    BY <1>3, <1>6
  <2> QED BY <2>2, <2>3
<1>8. SubSeq(RunLog', 1, N) = RunLog
  <2> DEFINE S == {files[published'[k]].record : k \in 1..(N + 1)}
  <2>1. \A k \in 1..N : RunLog'[k] = RunLog[k] /\ RunLog[k] \in S
    BY <1>3, <1>6
  <2>2. RunLog \in [1..N -> S]
    BY <1>6, <2>1
  <2> HIDE DEF S
  <2>3. RunLog \in Seq(S) /\ Len(RunLog) = N
    BY <2>2, FunctionIsSequence
  <2>4. /\ SubSeq(RunLog', 1, N) \in Seq(S) /\ Len(SubSeq(RunLog', 1, N)) = N
        /\ \A k \in 1..N : SubSeq(RunLog', 1, N)[k] = RunLog'[k]
    <3>1. \A k \in 1..N : RunLog'[k] \in S
      BY <2>1
    <3> QED BY <3>1, SubSeqProperties
  <2> QED BY <2>1, <2>3, <2>4, SeqEqual
<1>9. Seen' = N + 1
  <2>1. dir'.run = Version(Len(published))' /\ Len(published') \in (0..Len(published))'
    BY <1>1, <1>3 DEF StoreInv, DirInv
  <2> QED BY <1>3, <2>1, SeenIsNext
<1>10. Contract!Front(RunLog') = RunLog /\ Contract!Last(RunLog') # Torn
  BY <1>5, <1>7, <1>8 DEF Contract!Front, Contract!Last
<1>11. RunLog' # <<>> /\ Seen' = Len(RunLog')
  BY <1>7, <1>9
<1> QED BY <1>1, <1>10, <1>11 DEF Contract!Publish, RunLog, Seen

(* What a step of the store may do to the files.                           *)
LEMMA StoreFrame ==
  ASSUME StoreInv, StoreCall \/ (power /\ SystemCall) \/ LosePower
  PROVE  /\ Len(files) <= Len(files')
         /\ \A f \in 1..Len(files) : files'[f].record = files[f].record
         /\ faults' = 0 => faults = 0
         /\ settled <= settled'
         /\ published' = published \/ (Replace /\ published' = Append(published, io.file))
<1> USE DEF StoreInv, StoreTypes
<1>1. CASE StoreCall
  <2>1. UNCHANGED <<files, faults, settled, published>>
    BY <1>1 DEF StoreCall, Persist, StageFinal, CommitFinal, Call, Returns, AbortFinal, storeVars
  <2> QED BY <2>1
<1>2. CASE OpenTemp
  <2>1. UNCHANGED <<published, settled>> /\ (faults' = faults \/ faults' = faults + 1)
    BY <1>2 DEF OpenTemp, Fault
  <2>2. CASE files' = files
    BY <2>1, <2>2
  <2>3. CASE files' = Append(files, [record |-> io.record, state |-> "empty"])
    BY <2>1, <2>3
  <2> QED BY <1>2, <2>2, <2>3 DEF OpenTemp
<1>3. CASE WriteTemp \/ SyncTemp
  <2>1. UNCHANGED <<published, settled>> /\ (faults' = faults \/ faults' = faults + 1)
    BY <1>3 DEF WriteTemp, SyncTemp, Fill, Fault
  <2>2. Exists(io.file)
    BY <1>3 DEF WriteTemp, SyncTemp, Fill, CallInv, Candidate
  <2>3. CASE files' = files
    BY <2>1, <2>3
  <2>4. ASSUME NEW s \in {"written", "durable"}, files' = [files EXCEPT ![io.file].state = s]
        PROVE  Len(files') = Len(files) /\ \A f \in 1..Len(files) : files'[f].record = files[f].record
    BY <2>2, <2>4, FillFiles DEF Exists
  <2>5. files' = files \/ \E s \in {"written", "durable"} : files' = [files EXCEPT ![io.file].state = s]
    BY <1>3 DEF WriteTemp, SyncTemp, Fill
  <2>6. Len(files) \in Nat
    OBVIOUS
  <2> QED BY <2>1, <2>3, <2>4, <2>5, <2>6
<1>4. CASE Swap
  <2>1. UNCHANGED <<files, faults, settled, published>>
    BY <1>4 DEF Swap
  <2> QED BY <2>1
<1>5. CASE Replace
  <2>1. UNCHANGED <<files, settled>> /\ (faults' = faults \/ faults' = faults + 1)
        /\ (published' = published \/ published' = Append(published, io.file))
    BY <1>5 DEF Replace, Fault
  <2> QED BY <1>5, <2>1
<1>6. CASE power /\ SyncDirectory
  <2>1. UNCHANGED <<files, published>> /\ (faults' = faults \/ faults' = faults + 1)
        /\ (settled' = Len(published) \/ settled' = settled)
    BY <1>6 DEF SyncDirectory, Fault
  <2> QED BY <2>1
<1>7. CASE LosePower
  <2>1. UNCHANGED <<files, faults, settled, published>>
    BY <1>7 DEF LosePower
  <2> QED BY <2>1
<1> QED BY <1>1, <1>2, <1>3, <1>4, <1>5, <1>6, <1>7 DEF SystemCall

(* Every step of the store is a step of the contract, or not visible.      *)
LEMMA ContractStep ==
  ASSUME StoreInv, StoreInv', StoreCall \/ (power /\ SystemCall) \/ LosePower
  PROVE  [Contract!ContractNext]_(Contract!contractVars)
<1> DEFINE Silent == RunLog' = RunLog /\ Seen' = Seen /\ settled' = settled /\ power' = power
<1>0. Silent => UNCHANGED Contract!contractVars
  BY DEF Contract!contractVars, RunLog, Seen
<1>1. \A f \in 1..Len(files) : files'[f].record = files[f].record
  BY StoreFrame
<1>2. ASSUME UNCHANGED <<published, settled, power>>, dir'.run = dir.run
      PROVE  Silent
  BY <1>1, <1>2, SilentStep
<1> HIDE DEF Silent
<1>3. CASE StoreCall
  <2>1. CASE UNCHANGED <<dir, published, settled, power>>
    BY <1>0, <1>2, <2>1
  <2>2. CASE AbortFinal
    <3>1. UNCHANGED <<published, settled, power>> /\ dir'.run = dir.run
      BY <2>2, UnlinkKeeps DEF AbortFinal, StoreInv, StoreTypes
    <3> QED BY <1>0, <1>2, <3>1
  <2> QED BY <1>0, <1>2, <1>3, <2>1, <2>2
          DEF StoreCall, Persist, StageFinal, CommitFinal, Call, Returns, storeVars
<1>4. CASE OpenTemp \/ WriteTemp \/ SyncTemp \/ Swap \/ (Replace /\ published' = published)
  <2>1. io \in Calls /\ dir \in Dirs
    BY DEF StoreInv, StoreTypes
  <2>2. CASE OpenTemp
    <3>1. dir'.run = dir.run
      BY <2>1, <2>2 DEF OpenTemp, Rename, Dirs
    <3> QED BY <1>0, <1>2, <2>2, <3>1 DEF OpenTemp
  <2>3. CASE dir' = dir \/ \E f \in Nat : Unlink(f)
    <3>1. dir'.run = dir.run
      BY <2>3, UnlinkKeeps DEF StoreInv
    <3> QED BY <1>0, <1>2, <1>4, <2>2, <3>1 DEF WriteTemp, SyncTemp, Fill, Swap, Replace
  <2>4. io.file \in Nat /\ staged \in Nat
    BY <2>1 DEF Calls, StoreInv, StoreTypes
  <2>5. ~OpenTemp => dir' = dir \/ \E f \in Nat : Unlink(f)
    <3>1. CASE WriteTemp \/ SyncTemp
      BY <2>4, <3>1 DEF WriteTemp, SyncTemp, Fill
    <3>2. CASE Swap
      BY <2>4, <3>2 DEF Swap
    <3>3. CASE Replace /\ published' = published
      <4>1. published' # Append(published, io.file)
        <5>1. Len(published) \in Nat /\ Len(Append(published, io.file)) = Len(published) + 1
          BY <2>4 DEF StoreInv, StoreTypes
        <5> QED BY <3>3, <5>1
      <4> QED BY <2>4, <3>3, <4>1 DEF Replace
    <3> QED BY <1>4, <3>1, <3>2, <3>3
  <2> QED BY <2>2, <2>3, <2>5
<1>5. CASE power /\ Replace /\ published' = Append(published, io.file)
  BY <1>5, PublishStep DEF Contract!ContractNext
<1>6. CASE power /\ SyncDirectory
  <2>1. /\ io.step = "syncDirectory" /\ UNCHANGED <<files, dir, published, power>>
        /\ Len(published) \in 0..Len(published) /\ dir.run = Version(Len(published))
    BY <1>6 DEF SyncDirectory, StoreInv, StoreTypes, DirInv
  <2>2. Seen = Len(published)
    BY <2>1, SeenIs
  <2>3. RunLog' = RunLog /\ Seen' = Seen
    BY <2>1 DEF RunLog, Readable, Seen
  <2>4. CASE settled' = Len(published)
    BY <1>6, <2>1, <2>2, <2>3, <2>4 DEF Contract!ContractNext, Contract!Settle, RunLog, Seen
  <2>5. CASE settled' = settled
    BY <1>0, <2>1, <2>3, <2>5 DEF Silent
  <2> QED BY <1>6, <2>4, <2>5 DEF SyncDirectory
<1>7. CASE LosePower
  <2>1. /\ power /\ power' = FALSE /\ dir' \in onDisk
        /\ UNCHANGED <<files, published, settled>>
    BY <1>7 DEF LosePower
  <2>2. RunLog' = RunLog
    BY <2>1, LogIs, LogIsNext
  <2>3. Seen = Len(published)
    <3>1. Len(published) \in 0..Len(published) /\ dir.run = Version(Len(published))
      BY <2>1 DEF StoreInv, StoreTypes, DirInv
    <3> QED BY <3>1, SeenIs
  <2>4. PICK m \in settled..Len(published) : dir'.run = Version(m)
    BY <2>1 DEF StoreInv, DirInv
  <2>5. Seen' = m
    <3>1. m \in (0..Len(published))' /\ dir'.run = Version(m)'
      BY <2>1, <2>4 DEF StoreInv, StoreTypes, Version
    <3> QED BY <3>1, SeenIsNext
  <2> QED BY <2>1, <2>2, <2>3, <2>4, <2>5 DEF Contract!ContractNext, Contract!LosePower, RunLog, Seen
<1>8. Replace => published' = published \/ published' = Append(published, io.file)
  BY DEF Replace
<1> QED BY <1>3, <1>4, <1>5, <1>6, <1>7, <1>8 DEF SystemCall

-----------------------------------------------------------------------------
(* The records the run writes.                                             *)

(* What resolve_terminal_outcome, evaluate_final_gate and                  *)
(* resolve_exit_code can give.                                             *)
LEMMA ResolveTypes ==
  ASSUME NEW t \in RunOutcomes, NEW g, NEW cut \in BOOLEAN, NEW p, NEW review
  PROVE  /\ ResolveTerminalOutcome(t, g, cut, p) \in RunOutcomes
         /\ EvaluateFinalGate(review, g, "ref", "ref", p) \in {"APPROVED", "FAILED"}
         /\ \A o \in RunOutcomes, f \in {"APPROVED", "FAILED"} : ResolveExitCode(f, o) \in Int
<1>1. ResolveTerminalOutcome(t, g, cut, p) \in {"LOGGING_ERROR", "GIT_SAFETY_ERROR", "INTERRUPTED", t}
  BY DEF ResolveTerminalOutcome
<1>2. {"LOGGING_ERROR", "GIT_SAFETY_ERROR", "INTERRUPTED"} \subseteq RunOutcomes
  BY DEF RunOutcomes
<1>3. EvaluateFinalGate(review, g, "ref", "ref", p) \in {"APPROVED", "FAILED"}
  BY DEF EvaluateFinalGate
<1>4. \A o \in RunOutcomes, f \in {"APPROVED", "FAILED"} : ResolveExitCode(f, o) \in Int
  BY DEF ResolveExitCode, ExitCodeByOutcome
<1> QED BY <1>1, <1>2, <1>3, <1>4

(* So the three of them together.                                          *)
LEMMA DecisionTypes ==
  ASSUME trigger \in RunOutcomes, NEW cut \in BOOLEAN, NEW p
  PROVE  /\ Decision(cut, p).final \in {"APPROVED", "FAILED"}
         /\ Decision(cut, p).outcome \in RunOutcomes
         /\ Decision(cut, p).exit \in Int
         /\ Decision(cut, p) = [final |-> Decision(cut, p).final,
              outcome |-> Decision(cut, p).outcome, exit |-> Decision(cut, p).exit]
         /\ Decision(cut, p).outcome = ResolveTerminalOutcome(trigger, post, cut, p)
BY ResolveTypes DEF Decision

(* A fallback answers that the publication failed.                         *)
LEMMA FallbackAnswer ==
  ASSUME trigger \in RunOutcomes, NEW cut \in BOOLEAN
  PROVE  LET a == [Decision(cut, "FAILED") EXCEPT !.final = "FAILED"]
         IN a.final = "FAILED" /\ a.exit = 40 /\ a.outcome = "LOGGING_ERROR"
<1>1. ResolveTerminalOutcome(trigger, post, cut, "FAILED") = "LOGGING_ERROR"
  BY DEF ResolveTerminalOutcome, TerminalCauses
<1>2. \A r : EvaluateFinalGate(r, post, "ref", "ref", "FAILED") = "FAILED"
  BY DEF EvaluateFinalGate
<1>3. ResolveExitCode("FAILED", "LOGGING_ERROR") = 40
  BY DEF ResolveExitCode, ExitCodeByOutcome, RunOutcomes, PreflightOutcomes
<1> QED BY <1>1, <1>2, <1>3 DEF Decision

(* Without any failure the outcome of a bootstrap error is that error,     *)
(* unless the target is no longer SAFE.                                    *)
LEMMA ErrorStands ==
  ASSUME NEW e \in RunOutcomes
  PROVE  ResolveTerminalOutcome(e, "SAFE", FALSE, "OK") = e
BY DEF ResolveTerminalOutcome, TerminalCauses

(* The record after the preflight keeps what the preflight learnt.         *)
LEMMA ReadyIs ==
  ASSUME latest \in Records
  PROVE  /\ Ready \in Records /\ Ready.phase = "ARCHITECT"
         /\ Ready.baseline = latest.baseline /\ Ready.issue = latest.issue
<1>1. Ready = [latest EXCEPT !.phase = "ARCHITECT"]
  BY DEF Ready, Transition, Moved, Edges, FailablePhases
<1> QED BY <1>1 DEF Records

(* The record of a failed bootstrap keeps what was learnt, and the error.  *)
LEMMA FailureIs ==
  ASSUME latest \in Records, error \in RunOutcomes
  PROVE  /\ FailureRecord \in Records /\ FailureRecord.phase = "POSTFLIGHT"
         /\ FailureRecord.baseline = latest.baseline /\ FailureRecord.error = error
         /\ FailureRecord.persistence = latest.persistence
<1>1. FailureRecord = [latest EXCEPT !.error = error, !.phase = "POSTFLIGHT"]
  BY DEF FailureRecord, Transition, Moved, FailablePhases
<1> QED BY <1>1 DEF Records

(* The record of an attempt keeps what the preflight learnt.               *)
LEMMA AttemptIs ==
  ASSUME latest \in Records
  PROVE  /\ AttemptRecord \in Records /\ AttemptRecord.phase = latest.phase
         /\ AttemptRecord.baseline = latest.baseline /\ AttemptRecord.issue = latest.issue
<1>1. latest.attempts + 1 \in Nat
  BY DEF Records
<1> QED BY <1>1 DEF AttemptRecord, Records

(* The terminal record keeps it too, and says what finalize_run decided.   *)
LEMMA TerminalIs ==
  ASSUME latest \in Records, trigger \in RunOutcomes, NEW cut \in BOOLEAN
  PROVE  /\ TerminalRecord(cut) \in Records /\ TerminalRecord(cut).phase = "FINISHED"
         /\ TerminalRecord(cut).baseline = latest.baseline
         /\ TerminalRecord(cut).issue = latest.issue
         /\ TerminalRecord(cut).error = latest.error
         /\ Decision(cut, latest.persistence) =
              [final |-> TerminalRecord(cut).final, outcome |-> TerminalRecord(cut).outcome,
               exit |-> TerminalRecord(cut).exit]
<1> DEFINE d == Decision(cut, latest.persistence)
<1>1. /\ d.final \in {"APPROVED", "FAILED"} /\ d.outcome \in RunOutcomes /\ d.exit \in Int
      /\ d = [final |-> d.final, outcome |-> d.outcome, exit |-> d.exit]
  BY DecisionTypes
<1>2. TerminalRecord(cut) = [latest EXCEPT !.phase = "FINISHED", !.final = d.final,
                                           !.outcome = d.outcome, !.exit = d.exit]
  BY DEF TerminalRecord
<1> HIDE DEF d
<1>3. /\ TerminalRecord(cut) \in Records /\ TerminalRecord(cut).phase = "FINISHED"
      /\ TerminalRecord(cut).baseline = latest.baseline
      /\ TerminalRecord(cut).issue = latest.issue /\ TerminalRecord(cut).error = latest.error
      /\ TerminalRecord(cut).final = d.final /\ TerminalRecord(cut).outcome = d.outcome
      /\ TerminalRecord(cut).exit = d.exit
  BY <1>1, <1>2 DEF Records
<1> QED BY <1>1, <1>3 DEF d

-----------------------------------------------------------------------------
(* The run, step by step.                                                  *)

(* The records depend on the run alone.                                    *)
LEMMA RecordsStand ==
  ASSUME UNCHANGED <<latest, error, trigger, post, interrupted>>
  PROVE  /\ Ready' = Ready /\ FailureRecord' = FailureRecord /\ AttemptRecord' = AttemptRecord
         /\ TerminalRecord(interrupted)' = TerminalRecord(interrupted)
BY DEF Ready, FailureRecord, AttemptRecord, TerminalRecord, Decision

(* Every step of the program is one of the store, or leaves it alone.      *)
LEMMA NextIsStoreStep ==
  ASSUME StoreInv, RunInv, [Next]_vars
  PROVE  StoreCall \/ (power /\ SystemCall) \/ LosePower
<1> USE DEF RunInv
<1>0. None \notin RunOutcomes
  BY DEF RunOutcomes, AttemptSignals, PreflightOutcomes, None
<1>1. ASSUME NEW point, NEW r \in Records, PersistAt(point, r)
      PROVE  StoreCall
  BY <1>1 DEF PersistAt, StoreCall
<1>2. ASSUME NEW point, NEW r, NEW q, PersistedAt(point, r, q) \/ PersistFailsAt(point)
      PROVE  StoreCall
  BY <1>2 DEF PersistedAt, PersistFailsAt, StoreCall
<1>3. CASE FirstPersist
  <2>1. CASE at = "persistFirst" /\ PersistAt("persistFirst", latest)
    <3>1. latest \in Records
      BY <2>1 DEF LatestInv, Early, Dead
    <3> QED BY <1>1, <2>1, <3>1
  <2> QED BY <1>2, <1>3, <2>1 DEF FirstPersist, PersistAt
<1>4. CASE ReadyPersist
  <2>1. CASE at = "persistReady" /\ PersistAt("persistReady", Ready)
    <3>1. latest \in Records
      BY <2>1 DEF LatestInv, Early, Dead
    <3> QED BY <1>1, <2>1, <3>1, ReadyIs
  <2>2. CASE Returns("OK")
    BY <2>2 DEF StoreCall
  <2> QED BY <1>2, <1>4, <2>1, <2>2 DEF ReadyPersist, PersistAt
<1>5. CASE Amend
  <2>1. CASE at = "amend" /\ PersistAt("amend", FailureRecord)
    <3>1. latest \in Records
      BY <2>1 DEF LatestInv, Early, Dead
    <3>2. error \in RunOutcomes
      BY <2>1 DEF ErrorInv, RunTypes
    <3> QED BY <1>1, <2>1, <3>1, <3>2, FailureIs
  <2>2. CASE Returns("OK") \/ Returns("FAILED")
    BY <2>2 DEF StoreCall
  <2> QED BY <1>5, <2>1, <2>2 DEF Amend, PersistAt
<1>6. CASE LoopPersist
  <2>1. CASE Persist(AttemptRecord)
    <3>1. latest \in Records
      BY <1>6 DEF LoopPersist, LatestInv, Early, Dead
    <3> QED BY <2>1, <3>1, AttemptIs DEF StoreCall
  <2>2. CASE Returns("OK") \/ Returns("FAILED")
    BY <2>2 DEF StoreCall
  <2> QED BY <1>6, <2>1, <2>2 DEF LoopPersist
<1>7. CASE StageCall
  <2>1. at \in {"stage", "staged", "released"}
    BY <1>7 DEF StageCall
  <2>2. latest \in Records /\ trigger \in RunOutcomes /\ cancelled \in BOOLEAN
    BY <2>1 DEF LatestInv, RunTypes, Early, Dead, Finishing
  <2> QED BY <1>7, <2>2, TerminalIs DEF StageCall, StoreCall
<1>8. CASE StageReturns \/ Commit \/ Fallback
  BY <1>8 DEF StageReturns, Commit, Fallback, StoreCall
<1>9. CASE SystemCall /\ at \notin Dead
  BY <1>9 DEF RunTypes
<1>10. CASE PowerLoss
  BY <1>10 DEF PowerLoss
<1>11. CASE \/ Locate \/ Acquire \/ Initialize \/ CheckBaseline \/ LocateIssue
            \/ VerifyOpenCode \/ LoopEnds \/ Postflight \/ ReleaseLease
            \/ Signal \/ KeyboardInterrupt \/ Kill \/ UNCHANGED vars
  <2>1. UNCHANGED storeVars
    BY <1>11 DEF Locate, Acquire, Initialize, CheckBaseline, LocateIssue, VerifyOpenCode, Learn,
                 LoopEnds, Postflight, ReleaseLease, Signal, KeyboardInterrupt, Kill, vars
  <2> QED BY <2>1 DEF StoreCall
<1> QED BY <1>3, <1>4, <1>5, <1>6, <1>7, <1>8, <1>9, <1>10, <1>11 DEF Next, Program

(* A system call of the store writes the record it was given, and does not *)
(* touch the run.                                                          *)
LEMMA SystemWrites ==
  ASSUME StoreInv, power, SystemCall
  PROVE  /\ power' /\ io'.op = io.op /\ io'.record = io.record /\ io # Idle
         /\ io'.step \in {"write", "sync", "swap", "replace", "syncDirectory", "OK", "FAILED"}
         /\ io.op = "persist" => staged' = staged
         /\ io.op = "commit" => io'.file = io.file
         /\ io.step # "FAILED" /\ io.step # "OK" /\ (io.op = "commit" => io.step # "idle")
<1> USE DEF StoreInv, StoreTypes, Calls
<1>1. io \in Calls /\ Idle.step = "idle"
  BY DEF Idle
<1>2. io.step \in {"open", "write", "sync", "swap", "replace", "syncDirectory"}
  BY DEF SystemCall, OpenTemp, WriteTemp, SyncTemp, Fill, Swap, Replace, SyncDirectory
<1>3. power' = power
  BY DEF SystemCall, OpenTemp, WriteTemp, SyncTemp, Fill, Swap, Replace, SyncDirectory
<1>4. Prepared \in {"swap", "replace"}
  BY DEF Prepared
<1>5. \E s \in {"write", "sync", "swap", "replace", "syncDirectory", "OK", "FAILED"}, f \in Nat :
        io' = [io EXCEPT !.step = s, !.file = f]
  <2>1. \A s : [io EXCEPT !.step = s] = [io EXCEPT !.step = s, !.file = io.file]
    BY <1>1
  <2>2. CASE OpenTemp
    <3>1. CASE io' = [io EXCEPT !.step = "write", !.file = Len(files')] /\ files' = Append(files, [record |-> io.record, state |-> "empty"])
      <4>1. Len(files') \in Nat
        BY <3>1
      <4> QED BY <3>1, <4>1
    <3>2. CASE Step("FAILED")
      BY <1>1, <2>1, <3>2 DEF Step
    <3> QED BY <2>2, <3>1, <3>2 DEF OpenTemp
  <2>3. CASE ~OpenTemp
    <3>1. \E s \in {"write", "sync", "swap", "replace", "syncDirectory", "OK", "FAILED"} : Step(s)
      BY <1>4, <2>3 DEF SystemCall, WriteTemp, SyncTemp, Fill, Swap, Replace, SyncDirectory
    <3>2. io.file \in Nat
      BY <1>1
    <3>3. PICK s \in {"write", "sync", "swap", "replace", "syncDirectory", "OK", "FAILED"} : Step(s)
      BY <3>1
    <3>4. io' = [io EXCEPT !.step = s, !.file = io.file]
      BY <2>1, <3>3 DEF Step
    <3> QED BY <3>2, <3>4
  <2> QED BY <2>2, <2>3
<1>6. io'.op = io.op /\ io'.record = io.record
      /\ io'.step \in {"write", "sync", "swap", "replace", "syncDirectory", "OK", "FAILED"}
  BY <1>1, <1>5
<1>7. io.op = "persist" => staged' = staged
  BY DEF SystemCall, OpenTemp, WriteTemp, SyncTemp, Fill, Swap, Replace, SyncDirectory, CallInv
<1>8. io.op = "commit" => io'.file = io.file
  <2>1. io.op = "commit" => io.step \in {"replace", "syncDirectory"}
    BY <1>2 DEF CallInv
  <2>2. Replace \/ SyncDirectory => \E s : Step(s)
    BY DEF Replace, SyncDirectory
  <2>3. io.op = "commit" => \E s : Step(s)
    BY <2>1, <2>2 DEF SystemCall, OpenTemp, WriteTemp, SyncTemp, Fill, Swap
  <2> QED BY <1>1, <2>3 DEF Step
<1> QED BY <1>1, <1>2, <1>3, <1>6, <1>7, <1>8

(* What a record that is being written, and what it will say.              *)
LEMMA WhatIsWritten ==
  ASSUME RunInv, StoreInv, at \notin Dead, io # Idle, io.op \in {"persist", "commit"},
         io.op = "commit" => io.step # "FAILED"
  PROVE  LET r == IF io.op = "persist" THEN io.record ELSE files[io.file].record
         IN /\ r.phase = "FINISHED" => io.op = "commit" /\ at = "commit"
            /\ latest.phase = "ARCHITECT" => LoopRecord(r)
<1> USE DEF RunInv
<1>1. latest \in Records \cup {NoRecord} /\ latest.phase # "FINISHED"
  BY DEF RunTypes, LatestInv
<1>2. CASE at = "commit"
  <2>1. io.op = "commit" /\ files[io.file].record = TerminalRecord(interrupted)
    BY <1>2 DEF WritingInv
  <2>2. latest \in Records /\ trigger \in RunOutcomes /\ interrupted \in BOOLEAN
    BY <1>2 DEF RunTypes, LatestInv, Early, Dead, Finishing
  <2>3. latest.phase = "ARCHITECT" => latest.baseline /\ latest.issue
    BY DEF LatestInv
  <2> QED BY <1>2, <2>1, <2>2, <2>3, TerminalIs DEF LoopRecord
<1>3. CASE at # "commit"
  <2>1. at \in {"persistFirst", "persistReady", "amend", "loop"} /\ io.op = "persist"
    BY <1>3 DEF WritingInv, RunTypes, Writing, Early, Preparing, Finishing
  <2>2. latest \in Records
    BY <2>1 DEF LatestInv, Early, Dead
  <2>3. CASE at = "persistFirst"
    BY <2>1, <2>3 DEF WritingInv, Writing, LatestInv, Finishing, Dead, Preparing
  <2>4. CASE at = "persistReady"
    BY <2>1, <2>2, <2>4, ReadyIs DEF WritingInv, Writing, LatestInv, Finishing, Dead, Preparing
  <2>5. CASE at = "amend"
    <3>1. error \in RunOutcomes
      BY <2>5 DEF ErrorInv, RunTypes
    <3>2. io.record = FailureRecord /\ latest.phase = "PREFLIGHT"
      BY <2>1, <2>5 DEF WritingInv, Writing, LatestInv
    <3>3. FailureRecord.phase = "POSTFLIGHT"
      BY <2>2, <3>1, FailureIs
    <3> QED BY <2>1, <3>2, <3>3
  <2>6. CASE at = "loop"
    BY <2>1, <2>2, <2>6, AttemptIs DEF WritingInv, Writing, LatestInv, LoopRecord
  <2> QED BY <2>1, <2>3, <2>4, <2>5, <2>6
<1> QED BY <1>2, <1>3

(* While the store works the program waits: what is being written is what  *)
(* it asked for, and what is published is what it may publish there.       *)
LEMMA SystemStep ==
  ASSUME StoreInv, StoreInv', RunInv, at \notin Dead, SystemCall, UNCHANGED runVars
  PROVE  RunInv'
<1> USE DEF RunInv
<1>1. power /\ UNCHANGED <<at, latest, persisted, error, lease, trigger, post, cancelled, interrupted, answer>>
  BY DEF runVars, RunTypes
<1>2. /\ power' /\ io'.op = io.op /\ io'.record = io.record /\ io # Idle
      /\ io'.step \in {"write", "sync", "swap", "replace", "syncDirectory", "OK", "FAILED"}
      /\ io.op = "persist" => staged' = staged
      /\ io.op = "commit" => io'.file = io.file
      /\ io.step # "FAILED" /\ io.step # "OK" /\ (io.op = "commit" => io.step # "idle")
  BY <1>1, SystemWrites
<1>3. /\ Len(files) <= Len(files')
      /\ \A f \in 1..Len(files) : files'[f].record = files[f].record
      /\ faults' = 0 => faults = 0
      /\ settled <= settled'
      /\ published' = published \/ (Replace /\ published' = Append(published, io.file))
  BY <1>1, StoreFrame
<1>4. /\ Ready' = Ready /\ FailureRecord' = FailureRecord /\ AttemptRecord' = AttemptRecord
      /\ TerminalRecord(interrupted)' = TerminalRecord(interrupted)
  BY <1>1, RecordsStand
<1>5. RunTypes' /\ LatestInv'
  BY <1>1, <1>2 DEF RunTypes, LatestInv
<1>6. ErrorInv'
  BY <1>1, <1>3 DEF ErrorInv
<1>7. AnswerInv'
  BY <1>1 DEF AnswerInv, AnsweredAsRecorded, BootstrapErrorIsNamed, Dead
<1>8. WritingInv'
  <2>1. /\ io' # Idle /\ Len(files) \in Nat /\ Len(files') \in Nat /\ io.file \in Nat
        /\ at \notin Early \cup {"baseline", "issue", "verify", "postflight", "done"}
    BY <1>1, <1>2 DEF Idle, WritingInv, StoreInv, StoreTypes, Calls
  <2>2. \A op, r : Writing(op, r) => Writing(op, r)'
    BY <1>2 DEF Writing
  <2>3. at = "commit" => io'.file = io.file /\ io.op = "commit"
    BY <1>2 DEF WritingInv
  <2>4. at = "commit" /\ io'.step # "FAILED" =>
          Exists(io.file)' /\ files'[io.file].record = TerminalRecord(interrupted)
    <3>1. at = "commit" => Exists(io.file) /\ files[io.file].record = TerminalRecord(interrupted)
      BY <1>2 DEF WritingInv
    <3> QED BY <1>3, <2>1, <2>3, <3>1 DEF Exists
  <2> QED BY <1>1, <1>2, <1>4, <2>1, <2>2, <2>3, <2>4 DEF WritingInv, Writing, Exists
<1>9. WrittenInv'
  <2>n. PICK N \in Nat : N = Len(published)
    BY DEF StoreInv, StoreTypes
  <2>1. /\ settled \in Nat /\ settled' \in Nat /\ settled' <= Len(published')
        /\ \A k \in 1..N : published[k] \in 1..Len(files)
    BY <2>n DEF StoreInv, StoreTypes, FileInv, Durable, Exists
  <2>2. \A k \in 1..N : files'[published[k]].record = files[published[k]].record
    BY <1>3, <2>1
  <2>3. CASE published' = published
    <3>1. \A k \in 1..N : Recorded(k)' = Recorded(k)
      BY <2>2, <2>3 DEF Recorded
    <3>2. Committed => io.step = "syncDirectory" /\ at = "commit"
      BY <1>2 DEF Committed
    <3>3. Committed => io'.step = "OK"
      BY <3>2 DEF SystemCall, OpenTemp, WriteTemp, SyncTemp, Fill, Swap, Replace, SyncDirectory, Step, StoreInv, StoreTypes, Calls
    <3>4. Committed => Committed'
      BY <1>1, <3>2, <3>3 DEF Committed
    <3> QED BY <1>1, <1>3, <2>n, <2>1, <2>3, <3>1, <3>4 DEF WrittenInv
  <2>4. CASE Replace /\ published' = Append(published, io.file)
    <3>1. io.step = "replace" /\ io.op \in {"persist", "commit"} /\ io'.step \in {"syncDirectory", "FAILED"}
          /\ io.file \in Nat
      BY <1>1, <1>2, <2>4 DEF Replace, Step, CallInv, StoreInv, StoreTypes, Calls
    <3>2. io'.step = "syncDirectory"
      <4>1. published' # published
        BY <2>4, <2>n, <3>1 DEF StoreInv, StoreTypes
      <4> QED BY <2>4, <3>1, <4>1 DEF Replace, Step, StoreInv, StoreTypes, Calls
    <3>3. /\ Len(published') = N + 1 /\ published'[N + 1] = io.file
          /\ \A k \in 1..N : published'[k] = published[k]
      BY <2>4, <2>n, <3>1 DEF StoreInv, StoreTypes
    <3>4. files' = files /\ settled' = settled
      BY <2>4 DEF Replace
    <3> DEFINE r == files[io.file].record
    <3>5. io.op = "persist" => r = io.record
      BY <3>1 DEF StoreInv, CallInv, Candidate
    <3>6. /\ r.phase = "FINISHED" => io.op = "commit" /\ at = "commit"
          /\ latest.phase = "ARCHITECT" => LoopRecord(r)
      BY <1>2, <3>1, <3>5, WhatIsWritten
    <3>7. (\A k \in 1..N : Recorded(k)' = Recorded(k)) /\ Recorded(N + 1)' = r
      BY <3>3, <3>4 DEF Recorded
    <3> HIDE DEF r
    <3>8. ~Committed
      BY <3>1 DEF Committed
    <3>9. ~Committed' => \A k \in 1..(N + 1) : Recorded(k)'.phase # "FINISHED"
      <4>1. ~Committed' => r.phase # "FINISHED"
        BY <1>1, <3>2, <3>6 DEF Committed
      <4> QED BY <2>n, <3>7, <3>8, <4>1 DEF WrittenInv
    <3>10. latest.phase = "ARCHITECT" =>
             /\ LoopRecord(Recorded(N + 1)')
             /\ faults' = 0 => /\ settled > 0
                               /\ \A k \in settled..(N + 1) : LoopRecord(Recorded(k)')
      <4>1. latest.phase = "ARCHITECT" /\ faults' = 0 =>
              settled > 0 /\ \A k \in settled..N : LoopRecord(Recorded(k))
        BY <1>3, <2>n DEF WrittenInv
      <4> QED BY <2>1, <3>6, <3>7, <4>1
    <3>11. LatestInv /\ at' = at /\ latest' = latest
      BY <1>1
    <3> QED BY <2>n, <3>3, <3>4, <3>9, <3>10, <3>11 DEF WrittenInv, LoopRecord
  <2> QED BY <1>3, <2>3, <2>4
<1> QED BY <1>5, <1>6, <1>7, <1>8, <1>9

(* What is read off the files stays as it is when they do.                 *)
LEMMA StoreRests ==
  ASSUME UNCHANGED <<files, dir, onDisk, published, settled, power>>
  PROVE  (\A k : Recorded(k)' = Recorded(k)) /\ RunJson' = RunJson
BY DEF Recorded, RunJson, Readable

(* A program that is killed, interrupted or deprived of power says nothing *)
(* any more, and changes nothing.                                          *)
LEMMA EndStep ==
  ASSUME StoreInv, RunInv,
         KeyboardInterrupt \/ Kill \/ PowerLoss
  PROVE  RunInv'
<1> USE DEF RunInv
<1>1. /\ UNCHANGED <<latest, persisted, error, trigger, post, cancelled, interrupted>>
      /\ UNCHANGED <<files, io, staged, faults, litter, published, settled>>
      /\ \/ at' \in Dead \ {"done"}
         \/ PowerLoss /\ at' = at /\ at \in Dead /\ answer' = answer
      /\ power' = power \/ (PowerLoss /\ power' = FALSE)
  BY DEF KeyboardInterrupt, Kill, PowerLoss, LosePower, storeVars, Dead
<1>2. RunTypes'
  BY <1>1 DEF RunTypes, Early, Preparing, Finishing, Dead
<1>3. LatestInv' /\ ErrorInv'
  BY <1>1 DEF LatestInv, ErrorInv, Early, Preparing, Finishing, Dead
<1>4. WritingInv'
  BY <1>1 DEF WritingInv, Early, Preparing, Finishing, Dead
<1>5. WrittenInv'
  <2>1. \A k : Recorded(k)' = Recorded(k)
    BY <1>1 DEF Recorded
  <2> QED BY <1>1, <2>1 DEF WrittenInv, Dead
<1>6. AnswerInv'
  BY <1>1 DEF AnswerInv, AnsweredAsRecorded, BootstrapErrorIsNamed, PowerLoss, LosePower, Dead
<1> QED BY <1>2, <1>3, <1>4, <1>5, <1>6

(* A run that ends before it had a record.                                 *)
LEMMA PreInitStep ==
  ASSUME StoreInv, RunInv, at \in Early, UNCHANGED storeVars,
         NEW o, PreInitFailure(o),
         UNCHANGED <<latest, persisted, error, trigger, post, cancelled, interrupted>>
  PROVE  RunInv'
<1> USE DEF RunInv
<1>1. /\ UNCHANGED <<files, dir, onDisk, io, staged, faults, litter, published, settled, power>>
      /\ at' = "done" /\ answer'.final = None
  BY DEF PreInitFailure, storeVars
<1>2. io = Idle /\ published = <<>> /\ staged = NoFile /\ error = None /\ power
  BY DEF WritingInv, ErrorInv, RunTypes, Early, Dead
<1>3. RunTypes' /\ LatestInv' /\ ErrorInv' /\ WritingInv'
  BY <1>1, <1>2 DEF RunTypes, LatestInv, ErrorInv, WritingInv, Early, Preparing, Finishing, Dead
<1>4. WrittenInv'
  <2>1. \A k : Recorded(k)' = Recorded(k)
    BY <1>1, StoreRests
  <2> QED BY <1>1, <2>1 DEF WrittenInv, Dead
<1>5. AnswerInv'
  <2>1. dir.run = NoFile
    BY <1>2 DEF StoreInv, DirInv, Version
  <2>2. RunJson' = NoRecord
    BY <1>1, <2>1 DEF RunJson
  <2> QED BY <1>1, <1>2, <2>2 DEF AnswerInv, AnsweredAsRecorded, BootstrapErrorIsNamed, NoRecord, None
<1> QED BY <1>3, <1>4, <1>5

(* The steps of the program that call nothing of the store.                *)
LEMMA QuietStep ==
  ASSUME StoreInv, RunInv,
         \/ Locate \/ Acquire \/ Initialize \/ CheckBaseline \/ LocateIssue
         \/ VerifyOpenCode \/ LoopEnds \/ Postflight \/ ReleaseLease \/ Signal
  PROVE  RunInv'
<1> USE DEF RunInv
<1>0. None \notin RunOutcomes /\ AnswerInv
  BY DEF RunOutcomes, AttemptSignals, PreflightOutcomes, None
<1>1. CASE \E o : at \in Early /\ UNCHANGED storeVars /\ PreInitFailure(o)
                  /\ UNCHANGED <<latest, persisted, error, trigger, post, cancelled, interrupted>>
  BY <1>1, PreInitStep
<1>2. CASE /\ Locate \/ Acquire \/ Initialize
           /\ at' # "done"
  <2>1. /\ UNCHANGED <<files, dir, onDisk, io, staged, faults, litter, published, settled, power>>
        /\ UNCHANGED <<persisted, error, trigger, post, cancelled, interrupted>>
        /\ \/ at = "locate" /\ at' = "acquire" /\ UNCHANGED <<latest, lease>>
           \/ at = "acquire" /\ at' = "initialize" /\ lease' = "held" /\ latest' = latest
           \/ at = "initialize" /\ at' = "persistFirst" /\ latest' = FirstRecord /\ lease' = lease
    BY <1>2 DEF Locate, Acquire, Initialize, PreInitFailure, storeVars
  <2>2. FirstRecord \in Records /\ FirstRecord.phase = "PREFLIGHT" /\ FirstRecord.persistence = "OK"
    BY DEF FirstRecord, Records, None
  <2>3. io = Idle /\ published = <<>> /\ staged = NoFile /\ error = None
    BY <2>1 DEF WritingInv, ErrorInv, RunTypes, Early, Dead
  <2>4. RunTypes'
    BY <2>1, <2>2 DEF RunTypes, Early, Preparing, Finishing, Dead
  <2>5. LatestInv'
    BY <2>1, <2>2 DEF LatestInv, Early, Preparing, Finishing, Dead
  <2>6. WritingInv'
    BY <2>1, <2>3 DEF WritingInv, Writing, Early, Preparing, Finishing, Dead
  <2>7. WrittenInv'
    BY <2>1, <2>2, <2>3 DEF WrittenInv, LatestInv, Early, Finishing, Dead
  <2>8. ErrorInv'
    BY <2>1 DEF ErrorInv, Early, Preparing, Finishing, Dead
  <2>9. AnswerInv'
    BY <2>1 DEF AnswerInv, AnsweredAsRecorded, BootstrapErrorIsNamed
  <2> QED BY <2>4, <2>5, <2>6, <2>7, <2>8, <2>9
<1>3. CASE CheckBaseline \/ LocateIssue \/ VerifyOpenCode
  <2>1. /\ UNCHANGED <<files, dir, onDisk, io, staged, faults, litter, published, settled, power>>
        /\ UNCHANGED <<persisted, lease, trigger, post, cancelled, interrupted, answer>>
        /\ \/ at = "baseline" /\ at' = "issue" /\ error' = error /\ latest' = [latest EXCEPT !.baseline = TRUE]
           \/ at = "issue" /\ at' = "verify" /\ error' = error /\ latest' = [latest EXCEPT !.issue = TRUE]
           \/ at = "verify" /\ at' = "persistReady" /\ error' = error /\ latest' = latest
           \/ at = "baseline" /\ at' = "amend" /\ error' = "GIT_SAFETY_ERROR" /\ latest' = latest
           \/ at \in {"issue", "verify"} /\ at' = "amend" /\ error' = "PREFLIGHT_ERROR" /\ latest' = latest
    BY <1>3 DEF CheckBaseline, LocateIssue, VerifyOpenCode, Learn, Fail, storeVars
  <2>2. latest \in Records /\ latest.phase = "PREFLIGHT" /\ latest.persistence = "OK" /\ io = Idle
    BY <2>1 DEF LatestInv, WritingInv, Early, Preparing, Dead
  <2>3. /\ latest' \in Records /\ latest'.phase = "PREFLIGHT" /\ latest'.persistence = "OK"
        /\ at' \in {"issue", "verify", "persistReady"} => latest'.baseline
        /\ at' \in {"verify", "persistReady"} => latest'.issue
        /\ at' = "amend" /\ error' = "PREFLIGHT_ERROR" => latest'.baseline
    BY <2>1, <2>2 DEF Records, LatestInv
  <2>4. {"GIT_SAFETY_ERROR", "PREFLIGHT_ERROR"} \subseteq RunOutcomes
    BY DEF RunOutcomes, PreflightOutcomes
  <2>5. RunTypes'
    BY <2>1, <2>3, <2>4 DEF RunTypes, Early, Preparing, Finishing, Dead
  <2>6. LatestInv'
    BY <2>1, <2>3 DEF LatestInv, Early, Preparing, Finishing, Dead
  <2>7. WritingInv'
    BY <2>1, <2>2 DEF WritingInv, Writing, Early, Preparing, Finishing, Dead
  <2>8. WrittenInv'
    <3>1. (\A k : Recorded(k)' = Recorded(k)) /\ RunJson' = RunJson
      BY <2>1, StoreRests
    <3>2. ~Committed
      BY <2>1 DEF Committed
    <3> QED BY <2>1, <2>3, <3>1, <3>2 DEF WrittenInv, Dead
  <2>9. ErrorInv'
    BY <2>1, <2>3 DEF ErrorInv, Early, Preparing, Finishing, Dead, None
  <2>10. AnswerInv'
    BY <2>1 DEF AnswerInv, AnsweredAsRecorded, BootstrapErrorIsNamed
  <2> QED BY <2>5, <2>6, <2>7, <2>8, <2>9, <2>10
<1>4. CASE LoopEnds \/ Postflight
  <2>1. /\ UNCHANGED <<files, dir, onDisk, io, staged, faults, litter, published, settled, power>>
        /\ UNCHANGED <<latest, persisted, error, lease, cancelled, interrupted, answer>>
        /\ \/ at = "loop" /\ io = Idle /\ at' = "postflight"
              /\ trigger' \in {"INTERRUPTED", "SUCCEEDED", "PROVIDER_ERROR"}
           \/ at = "postflight" /\ at' = "stage" /\ trigger' = trigger /\ post' \in GitStatuses
    BY <1>4 DEF LoopEnds, Postflight, storeVars, GitStatuses
  <2>2. {"INTERRUPTED", "SUCCEEDED", "PROVIDER_ERROR"} \subseteq RunOutcomes
    BY DEF RunOutcomes, AttemptSignals
  <2>3. RunTypes'
    BY <2>1, <2>2 DEF RunTypes, Early, Preparing, Finishing, Dead
  <2>4. LatestInv'
    BY <2>1 DEF LatestInv, Early, Preparing, Finishing, Dead
  <2>5. WritingInv'
    BY <2>1 DEF WritingInv, Writing, Early, Preparing, Finishing, Dead
  <2>6. WrittenInv'
    <3>1. (\A k : Recorded(k)' = Recorded(k)) /\ RunJson' = RunJson
      BY <2>1, StoreRests
    <3>2. ~Committed
      BY <2>1 DEF Committed
    <3> QED BY <2>1, <3>1, <3>2 DEF WrittenInv, Dead
  <2>7. ErrorInv'
    BY <2>1 DEF ErrorInv, Early, Preparing, Finishing, Dead, None
  <2>8. AnswerInv'
    BY <2>1 DEF AnswerInv, AnsweredAsRecorded, BootstrapErrorIsNamed
  <2> QED BY <2>3, <2>4, <2>5, <2>6, <2>7, <2>8
<1>5. CASE ReleaseLease \/ Signal
  <2>1. /\ UNCHANGED <<files, dir, onDisk, io, staged, faults, litter, published, settled, power>>
        /\ UNCHANGED <<latest, persisted, error, trigger, post, interrupted, answer>>
        /\ \/ at = "staged" /\ at' = "released" /\ cancelled' = cancelled
           \/ HandlersInstalled /\ at # "commit" /\ at' = at /\ lease' = lease /\ cancelled' = TRUE
    BY <1>5 DEF ReleaseLease, Signal, storeVars
  <2>2. /\ Ready' = Ready /\ FailureRecord' = FailureRecord /\ AttemptRecord' = AttemptRecord
        /\ TerminalRecord(interrupted)' = TerminalRecord(interrupted)
    BY <2>1, RecordsStand
  <2>3. HandlersInstalled /\ at # "commit" => at \in {"loop", "postflight", "stage", "staged", "released"} /\ error = None
    BY DEF HandlersInstalled, ErrorInv
  <2>4. RunTypes'
    BY <2>1, <2>3 DEF RunTypes, Early, Preparing, Finishing, Dead
  <2>5. LatestInv'
    BY <2>1, <2>3 DEF LatestInv, Early, Preparing, Finishing, Dead
  <2>6. WritingInv'
    BY <2>1, <2>2, <2>3 DEF WritingInv, Writing, Early, Preparing, Finishing, Dead, Exists
  <2>7. WrittenInv'
    <3>1. (\A k : Recorded(k)' = Recorded(k)) /\ RunJson' = RunJson
      BY <2>1, StoreRests
    <3>2. ~Committed
      BY <2>1, <2>3 DEF Committed
    <3> QED BY <2>1, <2>3, <3>1, <3>2 DEF WrittenInv, Dead
  <2>8. ErrorInv'
    BY <2>1, <2>3 DEF ErrorInv, Early, Preparing, Finishing, Dead, None
  <2>9. AnswerInv'
    BY <2>1, <2>3 DEF AnswerInv, AnsweredAsRecorded, BootstrapErrorIsNamed
  <2> QED BY <2>4, <2>5, <2>6, <2>7, <2>8, <2>9
<1>6. Locate \/ Acquire \/ Initialize =>
        \/ \E o : at \in Early /\ UNCHANGED storeVars /\ PreInitFailure(o)
                 /\ UNCHANGED <<latest, persisted, error, trigger, post, cancelled, interrupted>>
        \/ at' # "done"
  BY DEF Locate, Acquire, Initialize, Early
<1> QED BY <1>1, <1>2, <1>3, <1>4, <1>5, <1>6

(* The steps of the program that call the store.                           *)
LEMMA CallsStep ==
  ASSUME StoreInv, RunInv,
         \/ PersistAt("persistFirst", latest) \/ PersistAt("persistReady", Ready)
         \/ PersistAt("amend", FailureRecord)
         \/ at = "loop" /\ Persist(AttemptRecord) /\ UNCHANGED runVars
         \/ StageCall
         \/ at = "released" /\ CommitFinal /\ at' = "commit"
            /\ UNCHANGED <<latest, persisted, error, lease, trigger, post, cancelled, interrupted, answer>>
  PROVE  RunInv'
<1> USE DEF RunInv
<1>1. /\ UNCHANGED <<files, dir, onDisk, staged, faults, litter, published, settled, power>>
      /\ UNCHANGED <<latest, persisted, error, lease, trigger, post, cancelled, answer>>
      /\ io = Idle
  BY DEF PersistAt, StageCall, StageFinal, Persist, CommitFinal, Call, runVars
<1>2. \/ /\ at' = at /\ interrupted' = interrupted /\ io'.op = "persist"
         /\ \/ at = "persistFirst" /\ io'.record = latest
            \/ at = "persistReady" /\ io'.record = Ready
            \/ at = "amend" /\ io'.record = FailureRecord
            \/ at = "loop" /\ io'.record = AttemptRecord
      \/ /\ at \in {"stage", "staged", "released"} /\ at' = at /\ interrupted' = cancelled
         /\ io'.op = "stage" /\ io'.record = TerminalRecord(cancelled) /\ io'.step = "open"
      \/ /\ at = "released" /\ at' = "commit" /\ interrupted' = interrupted
         /\ io'.op = "commit" /\ io'.step = "replace" /\ io'.file = staged
  BY DEF PersistAt, StageCall, StageFinal, Persist, CommitFinal, Call, runVars
<1>3. TerminalRecord(interrupted)' = TerminalRecord(interrupted')
  BY <1>1 DEF TerminalRecord, Decision
<1>4. Ready' = Ready /\ FailureRecord' = FailureRecord /\ AttemptRecord' = AttemptRecord
  BY <1>1 DEF Ready, FailureRecord, AttemptRecord
<1>5. RunTypes'
  BY <1>1, <1>2 DEF RunTypes, Early, Preparing, Finishing, Dead
<1>6. LatestInv'
  BY <1>1, <1>2 DEF LatestInv, Early, Preparing, Finishing, Dead
<1>7. WritingInv'
  <2>1. Idle.step = "idle"
    BY DEF Idle
  <2>2. CASE at' = at /\ interrupted' = interrupted /\ io'.op = "persist"
    BY <1>1, <1>2, <1>4, <2>2 DEF WritingInv, Writing, Early, Preparing, Finishing, Dead
  <2>3. CASE at \in {"stage", "staged", "released"} /\ at' = at /\ io'.op = "stage"
    BY <1>1, <1>2, <1>3, <2>1, <2>3 DEF WritingInv, Writing, Early, Preparing, Finishing, Dead
  <2>4. CASE at = "released" /\ at' = "commit"
    <3>1. interrupted' = interrupted /\ io'.op = "commit" /\ io'.step = "replace" /\ io'.file = staged
      BY <1>2, <2>4
    <3>2. staged # NoFile /\ files[staged].record = TerminalRecord(interrupted)
      BY <1>1, <2>4 DEF WritingInv
    <3>3. Exists(io.file)'
      BY <1>1, <3>1, <3>2 DEF StoreInv, FileInv, Durable, Exists
    <3> QED BY <1>1, <1>3, <2>4, <3>1, <3>2, <3>3 DEF WritingInv, Writing, Early, Preparing, Finishing, Dead
  <2> QED BY <1>2, <2>2, <2>3, <2>4
<1>8. WrittenInv'
  <2>1. \A k : Recorded(k)' = Recorded(k)
    BY <1>1, StoreRests
  <2>2. ~Committed /\ at \notin Dead
    BY <1>1, <1>2 DEF Committed, Idle, Dead
  <2> QED BY <1>1, <2>1, <2>2 DEF WrittenInv, Dead
<1>9. ErrorInv'
  BY <1>1, <1>2 DEF ErrorInv, Early, Preparing, Finishing, Dead
<1>10. AnswerInv'
  BY <1>1, <1>2 DEF AnswerInv, AnsweredAsRecorded, BootstrapErrorIsNamed
<1> QED BY <1>5, <1>6, <1>7, <1>8, <1>9, <1>10

(* A write that succeeded is what run.json now holds.                      *)
LEMMA PersistedIs ==
  ASSUME StoreInv, io.step = "OK", io.op = "persist"
  PROVE  /\ Len(published) > 0 /\ Recorded(Len(published)) = io.record
         /\ faults = 0 => settled = Len(published)
BY DEF StoreInv, CallInv, Recorded

(* The steps of the program that learn how a write ended and go on.        *)
LEMMA ReturnsStep ==
  ASSUME StoreInv, RunInv,
         \/ FirstPersist /\ ~PersistAt("persistFirst", latest)
         \/ ReadyPersist /\ ~PersistAt("persistReady", Ready)
         \/ Amend /\ ~PersistAt("amend", FailureRecord)
         \/ LoopPersist /\ ~Persist(AttemptRecord)
         \/ StageReturns
  PROVE  RunInv'
<1> USE DEF RunInv
<1>1. /\ UNCHANGED <<files, dir, onDisk, staged, faults, litter, published, settled, power>>
      /\ UNCHANGED <<lease, post, cancelled, interrupted, answer>>
      /\ io' = Idle /\ io.step \in {"OK", "FAILED"} /\ io # Idle
  BY DEF FirstPersist, ReadyPersist, Amend, LoopPersist, StageReturns, PersistedAt, PersistFailsAt,
         Returns, Fail, Idle
<1>2. \/ /\ at = "persistFirst" /\ at' = "baseline" /\ persisted' = latest
         /\ UNCHANGED <<latest, error, trigger>>
      \/ /\ at \in {"persistFirst", "persistReady"} /\ at' = "amend" /\ error' = "LOGGING_ERROR"
         /\ UNCHANGED <<latest, persisted, trigger>>
      \/ /\ at = "persistReady" /\ at' = "loop" /\ latest' = Ready /\ persisted' = Ready
         /\ io.step = "OK" /\ UNCHANGED <<error, trigger>>
      \/ /\ at = "amend" /\ at' = "postflight" /\ trigger' = error /\ error' = error
         /\ \/ io.step = "OK" /\ latest' = FailureRecord /\ persisted' = FailureRecord
            \/ /\ io.step = "FAILED" /\ persisted' = persisted
               /\ latest' = IF persisted = NoRecord THEN latest ELSE persisted
      \/ /\ at = "loop" /\ at' = at /\ latest' = AttemptRecord /\ persisted' = AttemptRecord
         /\ UNCHANGED <<error, trigger>>
      \/ /\ at = "loop" /\ at' = "postflight" /\ trigger' = "LOGGING_ERROR"
         /\ latest' = [latest EXCEPT !.error = "LOGGING_ERROR", !.persistence = "INCOMPLETE"]
         /\ UNCHANGED <<persisted, error>>
      \/ /\ at \in {"stage", "staged", "released"} /\ io.step = "OK"
         /\ at' = (IF at = "stage" THEN "staged" ELSE at)
         /\ UNCHANGED <<latest, persisted, error, trigger>>
  BY DEF FirstPersist, ReadyPersist, Amend, LoopPersist, StageReturns, PersistedAt, PersistFailsAt,
         Returns, Fail
<1>3. latest \in Records /\ latest.phase # "FINISHED" /\ power /\ at \notin Dead /\ ~Committed
  BY <1>2 DEF LatestInv, RunTypes, Early, Dead, Committed
<1>4. "LOGGING_ERROR" \in RunOutcomes /\ None \notin RunOutcomes
  BY DEF RunOutcomes, AttemptSignals, PreflightOutcomes, None
<1>5. /\ Ready \in Records /\ Ready.phase = "ARCHITECT"
      /\ Ready.baseline = latest.baseline /\ Ready.issue = latest.issue
      /\ AttemptRecord \in Records /\ AttemptRecord.phase = latest.phase
      /\ AttemptRecord.baseline = latest.baseline /\ AttemptRecord.issue = latest.issue
  BY <1>3, ReadyIs, AttemptIs
<1>6. at = "amend" =>
        /\ error \in RunOutcomes
        /\ FailureRecord \in Records /\ FailureRecord.phase = "POSTFLIGHT"
        /\ FailureRecord.baseline = latest.baseline /\ FailureRecord.error = error
        /\ FailureRecord.persistence = latest.persistence
  BY <1>3, FailureIs DEF ErrorInv, RunTypes
<1>7. LET failed == [latest EXCEPT !.error = "LOGGING_ERROR", !.persistence = "INCOMPLETE"]
      IN /\ failed \in Records /\ failed.phase = latest.phase
         /\ failed.baseline = latest.baseline /\ failed.issue = latest.issue
  BY <1>3, <1>4 DEF Records
<1>8. /\ persisted \in Records \cup {NoRecord} /\ NoRecord.phase = "NONE"
      /\ \A r \in Records : r # NoRecord
  BY DEF RunTypes, Records, NoRecord
<1>9. RunTypes'
  BY <1>1, <1>2, <1>3, <1>4, <1>5, <1>6, <1>7, <1>8 DEF RunTypes, Early, Preparing, Finishing, Dead
<1>10. LatestInv'
  BY <1>1, <1>2, <1>3, <1>5, <1>6, <1>7, <1>8 DEF LatestInv, Early, Preparing, Finishing, Dead
<1>11. WritingInv'
  <2>1. CASE at \in {"stage", "staged", "released"}
    <3>1. io.op = "stage" /\ io.record = TerminalRecord(interrupted) /\ io.step = "OK"
      BY <1>1, <1>2, <2>1 DEF WritingInv, Writing
    <3>2. staged # NoFile /\ files[staged].record = TerminalRecord(interrupted)
      BY <3>1 DEF StoreInv, CallInv
    <3>3. TerminalRecord(interrupted)' = TerminalRecord(interrupted)
      BY <1>1, <1>2, <2>1, RecordsStand
    <3> QED BY <1>1, <1>2, <2>1, <3>2, <3>3 DEF WritingInv, Writing, Early, Preparing, Finishing, Dead
  <2>2. CASE at \notin {"stage", "staged", "released"}
    BY <1>1, <1>2, <2>2 DEF WritingInv, Writing, Early, Preparing, Finishing, Dead
  <2> QED BY <2>1, <2>2
<1>12. WrittenInv'
  <2>1. \A k : Recorded(k)' = Recorded(k)
    BY <1>1, StoreRests
  <2>2. \A k \in 1..Len(published) : Recorded(k)'.phase # "FINISHED"
    BY <1>3, <2>1 DEF WrittenInv
  <2>3. CASE at = "persistReady" /\ at' = "loop"
    <3>1. io.step = "OK" /\ io.op = "persist" /\ io.record = Ready /\ latest' = Ready
      BY <1>1, <1>2, <2>3 DEF WritingInv, Writing
    <3>2. LoopRecord(Ready)
      BY <1>5, <2>3 DEF LatestInv, LoopRecord
    <3>3. /\ Len(published) > 0 /\ Recorded(Len(published)) = Ready
          /\ faults = 0 => settled = Len(published)
      BY <3>1, PersistedIs
    <3>4. Len(published) \in Nat
      BY DEF StoreInv, StoreTypes
    <3> QED BY <1>1, <2>1, <2>2, <3>2, <3>3, <3>4 DEF WrittenInv, LoopRecord
  <2>4. CASE ~(at = "persistReady" /\ at' = "loop")
    <3>1. latest'.phase = "ARCHITECT" => latest.phase = "ARCHITECT"
      BY <1>2, <1>5, <1>6, <1>7, <1>8, <2>4 DEF LatestInv, Preparing, Early, Finishing, Dead
    <3>2. Len(published)' = Len(published) /\ settled' = settled /\ faults' = faults
      BY <1>1
    <3> QED BY <2>1, <2>2, <3>1, <3>2 DEF WrittenInv, LoopRecord
  <2> QED BY <2>3, <2>4
<1>13. ErrorInv'
  <2>1. faults = 0 => io.step # "FAILED"
    BY DEF StoreInv, CallInv
  <2>2. at = "amend" => error # None /\ latest.persistence = "OK"
                        /\ (error = "PREFLIGHT_ERROR" => latest.baseline)
    BY DEF ErrorInv, LatestInv
  <2> QED BY <1>1, <1>2, <1>4, <1>6, <2>1, <2>2 DEF ErrorInv, Early, Preparing, Finishing, Dead, None
<1>14. AnswerInv'
  BY <1>1, <1>2 DEF AnswerInv, AnsweredAsRecorded, BootstrapErrorIsNamed
<1> QED BY <1>9, <1>10, <1>11, <1>12, <1>13, <1>14

(* While the machine is up run.json holds what was published last.         *)
LEMMA RunJsonIs ==
  ASSUME StoreInv, power
  PROVE  RunJson = IF Len(published) = 0 THEN NoRecord ELSE Recorded(Len(published))
<1>1. dir.run = Version(Len(published)) /\ Len(published) \in Nat
  BY DEF StoreInv, StoreTypes, DirInv
<1>2. CASE Len(published) = 0
  BY <1>1, <1>2 DEF RunJson, Version, NoFile
<1>3. CASE Len(published) # 0
  <2>1. dir.run = published[Len(published)] /\ dir.run # NoFile
    BY <1>1, <1>3 DEF Version, StoreInv, FileInv, Durable, Exists, NoFile
  <2> QED BY <1>3, <2>1 DEF RunJson, Readable, Recorded
<1> QED BY <1>2, <1>3

(* The terminal record is published, and main answers what it says.        *)
LEMMA CommittedStep ==
  ASSUME StoreInv, StoreInv', RunInv, at = "commit", Returns("OK"), Commit, at' = "done"
  PROVE  RunInv'
<1> USE DEF RunInv
<1>1. /\ UNCHANGED <<files, dir, onDisk, staged, faults, litter, published, settled, power>>
      /\ UNCHANGED <<latest, persisted, error, lease, trigger, post, cancelled, interrupted>>
      /\ io' = Idle /\ io.step = "OK" /\ answer' = Decision(interrupted, latest.persistence)
  BY DEF Commit, Returns
<1>2. latest \in Records /\ trigger \in RunOutcomes /\ interrupted \in BOOLEAN /\ power
  BY DEF RunTypes, LatestInv, Early, Dead, Finishing
<1>3. /\ io.op = "commit" /\ staged = NoFile
      /\ Len(published) > 0 /\ Recorded(Len(published)) = TerminalRecord(interrupted)
  BY <1>1 DEF WritingInv, StoreInv, CallInv, Recorded
<1>4. RunJson' = TerminalRecord(interrupted)
  BY <1>1, <1>2, <1>3, RunJsonIs, StoreRests
<1>5. /\ TerminalRecord(interrupted).phase = "FINISHED"
      /\ TerminalRecord(interrupted).baseline = latest.baseline
      /\ TerminalRecord(interrupted).error = latest.error
      /\ answer' = [final |-> TerminalRecord(interrupted).final,
                    outcome |-> TerminalRecord(interrupted).outcome,
                    exit |-> TerminalRecord(interrupted).exit]
  BY <1>1, <1>2, TerminalIs
<1>6. answer'.outcome = ResolveTerminalOutcome(trigger, post, interrupted, latest.persistence)
  BY <1>1, <1>2, DecisionTypes
<1>7. RunTypes' /\ LatestInv' /\ WritingInv' /\ ErrorInv'
  BY <1>1, <1>3 DEF RunTypes, LatestInv, WritingInv, ErrorInv, Early, Preparing, Finishing, Dead
<1>8. WrittenInv'
  <2>1. \A k : Recorded(k)' = Recorded(k)
    BY <1>1, StoreRests
  <2> QED BY <1>1, <2>1 DEF WrittenInv, Dead
<1>9. AnsweredAsRecorded'
  BY <1>4, <1>5 DEF AnsweredAsRecorded
<1>10. BootstrapErrorIsNamed'
  <2>1. ASSUME error # None, faults = 0
        PROVE  /\ latest.error = error /\ trigger = error /\ latest.persistence = "OK"
               /\ error = "PREFLIGHT_ERROR" => latest.baseline
               /\ interrupted = FALSE /\ error \in RunOutcomes
    BY <1>2, <2>1 DEF ErrorInv, RunTypes, Finishing
  <2>2. ASSUME error # None, faults = 0
        PROVE  answer'.outcome = ResolveTerminalOutcome(error, post, FALSE, "OK")
    BY <1>6, <2>1, <2>2
  <2>3. error # None /\ faults = 0 /\ post = "SAFE" => answer'.outcome = error
    BY <2>1, <2>2, ErrorStands
  <2>4. (ResolveTerminalOutcome(error, post, FALSE, "OK"))' = ResolveTerminalOutcome(error, post, FALSE, "OK")
    BY <1>1
  <2>5. error # None /\ faults = 0 =>
          /\ RunJson'.error = error /\ (error = "PREFLIGHT_ERROR" => RunJson'.baseline)
    BY <1>4, <1>5, <2>1
  <2> QED BY <1>1, <2>2, <2>3, <2>4, <2>5 DEF BootstrapErrorIsNamed
<1> QED BY <1>7, <1>8, <1>9, <1>10 DEF AnswerInv

(* It is not, and main answers that.                                       *)
LEMMA FallbackStep ==
  ASSUME StoreInv, StoreInv', RunInv, Fallback
  PROVE  RunInv'
<1> USE DEF RunInv
<1>1. /\ UNCHANGED <<files, faults, published, settled, power>>
      /\ UNCHANGED <<latest, persisted, error, trigger, post, cancelled, interrupted>>
      /\ io' = Idle /\ io.step = "FAILED" /\ staged' = NoFile
      /\ at \in {"stage", "staged", "released", "commit"} /\ at' = "done" /\ lease' = "released"
      /\ answer' = [Decision(cancelled, "FAILED") EXCEPT !.final = "FAILED"]
  BY DEF Fallback, AbortFinal
<1>2. latest \in Records /\ trigger \in RunOutcomes /\ cancelled \in BOOLEAN /\ power
  BY <1>1 DEF RunTypes, LatestInv, Early, Dead, Finishing
<1>3. answer'.final = "FAILED" /\ answer'.exit = 40
  BY <1>1, <1>2, FallbackAnswer
<1>4. \A k : Recorded(k)' = Recorded(k)
  BY <1>1 DEF Recorded
<1>5. ~Committed /\ at \notin Dead
  BY <1>1 DEF Committed, Dead
<1>6. RunJson'.phase # "FINISHED"
  <2>1. RunJson' = IF Len(published') = 0 THEN NoRecord ELSE Recorded(Len(published))'
    <3>1. power' /\ dir'.run = Version(Len(published))' /\ Len(published') \in Nat
      BY <1>1, <1>2 DEF StoreInv, StoreTypes, DirInv
    <3>2. CASE Len(published') = 0
      BY <3>1, <3>2 DEF RunJson, Version, NoFile
    <3>3. CASE Len(published') # 0
      <4>1. dir'.run = published'[Len(published')] /\ dir'.run # NoFile
        BY <3>1, <3>3 DEF Version, StoreInv, FileInv, Durable, Exists, NoFile
      <4> QED BY <3>1, <3>3, <4>1 DEF RunJson, Readable, Recorded
    <3> QED BY <3>2, <3>3
  <2>2. \A k \in 1..Len(published) : Recorded(k).phase # "FINISHED"
    BY <1>5 DEF WrittenInv
  <2>3. Len(published) \in Nat
    BY DEF StoreInv, StoreTypes
  <2> QED BY <1>1, <1>4, <2>1, <2>2, <2>3 DEF NoRecord
<1>7. RunTypes' /\ LatestInv' /\ WritingInv' /\ ErrorInv'
  BY <1>1 DEF RunTypes, LatestInv, WritingInv, ErrorInv, Early, Preparing, Finishing, Dead
<1>8. WrittenInv'
  BY <1>1, <1>4 DEF WrittenInv, Dead
<1>9. AnsweredAsRecorded'
  BY <1>3, <1>6 DEF AnsweredAsRecorded
<1>10. BootstrapErrorIsNamed'
  BY <1>1 DEF BootstrapErrorIsNamed, StoreInv, CallInv
<1> QED BY <1>7, <1>8, <1>9, <1>10 DEF AnswerInv

(* RunInv is inductive, given the invariant of the files.                  *)
LEMMA RunStep ==
  ASSUME StoreInv, StoreInv', RunInv, [Next]_vars
  PROVE  RunInv'
<1>1. CASE UNCHANGED vars
  <2>1. /\ UNCHANGED <<files, dir, onDisk, io, staged, faults, litter, published, settled, power>>
        /\ UNCHANGED <<at, latest, persisted, error, lease, trigger, post, cancelled, interrupted, answer>>
    BY <1>1 DEF vars, storeVars, runVars
  <2>2. /\ Ready' = Ready /\ FailureRecord' = FailureRecord /\ AttemptRecord' = AttemptRecord
        /\ TerminalRecord(interrupted)' = TerminalRecord(interrupted)
    BY <2>1, RecordsStand
  <2>3. (\A k : Recorded(k)' = Recorded(k)) /\ RunJson' = RunJson
    BY <2>1, StoreRests
  <2>4. RunTypes' /\ LatestInv' /\ ErrorInv'
    BY <2>1 DEF RunInv, RunTypes, LatestInv, ErrorInv
  <2>5. WritingInv'
    BY <2>1, <2>2 DEF RunInv, WritingInv, Writing, Exists
  <2>6. WrittenInv'
    BY <2>1, <2>3 DEF RunInv, WrittenInv, Committed
  <2>7. AnswerInv'
    BY <2>1, <2>3 DEF RunInv, AnswerInv, AnsweredAsRecorded, BootstrapErrorIsNamed
  <2> QED BY <2>4, <2>5, <2>6, <2>7 DEF RunInv
<1>2. CASE Next
  <2>1. CASE SystemCall /\ at \notin Dead /\ UNCHANGED runVars
    BY <2>1, SystemStep
  <2>2. CASE KeyboardInterrupt \/ Kill \/ PowerLoss
    BY <2>2, EndStep
  <2>3. CASE \/ Locate \/ Acquire \/ Initialize \/ CheckBaseline \/ LocateIssue
             \/ VerifyOpenCode \/ LoopEnds \/ Postflight \/ ReleaseLease \/ Signal
    BY <2>3, QuietStep
  <2>4. CASE FirstPersist \/ ReadyPersist \/ Amend \/ StageCall \/ StageReturns
    BY <2>4, CallsStep, ReturnsStep
  <2>5. CASE LoopPersist
    <3>1. CASE Persist(AttemptRecord)
      <4>1. at = "loop" /\ UNCHANGED runVars
        BY <2>5, <3>1 DEF LoopPersist, Persist, Call, Returns, Idle
      <4> QED BY <3>1, <4>1, CallsStep
    <3> QED BY <2>5, <3>1, ReturnsStep
  <2>6. CASE Commit
    BY <2>6, CallsStep, CommittedStep DEF Commit
  <2>7. CASE Fallback
    BY <2>7, FallbackStep
  <2> QED BY <1>2, <2>1, <2>2, <2>3, <2>4, <2>5, <2>6, <2>7 DEF Next, Program
<1> QED BY <1>1, <1>2

(* Both invariants hold at the start.                                      *)
LEMMA BootInit ==
  ASSUME Init
  PROVE  StoreInv /\ RunInv
<1> USE DEF Init, StoreInit
<1>1. Idle \in Calls /\ Idle.step = "idle" /\ Idle.op = "none"
  BY DEF Idle, Calls, NoFile
<1>2. dir \in Dirs /\ onDisk = {dir} /\ dir.run = NoFile /\ dir.temps = {}
  BY DEF Dirs, NoFile
<1>3. StoreTypes
  BY <1>1, <1>2 DEF StoreTypes, NoFile
<1>4. DirInv
  BY <1>2 DEF DirInv, Version, Candidate
<1>5. FileInv
  BY DEF FileInv
<1>6. CallInv
  BY <1>1 DEF CallInv, Candidate
<1>7. RunTypes
  BY DEF RunTypes, Early, Preparing, Finishing, Dead
<1>8. LatestInv
  BY DEF LatestInv, NoRecord, Early, Preparing, Finishing, Dead
<1>9. WritingInv
  BY DEF WritingInv, Early, Preparing, Finishing, Dead
<1>10. WrittenInv
  BY DEF WrittenInv, NoRecord
<1>11. ErrorInv /\ AnswerInv
  BY DEF ErrorInv, AnswerInv, AnsweredAsRecorded, BootstrapErrorIsNamed, Early, Preparing, Finishing
<1> QED BY <1>3, <1>4, <1>5, <1>6, <1>7, <1>8, <1>9, <1>10, <1>11 DEF StoreInv, RunInv

-----------------------------------------------------------------------------
(* Both invariants hold of every run, for any number of failing system     *)
(* calls and any length of the agent loop.                                 *)
THEOREM BootInvariant == Spec => [](StoreInv /\ RunInv)
<1>1. StoreInv /\ RunInv /\ [Next]_vars => (StoreInv /\ RunInv)'
  BY NextIsStoreStep, StoreStep, RunStep
<1> QED BY BootInit, <1>1, PTL DEF Spec

(* What main returns and announces is what run.json holds: finalize_run    *)
(* publishes what it decided under the sealed cancellation, and a record   *)
(* it could not publish is answered with a persistence failure.            *)
THEOREM Answered == Spec => []AnsweredAsRecorded
<1>1. RunInv => AnsweredAsRecorded
  BY DEF RunInv, AnswerInv
<1> QED BY <1>1, BootInvariant, PTL

(* A bootstrap that failed says so, as long as every write succeeds.       *)
THEOREM ErrorNamed == Spec => []BootstrapErrorIsNamed
<1>1. RunInv => BootstrapErrorIsNamed
  BY DEF RunInv, AnswerInv
<1> QED BY <1>1, BootInvariant, PTL

(* A program that ends by itself leaves no candidate or temporary file     *)
(* behind, but those whose removal failed.                                 *)
THEOREM NoLitter == Spec => []NoTemporaryLeft
<1>1. StoreInv /\ RunInv => NoTemporaryLeft
  <2> SUFFICES ASSUME StoreInv, RunInv, at = "done", power
               PROVE  dir.temps \subseteq litter
    BY DEF NoTemporaryLeft
  <2>1. io = Idle /\ staged = NoFile
    BY DEF RunInv, WritingInv
  <2>2. dir.temps \subseteq litter \cup {0}
    BY <2>1 DEF StoreInv, DirInv, Candidate, Idle, NoFile
  <2>3. 0 \notin dir.temps
    BY DEF StoreInv, StoreTypes, Dirs
  <2> QED BY <2>2, <2>3
<1> QED BY <1>1, BootInvariant, PTL

(* Once the agent loop began, run.json names the baseline and the issue,   *)
(* also after the process died, and after a loss of power if no system     *)
(* call had failed.                                                        *)
THEOREM LoopRecorded == Spec => []LoopIsRecorded
<1>1. StoreInv /\ RunInv => LoopIsRecorded
  <2> SUFFICES ASSUME StoreInv, RunInv
               PROVE  LoopIsRecorded
    OBVIOUS
  <2>1. at = "loop" => lease = "held"
    BY DEF RunInv, RunTypes
  <2>2. ASSUME latest.phase = "ARCHITECT", power \/ faults = 0
        PROVE  LoopRecord(RunJson)
    <3>1. Len(published) > 0 /\ LoopRecord(Recorded(Len(published))) /\ Len(published) \in Nat
      BY <2>2 DEF RunInv, WrittenInv, StoreInv, StoreTypes
    <3>2. CASE power
      BY <3>1, <3>2, RunJsonIs
    <3>3. CASE faults = 0
      <4>1. PICK k \in settled..Len(published) : dir.run = Version(k)
        BY DEF StoreInv, StoreTypes, DirInv
      <4>2. settled > 0 /\ LoopRecord(Recorded(k)) /\ settled \in Nat
        BY <2>2, <3>3, <4>1 DEF RunInv, WrittenInv, StoreInv, StoreTypes
      <4>3. k \in 1..Len(published) /\ dir.run = published[k] /\ Durable(dir.run)
        BY <4>1, <4>2 DEF Version, StoreInv, FileInv
      <4>4. RunJson = Recorded(k)
        BY <4>3 DEF RunJson, Readable, Recorded, Durable, Exists, NoFile
      <4> QED BY <4>2, <4>4
    <3> QED BY <2>2, <3>2, <3>3
  <2> QED BY <2>1, <2>2 DEF LoopIsRecorded, LoopRecord
<1> QED BY <1>1, BootInvariant, PTL

(* run.json keeps its contract: every step of the program is a step of     *)
(* RunLogContract under the mapping of RunStore, or does not show.         *)
THEOREM Refinement == Spec => KeepsContract
<1>1. Init => Contract!ContractInit
  <2> SUFFICES ASSUME Init
               PROVE  Contract!ContractInit
    OBVIOUS
  <2>1. published = <<>> /\ dir.run = NoFile /\ settled = 0 /\ power = TRUE
    BY DEF Init, StoreInit, NoFile
  <2>2. [k \in DOMAIN published |-> Readable(published[k])] = <<>>
    BY <2>1
  <2> QED BY <2>1, <2>2 DEF Contract!ContractInit
<1>2. StoreInv /\ RunInv /\ StoreInv' /\ [Next]_vars => [Contract!ContractNext]_(Contract!contractVars)
  BY NextIsStoreStep, ContractStep
<1> QED BY <1>1, <1>2, BootInvariant, PTL DEF Spec, KeepsContract, Contract!ContractSpec
=============================================================================
