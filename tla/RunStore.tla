------------------------------ MODULE RunStore ------------------------------
(***************************************************************************)
(* The artifacts of one run on the file system: run.json and the temporary *)
(* files of runlog.py that become it, driven by the operations of          *)
(* _CliRunStore, one system call a step.  Any call may fail, and the power *)
(* may go between two of them; what the directory then holds is any state  *)
(* it had since it was last synchronized.                                  *)
(***************************************************************************)
EXTENDS Naturals, Sequences, FiniteSets

CONSTANT MaxFaults   \* bound: system calls that fail

VARIABLES
  files,      \* every file made: its record, and "empty", "written" or "durable"
  dir,        \* what the run directory names: run.json and temporary files
  onDisk,     \* the directories a power loss may leave
  io,         \* the operation of _CliRunStore under way
  staged,     \* _staged_final_path, 0 when there is none
  faults,
  litter,     \* history: temporary files whose removal failed
  published,  \* history: the files that became run.json, in order
  settled,    \* history: how many of them a power loss cannot take back
  power       \* the machine is up

storeVars == <<files, dir, onDisk, io, staged, faults, litter, published, settled, power>>

NoFile == 0
NoRecord == [phase |-> "NONE"]
Idle == [op |-> "none", step |-> "idle", file |-> NoFile, record |-> NoRecord]

StoreInit ==
  /\ files = <<>> /\ dir = [run |-> NoFile, temps |-> {}] /\ onDisk = {dir}
  /\ io = Idle /\ staged = NoFile
  /\ faults = 0 /\ litter = {} /\ published = <<>> /\ settled = 0 /\ power = TRUE

Step(s) == io' = [io EXCEPT !.step = s]

(* A system call that fails is one of MaxFaults.                           *)
Fault == faults < MaxFaults /\ faults' = faults + 1

(* The directory changes in memory; the disk follows when it likes.        *)
Rename(new) == dir' = new /\ onDisk' = onDisk \cup {new}

(* _best_effort_unlink                                                     *)
Unlink(f) ==
  \/ Rename([dir EXCEPT !.temps = @ \ {f}]) /\ litter' = litter
  \/ UNCHANGED <<dir, onDisk>> /\ litter' = litter \cup {f}

-----------------------------------------------------------------------------
(* The calls: persist, stage_final, commit_final.                          *)
Call(op, step, file, record) ==
  /\ io = Idle
  /\ io' = [op |-> op, step |-> step, file |-> file, record |-> record]
  /\ UNCHANGED <<files, dir, onDisk, staged, faults, litter, published, settled, power>>

Persist(record) == Call("persist", "open", NoFile, record)
StageFinal(record) == Call("stage", "open", NoFile, record)
CommitFinal == staged # NoFile /\ Call("commit", "replace", staged, NoRecord)

(* The PersistenceStatus they return.                                      *)
Returns(status) ==
  /\ io.step = status /\ io' = Idle
  /\ UNCHANGED <<files, dir, onDisk, staged, faults, litter, published, settled, power>>

(* abort_final, when nothing is under way.                                 *)
AbortFinal ==
  /\ io.step \in {"idle", "FAILED"} /\ io' = Idle
  /\ IF staged = NoFile THEN UNCHANGED <<dir, onDisk, litter>> ELSE Unlink(staged)
  /\ staged' = NoFile
  /\ UNCHANGED <<files, faults, published, settled, power>>

-----------------------------------------------------------------------------
(* prepare_run_record: open O_EXCL, write, flush, fsync.                   *)
OpenTemp ==
  /\ io.step = "open"
  /\ \/ /\ files' = Append(files, [record |-> io.record, state |-> "empty"])
        /\ Rename([dir EXCEPT !.temps = @ \cup {Len(files')}])
        /\ io' = [io EXCEPT !.step = "write", !.file = Len(files')]
        /\ faults' = faults
     \/ Fault /\ Step("FAILED") /\ UNCHANGED <<files, dir, onDisk>>
  /\ UNCHANGED <<staged, litter, published, settled, power>>

Fill(from, state, to) ==
  /\ io.step = from
  /\ \/ /\ files' = [files EXCEPT ![io.file].state = state]
        /\ Step(to) /\ UNCHANGED <<dir, onDisk, faults, litter>>
     \/ Fault /\ Step("FAILED") /\ Unlink(io.file) /\ files' = files
  /\ UNCHANGED <<staged, published, settled, power>>

WriteTemp == Fill("write", "written", "sync")

Prepared == IF io.op = "stage" THEN "swap" ELSE "replace"

SyncTempSkipped == Fill("sync", "written", Prepared)  \* mutation

SyncTemp == Fill("sync", "durable", Prepared)

SwapKeepingPrevious ==  \* mutation
  /\ io.step = "swap"
  /\ staged' = io.file /\ Step("OK")
  /\ UNCHANGED <<files, dir, onDisk, faults, litter, published, settled, power>>

(* stage_final: the new candidate is kept, the one before it discarded.    *)
Swap ==
  /\ io.step = "swap"
  /\ staged' = io.file /\ Step("OK")
  /\ IF staged = NoFile THEN UNCHANGED <<dir, onDisk, litter>> ELSE Unlink(staged)
  /\ UNCHANGED <<files, faults, published, settled, power>>

(* commit_prepared_run_record: os.replace; a candidate that cannot be      *)
(* published is dropped.                                                   *)
Replace ==
  /\ io.step = "replace"
  /\ \/ /\ Rename([run |-> io.file, temps |-> dir.temps \ {io.file}])
        /\ published' = Append(published, io.file)
        /\ Step("syncDirectory") /\ UNCHANGED <<faults, litter>>
     \/ Fault /\ Step("FAILED") /\ Unlink(io.file) /\ published' = published
  /\ staged' = IF io.op = "commit" THEN NoFile ELSE staged
  /\ UNCHANGED <<files, settled, power>>

(* _fsync_directory_best_effort: nobody learns that it failed.             *)
SyncDirectory ==
  /\ io.step = "syncDirectory" /\ Step("OK")
  /\ \/ onDisk' = {dir} /\ settled' = Len(published) /\ faults' = faults
     \/ Fault /\ UNCHANGED <<onDisk, settled>>
  /\ UNCHANGED <<files, dir, staged, litter, published, power>>

SystemCall ==
  OpenTemp \/ WriteTemp \/ SyncTemp \/ Swap \/ Replace \/ SyncDirectory

(* What was not synchronized is lost: a name goes back, a content is torn. *)
LosePower ==
  /\ power /\ power' = FALSE
  /\ dir' \in onDisk /\ onDisk' = {dir'}
  /\ UNCHANGED <<files, io, staged, faults, litter, published, settled>>

-----------------------------------------------------------------------------
Torn == [phase |-> "TORN"]

Readable(f) == IF power \/ files[f].state = "durable" THEN files[f].record ELSE Torn

(* What reading run.json gives.                                            *)
RunJson == IF dir.run = NoFile THEN NoRecord ELSE Readable(dir.run)

(* The files implement the contract of run.json.                           *)
Contract == INSTANCE RunLogContract WITH
  log <- [k \in DOMAIN published |-> Readable(published[k])],
  visible <- IF dir.run = NoFile THEN 0
             ELSE CHOOSE k \in DOMAIN published : published[k] = dir.run,
  floor <- settled,
  up <- power
=============================================================================
