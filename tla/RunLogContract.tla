--------------------------- MODULE RunLogContract ---------------------------
(***************************************************************************)
(* What run.json promises whoever reads it, at any moment and after any    *)
(* end of the process: it is absent or one complete record that the run    *)
(* published, it only ever moves forward while the machine is up, and a    *)
(* loss of power takes it back no further than what is known to be on disk.*)
(***************************************************************************)
EXTENDS Naturals, Sequences, SequencesExt

CONSTANT Torn   \* what a reader of an incomplete file gets

VARIABLES
  log,        \* the records published, in order
  visible,    \* the one run.json holds, 0 when there is none
  floor,      \* the latest one known to be on disk
  up          \* the machine has not lost its power

contractVars == <<log, visible, floor, up>>

ContractInit == log = <<>> /\ visible = 0 /\ floor = 0 /\ up = TRUE

(* One more complete record, in place of the one before.                   *)
Publish ==
  /\ up /\ log' # <<>> /\ Front(log') = log /\ Last(log') # Torn
  /\ visible' = Len(log')
  /\ UNCHANGED <<floor, up>>

Settle ==
  /\ up /\ floor' = visible
  /\ UNCHANGED <<log, visible, up>>

LosePower ==
  /\ up /\ up' = FALSE
  /\ visible' \in floor..visible
  /\ UNCHANGED <<log, floor>>

ContractNext == Publish \/ Settle \/ LosePower

ContractSpec == ContractInit /\ [][ContractNext]_contractVars
=============================================================================
