--------------------------- MODULE ProcessContract ---------------------------
(***************************************************************************)
(* What SubprocessRunner.run promises its callers: signals may be caught   *)
(* while it runs, and it returns at most once, with one of the possible    *)
(* results.                                                                *)
(***************************************************************************)
EXTENDS ProcessOutcome

CONSTANT MayOutlive

VARIABLES caught, reported

contractVars == <<caught, reported>>

ContractInit == caught = FALSE /\ reported = NoResult

Catch == reported = NoResult /\ caught' = TRUE /\ UNCHANGED reported

Return ==
  /\ reported = NoResult
  /\ reported' \in PossibleResults(caught, MayOutlive)
  /\ UNCHANGED caught

Contract == ContractInit /\ [][Catch \/ Return]_contractVars
=============================================================================
