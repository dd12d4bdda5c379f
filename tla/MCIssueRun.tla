------------------------------ MODULE MCIssueRun -----------------------------
(***************************************************************************)
(* IssueRun for TLC.  The view leaves out what neither a later step nor a  *)
(* property reads any more: in the loop, the attempts before the last two, *)
(* of which only what finalize_run is handed counts; behind the loop, what *)
(* the loop worked with.                                                   *)
(***************************************************************************)
EXTENDS IssueRun

InLoop == pc \in LoopPoints

LastTwo == {i \in DOMAIN results : i + 1 >= Len(results)}

History == <<TerminationConfirmed, AnyInterrupted, LastReviewStatus, LastSafeState>>

View ==
  <<pc, cancelRequested, sealed, signals, fin, orphans, finVars,
    IF InLoop
    THEN <<[i \in LastTwo |-> results[i]], History, position, locals, lastAccepted,
           lastTerm, persistBlocked, childSignal, counts>>
    ELSE IF results = <<>> THEN <<>> ELSE <<Last(results)>>,
    IF InLoop \/ pc = "postflight" THEN <<repo, edits>> ELSE <<>>>>
=============================================================================
