--------------------------- MODULE MCAgentResponse --------------------------
(* The instance TLC checks: a directory, one under it and another beside   *)
(* them.  Messages and texts only differ in where they stand, so they may  *)
(* be permuted; the rules and the lines of the terminal text are read in   *)
(* one step only, so later states need not differ in them, and lines past  *)
(* the limit of the decoder only differ in the provider's signal.          *)
EXTENDS AgentResponse

MCDirectories == {<<"a">>, <<"a", "x">>, <<"b">>}
MCPatternOrder ==
  <<Bare, TailPattern(<<"a">>), TailPattern(<<"a", "x">>), Literal(<<"b">>), TailPattern(<<"b">>)>>

Symmetry == Permutations(Messages) \cup Permutations(Texts)

View == <<role, IF at = "recheck" THEN plane ELSE <<>>, sessionOf, at,
          IF Len(lines) <= NdjsonLimit THEN lines ELSE <<ClassifyProviderSignal(lines)>>,
          overflowed, proc, diag, transport, response, author>>
=============================================================================
