----------------------------- MODULE MCPromotion -----------------------------
(* Four paths: a directory that can also be a file, with two files in it,  *)
(* one of them ignored, and a file beside it whose checkout is normalized. *)
EXTENDS Promotion

MCPaths == {<<"d">>, <<"d", "f">>, <<"d", "i">>, <<"x">>}
MCIgnored == {<<"d", "i">>}
MCNormalized == {<<"x">>}
MCOutside == [mode |-> "100644", text |-> "long"]

File(t) == [mode |-> "100644", text |-> t]
MCGiven == {File("a")}
MCForeign == {File("a"), File("b")}
MCWritten == {File("a"), File("b"), [mode |-> "120000", text |-> "a"],
              [mode |-> "special", text |-> "a"]}
=============================================================================
