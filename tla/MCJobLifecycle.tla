--------------------------- MODULE MCJobLifecycle ----------------------------
(* Two run commands, so that one can overlap or resume the other, and one   *)
(* cleanup; cancel may come at any time.  Two tables, so that a cancel can  *)
(* fall before, between and after their loads.                              *)
EXTENDS JobLifecycle
CONSTANTS r1, r2, c1
MCRunners == {r1, r2}
MCCleaners == {c1}
=============================================================================
