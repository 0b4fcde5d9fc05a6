----------------------------- MODULE MCWatchdog -----------------------------
(***************************************************************************)
(* Two projects with one row each, read by two requests at a time.         *)
(***************************************************************************)
EXTENDS Watchdog

MCProjectOf == [r \in Rows |-> IF r = "brief1" THEN "project1" ELSE "project2"]

=============================================================================
