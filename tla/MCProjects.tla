----------------------------- MODULE MCProjects -----------------------------
(***************************************************************************)
(* The default titles of both languages, and two further titles a user or  *)
(* a brief may come up with.                                               *)
(***************************************************************************)
EXTENDS Projects

MCDefault == [l \in Languages |-> IF l = "en" THEN "new_project" ELSE "novyi_proiekt"]

=============================================================================
