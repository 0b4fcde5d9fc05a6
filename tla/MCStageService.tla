--------------------------- MODULE MCStageService ---------------------------
\* Two rows, an empathy map drawing from a brief, for TLC.
EXTENDS StageService

MCDependents == [r \in Rows |-> IF r = "brief" THEN {"empathy_map"} ELSE {}]

=============================================================================
