-------------------------- MODULE MCPlannedProject --------------------------
\* Clients that enable nothing, or both optional stages, one of them twice, or ask for
\* a stage that is refused; with two segments or two groups, but not both.
EXTENDS PlannedProject

MCRequests ==
    {<<>>, <<BUSINESS_CASE, ENVIRONMENT_SCAN, BUSINESS_CASE>>, <<TEAM_INFO>>, <<PITCH>>}

OneDimension ==
    \/ Cardinality(of_stage(rows, EMPATHY_MAP)) <= 1
    \/ Cardinality(of_stage(rows, CANVAS)) <= 1

=============================================================================
