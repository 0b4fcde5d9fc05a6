CONSTANTS
    StageTransitions <- KnownTransitions
    RegenerateOffered = {"done", "awaiting_decision", "error"}
    ApproveOffered = {"awaiting_decision"}
    Projects = {"project1", "project2"}
    Rows = {"brief1", "brief2"}
    ProjectOf <- MCProjectOf
    Readers = {"s1", "s2"}
    Timeout = 1
SPECIFICATION Spec
INVARIANTS
    TypeOK
    FoundAttemptsAreOver
PROPERTIES
    OnlyStuckRowsExpire
    AttemptsEnd
