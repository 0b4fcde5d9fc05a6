CONSTANTS
    StageTransitions <- KnownTransitions
    RegenerateOffered = {"done", "awaiting_decision", "error"}
    ApproveOffered = {"awaiting_decision"}
    Rows = {"brief", "empathy_map"}
    Dependents <- MCDependents
    Contents = {"version"}
    Failures = {"generation_failed"}
    Reports = {"violations"}
    MaxAttempts = 2
    MaxRetries = 1
    MaxTime = 2
SPECIFICATION Spec
INVARIANTS TypeOK FieldsAgreeWithStatus
PROPERTY RetriesCountedOnStartsOnly
