CONSTANTS
    StageTransitions <- KnownTransitions
    RegenerateOffered = {"done", "awaiting_decision", "error"}
    ApproveOffered = {"awaiting_decision"}
    Sessions = {s1, s2}
    Rows = {"brief", "map"}
    Refs <- MCRefs
    Dependents <- MCDependents
    Initial = {"brief"}
    Plans <- MCPlans
    Names <- MCNames
    Slot <- MCSlot
    MaxAttempts = 2
SPECIFICATION Spec
CONSTRAINT Bounded
INVARIANTS
    TypeOK
    ChangesAreAnnounced
PROPERTIES
    ImplementsPipeline
    RequestsEnd
