CONSTANTS
    StageTransitions <- KnownTransitions
    RegenerateOffered = {"done", "awaiting_decision", "error"}
    ApproveOffered = {"awaiting_decision"}
    Rows = {"brief", "map1", "map2", "patterns", "patterns1", "patterns12",
            "canvas1", "stray", "canvas12"}
    Refs <- MCRefs
    Dependents <- MCDependents
    Initial = {"brief"}
    Plans <- AllPlans
    Names <- MCNames
    Slot <- MCSlot
    MaxAttempts = 2
SPECIFICATION Spec
CONSTRAINT ChainOrGrowth
ACTION_CONSTRAINT EnqueueFirstInGrowth
INVARIANTS
    TypeOK
    Grounded
    MadeFromCurrentInputs
    NothingReadyIsLeft
    RegenerateGoesThrough
    HoldsOnlyWhatItFinished
    RowsCreatedOnce
    AcceptedResultsExpand
PROPERTIES
    ResultsAppliedOnce
    RefusalFailsItsOwnAttempt
