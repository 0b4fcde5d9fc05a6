CONSTANTS
    StageTransitions <- KnownTransitions
    RegenerateOffered = {"done", "awaiting_decision", "error"}
    ApproveOffered = {"awaiting_decision"}
    Rows = {"brief", "map1", "map2", "patterns1", "patterns12", "canvas1", "stray", "canvas12", "canvas2"}
    Refs <- MCRefs
    Dependents <- MCDependents
    Initial = {"brief"}
    Plans <- StrayPlans
    Names <- MCNames
    Slot <- MCSlot
    MaxAttempts = 2
SPECIFICATION Spec
CONSTRAINT NoFaults
ACTION_CONSTRAINT EnqueueFirst
INVARIANT ApproveGoesThrough
