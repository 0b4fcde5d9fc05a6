CONSTANTS
    Segments = {1, 2}
    MaxGroups = 2
    Requests <- MCRequests
SPECIFICATION Spec
PROPERTY
    RegeneratedBriefAddsNothing
