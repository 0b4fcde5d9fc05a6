CONSTANTS
    Segments = {1, 2}
    MaxGroups = 2
    Requests <- MCRequests
SPECIFICATION Spec
CONSTRAINT OneDimension
INVARIANTS
    TypeOK
    ExpandedOnce
    CanvasStaysInItsSegments
    NothingStranded
    SnapshotIsWhole
    CompletedMeansWhole
