SPECIFICATION FairSpec
CONSTANTS
    MaxAdverts = 3
INVARIANTS
    TypeOK
    CopyIsOneStore
    OnlyOvertakenDumpsErr
PROPERTIES
    SnapshotSettles
