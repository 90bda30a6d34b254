SPECIFICATION Spec
CONSTANTS
    MaxAdverts = 2
INVARIANTS
    SnapshotIsOneFrame
