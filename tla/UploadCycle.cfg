\* A queue of one, overflowing, and one reset; any number of upload
\* cycles.  The program stops when the queue is empty and no sample is left, or
\* without an upload task.
CHECK_DEADLOCK FALSE
SPECIFICATION FairCycleSpec
CONSTANTS
    NoSample = 0
    Capacity = 1
    Generations = 3
    MaxSamples = 2
    MaxResets = 1
    MaxChanges = 2
INVARIANTS
    PublisherHasSession
    CycleLeavesModemOff
PROPERTIES
    ImplementsPipeline
    StopIsGraceful
    PinsReleasedFirst
    EveryCycleEnds
    ModemGoesDown
