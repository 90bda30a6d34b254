\* A queue of two overflows within one upload cycle, and the collector may
\* change it three times, one short of the generation's period.  The program
\* stops when both task creations failed or the bounds are used up.
SPECIFICATION FairSpec
CONSTANTS
    NoSample = 0
    Capacity = 2
    Generations = 4
    MaxSamples = 6
    MaxResets = 1
    MaxChanges = 3
INVARIANTS
    TypeOK
    NoSampleVanishes
    QueueIsNewestRun
    BatchGenerationIsSound
PROPERTIES
    FailedCycleKeepsQueue
    RetainedNeverRegresses
    EverySampleResolved
CHECK_DEADLOCK FALSE
