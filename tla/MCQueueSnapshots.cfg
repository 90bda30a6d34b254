\* Three slots, more samples than one batch can tell apart, and the
\* smallest generation counter that MaxChanges allows.
SPECIFICATION Spec
CONSTANTS
    s1 = s1
    s2 = s2
    s3 = s3
    NoSample = NoSample
    Capacity = 3
    Generations = 4
    MaxChanges = 3
    Sample <- MCSample
INVARIANTS
    TypeOK
    GenerationNamesContents
PROPERTIES
    ImplementsFifo
