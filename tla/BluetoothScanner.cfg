\* The system may stop: without a host task, or with the scan given up.
CHECK_DEADLOCK FALSE
SPECIFICATION FairSpec
INVARIANTS
    RadioIsFlagged
    ScanComesBack
    SearchIsGivenUp
PROPERTIES
    GivingUpIsFinal
    SearchLedGoesOff
