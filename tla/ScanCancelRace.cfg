\* The system may stop: without a host task, or with the scan given up.
CHECK_DEADLOCK FALSE
SPECIFICATION Spec
PROPERTIES
    OnlyVainSearchIsCancelled
