SPECIFICATION FairSpec
INVARIANTS
    CertificateIsProvided
    SessionsAreClosed
    SuccessIsDisconnected
PROPERTIES
    ImplementsPublishCall
    EveryCallReturns
    MissingFileIsUploaded
