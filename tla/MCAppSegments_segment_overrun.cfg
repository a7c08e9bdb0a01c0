CONSTANTS
    DataSize = 16
    Bytes <- MCBytes
    BlobIds <- MCBlobIds
SPECIFICATION Spec
INVARIANTS
    AcceptedWellFormed
\* findAppSegmentsSize returns: every behaviour ends in pc = "done".
CHECK_DEADLOCK FALSE
