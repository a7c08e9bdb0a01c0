CONSTANTS
    DataSize = 16
    Bytes <- MCBytes
    BlobIds <- MCBlobIds
SPECIFICATION Spec
INVARIANTS
    RejectsOnlyMalformed
\* findAppSegmentsSize returns: every behaviour ends in pc = "done".
CHECK_DEADLOCK FALSE
