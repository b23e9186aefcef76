\* One node id, which is given out again after a failure of the KVS: a handler waits for
\* its own device's callback or for its time limit.
SPECIFICATION FairSpec
CONSTANTS
    MaxIds = 1
    MaxNodes = 1
    MaxOpen = 2
    KvsFails = TRUE
INVARIANTS
    ReportedIsDurable
    DeletedStaysDeleted
PROPERTY
    HandlersReturn
