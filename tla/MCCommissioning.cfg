\* Two node ids, so that an attempt can run into the one before it; the node list
\* holds one of them.
SPECIFICATION Spec
CONSTANTS
    MaxIds = 2
    MaxNodes = 1
    MaxOpen = 1
    KvsFails = FALSE
INVARIANTS
    TypeOK
    FreshAttemptIsFaithful
    NodeIdsAreUnique
    ReportedIsDurable
    DeletedStaysDeleted
    QuietInterviewIsSaved
PROPERTY
    ListedUntilLeft
