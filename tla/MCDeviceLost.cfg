\* Two devices: the first one's interrogation ends while the second is recorded.
SPECIFICATION Spec
CONSTANTS
    MaxIds = 2
    MaxNodes = 2
    MaxOpen = 1
    KvsFails = FALSE
INVARIANT
    RecordedAtOnce
