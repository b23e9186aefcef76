\* The bound MaxReads ends every behaviour: stopping after the last read is no deadlock.
SPECIFICATION FairSpec
CONSTANTS
    RmwKinds = {acl, binding, channel}
    DiagKinds = {channel}
    OnOff = onoff
    MaxReads = 3
INVARIANTS
    TypeOK
    QuiescentReadIsFaithful
    RmwEndsOnNewCallbacks
    
PROPERTY
    ImplementsAttributeRead
CHECK_DEADLOCK FALSE
