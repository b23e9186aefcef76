\* The bound MaxReads ends every behaviour: stopping after the last read is no deadlock.
SPECIFICATION Spec
CONSTANTS
    RmwKinds = {acl, binding, channel}
    DiagKinds = {channel}
    OnOff = onoff
    MaxReads = 2
INVARIANT
    RmwBlocksOnOwnCompletion
CHECK_DEADLOCK FALSE
