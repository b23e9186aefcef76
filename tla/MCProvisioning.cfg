\* The bound MaxRequests ends every behaviour: stopping after the last request is no deadlock.
SPECIFICATION Spec
CONSTANTS
    switch = switch
    lamp = lamp
    Controller = controller
    Devices <- Nodes
    Groups = {g}
    Endpoints = {1}
    SwitchEp <- Rocker
    OnOffEp <- BothKnown
    MaxRequests = 3
INVARIANTS
    TypeOK
    AdminNeverLost
    KeyAgreement
CHECK_DEADLOCK FALSE
