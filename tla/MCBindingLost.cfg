\* A binding write is still on its way when the next request reads the table.
SPECIFICATION Spec
CONSTANTS
    switch = switch
    lamp = lamp
    Controller = controller
    Devices <- Nodes
    Groups = {g, h}
    Endpoints = {1, 2}
    SwitchEp <- Rocker
    OnOffEp <- BothKnown
    MaxRequests = 2
PROPERTY
    NewBindingPreservesOthers
CHECK_DEADLOCK FALSE
