\* The bound MaxRequests ends every behaviour: stopping after the last request is no deadlock.
SPECIFICATION PromptSpec
CONSTANTS
    switch = switch
    lamp = lamp
    Controller = controller
    Devices <- Nodes
    Groups = {g, h}
    Endpoints = {1, 2}
    SwitchEp <- Rocker
    OnOffEp <- LampUnknown
    MaxRequests = 4
SYMMETRY GroupSymmetry
PROPERTIES
    AtomicEdits
    TargetsUsableWhenAdded
    GroupGrantsStay
CHECK_DEADLOCK FALSE
