\* The read of a key map fails; the network is prompt otherwise.
SPECIFICATION PromptSpec
CONSTANTS
    switch = switch
    lamp = lamp
    Controller = controller
    Devices <- Nodes
    Groups = {g, h}
    Endpoints = {1, 2}
    SwitchEp <- Rocker
    OnOffEp <- BothKnown
    MaxRequests = 3
PROPERTY
    InstallPreservesKeyMap
CHECK_DEADLOCK FALSE
