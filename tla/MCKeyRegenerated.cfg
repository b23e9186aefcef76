\* The key store fails once; the network is prompt.
SPECIFICATION PromptSpec
CONSTANTS
    switch = switch
    lamp = lamp
    Controller = controller
    Devices <- Nodes
    Groups = {g}
    Endpoints = {1}
    SwitchEp <- Rocker
    OnOffEp <- BothKnown
    MaxRequests = 3
INVARIANT
    KeyReusedForever
CHECK_DEADLOCK FALSE
