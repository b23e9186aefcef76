\* A switch with a light of its own and a lamp, group ids 1 and 2 and the wrap, and
\* two gestures; one border agent with two datasets and one that is too long.  The
\* canvas stops when its gestures are used up.
SPECIFICATION Spec
CONSTANTS
    Devices = {switch, lamp}
    Switches = {switch}
    Loads = {switch}
    Width = 3
    MaxGestures = 2
    Writers = {"httpd"}
    Values = {blank, a, b, junk}
    Blank = blank
    Large = {}
    Missing = Missing
    Cut = Cut
    Datasets = {a, b, big}
    Oversize = {big}
    Junk = junk
INVARIANTS
    CanvasTypeOK
    ViewIsSaved
    
    ShownWithGroup
    ThreadTypeOK
    AnsweredIsDurable
    DatasetIsGenuine
PROPERTIES
    GroupIdsAreNew
    ImplementsDurableStore
CHECK_DEADLOCK FALSE
