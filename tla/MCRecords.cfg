\* Every tree of up to three endpoints below endpoint 0; two tasks that save one file.
SPECIFICATION Spec
CONSTANTS
    Shapes <- AllShapes
    Later <- TwoShapes
    LastEndpoint = 3
    MaxReads = 2
    Writers = {httpd, chip}
    Values = {none, some, long}
    Blank = none
    Large = {long}
    Missing = Missing
    Cut = Cut
INVARIANTS
    RecordsTypeOK
    StructureIsTrue
    TypeIsTrue
    StoreTypeOK
    NeverEmptied
