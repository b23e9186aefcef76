------------------------------- MODULE MCPages ------------------------------
\* Two pages of the web interface, which share no variable: the canvas, and the Thread
\* credentials.  A behaviour moves one of them.
EXTENDS Canvas, ThreadCredentials

VARIABLE moving

Init ==
    /\ moving \in {"canvas", "thread"}
    /\ CanvasInit /\ ThreadInit
    /\ moving = "canvas" => ready
    /\ moving = "thread" => nodes = {} /\ nextGroup = 1

Next ==
    /\ \/ moving = "canvas" /\ CanvasNext /\ UNCHANGED <<storeVars, threadVars>>
       \/ moving = "thread" /\ ThreadNext /\ UNCHANGED canvasVars
    /\ UNCHANGED moving

Spec == Init /\ [][Next]_<<canvasVars, storeVars, threadVars, moving>>

=============================================================================
