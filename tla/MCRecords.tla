------------------------------ MODULE MCRecords -----------------------------
\* Two modules that share no variable: what is learnt of a device, and how the file
\* with it is saved by two tasks.  A behaviour moves one of them.
EXTENDS DeviceRecords, JsonStore, TLC

VARIABLE moving

\* All trees of endpoints 0..n, n <= 3, with the order of endpoint 0's list free: it
\* lists every endpoint, or its own parts.  Another endpoint lists its own parts, or the
\* top of a chain all that are below it.
Below(above, e) == {c \in DOMAIN above : above[c] = e}
LeadsUp(above, n) ==
    \A e \in 1..n : above[e] = 0 \/ above[above[e]] = 0 \/
                    (above[above[e]] \notin {e, above[e]} /\ above[above[above[e]]] = 0)
Trees(n) == {above \in [1..n -> 0..n] : (\A e \in 1..n : above[e] # e) /\ LeadsUp(above, n)}

TypesOf(n) == CASE n = 0 -> <<<<"root">>>>
                [] n = 1 -> <<<<"root">>, <<"light">>>>
                [] n = 2 -> <<<<"root">>, <<"switch">>, <<"bridged", "light">>>>
                [] n = 3 -> <<<<"root">>, <<>>, <<"bridged", "plug">>, <<"switch">>>>
Shape(n, above, zero) ==
    [above |-> above @@ (0 :> NoParent),
     types |-> [e \in 0..n |-> TypesOf(n)[e + 1]],
     parts |-> [e \in 0..n |-> IF e = 0 THEN zero ELSE SetToSortSeq(Below(above, e), <)]]
ShapesOf(n) ==
    UNION {{Shape(n, above, zero) : zero \in SetToSeqs(1..n) \union SetToSeqs(Below(above, 0))} :
           above \in Trees(n)}
\* An endpoint whose list names all that are below it, where that is more than its own.
Aggregators(s) == {e \in Ends(s) \ {0} : Under(s, e) # Children(s, e)}
Aggregating(s) == UNION {{[s EXCEPT !.parts[e] = list] : list \in SetToSeqs(Under(s, e))} :
                         e \in Aggregators(s)}
AllShapes ==
    LET trees == UNION {ShapesOf(n) : n \in 0..3}
    IN  trees \union UNION {Aggregating(s) : s \in trees}
TwoShapes == {Shape(1, <<0>>, <<1>>), Shape(3, <<0, 1, 2>>, <<3, 2, 1>>)}

Init ==
    /\ moving \in {"record", "file"}
    /\ StoreInit /\ RecordsInit
    /\ moving = "file" => shape = Shape(1, <<0>>, <<1>>)

Next ==
    /\ \/ moving = "record" /\ RecordsNext /\ UNCHANGED storeVars
       \/ moving = "file" /\ StoreNext /\ UNCHANGED recordVars
    /\ UNCHANGED moving

Spec == Init /\ [][Next]_<<recordVars, storeVars, moving>>

=============================================================================
