---------------------------- MODULE DurableStore ----------------------------
(***************************************************************************)
(* What a component that keeps its state in a JSON file promises: what it  *)
(* holds in RAM can be saved; a save takes a snapshot and, if it comes to  *)
(* an end, replaces the saved value by that snapshot at one moment; before *)
(* that moment a failure or a crash leaves the saved value as it was; a    *)
(* restart gets the saved value back.                                      *)
(*                                                                         *)
(* A flush that fails without anyone noticing ends the promise (Spoil).    *)
(***************************************************************************)
CONSTANTS
    Values,    \* what the component can hold
    Blank,     \* what it holds when nothing is saved
    Large,     \* the values whose text is longer than the loader takes
    NoValue,   \* there is no saved value
    Broken     \* what is saved is no value

VARIABLES
    held,      \* in RAM
    saved,     \* in flash
    pending,   \* the snapshot that is being saved, or NoValue
    spoiled    \* a flush has failed

vars == <<held, saved, pending, spoiled>>

Init ==
    /\ held = Blank /\ saved = NoValue /\ pending = NoValue
    /\ spoiled = FALSE

Recovered(content) == IF content \in Values \ Large THEN content ELSE Blank

Change(v) == pending = NoValue /\ held' = v /\ UNCHANGED <<saved, pending, spoiled>>

\* The saved value is taken away, and with it what is held.
Remove ==
    /\ pending = NoValue
    /\ held' = Blank
    /\ saved' = NoValue
    /\ UNCHANGED <<pending, spoiled>>

Begin == pending = NoValue /\ pending' = held /\ UNCHANGED <<held, saved, spoiled>>

Commit ==
    /\ pending # NoValue
    /\ saved' = pending
    /\ pending' = NoValue
    /\ UNCHANGED <<held, spoiled>>

Fail == pending' = NoValue /\ UNCHANGED <<held, saved, spoiled>>

Spoil == pending # NoValue /\ spoiled' = TRUE /\ UNCHANGED <<held, saved, pending>>

CommitSpoiled ==
    /\ spoiled /\ pending # NoValue
    /\ saved' \in Values \union {NoValue, Broken}
    /\ pending' = NoValue
    /\ UNCHANGED <<held, spoiled>>

Crash ==
    /\ held' = Recovered(saved)
    /\ pending' = NoValue
    /\ UNCHANGED <<saved, spoiled>>

Next ==
    \/ \E v \in Values : Change(v)
    \/ Remove \/ Begin \/ Commit \/ Fail \/ Spoil \/ CommitSpoiled \/ Crash

Spec == Init /\ [][Next]_vars

=============================================================================
