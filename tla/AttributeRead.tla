---------------------------- MODULE AttributeRead ----------------------------
(***************************************************************************)
(* What the handlers of matter_controller.cpp take an attribute read to    *)
(* be: a call that ends, with an error and no data or with ESP_OK and the  *)
(* data that this very read fetched.  The data is promised to be the       *)
(* read's own only for a quiet read: one begun while no earlier read was   *)
(* still open, of an attribute whose undecodable report is an error.       *)
(***************************************************************************)
EXTENDS Integers

CONSTANTS MaxReads, Torn, NoRead

VARIABLES
    asked,   \* number of the last read asked for
    quiet,   \* is its data promised to be its own?
    busy,    \* is it still running?
    result   \* what the last ended read returned

vars == <<asked, quiet, busy, result>>

Errors == {"FAIL", "TIMEOUT", "NO_MEM"}

Init ==
    /\ asked = 0
    /\ quiet = TRUE
    /\ busy = FALSE
    /\ result = [id |-> 0, status |-> "FAIL", origin |-> NoRead]

Ask ==
    /\ ~busy
    /\ asked < MaxReads
    /\ asked' = asked + 1
    /\ quiet' \in BOOLEAN
    /\ busy' = TRUE
    /\ UNCHANGED result

Fail ==
    /\ busy
    /\ busy' = FALSE
    /\ \E status \in Errors :
          result' = [id |-> asked, status |-> status, origin |-> NoRead]
    /\ UNCHANGED <<asked, quiet>>

Answer ==
    /\ busy
    /\ busy' = FALSE
    /\ \E origin \in {Torn, NoRead} \union 1..asked :
          /\ quiet => origin = asked
          /\ result' = [id |-> asked, status |-> "OK", origin |-> origin]
    /\ UNCHANGED <<asked, quiet>>

Next == Ask \/ Fail \/ Answer

Spec == Init /\ [][Next]_vars
FairSpec == Spec /\ WF_vars(Fail \/ Answer)
=============================================================================
