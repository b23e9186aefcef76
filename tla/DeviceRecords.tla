--------------------------- MODULE DeviceRecords ---------------------------
(***************************************************************************)
(* What the controller learns of one device by interrogating it            *)
(* (matter_controller.cpp: interrogate_node and its callbacks), as the     *)
(* endpoint entries of its record (device_manager.cpp).                    *)
(*                                                                         *)
(* A wildcard read reports, endpoint after endpoint, the types and then    *)
(* the parts of each.  Each report goes into the record at once, and the   *)
(* types into s_pending_types too; the end of a read chooses the device's  *)
(* type from those, erases them, and works the parents out.  A             *)
(* re-interview clears the endpoints first.  One that timed out leaves its *)
(* read open, and the next one's reports mix with it.                      *)
(* A callback is one step.  The code takes the mutex for each item of a    *)
(* list and for each entry of s_pending_types.  Only the httpd task could  *)
(* come between, with the clearing: of a list cut in two the items before  *)
(* it would go and the others stay, as after a shorter report.             *)
(*                                                                         *)
(* The record exists throughout, and is not loaded from the file (both are *)
(* Commissioning's).  A device changes its endpoints only while it is not  *)
(* being read, and its endpoints are numbered in their order.              *)
(* KeepEndpoints and PendingKept are slips, not part of RecordsSpec.       *)
(***************************************************************************)
EXTENDS EndpointTree

CONSTANTS
    Shapes,  \* the endpoints a device may have: [above, parts, types], each by endpoint
    Later,   \* bound: what it may change to, and may have while two reads are open
    LastEndpoint,  \* bound: the highest endpoint
    MaxReads       \* bound: reads that are open at once

Reads == 1..MaxReads
Closed == -1
Eps == 0..LastEndpoint
None == [e \in Eps |-> <<>>]
Ends(s) == DOMAIN s.parts
Reports(s) == 2 * Cardinality(Ends(s))

Children(s, e) == {c \in Ends(s) \ {0} : s.above[c] = e}

\* What is below e, at any distance.
Under(s, e) ==
    {c \in Ends(s) : \A S \in SUBSET Ends(s) :
        Children(s, e) \subseteq S /\ (\A d \in S : Children(s, d) \subseteq S) => c \in S}

\* The endpoints are a tree below endpoint 0.  The list of one names, once each and in
\* any order, those directly below it, or all that are below it (endpoint 0's, an
\* aggregator's).
IsDevice(s) ==
    /\ \E last \in Eps : Ends(s) = 0..last
    /\ s.above[0] = NoParent /\ \A e \in Ends(s) \ {0} : s.above[e] \in Ends(s)
    /\ Under(s, 0) = Ends(s) \ {0}
    /\ s.parts \in [Ends(s) -> Seq(Ends(s))] /\ s.types \in [Ends(s) -> Seq(DeviceTypes)]
    /\ \A e \in Ends(s) : IsInjective(s.parts[e]) /\ IsInjective(s.types[e])
    /\ \A e \in Ends(s) : ToSet(s.parts[e]) \in {Children(s, e), Under(s, e)}

ASSUME RecordsAssumption ==
    /\ LastEndpoint \in Nat /\ MaxReads \in Nat
    /\ Later \subseteq Shapes /\ \A s \in Shapes : IsDevice(s)

VARIABLES
    shape,     \* the device
    order, parts, types, parent,  \* the endpoint entries of its record
    primary,   \* the record's device type
    pending,   \* s_pending_types
    clearing,  \* a re-interview has cleared the endpoints and not yet sent its read
    reads,     \* reads[r]: how many reports read r has given, or Closed
    newest,    \* history: the read sent since the endpoints were cleared, or 0
    told,      \* history: it has ended, with all its reports given
    steady,    \* history: the device has not changed since the endpoints were cleared
    alone      \* history: no other read was open since then

record == <<order, parts, types, parent, primary>>
recordVars == <<shape, record, pending, clearing, reads, newest, told, steady, alone>>

OpenReads == {r \in Reads : reads[r] # Closed}

RecordsTypeOK ==
    /\ IsDevice(shape)
    /\ order \in Seq(Eps) /\ IsInjective(order)
    /\ parts \in [Eps -> Seq(Eps)] /\ types \in [Eps -> Seq(DeviceTypes)]
    /\ \A e \in Eps : IsInjective(parts[e]) /\ IsInjective(types[e])
    /\ parent \in [Eps -> Eps \union {NoParent}]
    /\ primary \in DeviceTypes \union {NoType} /\ pending \in [Eps -> Seq(DeviceTypes)]
    /\ clearing \in BOOLEAN /\ reads \in [Reads -> Closed..Reports(shape)]
    /\ newest \in Reads \union {0} /\ told \in BOOLEAN /\ steady \in BOOLEAN /\ alone \in BOOLEAN

RecordsInit ==
    /\ shape \in Shapes
    /\ order = <<>> /\ parts = None /\ types = None
    /\ parent = [e \in Eps |-> NoParent]
    /\ primary = NoType /\ pending = None
    /\ clearing = FALSE /\ reads = [r \in Reads |-> Closed]
    /\ newest = 0 /\ told = FALSE /\ steady = FALSE /\ alone = FALSE

-----------------------------------------------------------------------------
(* The httpd task: matter_controller_interrogate_node                      *)

KeepEndpoints ==
    /\ ~clearing /\ clearing' = TRUE
    /\ newest' = 0 /\ told' = FALSE /\ steady' = TRUE /\ alone' = (OpenReads = {})
    /\ UNCHANGED <<shape, record, pending, reads>>

\* device_manager_clear_device_endpoints
ClearEndpoints ==
    /\ ~clearing /\ clearing' = TRUE
    /\ order' = <<>> /\ parts' = None /\ types' = None
    /\ parent' = [e \in Eps |-> NoParent]
    /\ newest' = 0 /\ told' = FALSE /\ steady' = TRUE /\ alone' = (OpenReads = {})
    /\ UNCHANGED <<shape, primary, pending, reads>>

\* interrogate_node
Interrogate(r) ==
    /\ clearing /\ clearing' = FALSE
    /\ r \notin OpenReads /\ Reads \ OpenReads \subseteq r..MaxReads
    /\ OpenReads = {} \/ shape \in Later
    /\ reads' = [reads EXCEPT ![r] = 0]
    /\ newest' = r
    /\ UNCHANGED <<shape, record, pending, told, steady, alone>>

\* No memory for the paths: no read is sent.
NotSent ==
    /\ clearing /\ clearing' = FALSE
    /\ UNCHANGED <<shape, record, pending, reads, newest, told, steady, alone>>

-----------------------------------------------------------------------------
(* The CHIP task: on_interrogation_attr and on_interrogation_done          *)

Reported(r) == reads[r] \div 2
Progress(r) == reads' = [reads EXCEPT ![r] = @ + 1]

ReportTypes(r) ==
    /\ r \in OpenReads /\ reads[r] < Reports(shape) /\ reads[r] % 2 = 0
    /\ LET e == Reported(r)
       IN  /\ order' = AddAll(order, <<e>>)
           /\ types' = [types EXCEPT ![e] = AddAll(@, shape.types[e])]
           /\ pending' = [pending EXCEPT ![e] = @ \o shape.types[e]]
    /\ Progress(r)
    /\ UNCHANGED <<shape, parts, parent, primary, clearing, newest, told, steady, alone>>

\* The parts are endpoints; they are kept as parts of e only if e is known (its
\* entry may have been cleared since its types were reported).
ReportParts(r) ==
    /\ r \in OpenReads /\ reads[r] < Reports(shape) /\ reads[r] % 2 = 1
    /\ LET e == Reported(r)
       IN  /\ order' = AddAll(order, shape.parts[e])
           /\ parts' = IF Contains(order, e)
                       THEN [parts EXCEPT ![e] = AddAll(@, shape.parts[e])]
                       ELSE parts
    /\ Progress(r)
    /\ UNCHANGED <<shape, types, parent, primary, pending, clearing, newest, told, steady, alone>>

PendingKept(r) ==
    /\ primary' = Primary(pending)
    /\ UNCHANGED pending

\* The device's type, from the types of every read since the last end of one.
ChooseType(r) ==
    /\ primary' = Primary(pending)
    /\ pending' = None

\* The read ends, complete or not (an error is reported to nobody).
Finish(r) ==
    /\ r \in OpenReads /\ reads' = [reads EXCEPT ![r] = Closed]
    /\ ChooseType(r)
    /\ parent' = [e \in Eps |-> IF Contains(order, e) THEN Parent(order, parts, e) ELSE NoParent]
    /\ told' = (told \/ (r = newest /\ reads[r] = Reports(shape)))
    /\ newest' = IF r = newest THEN 0 ELSE newest
    /\ UNCHANGED <<shape, order, parts, types, clearing, steady, alone>>

\* No session: the command is freed and no callback runs.
Lost(r) ==
    /\ reads[r] = 0 /\ reads' = [reads EXCEPT ![r] = Closed]
    /\ newest' = IF r = newest THEN 0 ELSE newest
    /\ UNCHANGED <<shape, record, pending, clearing, told, steady, alone>>

\* The device's endpoints change (a bridge gains or loses a device).
ChangeShape(s) ==
    /\ OpenReads = {} /\ s # shape
    /\ shape' = s
    /\ steady' = FALSE
    /\ UNCHANGED <<record, pending, clearing, reads, newest, told, alone>>

RecordsNext ==
    \/ ClearEndpoints \/ NotSent
    \/ \E r \in Reads : Interrogate(r) \/ ReportTypes(r) \/ ReportParts(r) \/ Finish(r) \/ Lost(r)
    \/ \E s \in Later : ChangeShape(s)

RecordsSpec == RecordsInit /\ [][RecordsNext]_recordVars

-----------------------------------------------------------------------------
(* Properties                                                              *)

\* After a re-interview whose read was complete, the record has the endpoints of the
\* device, and no others, with their types, and each below one that it is below on the
\* device: the very one it is part of, if no list names it but that one's and endpoint
\* 0's.  So it is in whatever order the lists name them and whatever other read was
\* still reporting.
NamedDirectly(e) ==
    \A c \in Ends(shape) \ {0} : Contains(shape.parts[c], e) => c = shape.above[e]
IsBelow(e, p) ==
    IF e = 0 THEN p = NoParent
    ELSE p \in Ends(shape) /\ e \in Under(shape, p) /\ (NamedDirectly(e) => p = shape.above[e])
StructureIsTrue ==
    told /\ steady =>
        /\ ToSet(order) = Ends(shape)
        /\ \A e \in Ends(shape) : types[e] = shape.types[e] /\ IsBelow(e, parent[e])

\* If no other read was open, its type is the device's as well, and a request finds an
\* endpoint to switch exactly if the device has one.  (Another read that ends in
\* between takes the types reported so far with it.)
TypeIsTrue ==
    told /\ steady /\ alone =>
        /\ primary = Primary(shape.types)
        /\ LET lamp == FirstWith(order, types, OnOffTypes)
               lamps == {e \in Ends(shape) : ToSet(shape.types[e]) \intersect OnOffTypes # {}}
           IN  IF lamps = {} THEN lamp = NoParent ELSE lamp \in lamps

=============================================================================
