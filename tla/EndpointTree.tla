---------------------------- MODULE EndpointTree ----------------------------
(***************************************************************************)
(* What device_manager and matter_controller compute from the endpoints of *)
(* a device: which endpoint is whose parent, which device type stands for  *)
(* the device, and which endpoint a request goes to.                       *)
(*                                                                         *)
(* order is the vector of endpoint entries; parts[e] is the PartsList that *)
(* e reported and types[e] its device types, in their order.  AddAll is    *)
(* how a report is added to such a vector.                                 *)
(*                                                                         *)
(* FirstClaimant and AppendAll are slips.                                  *)
(***************************************************************************)
EXTENDS Integers, FiniteSetsExt, SequencesExt

NoParent == -1     \* also: no such endpoint
RootNode == "root"
NoType == "none"   \* device type 0
OnOffTypes == {"light", "plug"}
SwitchTypes == {"switch"}
DeviceTypes == {RootNode, "bridged"} \union OnOffTypes \union SwitchTypes

\* Reached(..)[n]: the endpoints that lists lead to in at most n steps from endpoint 0.
Reached(order, parts) ==
    LET within[n \in 0..Len(order)] ==
          IF n = 0
          THEN {0}
          ELSE LET before == within[n - 1]
               IN  before \union UNION {ToSet(parts[e]) : e \in before \intersect ToSet(order)}
    IN  within

\* The breadth-first distance; an endpoint that is not reached counts as 0.
Depth(order, parts, e) ==
    LET within == Reached(order, parts)
        steps == {n \in DOMAIN within : e \in within[n]}
    IN  IF Contains(order, 0) /\ steps # {} THEN Min(steps) ELSE 0

\* The first element of s that is in S; there is one.
FirstIn(s, S) == s[Min({i \in DOMAIN s : s[i] \in S})]

Claimants(order, parts, e) == {c \in ToSet(order) : Contains(parts[c], e)}

FirstClaimant(order, parts, e) ==
    LET claimants == Claimants(order, parts, e)
    IN  IF claimants = {} THEN NoParent ELSE FirstIn(order, claimants)

\* device_manager_resolve_parents: the deepest of those that list e, the first of
\* several.
Parent(order, parts, e) ==
    LET claimants == Claimants(order, parts, e)
        deepest == {c \in claimants : \A d \in claimants :
                        Depth(order, parts, d) <= Depth(order, parts, c)}
    IN  IF claimants = {} THEN NoParent ELSE FirstIn(order, deepest)

\* The types of e but the root's.
OwnTypes(types, e) == ToSet(types[e]) \ {RootNode}

\* select_primary_device_type, over the map of the types that were reported: the
\* first type of the lowest endpoint that has one, endpoint 0 last.
Primary(types) ==
    LET having == {e \in DOMAIN types : OwnTypes(types, e) # {}}
        chosen == IF having = {0} THEN 0 ELSE Min(having \ {0})
    IN  IF having = {} THEN NoType ELSE FirstIn(types[chosen], OwnTypes(types, chosen))

\* device_manager_get_onoff_endpoint and get_switch_endpoint: the first entry of
\* the vector that has one of the types.
FirstWith(order, types, wanted) ==
    LET having == {e \in ToSet(order) : ToSet(types[e]) \intersect wanted # {}}
    IN  IF having = {} THEN NoParent ELSE FirstIn(order, having)

AppendAll(s, t) == s \o t

\* device_manager_add_endpoint, add_endpoint_part and add_device_type, called for each
\* element of t: what is in s already is not added again.  Adding(s, t)[n] is the vector
\* after n of them.
Adding(s, t) ==
    LET added[n \in 0..Len(t)] ==
          IF n = 0 THEN s
          ELSE LET had == added[n - 1]
               IN  IF Contains(had, t[n]) THEN had ELSE Append(had, t[n])
    IN  added
AddAll(s, t) == Adding(s, t)[Len(t)]

=============================================================================
