---------------------------- MODULE FabricTables ----------------------------
(***************************************************************************)
(* The tables of a commissioned device that matter_controller.cpp writes,  *)
(* the requests of the web API that write them, and the edit each request  *)
(* makes of each table.                                                    *)
(*                                                                         *)
(* A table is at a path [dev, ep, attr] and holds a set of items:          *)
(*   acl       who may do what: privilege, authentication mode, subject    *)
(*   bindings  what a switch endpoint drives: a light's endpoint or a group*)
(*   keymap    the groups mapped to the shared application keyset          *)
(*   keyset    the epoch key installed as that keyset, if any              *)
(*   groups    the groups the device's application endpoint is a member of *)
(* An ACL entry with several subjects is one item for each of them.        *)
(*                                                                         *)
(* AclCopied and AclForgetful are not part of any specification: each      *)
(* stands for a coding error that a property rules out.                    *)
(***************************************************************************)
EXTENDS Integers, FiniteSets

CONSTANTS
    Devices,     \* commissioned nodes
    Groups,      \* group ids
    Controller,  \* kControllerNodeId
    Endpoints,   \* endpoint ids; 0 in a request asks for the recorded one
    SwitchEp,    \* SwitchEp[d]: device_manager's switch endpoint of d, the first
                 \* reported that has a switch's type; 0 without one
    OnOffEp      \* OnOffEp[d]: its On/Off endpoint, likewise

ASSUME EndpointsAssumption ==
    /\ Endpoints \subseteq Nat \ {0}
    /\ SwitchEp \in [Devices -> Endpoints \union {0}]
    /\ OnOffEp \in [Devices -> Endpoints \union {0}]
ASSUME ControllerAssumption == Controller \notin Devices \union Groups

-----------------------------------------------------------------------------
(* Paths and items                                                         *)

Acl(d) == [dev |-> d, ep |-> 0, attr |-> "acl"]
KeyMap(d) == [dev |-> d, ep |-> 0, attr |-> "keymap"]
KeySet(d) == [dev |-> d, ep |-> 0, attr |-> "keyset"]
GroupTable(d) == [dev |-> d, ep |-> 0, attr |-> "groups"]
Bindings(d, e) == [dev |-> d, ep |-> e, attr |-> "bindings"]

Paths == [dev: Devices, ep: {0}, attr: {"acl", "keymap", "keyset", "groups"}]
           \union [dev: Devices, ep: Endpoints, attr: {"bindings"}]

Admin == [privilege |-> "administer", auth |-> "case", subject |-> Controller]
NodeGrant(d) == [privilege |-> "operate", auth |-> "case", subject |-> d]
GroupGrant(g) == [privilege |-> "operate", auth |-> "group", subject |-> g]
Unicast(d, e) == [node |-> d, ep |-> e]
GroupItem(g) == [group |-> g]   \* in bindings, in a keymap, in a group table
Key(k) == [key |-> k]

Grants == [privilege: {"administer", "operate"}, auth: {"case", "group"},
           subject: Devices \union Groups \union {Controller}]
Targets == [node: Devices, ep: Endpoints] \union [group: Groups]

ItemsAt(p) ==
    CASE p.attr = "acl" -> Grants
      [] p.attr = "bindings" -> Targets
      [] p.attr = "keyset" -> [key: Nat]
      [] OTHER -> [group: Groups]

-----------------------------------------------------------------------------
(* Requests                                                                *)

PairRequests ==
    [kind: {"create_binding"}, node: Devices, ep: Endpoints, light: Devices, lightEp: Endpoints]
      \union [kind: {"delete_binding"}, node: Devices, ep: Endpoints, light: Devices,
              lightEp: Endpoints \union {0}]
TargetRequests == [kind: {"create_group_binding", "delete_group_binding"},
                   node: Devices, ep: Endpoints, group: Groups]
MemberRequests == [kind: {"add_member", "remove_member"}, node: Devices, group: Groups]
NodeResets == [kind: {"reset_groups", "reset_acl"}, node: Devices]
BindingResets == [kind: {"reset_bindings"}, node: Devices, ep: Endpoints]

\* Requests with their endpoints resolved.
Requests == PairRequests \union TargetRequests \union MemberRequests
              \union NodeResets \union BindingResets
NoRequest == [kind |-> "none"]

\* Requests the handlers act on; the others return before any message.  An
\* endpoint of the request is taken as given, whatever the device has there; 0
\* becomes the recorded one.  A light's endpoint stays 0 without one, which only
\* a deletion accepts.  A reset of bindings asks device_manager for the endpoint.
Accepted ==
    {r \in PairRequests : r.lightEp = 0 => OnOffEp[r.light] = 0}
      \union TargetRequests
      \union MemberRequests
      \union NodeResets
      \union {r \in BindingResets : r.ep = SwitchEp[r.node]}

\* install_group_key_on_node gives up at once without a stored epoch key.
NeedsKey(r) == r.kind \in {"add_member", "create_group_binding"}

-----------------------------------------------------------------------------
(* The edit a request makes of the table it finds                          *)

\* on_acl_read_attr keeps the Operate/CASE subjects, on_acl_read_full every entry.
OperateCase(acl) == {x \in acl : x.privilege = "operate" /\ x.auth = "case"}
NotAdminCase(acl) == {x \in acl : ~(x.privilege = "administer" /\ x.auth = "case")}

AclCopied(r, old) ==
    CASE r.kind = "create_binding" -> old \union {NodeGrant(r.node)}
      [] r.kind = "delete_binding" -> old \ {NodeGrant(r.node)}
      [] r.kind = "add_member" -> old \union {GroupGrant(r.group)}
      [] r.kind = "remove_member" -> old \ {GroupGrant(r.group)}
      [] OTHER -> {}

AclForgetful(r, old) ==
    CASE r.kind = "create_binding" -> {Admin, NodeGrant(r.node)} \union OperateCase(old)
      [] r.kind = "delete_binding" -> {Admin} \union (OperateCase(old) \ {NodeGrant(r.node)})
      [] r.kind = "add_member" -> {Admin, GroupGrant(r.group)} \union OperateCase(old)
      [] r.kind = "remove_member" -> {Admin} \union (NotAdminCase(old) \ {GroupGrant(r.group)})
      [] OTHER -> {Admin}

\* The controller's own entry is written afresh, never copied from the device.
AclEdit(r, old) ==
    CASE r.kind = "create_binding" -> {Admin, NodeGrant(r.node)} \union OperateCase(old)
      [] r.kind = "delete_binding" -> {Admin} \union (OperateCase(old) \ {NodeGrant(r.node)})
      [] r.kind = "add_member" -> {Admin, GroupGrant(r.group)} \union NotAdminCase(old)
      [] r.kind = "remove_member" -> {Admin} \union (NotAdminCase(old) \ {GroupGrant(r.group)})
      [] OTHER -> {Admin}

\* Without a light endpoint every target on the light goes.
DropsTarget(r, t) ==
    \E e \in Endpoints : t = Unicast(r.light, e) /\ r.lightEp \in {0, e}

BindingsEdit(r, old) ==
    CASE r.kind = "create_binding" -> old \union {Unicast(r.light, r.lightEp)}
      [] r.kind = "delete_binding" -> {t \in old : ~DropsTarget(r, t)}
      [] r.kind = "create_group_binding" -> old \union {GroupItem(r.group)}
      [] r.kind = "delete_group_binding" -> old \ {GroupItem(r.group)}
      [] OTHER -> {}

\* The keymap and the group table gain the group, lose it, or are emptied.
GroupEdit(r, old) ==
    CASE NeedsKey(r) -> old \union {GroupItem(r.group)}
      [] r.kind \in {"remove_member", "delete_group_binding"} -> old \ {GroupItem(r.group)}
      [] OTHER -> {}

\* KeySetWrite of the stored key, KeySetRemove.
KeySetEdit(r, key) == IF NeedsKey(r) THEN {Key(key)} ELSE {}

Edit(r, p, old, key) ==
    CASE p.attr = "acl" -> AclEdit(r, old)
      [] p.attr = "bindings" -> BindingsEdit(r, old)
      [] p.attr = "keyset" -> KeySetEdit(r, key)
      [] OTHER -> GroupEdit(r, old)

\* What the commissioner leaves on a device: the controller administers it.
Commissioned == [p \in Paths |-> IF p.attr = "acl" THEN {Admin} ELSE {}]

=============================================================================
