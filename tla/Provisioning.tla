---------------------------- MODULE Provisioning ----------------------------
(***************************************************************************)
(* How matter_controller.cpp carries out the binding, group and reset      *)
(* requests.  The httpd task runs one request at a time, as a series of    *)
(* steps: a step reads a table (it blocks until the read ends), computes   *)
(* the table the request wants and sends it, or sends a command.  Sending  *)
(* does not block: blocking_write_attr and blocking_invoke_cmd return when *)
(* the message has been handed to the CHIP stack, and nobody looks at the  *)
(* device's answer.  So messages are on their way while later steps and    *)
(* later requests read and write the same tables.                          *)
(*                                                                         *)
(* Reads return what the table holds when they return, which is what       *)
(* ReadRendezvous shows of a read begun while no other is open.  Behaviours*)
(* are those of one fabric: a factory reset, which makes the controller    *)
(* forget the key and leave the fabric, ends them.                         *)
(*                                                                         *)
(* Operators named after a slip are not part of Spec: each stands for a    *)
(* coding error that one of the properties rules out.                      *)
(***************************************************************************)
EXTENDS FabricTables, Sequences

CONSTANT MaxRequests   \* bound: requests in a behaviour

ASSUME MaxRequestsAssumption == MaxRequests \in Nat

VARIABLES
    held,      \* held[p]: what the device holds at path p
    inflight,  \* messages handed to the CHIP stack and not applied yet
    epochKey,  \* the application keyset's key in the KVS, 0 if there is none
    regenerated, \* history: has a key replaced one that was stored?
    local,     \* groups of the controller's own GroupDataProvider
    begun,     \* number of requests begun
    op,        \* the request the httpd task is in, or the last one
    todo,      \* its remaining steps, <<>> when the task is idle
    fetched,   \* has the step's read returned?
    view       \* and what it returned

httpdVars == <<begun, op, todo, fetched, view>>
keyVars == <<epochKey, regenerated, local>>
vars == <<held, inflight, keyVars, httpdVars>>

-----------------------------------------------------------------------------
(* The steps of a request                                                  *)

\* A step names the table, what a failed read does (abort, skip the step, or go
\* on with an empty table; "none": no read) and what a refused send does.
Step(p, read, send) == [path |-> p, read |-> read, send |-> send]
Steps == [path: Paths, read: {"none", "abort", "skip", "empty"}, send: {"abort", "ignore"}]

AddGroupStep(d) ==
    IF OnOffEp[d] = 0 THEN <<>> ELSE <<Step(GroupTable(d), "none", "ignore")>>

InstallKey(d) ==
    <<Step(KeySet(d), "none", "abort"), Step(KeyMap(d), "empty", "abort")>>

BindingFirst(r) ==
    <<Step(Bindings(r.node, r.ep), "abort", "abort"), Step(Acl(r.light), "abort", "abort")>>

\* The light's ACL before the switch's binding; a deletion the other way round.
CreateBinding(r) ==
    <<Step(Acl(r.light), "abort", "abort"), Step(Bindings(r.node, r.ep), "abort", "abort")>>

DeleteBinding(r) ==
    <<Step(Bindings(r.node, r.ep), "skip", "ignore"), Step(Acl(r.light), "skip", "ignore")>>

\* The key, the keymap and the ACL before the membership, and back.
AddGroupMember(r) ==
    InstallKey(r.node)
      \o <<Step(Acl(r.node), "abort", "abort"), Step(GroupTable(r.node), "none", "abort")>>

RemoveGroupMember(r) ==
    <<Step(GroupTable(r.node), "none", "ignore"), Step(KeyMap(r.node), "skip", "ignore"),
      Step(Acl(r.node), "skip", "ignore")>>

\* A switch with a load of its own joins the group as well, and leaves it.
CreateGroupBinding(r) ==
    InstallKey(r.node) \o <<Step(Bindings(r.node, r.ep), "empty", "abort")>>
      \o AddGroupStep(r.node)

DeleteGroupBinding(r) ==
    <<Step(Bindings(r.node, r.ep), "skip", "ignore")>> \o AddGroupStep(r.node)

ResetNodeGroups(r) ==
    <<Step(KeyMap(r.node), "none", "ignore"), Step(KeySet(r.node), "none", "ignore"),
      Step(GroupTable(r.node), "none", "ignore")>>

ResetAcl(r) == <<Step(Acl(r.node), "none", "abort")>>

ResetBindings(r) == <<Step(Bindings(r.node, r.ep), "none", "abort")>>

Program(r) ==
    CASE r.kind = "create_binding" -> CreateBinding(r)
      [] r.kind = "delete_binding" -> DeleteBinding(r)
      [] r.kind = "add_member" -> AddGroupMember(r)
      [] r.kind = "remove_member" -> RemoveGroupMember(r)
      [] r.kind = "create_group_binding" -> CreateGroupBinding(r)
      [] r.kind = "delete_group_binding" -> DeleteGroupBinding(r)
      [] r.kind = "reset_groups" -> ResetNodeGroups(r)
      [] r.kind = "reset_acl" -> ResetAcl(r)
      [] OTHER -> ResetBindings(r)

-----------------------------------------------------------------------------
AllItems == Grants \union Targets \union [key: Nat]
Messages == [req: Nat, op: Requests, path: Paths, items: SUBSET AllItems]

TypeOK ==
    /\ held \in [Paths -> SUBSET AllItems]
    /\ \A p \in Paths : held[p] \subseteq ItemsAt(p)
    /\ inflight \subseteq Messages
    /\ \A m \in inflight : m.req \in 1..begun /\ m.items \subseteq ItemsAt(m.path)
    /\ epochKey \in Nat
    /\ regenerated \in BOOLEAN
    /\ local \subseteq Groups
    /\ begun \in 0..MaxRequests
    /\ op \in Requests \union {NoRequest}
    /\ todo \in Seq(Steps)
    /\ todo # <<>> => op \in Requests /\ begun > 0
    /\ fetched \in BOOLEAN
    /\ IF fetched THEN todo # <<>> /\ view \subseteq ItemsAt(Head(todo).path) ELSE view = {}

Init ==
    /\ held = Commissioned
    /\ inflight = {}
    /\ epochKey = 0
    /\ regenerated = FALSE
    /\ local = {}
    /\ begun = 0
    /\ op = NoRequest
    /\ todo = <<>>
    /\ fetched = FALSE
    /\ view = {}

-----------------------------------------------------------------------------
(* The httpd task                                                          *)

Idle == todo = <<>>
Continue(steps) == todo' = steps /\ fetched' = FALSE /\ view' = {}

\* A web handler calls into matter_controller.cpp.  install_group_key_on_node
\* returns at once when the key store has no key for it or cannot be read.
Begin(r) ==
    /\ Idle
    /\ begun < MaxRequests
    /\ NeedsKey(r) => epochKey # 0
    /\ begun' = begun + 1
    /\ op' = r
    /\ Continue(Program(r))
    /\ UNCHANGED <<held, inflight, keyVars>>

Reading == todo # <<>> /\ ~fetched /\ Head(todo).read # "none"

\* blocking_read_attr returns ESP_OK.
ReadOk ==
    /\ Reading
    /\ fetched' = TRUE
    /\ view' = held[Head(todo).path]
    /\ UNCHANGED <<held, inflight, keyVars, begun, op, todo>>

ReadFailsAsEmpty ==
    /\ Reading
    /\ IF Head(todo).read = "abort"
       THEN Continue(<<>>)
       ELSE fetched' = TRUE /\ view' = {} /\ UNCHANGED todo
    /\ UNCHANGED <<held, inflight, keyVars, begun, op>>

\* It returns ESP_FAIL, ESP_ERR_TIMEOUT or ESP_ERR_NO_MEM.
ReadFails ==
    /\ Reading
    /\ CASE Head(todo).read = "abort" -> Continue(<<>>)
         [] Head(todo).read = "skip" -> Continue(Tail(todo))
         [] OTHER -> fetched' = TRUE /\ view' = {} /\ UNCHANGED todo
    /\ UNCHANGED <<held, inflight, keyVars, begun, op>>

Sending == todo # <<>> /\ (fetched \/ Head(todo).read = "none")

\* A command on the Groups cluster carries the group; a write carries the whole
\* table and KeySetWrite the key.
Message ==
    LET p == Head(todo).path IN
    [req |-> begun, op |-> op, path |-> p,
     items |-> IF p.attr = "groups" THEN {} ELSE Edit(op, p, view, epochKey)]

SendKeepingView ==
    /\ Sending
    /\ inflight' = inflight \union {Message}
    /\ todo' = Tail(todo)
    /\ UNCHANGED <<held, keyVars, begun, op, fetched, view>>

\* send_write_attr_command, send_invoke_cluster_command: ESP_OK once the message
\* is handed over.
Send ==
    /\ Sending
    /\ inflight' = inflight \union {Message}
    /\ Continue(Tail(todo))
    /\ UNCHANGED <<held, keyVars, begun, op>>

\* They return an error, and nothing is sent.
SendFails ==
    /\ Sending
    /\ Continue(IF Head(todo).send = "abort" THEN <<>> ELSE Tail(todo))
    /\ UNCHANGED <<held, inflight, keyVars, begun, op>>

RegisterGroup(g) == local' \in {local, local \union {g}}

CreateGroupAfresh(g) ==
    /\ Idle
    /\ begun < MaxRequests
    /\ begun' = begun + 1
    /\ epochKey' = epochKey + 1
    /\ RegisterGroup(g)
    /\ UNCHANGED <<held, inflight, regenerated, op, todo, fetched, view>>

\* keyset_key_load finds the key.
KeepKey == epochKey # 0 /\ UNCHANGED <<epochKey, regenerated>>

\* It finds none, or the key store fails to give the one it has: a new key is
\* drawn and stored over it.
NewKey == epochKey' = epochKey + 1 /\ regenerated' = (regenerated \/ epochKey # 0)

\* matter_controller_create_group: registering the group with the local provider
\* may fail after the key is stored; when storing it fails nothing is registered.
CreateGroup(g) ==
    /\ Idle
    /\ begun < MaxRequests
    /\ begun' = begun + 1
    /\ \/ (KeepKey \/ NewKey) /\ RegisterGroup(g)
       \/ UNCHANGED keyVars
    /\ UNCHANGED <<held, inflight, op, todo, fetched, view>>

\* matter_controller_delete_group is local: members and bindings stay as they are.
DeleteGroup(g) ==
    /\ Idle
    /\ begun < MaxRequests
    /\ begun' = begun + 1
    /\ local' = local \ {g}
    /\ UNCHANGED <<held, inflight, epochKey, regenerated, op, todo, fetched, view>>

\* The controller restarts in the middle of a request.
Restart ==
    /\ ~Idle
    /\ Continue(<<>>)
    /\ UNCHANGED <<held, inflight, keyVars, begun, op>>

HttpdStep ==
    \/ \E r \in Accepted : Begin(r)
    \/ ReadOk \/ ReadFails \/ Send \/ SendFails
    \/ \E g \in Groups : CreateGroup(g) \/ DeleteGroup(g)
    \/ Restart

-----------------------------------------------------------------------------
(* The devices and the network between                                     *)

\* The device applies a message.  Messages are separate exchanges: they arrive in
\* any order.
Deliver(m) ==
    /\ inflight' = inflight \ {m}
    /\ held' = [held EXCEPT ![m.path] =
                  IF m.path.attr = "groups" THEN GroupEdit(m.op, @) ELSE m.items]
    /\ UNCHANGED keyVars
    /\ UNCHANGED httpdVars

\* No session, no answer, or a status that refuses it; nobody is told.
Lose(m) ==
    /\ inflight' = inflight \ {m}
    /\ UNCHANGED <<held, keyVars>>
    /\ UNCHANGED httpdVars

Next ==
    \/ HttpdStep
    \/ \E m \in inflight : Deliver(m) \/ Lose(m)

Spec == Init /\ [][Next]_vars

\* A prompt network: every message is applied before the httpd task's next step.
PromptNext ==
    \/ HttpdStep /\ inflight = {}
    \/ \E m \in inflight : Deliver(m)

PromptSpec == Init /\ [][PromptNext]_vars

-----------------------------------------------------------------------------
(* Properties                                                              *)

\* The controller never takes its own Administer entry from a device, however
\* reads fail, steps are cut short and writes are lost or overtake each other
\* ("the controller can never lock itself out", matter_controller.cpp:889).
AdminNeverLost ==
    /\ \A d \in Devices : Admin \in held[Acl(d)]
    /\ \A m \in inflight : m.path.attr = "acl" => Admin \in m.items

\* Every keyset on a device is the stored key, so that all members of all groups
\* can decrypt each other, until a stored key could not be read and was replaced:
\* nothing else gives a second key, whatever is lost, late or cut short.
KeyAgreement ==
    regenerated \/ \A d \in Devices : held[KeySet(d)] \subseteq {Key(epochKey)}

\* The same without the exception: "generate + persist a random epoch key the
\* first time, reuse it forever after (regenerating would invalidate the key
\* already installed on existing members)", matter_controller.cpp:1403-1405.
KeyReusedForever ==
    \A d \in Devices : held[KeySet(d)] \subseteq {Key(epochKey)}

Fabric == INSTANCE AtomicFabric

\* With a prompt network, the requests as the code carries them out, with their
\* failed reads, refused sends and restarts, are atomic edits of the tables.
AtomicEdits == Fabric!Spec

\* With a prompt network, a switch is given a target only when it can already use
\* it: the light's ACL grants it Operate (matter_controller.cpp:1167), or the
\* switch maps the group and holds the stored key (matter_controller.cpp:1568).
UsableWhenAdded(s, t) ==
    /\ \A d \in Devices, e \in Endpoints : t = Unicast(d, e) => NodeGrant(s) \in held[Acl(d)]
    /\ \A g \in Groups : t = GroupItem(g) =>
          GroupItem(g) \in held[KeyMap(s)] /\ Key(epochKey) \in held[KeySet(s)]

TargetsUsableWhenAdded ==
    [][\A s \in Devices, e \in Endpoints :
          \A t \in held'[Bindings(s, e)] \ held[Bindings(s, e)] : UsableWhenAdded(s, t)]_vars

\* A new binding leaves the others of its switch endpoint alone ("read-modify-write
\* so existing bindings on the switch endpoint are preserved").
NewBindingPreservesOthers ==
    [][\A m \in inflight :
          m.op.kind = "create_binding" /\ m.path.attr = "bindings" /\ m \notin inflight' =>
              held[m.path] \subseteq held'[m.path]]_vars

\* Installing the group key on a node leaves its other groups mapped
\* ("GroupKeyMap read-modify-write so existing maps on the node are preserved").
InstallPreservesKeyMap ==
    [][\A m \in inflight :
          NeedsKey(m.op) /\ m.path.attr = "keymap" /\ m \notin inflight' =>
              held[m.path] \subseteq held'[m.path]]_vars

\* With a prompt network, a device loses a group's Operate grant only when it is
\* taken out of that group, when its ACL is reset, or by an edit for a binding of
\* a switch to it, which keeps the Operate/CASE subjects alone: adding another
\* group, or taking it out of another, leaves the grant ("every other existing
\* entry is preserved", matter_controller.cpp:1467-1468).
TakesGroupGrant(r, g) ==
    \/ r.kind \in {"reset_acl", "create_binding", "delete_binding"}
    \/ r.kind = "remove_member" /\ r.group = g

GroupGrantsStay ==
    [][\A d \in Devices, g \in Groups :
          GroupGrant(g) \in held[Acl(d)] \ held'[Acl(d)] =>
              \E m \in inflight \ inflight' :
                 m.path = Acl(d) /\ TakesGroupGrant(m.op, g)]_vars

=============================================================================
