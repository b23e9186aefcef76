------------------------- MODULE ProvisioningProofs -------------------------
(***************************************************************************)
(* Proofs about Provisioning, for any devices, groups, endpoints and       *)
(* number of requests.  What a request may still do is kept in the type of *)
(* its remaining steps (GoodSteps), so that each action only has to look   *)
(* at the step at the head.                                                *)
(***************************************************************************)
EXTENDS Provisioning, SequenceTheorems, TLAPS

\* The steps request r may have: only the installation of a group key goes on
\* with an empty table, a table written without a read does not depend on what
\* it held, and every table is one the request is about.
GoodSteps(r) ==
    {s \in Steps :
        /\ s.path \in Fabric!Tables(r)
        /\ s.read = "empty" => NeedsKey(r) /\ s.path.attr \in {"keymap", "bindings"}
        /\ s.read = "none" =>
              \/ s.path.attr \in {"groups", "keyset"}
              \/ r.kind \in {"reset_groups", "reset_acl", "reset_bindings"}}

TodoInv ==
    todo # <<>> =>
        /\ todo \in Seq(GoodSteps(op))
        /\ NeedsKey(op) => epochKey # 0

-----------------------------------------------------------------------------
(* The tables and the edits                                                *)

LEMMA PathTypes ==
    ASSUME NEW d \in Devices, NEW e \in Endpoints
    PROVE  /\ Acl(d) \in Paths /\ KeyMap(d) \in Paths /\ KeySet(d) \in Paths
           /\ GroupTable(d) \in Paths /\ Bindings(d, e) \in Paths
BY DEF Paths, Acl, KeyMap, KeySet, GroupTable, Bindings

LEMMA PathAttrs ==
    ASSUME NEW p \in Paths
    PROVE  p.attr \in {"acl", "keymap", "keyset", "groups", "bindings"}
BY DEF Paths

\* An ACL edit yields grants, the controller's Administer entry among them.
LEMMA AclEditGrants ==
    ASSUME NEW r \in Requests, NEW old \in SUBSET Grants
    PROVE  AclEdit(r, old) \subseteq Grants /\ Admin \in AclEdit(r, old)
<1> USE DEF AclEdit, Grants, Admin
<1>1. CASE r.kind \in {"create_binding", "delete_binding"}
      BY <1>1 DEF Requests, PairRequests, TargetRequests, MemberRequests, NodeResets,
                  BindingResets, NodeGrant, OperateCase
<1>2. CASE r.kind \in {"add_member", "remove_member"}
      BY <1>2 DEF Requests, PairRequests, TargetRequests, MemberRequests, NodeResets,
                  BindingResets, GroupGrant, NotAdminCase
<1>3. CASE r.kind \notin {"create_binding", "delete_binding", "add_member", "remove_member"}
      BY <1>3
<1> QED
    BY <1>1, <1>2, <1>3

LEMMA BindingsEditTargets ==
    ASSUME NEW r \in Requests, NEW old \in SUBSET Targets
    PROVE  BindingsEdit(r, old) \subseteq Targets
<1> USE DEF BindingsEdit, Targets
<1>1. CASE r.kind = "create_binding"
      BY <1>1 DEF Requests, PairRequests, TargetRequests, MemberRequests, NodeResets,
                  BindingResets, Unicast
<1>2. CASE r.kind \in {"delete_binding", "delete_group_binding"}
      BY <1>2
<1>3. CASE r.kind = "create_group_binding"
      BY <1>3 DEF Requests, PairRequests, TargetRequests, MemberRequests, NodeResets,
                  BindingResets, GroupItem
<1>4. CASE r.kind \notin {"create_binding", "delete_binding", "create_group_binding",
                          "delete_group_binding"}
      BY <1>4
<1> QED
    BY <1>1, <1>2, <1>3, <1>4

LEMMA GroupEditItems ==
    ASSUME NEW r \in Requests, NEW old \in SUBSET [group: Groups]
    PROVE  GroupEdit(r, old) \subseteq [group: Groups]
<1>1. CASE NeedsKey(r)
      BY <1>1 DEF GroupEdit, NeedsKey, Requests, PairRequests, TargetRequests, MemberRequests,
                  NodeResets, BindingResets, GroupItem
<1>2. CASE ~NeedsKey(r)
      BY <1>2 DEF GroupEdit
<1> QED
    BY <1>1, <1>2

LEMMA ItemTypes ==
    ASSUME NEW p \in Paths
    PROVE  /\ p.attr = "acl" => ItemsAt(p) = Grants
           /\ p.attr = "bindings" => ItemsAt(p) = Targets
           /\ p.attr = "keyset" => ItemsAt(p) = [key: Nat]
           /\ p.attr \in {"keymap", "groups"} => ItemsAt(p) = [group: Groups]
           /\ ItemsAt(p) \subseteq AllItems
BY PathAttrs DEF ItemsAt, AllItems, Targets

\* Whatever a request edits, a table keeps items of its own kind.
LEMMA EditType ==
    ASSUME NEW r \in Requests, NEW p \in Paths, NEW old \in SUBSET ItemsAt(p), NEW key \in Nat
    PROVE  Edit(r, p, old, key) \subseteq ItemsAt(p)
<1>1. CASE p.attr = "acl"
      BY <1>1, AclEditGrants, ItemTypes DEF Edit
<1>2. CASE p.attr = "bindings"
      BY <1>2, BindingsEditTargets, ItemTypes DEF Edit
<1>3. CASE p.attr = "keyset"
      BY <1>3, ItemTypes DEF Edit, KeySetEdit, Key
<1>4. CASE p.attr \in {"keymap", "groups"}
      BY <1>4, GroupEditItems, ItemTypes DEF Edit
<1> QED
    BY <1>1, <1>2, <1>3, <1>4, PathAttrs

-----------------------------------------------------------------------------
(* The steps of a request                                                  *)

LEMMA SamePaths ==
    ASSUME NEW d, NEW e
    PROVE  /\ Fabric!Acl(d) = Acl(d) /\ Fabric!KeyMap(d) = KeyMap(d)
           /\ Fabric!KeySet(d) = KeySet(d) /\ Fabric!GroupTable(d) = GroupTable(d)
           /\ Fabric!Bindings(d, e) = Bindings(d, e)
BY DEF Fabric!Acl, Acl, Fabric!KeyMap, KeyMap, Fabric!KeySet, KeySet, Fabric!GroupTable,
       GroupTable, Fabric!Bindings, Bindings

LEMMA RequestTables ==
    ASSUME NEW r \in Requests
    PROVE  /\ r.kind \in {"create_binding", "delete_binding"} =>
                Fabric!Tables(r) = {Acl(r.light), Bindings(r.node, r.ep)}
           /\ r.kind = "add_member" =>
                Fabric!Tables(r) = {KeySet(r.node), KeyMap(r.node), Acl(r.node), GroupTable(r.node)}
           /\ r.kind = "remove_member" =>
                Fabric!Tables(r) = {KeyMap(r.node), Acl(r.node), GroupTable(r.node)}
           /\ r.kind = "create_group_binding" =>
                Fabric!Tables(r) = {KeySet(r.node), KeyMap(r.node), GroupTable(r.node),
                                    Bindings(r.node, r.ep)}
           /\ r.kind = "delete_group_binding" =>
                Fabric!Tables(r) = {GroupTable(r.node), Bindings(r.node, r.ep)}
           /\ r.kind = "reset_groups" =>
                Fabric!Tables(r) = {KeySet(r.node), KeyMap(r.node), GroupTable(r.node)}
           /\ r.kind = "reset_acl" => Fabric!Tables(r) = {Acl(r.node)}
           /\ r.kind = "reset_bindings" => Fabric!Tables(r) = {Bindings(r.node, r.ep)}
<1>1. PICK a, m, k, g, b, l :
         /\ a = Acl(r.node) /\ m = KeyMap(r.node) /\ k = KeySet(r.node)
         /\ g = GroupTable(r.node) /\ b = Bindings(r.node, r.ep) /\ l = Acl(r.light)
      OBVIOUS
<1>2. /\ Fabric!Acl(r.node) = a /\ Fabric!KeyMap(r.node) = m /\ Fabric!KeySet(r.node) = k
      /\ Fabric!GroupTable(r.node) = g /\ Fabric!Bindings(r.node, r.ep) = b
      /\ Fabric!Acl(r.light) = l
      BY <1>1, SamePaths
<1> QED
    BY <1>1, <1>2 DEF Fabric!Tables

LEMMA InstallSteps ==
    ASSUME NEW r \in Requests, NeedsKey(r)
    PROVE  InstallKey(r.node) \in Seq(GoodSteps(r))
<1>1. r.node \in Devices
      BY DEF Requests, PairRequests, TargetRequests, MemberRequests, NodeResets, BindingResets
<1>2. /\ Step(KeySet(r.node), "none", "abort") \in GoodSteps(r)
      /\ Step(KeyMap(r.node), "empty", "abort") \in GoodSteps(r)
      BY <1>1, RequestTables DEF GoodSteps, Steps, Step, KeySet, KeyMap, Paths, NeedsKey
<1> QED
    BY <1>2 DEF InstallKey

LEMMA GroupSteps ==
    ASSUME NEW r \in Requests, r.kind \in {"create_group_binding", "delete_group_binding"}
    PROVE  AddGroupStep(r.node) \in Seq(GoodSteps(r))
<1>1. r.node \in Devices
      BY DEF Requests, PairRequests, TargetRequests, MemberRequests, NodeResets, BindingResets
<1>2. Step(GroupTable(r.node), "none", "ignore") \in GoodSteps(r)
      BY <1>1, RequestTables DEF GoodSteps, Steps, Step, GroupTable, Paths
<1> QED
    BY <1>2 DEF AddGroupStep

\* Every request is made of good steps.
LEMMA ProgramSteps ==
    ASSUME NEW r \in Requests
    PROVE  Program(r) \in Seq(GoodSteps(r))
<1>a. PICK G : G = GoodSteps(r)
    OBVIOUS
<1>0. r.node \in Devices
      BY DEF Requests, PairRequests, TargetRequests, MemberRequests, NodeResets, BindingResets
<1>1. CASE r.kind \in {"create_binding", "delete_binding"}
  <2>1. r.ep \in Endpoints /\ r.light \in Devices
        BY <1>1 DEF Requests, PairRequests, TargetRequests, MemberRequests, NodeResets,
                    BindingResets
  <2>2. /\ Step(Acl(r.light), "abort", "abort") \in G
        /\ Step(Bindings(r.node, r.ep), "abort", "abort") \in G
        /\ Step(Acl(r.light), "skip", "ignore") \in G
        /\ Step(Bindings(r.node, r.ep), "skip", "ignore") \in G
        BY <1>a, <1>0, <1>1, <2>1, RequestTables DEF GoodSteps, Steps, Step, Acl, Bindings, Paths
  <2> QED
      BY <1>a, <1>1, <2>2 DEF Program, CreateBinding, DeleteBinding
<1>2. CASE r.kind = "add_member"
  <2>1. /\ Step(Acl(r.node), "abort", "abort") \in G
        /\ Step(GroupTable(r.node), "none", "abort") \in G
        BY <1>a, <1>0, <1>2, RequestTables DEF GoodSteps, Steps, Step, Acl, GroupTable, Paths
  <2>2. <<Step(Acl(r.node), "abort", "abort"), Step(GroupTable(r.node), "none", "abort")>>
          \in Seq(G)
        BY <2>1
  <2>3. InstallKey(r.node) \in Seq(G)
        BY <1>2, InstallSteps, <1>a DEF NeedsKey
  <2> QED
      BY <1>a, <1>2, <2>2, <2>3, ConcatProperties DEF Program, AddGroupMember
<1>3. CASE r.kind = "remove_member"
  <2>1. /\ Step(GroupTable(r.node), "none", "ignore") \in G
        /\ Step(KeyMap(r.node), "skip", "ignore") \in G
        /\ Step(Acl(r.node), "skip", "ignore") \in G
        BY <1>a, <1>0, <1>3, RequestTables
        DEF GoodSteps, Steps, Step, Acl, KeyMap, GroupTable, Paths
  <2> QED
      BY <1>a, <1>3, <2>1 DEF Program, RemoveGroupMember
<1>4. CASE r.kind \in {"create_group_binding", "delete_group_binding"}
  <2>1. r.ep \in Endpoints
        BY <1>4 DEF Requests, PairRequests, TargetRequests, MemberRequests, NodeResets,
                    BindingResets
  <2>2. AddGroupStep(r.node) \in Seq(G)
        BY <1>a, <1>4, GroupSteps
  <2>3. CASE r.kind = "create_group_binding"
    <3>1. Step(Bindings(r.node, r.ep), "empty", "abort") \in G
          BY <1>a, <1>0, <2>1, <2>3, RequestTables
          DEF GoodSteps, Steps, Step, Bindings, Paths, NeedsKey
    <3>2. <<Step(Bindings(r.node, r.ep), "empty", "abort")>> \in Seq(G)
          BY <3>1
    <3>3. InstallKey(r.node) \in Seq(G)
          BY <2>3, InstallSteps, <1>a DEF NeedsKey
    <3>4. InstallKey(r.node) \o <<Step(Bindings(r.node, r.ep), "empty", "abort")>> \in Seq(G)
          BY <3>2, <3>3, ConcatProperties
    <3> QED
        BY <1>a, <2>2, <2>3, <3>4, ConcatProperties DEF Program, CreateGroupBinding
  <2>4. CASE r.kind = "delete_group_binding"
    <3>1. Step(Bindings(r.node, r.ep), "skip", "ignore") \in G
          BY <1>a, <1>0, <2>1, <2>4, RequestTables DEF GoodSteps, Steps, Step, Bindings, Paths
    <3>2. <<Step(Bindings(r.node, r.ep), "skip", "ignore")>> \in Seq(G)
          BY <3>1
    <3> QED
        BY <1>a, <2>2, <2>4, <3>2, ConcatProperties DEF Program, DeleteGroupBinding
  <2> QED
      BY <1>4, <2>3, <2>4
<1>5. CASE r.kind = "reset_groups"
  <2>1. /\ Step(KeyMap(r.node), "none", "ignore") \in G
        /\ Step(KeySet(r.node), "none", "ignore") \in G
        /\ Step(GroupTable(r.node), "none", "ignore") \in G
        BY <1>a, <1>0, <1>5, RequestTables
        DEF GoodSteps, Steps, Step, KeyMap, KeySet, GroupTable, Paths
  <2> QED
      BY <1>a, <1>5, <2>1 DEF Program, ResetNodeGroups
<1>6. CASE r.kind = "reset_acl"
  <2>1. Step(Acl(r.node), "none", "abort") \in G
        BY <1>a, <1>0, <1>6, RequestTables DEF GoodSteps, Steps, Step, Acl, Paths
  <2> QED
      BY <1>a, <1>6, <2>1 DEF Program, ResetAcl
<1>7. CASE r.kind = "reset_bindings"
  <2>1. r.ep \in Endpoints
        BY <1>7 DEF Requests, PairRequests, TargetRequests, MemberRequests, NodeResets,
                    BindingResets
  <2>2. Step(Bindings(r.node, r.ep), "none", "abort") \in G
        BY <1>a, <1>0, <1>7, <2>1, RequestTables DEF GoodSteps, Steps, Step, Bindings, Paths
  <2> QED
      BY <1>a, <1>7, <2>2 DEF Program, ResetBindings
<1> QED
    BY <1>1, <1>2, <1>3, <1>4, <1>5, <1>6, <1>7
    DEF Requests, PairRequests, TargetRequests, MemberRequests, NodeResets, BindingResets

-----------------------------------------------------------------------------
(* Types                                                                   *)

LEMMA TodoSteps ==
    ASSUME TodoInv, todo # <<>>
    PROVE  /\ todo \in Seq(Steps) /\ Head(todo) \in GoodSteps(op)
           /\ Head(todo) \in Steps /\ Head(todo).path \in Paths
           /\ Tail(todo) \in Seq(GoodSteps(op)) /\ Tail(todo) \in Seq(Steps)
<1>1. todo \in Seq(GoodSteps(op))
      BY DEF TodoInv
<1>2. GoodSteps(op) \subseteq Steps
      BY DEF GoodSteps
<1>3. Head(todo) \in GoodSteps(op) /\ Tail(todo) \in Seq(GoodSteps(op))
      BY <1>1, HeadTailProperties
<1>4. todo \in Seq(Steps) /\ Tail(todo) \in Seq(Steps)
      BY <1>1, <1>2, <1>3, SeqMonotonic
<1>5. Head(todo).path \in Paths
      BY <1>2, <1>3 DEF Steps
<1> QED
    BY <1>2, <1>3, <1>4, <1>5

\* The remaining steps are good ones in every reachable state.
LEMMA NextTodoInv == TypeOK /\ TodoInv /\ [Next]_vars => TodoInv'
<1> SUFFICES ASSUME TypeOK, TodoInv, [Next]_vars PROVE TodoInv'
    OBVIOUS
<1> USE DEF keyVars
<1>1. ASSUME NEW r \in Accepted, Begin(r) PROVE TodoInv'
  <2>1. r \in Requests
        BY DEF Accepted, Requests
  <2> QED
      BY <1>1, <2>1, ProgramSteps DEF Begin, Continue, TodoInv
<1>2. CASE ReadOk
      BY <1>2 DEF ReadOk, TodoInv
<1>3. CASE ReadFails
  <2>1. todo # <<>> /\ op' = op /\ epochKey' = epochKey
        BY <1>3 DEF ReadFails, Reading
  <2>2. todo' \in {<<>>, Tail(todo), todo}
        BY <1>3 DEF ReadFails, Reading, Continue
  <2> QED
      BY <2>1, <2>2, TodoSteps DEF TodoInv
<1>4. CASE Send
      BY <1>4, TodoSteps DEF Send, Sending, Continue, TodoInv
<1>5. CASE SendFails
  <2>1. todo # <<>> /\ op' = op /\ epochKey' = epochKey
        BY <1>5 DEF SendFails, Sending
  <2>2. todo' \in {<<>>, Tail(todo)}
        BY <1>5 DEF SendFails, Continue
  <2> QED
      BY <2>1, <2>2, TodoSteps DEF TodoInv
<1>6. ASSUME NEW g \in Groups, CreateGroup(g) \/ DeleteGroup(g) PROVE TodoInv'
      BY <1>6 DEF CreateGroup, KeepKey, NewKey, RegisterGroup, DeleteGroup, Idle, TodoInv
<1>7. CASE Restart
      BY <1>7 DEF Restart, Continue, TodoInv
<1>8. ASSUME NEW m \in inflight, Deliver(m) \/ Lose(m) PROVE TodoInv'
      BY <1>8 DEF Deliver, Lose, httpdVars, TodoInv
<1>9. CASE UNCHANGED vars
      BY <1>9 DEF vars, httpdVars, TodoInv
<1> QED
    BY <1>1, <1>2, <1>3, <1>4, <1>5, <1>6, <1>7, <1>8, <1>9 DEF Next, HttpdStep

LEMMA InitTypeOK == Init => TypeOK /\ TodoInv
<1> SUFFICES ASSUME Init PROVE TypeOK /\ TodoInv
    OBVIOUS
<1>1. \A p \in Paths : Commissioned[p] \subseteq ItemsAt(p) /\ Commissioned[p] \subseteq AllItems
      BY ItemTypes DEF Commissioned, Admin, Grants, AllItems
<1>2. held \in [Paths -> SUBSET AllItems] /\ \A p \in Paths : held[p] \subseteq ItemsAt(p)
      BY <1>1 DEF Init, Commissioned
<1>3. todo \in Seq(Steps)
      BY EmptySeq DEF Init
<1>4. /\ inflight = {} /\ local = {} /\ begun \in 0..MaxRequests /\ epochKey \in Nat
      /\ regenerated = FALSE
      BY MaxRequestsAssumption DEF Init
<1>5. /\ op \in Requests \union {NoRequest} /\ todo = <<>>
      /\ fetched = FALSE /\ view = {}
      BY DEF Init
<1>6. TodoInv
      BY <1>5 DEF TodoInv
<1> QED
    BY <1>2, <1>3, <1>4, <1>5, <1>6 DEF TypeOK

\* The message of a send is one of the kind its table takes.
LEMMA MessageType ==
    ASSUME TypeOK, TodoInv, Sending
    PROVE  Message \in Messages /\ Message.items \subseteq ItemsAt(Message.path)
<1>1. Head(todo).path \in Paths /\ op \in Requests
      BY TodoSteps DEF Sending, TypeOK
<1>2. view \subseteq ItemsAt(Head(todo).path)
      BY DEF TypeOK
<1>3. Edit(op, Head(todo).path, view, epochKey) \subseteq ItemsAt(Head(todo).path)
      BY <1>1, <1>2, EditType DEF TypeOK
<1>4. ItemsAt(Head(todo).path) \subseteq AllItems
      BY <1>1, ItemTypes
<1>5. begun \in Nat
      BY MaxRequestsAssumption DEF TypeOK
<1> QED
    BY <1>1, <1>3, <1>4, <1>5 DEF Message, Messages

\* A key is kept, is the first, or replaces one that could not be read.
KeyStep ==
    \/ UNCHANGED <<epochKey, regenerated>>
    \/ epochKey = 0 /\ regenerated' = regenerated
    \/ epochKey' # 0 /\ regenerated'

LEMMA NewKeySteps ==
    ASSUME TypeOK, NewKey
    PROVE  KeyStep /\ epochKey' \in Nat \ {0} /\ regenerated' \in BOOLEAN
<1>1. epochKey' \in Nat \ {0}
      BY DEF TypeOK, NewKey
<1>2. CASE epochKey = 0
      BY <1>1, <1>2, Zenon DEF TypeOK, NewKey, KeyStep
<1>3. CASE epochKey # 0
  <2>1. regenerated' = TRUE
        BY <1>3, Zenon DEF NewKey
  <2> QED
      BY <1>1, <2>1 DEF KeyStep
<1> QED
    BY <1>2, <1>3

LEMMA NextTypeOK == TypeOK /\ TodoInv /\ [Next]_vars => TypeOK'
<1> SUFFICES ASSUME TypeOK, TodoInv, [Next]_vars PROVE TypeOK'
    OBVIOUS
<1> USE MaxRequestsAssumption
<1> USE DEF keyVars
<1>1. ASSUME NEW r \in Accepted, Begin(r) PROVE TypeOK'
  <2>1. r \in Requests
        BY DEF Accepted, Requests
  <2>2. Program(r) \in Seq(Steps)
        BY <2>1, ProgramSteps, SeqMonotonic DEF GoodSteps
  <2>3. /\ begun' \in 0..MaxRequests /\ begun' > 0
        /\ \A m \in inflight : m.req \in 1..begun'
        BY <1>1 DEF Begin, TypeOK
  <2> QED
      BY <1>1, <2>1, <2>2, <2>3 DEF Begin, Continue, TypeOK
<1>2. CASE ReadOk
  <2>1. Head(todo).path \in Paths
        BY <1>2, TodoSteps DEF ReadOk, Reading
  <2> QED
      BY <1>2, <2>1 DEF ReadOk, Reading, TypeOK
<1>3. CASE ReadFails
  <2>1. CASE Continue(<<>>) \/ Continue(Tail(todo))
    <3>1. todo' \in Seq(Steps) /\ (todo' # <<>> => op \in Requests /\ begun > 0)
          BY <1>3, <2>1, TodoSteps, EmptySeq DEF Continue, ReadFails, Reading, TypeOK
    <3> QED
        BY <1>3, <2>1, <3>1 DEF Continue, ReadFails, TypeOK
  <2>2. CASE fetched' = TRUE /\ view' = {} /\ UNCHANGED todo
        BY <1>3, <2>2 DEF ReadFails, Reading, TypeOK
  <2> QED
      BY <1>3, <2>1, <2>2 DEF ReadFails
<1>4. CASE Send
  <2>1. Tail(todo) \in Seq(Steps) /\ op \in Requests /\ begun > 0
        BY <1>4, TodoSteps DEF Send, Sending, TypeOK
  <2>2. /\ Message \in Messages /\ Message.items \subseteq ItemsAt(Message.path)
        /\ Message.req = begun
        BY <1>4, MessageType DEF Send, Message
  <2>3. begun \in 1..begun
        BY <2>1 DEF TypeOK
  <2> QED
      BY <1>4, <2>1, <2>2, <2>3 DEF Send, Continue, TypeOK
<1>5. CASE SendFails
  <2>1. todo' \in Seq(Steps) /\ (todo' # <<>> => op \in Requests /\ begun > 0)
        BY <1>5, TodoSteps, EmptySeq DEF SendFails, Sending, Continue, TypeOK
  <2> QED
      BY <1>5, <2>1 DEF SendFails, Continue, TypeOK
<1>6. ASSUME NEW g \in Groups, CreateGroup(g) \/ DeleteGroup(g) PROVE TypeOK'
  <2>1. epochKey' \in Nat /\ regenerated' \in BOOLEAN
    <3>1. CASE NewKey
          BY <3>1, NewKeySteps
    <3>2. CASE ~NewKey
          BY <1>6, <3>2 DEF CreateGroup, DeleteGroup, KeepKey, TypeOK
    <3> QED
        BY <3>1, <3>2
  <2>2. begun' \in Nat /\ begun' \in 0..MaxRequests /\ begun' = begun + 1 /\ local' \subseteq Groups
        BY <1>6 DEF CreateGroup, DeleteGroup, RegisterGroup, TypeOK
  <2>3. UNCHANGED <<held, inflight, op, todo, fetched, view>>
        BY <1>6 DEF CreateGroup, DeleteGroup
  <2> QED
      BY <2>1, <2>2, <2>3 DEF TypeOK
<1>7. CASE Restart
      BY <1>7, EmptySeq DEF Restart, Continue, TypeOK
<1>8. ASSUME NEW m \in inflight, Deliver(m) PROVE TypeOK'
  <2>1. m.path \in Paths /\ m.op \in Requests /\ m.items \subseteq ItemsAt(m.path)
        BY DEF TypeOK, Messages
  <2>2. m.path.attr = "groups" => GroupEdit(m.op, held[m.path]) \subseteq ItemsAt(m.path)
        BY <2>1, GroupEditItems, ItemTypes DEF TypeOK
  <2>3. held'[m.path] \subseteq ItemsAt(m.path) /\ held'[m.path] \subseteq AllItems
        BY <1>8, <2>1, <2>2, ItemTypes DEF Deliver, TypeOK
  <2>4. held' \in [Paths -> SUBSET AllItems] /\ \A p \in Paths : held'[p] \subseteq ItemsAt(p)
        BY <1>8, <2>1, <2>3 DEF Deliver, TypeOK
  <2> QED
      BY <1>8, <2>4 DEF Deliver, httpdVars, TypeOK
<1>9. ASSUME NEW m \in inflight, Lose(m) PROVE TypeOK'
      BY <1>9 DEF Lose, httpdVars, TypeOK
<1>10. CASE UNCHANGED vars
      BY <1>10 DEF vars, httpdVars, TypeOK
<1> QED
    BY <1>1, <1>2, <1>3, <1>4, <1>5, <1>6, <1>7, <1>8, <1>9, <1>10 DEF Next, HttpdStep

\* Tables, messages and the remaining steps of the request in progress stay in
\* their types, whatever fails and however messages overtake each other.
THEOREM TypeCorrect == Spec => []TypeOK
<1>1. TypeOK /\ TodoInv /\ [Next]_vars => (TypeOK /\ TodoInv)'
      BY NextTypeOK, NextTodoInv
<1> QED
    BY InitTypeOK, <1>1, PTL DEF Spec

-----------------------------------------------------------------------------
(* The controller stays administrator                                      *)

LEMMA NextAdmin ==
    TypeOK /\ TodoInv /\ AdminNeverLost /\ [Next]_vars => AdminNeverLost'
<1> SUFFICES ASSUME TypeOK, TodoInv, AdminNeverLost, [Next]_vars PROVE AdminNeverLost'
    OBVIOUS
<1> USE DEF keyVars
<1>1. CASE Send
  <2>1. Head(todo).path \in Paths /\ op \in Requests
        BY <1>1, TodoSteps DEF Send, Sending, TypeOK
  <2>2. view \subseteq ItemsAt(Head(todo).path)
        BY DEF TypeOK
  <2>3. Message.path.attr = "acl" => Admin \in Message.items
        BY <2>1, <2>2, AclEditGrants, ItemTypes DEF Message, Edit
  <2> QED
      BY <1>1, <2>3 DEF Send, AdminNeverLost
<1>2. ASSUME NEW m \in inflight, Deliver(m) PROVE AdminNeverLost'
  <2>1. m.path \in Paths
        BY DEF TypeOK, Messages
  <2>2. ASSUME NEW d \in Devices PROVE Admin \in held'[Acl(d)]
    <3>1. CASE m.path = Acl(d)
      <4>1. m.path.attr = "acl"
            BY <3>1 DEF Acl
      <4>2. held'[Acl(d)] = m.items
            BY <1>2, <2>1, <3>1, <4>1 DEF Deliver, TypeOK
      <4> QED
          BY <4>1, <4>2 DEF AdminNeverLost
    <3>2. CASE m.path # Acl(d)
          BY <1>2, <3>2 DEF Deliver, TypeOK, AdminNeverLost
    <3> QED
        BY <3>1, <3>2
  <2> QED
      BY <1>2, <2>2 DEF Deliver, AdminNeverLost
<1>3. CASE UNCHANGED held /\ inflight' \subseteq inflight
      BY <1>3 DEF AdminNeverLost
<1>4. CASE ~Send /\ ~(\E m \in inflight : Deliver(m))
  <2>1. UNCHANGED held /\ inflight' \subseteq inflight
        BY <1>4 DEF Next, HttpdStep, Begin, ReadOk, ReadFails, SendFails, CreateGroup,
                    DeleteGroup, Restart, Lose, vars, httpdVars
  <2> QED
      BY <2>1, <1>3
<1> QED
    BY <1>1, <1>2, <1>4

\* No sequence of requests, failures, restarts, losses and reorderings takes the
\* controller's Administer entry from a device.
THEOREM AdminSafe == Spec => []AdminNeverLost
<1>1. Init => AdminNeverLost
      BY PathTypes DEF Init, AdminNeverLost, Commissioned, Acl, Paths
<1>2. TypeOK /\ TodoInv /\ AdminNeverLost /\ [Next]_vars
        => (TypeOK /\ TodoInv /\ AdminNeverLost)'
      BY NextTypeOK, NextTodoInv, NextAdmin
<1> QED
    BY InitTypeOK, <1>1, <1>2, PTL DEF Spec

-----------------------------------------------------------------------------
(* One key on every device                                                 *)

\* Only the stored key is installed or on its way, unless it replaced another one,
\* and none before one is stored.
KeysAre(items) ==
    /\ regenerated \/ items \subseteq {Key(epochKey)}
    /\ items # {} => epochKey # 0

KeyInv ==
    /\ \A p \in Paths : p.attr = "keyset" => KeysAre(held[p])
    /\ \A m \in inflight : m.path.attr = "keyset" => KeysAre(m.items)

LEMMA NextKeyInv == TypeOK /\ TodoInv /\ KeyInv /\ [Next]_vars => KeyInv'
<1> SUFFICES ASSUME TypeOK, TodoInv, KeyInv, [Next]_vars PROVE KeyInv'
    OBVIOUS
<1> USE DEF keyVars
<1>1. CASE Send
  <2>1. Message.path.attr = "keyset" => Message.items = KeySetEdit(op, epochKey)
        BY DEF Message, Edit
  <2>2. NeedsKey(op) => epochKey # 0
        BY <1>1 DEF Send, Sending, TodoInv
  <2>3. Message.path.attr = "keyset" => KeysAre(Message.items)
        BY <2>1, <2>2 DEF KeySetEdit, KeysAre
  <2>4. UNCHANGED <<held, epochKey, regenerated>> /\ inflight' = inflight \union {Message}
        BY <1>1 DEF Send
  <2> QED
      BY <2>3, <2>4 DEF KeyInv, KeysAre
<1>2. ASSUME NEW m \in inflight, Deliver(m) PROVE KeyInv'
  <2>1. m.path \in Paths
        BY DEF TypeOK, Messages
  <2>2. ASSUME NEW p \in Paths, p.attr = "keyset" PROVE KeysAre(held'[p])
    <3>1. CASE m.path = p
          BY <1>2, <2>1, <2>2, <3>1 DEF Deliver, TypeOK, KeyInv
    <3>2. CASE m.path # p
          BY <1>2, <2>2, <3>2 DEF Deliver, TypeOK, KeyInv
    <3> QED
        BY <3>1, <3>2
  <2>3. UNCHANGED <<epochKey, regenerated>> /\ inflight' \subseteq inflight
        BY <1>2 DEF Deliver
  <2> QED
      BY <2>2, <2>3 DEF KeyInv, KeysAre
<1>3. CASE UNCHANGED held /\ inflight' \subseteq inflight /\ KeyStep
      BY <1>3 DEF KeyInv, KeysAre, KeyStep
<1>4. CASE ~Send /\ ~(\E m \in inflight : Deliver(m))
  <2>1. UNCHANGED held /\ inflight' \subseteq inflight
        BY <1>4 DEF Next, HttpdStep, Begin, ReadOk, ReadFails, SendFails, CreateGroup,
                    DeleteGroup, Restart, Lose, vars, httpdVars
  <2>2. ASSUME ~UNCHANGED <<epochKey, regenerated>> PROVE KeyStep
    <3>1. NewKey
          BY <1>4, <2>2 DEF Next, HttpdStep, Begin, ReadOk, ReadFails, SendFails, CreateGroup,
                            KeepKey, DeleteGroup, Restart, Lose, vars, httpdVars
    <3> QED
        BY <3>1, NewKeySteps
  <2>3. KeyStep
        BY <2>2 DEF KeyStep
  <2> QED
      BY <1>3, <2>1, <2>3
<1> QED
    BY <1>1, <1>2, <1>4

\* However the messages travel, no device ever holds an application key other
\* than the one stored on the controller, unless that replaced one that the key
\* store would not give.
THEOREM KeysAgree == Spec => []KeyAgreement
<1>1. Init => KeyInv
      BY DEF Init, KeyInv, KeysAre, Commissioned
<1>2. TypeOK /\ TodoInv /\ KeyInv /\ [Next]_vars => (TypeOK /\ TodoInv /\ KeyInv)'
      BY NextTypeOK, NextTodoInv, NextKeyInv
<1>3. KeyInv => KeyAgreement
  <2>1. \A d \in Devices : KeySet(d) \in Paths /\ KeySet(d).attr = "keyset"
        BY DEF KeySet, Paths
  <2> QED
      BY <2>1 DEF KeyInv, KeysAre, KeyAgreement
<1> QED
    BY InitTypeOK, <1>1, <1>2, <1>3, PTL DEF Spec

-----------------------------------------------------------------------------
(* With a prompt network the requests are atomic edits                     *)

Refills(r, p) == NeedsKey(r) /\ p.attr \in {"keymap", "bindings"}

\* What the table at p may become by request r.
Outcome(r, p, items) ==
    \/ items = Edit(r, p, held[p], epochKey)
    \/ Refills(r, p) /\ items = Edit(r, p, {}, epochKey)

\* The task has read what the table still holds, and the one message on its way
\* carries an edit of what the table still holds.
PromptInv ==
    /\ fetched =>
          /\ inflight = {}
          /\ \/ view = held[Head(todo).path]
             \/ view = {} /\ Refills(op, Head(todo).path)
    /\ \A m, n \in inflight : m = n
    /\ \A m \in inflight :
          /\ m.op = op /\ m.path \in Fabric!Tables(op)
          /\ m.path.attr # "groups" => Outcome(m.op, m.path, m.items)

LEMMA PromptIsNext == [PromptNext]_vars => [Next]_vars
BY DEF PromptNext, Next

\* A table written without a read is written whatever it held.
LEMMA UnreadEdits ==
    ASSUME NEW r \in Requests, NEW p \in Paths, NEW old, NEW key, NEW s \in GoodSteps(r),
           s.path = p, s.read = "none", p.attr # "groups"
    PROVE  Edit(r, p, {}, key) = Edit(r, p, old, key)
<1>1. CASE p.attr = "keyset"
      BY <1>1 DEF Edit
<1>2. CASE r.kind \in {"reset_groups", "reset_acl", "reset_bindings"}
      BY <1>2, PathAttrs DEF Edit, AclEdit, BindingsEdit, GroupEdit, KeySetEdit, NeedsKey
<1> QED
    BY <1>1, <1>2 DEF GoodSteps

LEMMA NextPromptInv ==
    TypeOK /\ TodoInv /\ PromptInv /\ [PromptNext]_vars => PromptInv'
<1> SUFFICES ASSUME TypeOK, TodoInv, PromptInv, [PromptNext]_vars PROVE PromptInv'
    OBVIOUS
<1> USE DEF keyVars
<1>1. ASSUME inflight = {}, inflight' = {}, fetched' = FALSE PROVE PromptInv'
      BY <1>1 DEF PromptInv
<1>2. ASSUME NEW r \in Accepted, Begin(r), inflight = {} PROVE PromptInv'
      BY <1>1, <1>2 DEF Begin, Continue
<1>3. CASE ReadOk /\ inflight = {}
      BY <1>3 DEF ReadOk, Reading, PromptInv
<1>4. CASE ReadFails /\ inflight = {}
  <2>1. CASE Continue(<<>>) \/ Continue(Tail(todo))
        BY <1>1, <1>4, <2>1 DEF ReadFails, Continue
  <2>2. CASE Head(todo).read = "empty"
    <3>1. Refills(op, Head(todo).path)
          BY <1>4, <2>2, TodoSteps DEF ReadFails, Reading, GoodSteps, Refills
    <3>2. fetched' = TRUE /\ view' = {} /\ UNCHANGED <<todo, op, held, epochKey, inflight>>
          BY <1>4, <2>2 DEF ReadFails
    <3> QED
        BY <1>4, <3>1, <3>2 DEF PromptInv, Refills
  <2>3. Head(todo).read \in {"abort", "skip", "empty"}
        BY <1>4, TodoSteps DEF ReadFails, Reading, Steps
  <2> QED
      BY <1>4, <2>1, <2>2, <2>3 DEF ReadFails
<1>5. CASE Send /\ inflight = {}
  <2> DEFINE p == Head(todo).path
  <2>1. p \in Paths /\ op \in Requests /\ Head(todo) \in GoodSteps(op)
        BY <1>5, TodoSteps DEF Send, Sending, TypeOK
  <2>2. Message.op = op /\ Message.path = p
        BY DEF Message
  <2>3. p.attr # "groups" => Message.items = Edit(op, p, view, epochKey)
        BY DEF Message
  <2>4. p.attr # "groups" => Outcome(op, p, Message.items)
    <3>1. CASE fetched
          BY <2>3, <3>1 DEF PromptInv, Outcome
    <3>2. CASE ~fetched
      <4>1. view = {} /\ Head(todo).read = "none"
            BY <1>5, <3>2 DEF Send, Sending, TypeOK
      <4>2. p.attr # "groups" => Edit(op, p, {}, epochKey) = Edit(op, p, held[p], epochKey)
            BY <2>1, <4>1, UnreadEdits
      <4> QED
          BY <2>3, <4>1, <4>2 DEF Outcome
    <3> QED
        BY <3>1, <3>2
  <2>5. p \in Fabric!Tables(op)
        BY <2>1 DEF GoodSteps
  <2>6. inflight' = {Message} /\ fetched' = FALSE /\ UNCHANGED <<held, epochKey, op>>
        BY <1>5 DEF Send, Continue
  <2> QED
      BY <2>2, <2>4, <2>5, <2>6 DEF PromptInv, Outcome
<1>6. CASE SendFails /\ inflight = {}
      BY <1>1, <1>6 DEF SendFails, Continue
<1>7. ASSUME NEW g \in Groups, CreateGroup(g) \/ DeleteGroup(g), inflight = {} PROVE PromptInv'
  <2>1. ~fetched
        BY <1>7 DEF CreateGroup, DeleteGroup, Idle, TypeOK
  <2> QED
      BY <1>1, <1>7, <2>1 DEF CreateGroup, KeepKey, NewKey, RegisterGroup, DeleteGroup, TypeOK
<1>8. CASE Restart /\ inflight = {}
      BY <1>1, <1>8 DEF Restart, Continue
<1>9. ASSUME NEW m \in inflight, Deliver(m) PROVE PromptInv'
  <2>1. inflight' = {}
        BY <1>9 DEF Deliver, PromptInv
  <2>2. ~fetched
        BY DEF PromptInv
  <2> QED
      BY <1>9, <2>1, <2>2 DEF Deliver, httpdVars, PromptInv, TypeOK
<1>10. CASE UNCHANGED vars
      BY <1>10 DEF vars, httpdVars, PromptInv, Outcome
<1> QED
    BY <1>2, <1>3, <1>4, <1>5, <1>6, <1>7, <1>8, <1>9, <1>10 DEF PromptNext, HttpdStep

\* The abstract specification uses the same operators on the same constants.
LEMMA SameOperators ==
    /\ Fabric!Commissioned = Commissioned
    /\ Fabric!Requests = Requests /\ Fabric!NoRequest = NoRequest
    /\ \A r : Fabric!NeedsKey(r) <=> NeedsKey(r)
    /\ \A r, p, old, key : Fabric!Edit(r, p, old, key) = Edit(r, p, old, key)
<1>1. Fabric!Commissioned = Commissioned
      BY DEF Fabric!Commissioned, Commissioned, Fabric!Paths, Paths, Fabric!Admin, Admin
<1>2. Fabric!Requests = Requests /\ Fabric!NoRequest = NoRequest
      BY DEF Fabric!Requests, Requests, Fabric!PairRequests, PairRequests,
             Fabric!TargetRequests, TargetRequests, Fabric!MemberRequests, MemberRequests,
             Fabric!NodeResets, NodeResets, Fabric!BindingResets, BindingResets,
             Fabric!NoRequest, NoRequest
<1>3. \A r : Fabric!NeedsKey(r) <=> NeedsKey(r)
      BY DEF Fabric!NeedsKey, NeedsKey
<1>4. \A r, old : Fabric!AclEdit(r, old) = AclEdit(r, old)
      BY DEF Fabric!AclEdit, AclEdit, Fabric!Admin, Admin, Fabric!NodeGrant, NodeGrant,
             Fabric!GroupGrant, GroupGrant, Fabric!OperateCase, OperateCase,
             Fabric!NotAdminCase, NotAdminCase
<1>5. \A r, old : Fabric!BindingsEdit(r, old) = BindingsEdit(r, old)
      BY DEF Fabric!BindingsEdit, BindingsEdit, Fabric!Unicast, Unicast, Fabric!GroupItem,
             GroupItem, Fabric!DropsTarget, DropsTarget
<1>6. \A r, old : Fabric!GroupEdit(r, old) = GroupEdit(r, old)
      BY <1>3 DEF Fabric!GroupEdit, GroupEdit, Fabric!GroupItem, GroupItem
<1>7. \A r, key : Fabric!KeySetEdit(r, key) = KeySetEdit(r, key)
      BY <1>3 DEF Fabric!KeySetEdit, KeySetEdit, Fabric!Key, Key
<1>8. \A r, p, old, key : Fabric!Edit(r, p, old, key) = Edit(r, p, old, key)
      BY <1>4, <1>5, <1>6, <1>7 DEF Fabric!Edit, Edit
<1> QED
    BY <1>1, <1>2, <1>3, <1>8

LEMMA StepRefines ==
    TypeOK /\ TodoInv /\ PromptInv /\ [PromptNext]_vars => [Fabric!Next]_Fabric!vars
<1> SUFFICES ASSUME TypeOK, TodoInv, PromptInv, [PromptNext]_vars
             PROVE  [Fabric!Next]_Fabric!vars
    OBVIOUS
<1> USE DEF keyVars
<1>1. ASSUME NEW g \in Groups, CreateGroup(g) PROVE [Fabric!Next]_Fabric!vars
  <2>1. UNCHANGED <<held, op>>
        BY <1>1 DEF CreateGroup
  <2>2. CASE NewKey
    <3>1. epochKey' \in Nat \ {0}
          BY <2>2 DEF NewKey, TypeOK
    <3> QED
        BY <2>1, <3>1 DEF Fabric!Next, Fabric!MakeKey
  <2>3. CASE ~NewKey
        BY <1>1, <2>1, <2>3 DEF CreateGroup, KeepKey, Fabric!vars
  <2> QED
      BY <2>2, <2>3
<1>2. ASSUME NEW r \in Accepted, Begin(r) PROVE Fabric!Next
  <2>1. r \in Fabric!Requests
        BY SameOperators DEF Accepted, Requests
  <2>2. Fabric!Serve(r)
        BY <1>2, SameOperators DEF Begin, Fabric!Serve
  <2> QED
      BY <2>1, <2>2 DEF Fabric!Next
<1>3. ASSUME NEW m \in inflight, Deliver(m) PROVE Fabric!Next
  <2>1. m.op = op /\ m.path \in Fabric!Tables(op) /\ UNCHANGED <<epochKey, op>>
        BY <1>3 DEF PromptInv, Deliver, httpdVars
  <2>2. op # Fabric!NoRequest
    <3>1. op \in Requests
          BY <2>1 DEF TypeOK, Messages
    <3> QED
        BY <3>1, SameOperators DEF Requests, NoRequest, PairRequests, TargetRequests,
                                   MemberRequests, NodeResets, BindingResets
  <2>3. CASE m.path.attr = "groups"
    <3>1. held' = [held EXCEPT ![m.path] = GroupEdit(op, held[m.path])]
          BY <1>3, <2>1, <2>3 DEF Deliver
    <3>2. Fabric!EditTable(m.path)
          BY <2>1, <2>3, <3>1, SameOperators DEF Fabric!EditTable, Edit
    <3> QED
        BY <2>1, <2>2, <3>2 DEF Fabric!Next
  <2>4. CASE m.path.attr # "groups"
    <3>1. held' = [held EXCEPT ![m.path] = m.items]
          BY <1>3, <2>4 DEF Deliver
    <3>2. Outcome(op, m.path, m.items)
          BY <2>1, <2>4 DEF PromptInv
    <3>3. Fabric!EditTable(m.path) \/ Fabric!RefillTable(m.path)
          BY <2>1, <3>1, <3>2, SameOperators
          DEF Outcome, Refills, Fabric!EditTable, Fabric!RefillTable
    <3> QED
        BY <2>1, <2>2, <3>3 DEF Fabric!Next
  <2> QED
      BY <2>3, <2>4
<1>4. CASE UNCHANGED <<held, epochKey, op>>
      BY <1>4 DEF Fabric!vars
<1>5. CASE ~(\E g \in Groups : CreateGroup(g)) /\ ~(\E r \in Accepted : Begin(r))
           /\ ~(\E m \in inflight : Deliver(m))
  <2>1. UNCHANGED <<held, epochKey, op>>
        BY <1>5 DEF PromptNext, HttpdStep, ReadOk, ReadFails, Send, SendFails,
                    DeleteGroup, Restart, vars, httpdVars
  <2> QED
      BY <1>4, <2>1
<1> QED
    BY <1>1, <1>2, <1>3, <1>5

\* When every message is applied before the httpd task's next step, each request
\* is a series of atomic edits of the devices' tables: a failed read or send, or a
\* restart, only ends the series, skips an edit, or makes an installation of the
\* group key or a group binding start from an empty table.
THEOREM ProvisioningRefinement == PromptSpec => AtomicEdits
<1>1. Init => Fabric!Init
      BY SameOperators DEF Init, Fabric!Init
<1>2. Init => PromptInv
      BY DEF Init, PromptInv
<1>3. TypeOK /\ TodoInv /\ PromptInv /\ [PromptNext]_vars => (TypeOK /\ TodoInv /\ PromptInv)'
      BY NextTypeOK, NextTodoInv, NextPromptInv, PromptIsNext
<1> QED
    BY InitTypeOK, <1>1, <1>2, <1>3, StepRefines, PTL DEF PromptSpec, AtomicEdits, Fabric!Spec

-----------------------------------------------------------------------------
(* A target only where the switch can use it                               *)

\* x is at p once what is on its way is applied.
Coming(p, x) ==
    IF inflight = {} THEN x \in held[p] ELSE \E m \in inflight : m.path = p /\ x \in m.items

\* The grant comes before the target.
PairOrder(r) ==
    \/ todo \in {<<>>, CreateBinding(r)}
    \/ todo = Tail(CreateBinding(r)) /\ Coming(Acl(r.light), NodeGrant(r.node))

\* The key comes before the mapping, and the mapping before the target.
GroupOrder(r) ==
    \/ todo \in {<<>>, CreateGroupBinding(r), AddGroupStep(r.node)}
    \/ todo = Tail(CreateGroupBinding(r)) /\ Coming(KeySet(r.node), Key(epochKey))
    \/ /\ todo = Tail(Tail(CreateGroupBinding(r)))
       /\ Key(epochKey) \in held[KeySet(r.node)]
       /\ Coming(KeyMap(r.node), GroupItem(r.group))

PairUsable(r) == NodeGrant(r.node) \in held[Acl(r.light)]
GroupUsable(r) ==
    Key(epochKey) \in held[KeySet(r.node)] /\ GroupItem(r.group) \in held[KeyMap(r.node)]

OrderInv ==
    /\ op.kind = "create_binding" => PairOrder(op)
    /\ op.kind = "create_group_binding" => GroupOrder(op)
    /\ \A m \in inflight : m.path.attr = "bindings" =>
          /\ op.kind = "create_binding" => PairUsable(op)
          /\ op.kind = "create_group_binding" => GroupUsable(op)

LEMMA PairProgram ==
    ASSUME NEW r
    PROVE  /\ CreateBinding(r) # <<>> /\ Head(CreateBinding(r)) = Step(Acl(r.light), "abort", "abort")
           /\ Tail(CreateBinding(r)) # <<>>
           /\ Head(Tail(CreateBinding(r))) = Step(Bindings(r.node, r.ep), "abort", "abort")
           /\ Tail(Tail(CreateBinding(r))) = <<>>
BY DEF CreateBinding

LEMMA AppendedIs ==
    ASSUME NEW X, NEW s \in Seq(X), NEW e \in X, NEW t \in Seq(X),
           Len(t) = Len(s) + 1, \A i \in 1..Len(s) : t[i] = s[i], t[Len(s) + 1] = e
    PROVE  s \o <<e>> = t
<1> DEFINE u == Append(s, e)
<1>1. /\ u \in Seq(X) /\ Len(u) = Len(s) + 1 /\ Len(s) \in Nat
      /\ \A i \in 1..Len(s) : u[i] = s[i]
      /\ u[Len(s) + 1] = e
      BY AppendProperties
<1>2. u = s \o <<e>>
      BY AppendIsConcat
<1> HIDE DEF u
<1>3. \A i \in 1..Len(u) : u[i] = t[i]
      BY <1>1
<1>4. u = t
      BY <1>1, <1>3, SeqEqual
<1> QED
    BY <1>2, <1>4

\* Three steps written out are two and a third; four are three and a fourth.
LEMMA StepsWrittenOut ==
    ASSUME NEW a, NEW b, NEW c, NEW d
    PROVE  <<a, b>> \o <<c>> = <<a, b, c>> /\ <<a, b, c>> \o <<d>> = <<a, b, c, d>>
<1> DEFINE X == {a, b, c, d}
           s == <<a, b>>
           t == <<a, b, c>>
           u == <<a, b, c, d>>
<1>1. /\ s \in Seq(X) /\ Len(s) = 2
      /\ t \in Seq(X) /\ Len(t) = 3 /\ \A i \in 1..2 : t[i] = s[i]
      /\ u \in Seq(X) /\ Len(u) = 4 /\ \A i \in 1..3 : u[i] = t[i]
      /\ t[3] = c /\ u[4] = d /\ c \in X /\ d \in X
      OBVIOUS
<1> HIDE DEF X, s, t, u
<1>2. s \o <<c>> = t
  <2>1. Len(t) = Len(s) + 1 /\ (\A i \in 1..Len(s) : t[i] = s[i]) /\ t[Len(s) + 1] = c
        BY <1>1
  <2> QED
      BY <1>1, <2>1, AppendedIs
<1>3. t \o <<d>> = u
  <2>1. Len(u) = Len(t) + 1 /\ (\A i \in 1..Len(t) : u[i] = t[i]) /\ u[Len(t) + 1] = d
        BY <1>1
  <2> QED
      BY <1>1, <2>1, AppendedIs
<1> QED
    BY <1>2, <1>3, Zenon DEF s, t, u

LEMMA GroupProgram ==
    ASSUME NEW r
    PROVE  LET program == CreateGroupBinding(r)
           IN  /\ program # <<>> /\ Head(program) = Step(KeySet(r.node), "none", "abort")
               /\ Tail(program) # <<>>
               /\ Head(Tail(program)) = Step(KeyMap(r.node), "empty", "abort")
               /\ Tail(Tail(program)) # <<>>
               /\ Head(Tail(Tail(program))) = Step(Bindings(r.node, r.ep), "empty", "abort")
               /\ Tail(Tail(Tail(program))) = AddGroupStep(r.node)
               /\ AddGroupStep(r.node) # <<>> =>
                     /\ Head(AddGroupStep(r.node)) = Step(GroupTable(r.node), "none", "ignore")
                     /\ Tail(AddGroupStep(r.node)) = <<>>
<1> DEFINE program == CreateGroupBinding(r)
<1>1. PICK a, b, c, g :
         /\ a = Step(KeySet(r.node), "none", "abort") /\ b = Step(KeyMap(r.node), "empty", "abort")
         /\ c = Step(Bindings(r.node, r.ep), "empty", "abort")
         /\ g = Step(GroupTable(r.node), "none", "ignore")
      OBVIOUS
<1>2. program = <<a, b>> \o <<c>> \o AddGroupStep(r.node)
      BY <1>1 DEF CreateGroupBinding, InstallKey
<1> HIDE DEF program
<1> DEFINE abc == <<a, b, c>>
<1>3. <<a, b>> \o <<c>> = abc /\ abc \o <<g>> = <<a, b, c, g>>
      BY StepsWrittenOut
<1>4. abc \o <<>> = abc
  <2>1. abc \in Seq({a, b, c})
        OBVIOUS
  <2> HIDE DEF abc
  <2> QED
      BY <2>1, ConcatEmptySeq
<1>5. CASE AddGroupStep(r.node) = <<>>
  <2>1. program = abc
        BY <1>2, <1>5, <1>3, <1>4, Zenon
  <2> QED
      BY <1>1, <1>5, <2>1 DEF program
<1>6. CASE AddGroupStep(r.node) = <<g>>
  <2>1. program = <<a, b, c, g>>
        BY <1>2, <1>6, <1>3, <1>4, Zenon
  <2>2. /\ program # <<>> /\ Head(program) = a /\ Tail(program) = <<b, c, g>>
        /\ Tail(Tail(program)) = <<c, g>> /\ Tail(Tail(Tail(program))) = <<g>>
        BY <2>1
  <2>3. <<b, c, g>> # <<>> /\ Head(<<b, c, g>>) = b /\ <<c, g>> # <<>> /\ Head(<<c, g>>) = c
        /\ Head(<<g>>) = g /\ Tail(<<g>>) = <<>> /\ <<g>> # <<>>
        OBVIOUS
  <2> QED
      BY <1>1, <1>6, <2>2, <2>3, Zenon DEF program
<1>7. AddGroupStep(r.node) \in {<<>>, <<g>>}
      BY <1>1 DEF AddGroupStep
<1> QED
    BY <1>5, <1>6, <1>7

\* What is coming is there once the only message on its way is applied.
LEMMA Arrived ==
    ASSUME TypeOK, PromptInv, NEW m \in inflight, Deliver(m),
           NEW p \in Paths, p.attr # "groups", NEW x, Coming(p, x)
    PROVE  x \in held'[p]
<1>1. m.path = p /\ x \in m.items
      BY DEF Coming, PromptInv
<1> QED
    BY <1>1 DEF Deliver, TypeOK

\* Only the last step of a group binding is sent, and passed over, without the next.
LEMMA NoStepIsSkipped ==
    ASSUME OrderInv, todo # <<>>
    PROVE  /\ op.kind = "create_binding" => Head(todo).read # "skip" /\ Head(todo).send = "abort"
           /\ op.kind = "create_group_binding" =>
                /\ Head(todo).read # "skip"
                /\ Head(todo).send = "abort" \/ Tail(todo) = <<>>
<1>1. CASE op.kind = "create_binding"
  <2>1. todo \in {CreateBinding(op), Tail(CreateBinding(op))}
        BY <1>1 DEF OrderInv, PairOrder
  <2>2. Head(todo) \in {Step(Acl(op.light), "abort", "abort"),
                        Step(Bindings(op.node, op.ep), "abort", "abort")}
        BY <2>1, PairProgram, Zenon
  <2>3. Head(todo).read = "abort" /\ Head(todo).send = "abort"
        BY <2>2 DEF Step
  <2> QED
      BY <1>1, <2>3
<1>2. CASE op.kind = "create_group_binding"
  <2> DEFINE program == CreateGroupBinding(op)
  <2>1. todo \in {program, Tail(program), Tail(Tail(program)), AddGroupStep(op.node)}
        BY <1>2 DEF OrderInv, GroupOrder
  <2>2. CASE todo \in {program, Tail(program), Tail(Tail(program))}
    <3>1. Head(todo) \in {Step(KeySet(op.node), "none", "abort"), Step(KeyMap(op.node), "empty", "abort"),
                          Step(Bindings(op.node, op.ep), "empty", "abort")}
          BY <2>2, GroupProgram, Zenon
    <3>2. Head(todo).read # "skip" /\ Head(todo).send = "abort"
          BY <3>1 DEF Step
    <3> QED
        BY <1>2, <3>2
  <2>3. CASE todo = AddGroupStep(op.node)
    <3>1. Head(todo) = Step(GroupTable(op.node), "none", "ignore") /\ Tail(todo) = <<>>
          BY <2>3, GroupProgram, Zenon
    <3>2. Head(todo).read # "skip"
          BY <3>1 DEF Step
    <3> QED
        BY <1>2, <3>1, <3>2
  <2> QED
      BY <2>1, <2>2, <2>3
<1> QED
    BY <1>1, <1>2

\* What a message carries.
LEMMA EditAdds ==
    ASSUME NEW r \in Requests, NEW old, NEW key
    PROVE  /\ r.kind = "create_binding" => NodeGrant(r.node) \in Edit(r, Acl(r.light), old, key)
           /\ r.kind = "create_group_binding" =>
                /\ Key(key) \in Edit(r, KeySet(r.node), old, key)
                /\ GroupItem(r.group) \in Edit(r, KeyMap(r.node), old, key)
<1>1. Edit(r, Acl(r.light), old, key) = AclEdit(r, old)
      BY DEF Edit, Acl
<1>2. Edit(r, KeySet(r.node), old, key) = KeySetEdit(r, key)
      BY DEF Edit, KeySet
<1>3. Edit(r, KeyMap(r.node), old, key) = GroupEdit(r, old)
      BY DEF Edit, KeyMap
<1>4. r.kind = "create_binding" => NodeGrant(r.node) \in AclEdit(r, old)
      BY DEF AclEdit
<1>5. r.kind = "create_group_binding" => Key(key) \in KeySetEdit(r, key) /\ GroupItem(r.group) \in GroupEdit(r, old)
      BY DEF KeySetEdit, GroupEdit, NeedsKey
<1> QED
    BY <1>1, <1>2, <1>3, <1>4, <1>5

LEMMA SendKeepsOrder ==
    ASSUME TypeOK, TodoInv, OrderInv, Send, inflight = {}
    PROVE  OrderInv'
<1> USE DEF keyVars
<1>1. PICK n : n = Message
      OBVIOUS
<1>2. /\ inflight' = {n} /\ todo' = Tail(todo) /\ todo # <<>> /\ op \in Requests
      /\ UNCHANGED <<held, epochKey, op>>
      BY <1>1 DEF Send, Sending, Continue, TypeOK
<1>3. /\ n.path = Head(todo).path
      /\ n.path.attr # "groups" => n.items = Edit(op, n.path, view, epochKey)
      BY <1>1 DEF Message
<1>4. CASE op.kind = "create_binding"
  <2> DEFINE program == CreateBinding(op)
  <2>1. CASE todo = program
    <3>1. Head(todo) = Step(Acl(op.light), "abort", "abort") /\ todo' = Tail(program)
          BY <1>2, <2>1, PairProgram, Zenon
    <3>2. n.path = Acl(op.light) /\ n.path.attr = "acl"
          BY <1>3, <3>1 DEF Step, Acl
    <3>3. NodeGrant(op.node) \in n.items
          BY <1>2, <1>3, <1>4, <3>2, EditAdds
    <3>4. PICK p, x : p = Acl(op.light) /\ x = NodeGrant(op.node)
          OBVIOUS
    <3>5. Coming(p, x)'
          BY <1>2, <3>2, <3>3, <3>4 DEF Coming
    <3>6. PairOrder(op)'
          BY <1>2, <3>1, <3>4, <3>5 DEF PairOrder
    <3> QED
        BY <1>2, <1>4, <3>2, <3>6 DEF OrderInv
  <2>2. CASE todo # program
    <3>1. todo = Tail(program) /\ Coming(Acl(op.light), NodeGrant(op.node))
          BY <1>2, <1>4, <2>2 DEF OrderInv, PairOrder
    <3>2. todo' = <<>>
          BY <1>2, <3>1, PairProgram, Zenon
    <3>3. PairUsable(op)'
          BY <1>2, <3>1 DEF Coming, PairUsable
    <3> QED
        BY <1>2, <1>4, <3>2, <3>3 DEF OrderInv, PairOrder
  <2> QED
      BY <2>1, <2>2
<1>5. CASE op.kind = "create_group_binding"
  <2> DEFINE program == CreateGroupBinding(op)
  <2>1. CASE todo = program
    <3>1. Head(todo) = Step(KeySet(op.node), "none", "abort") /\ todo' = Tail(program)
          BY <1>2, <2>1, GroupProgram, Zenon
    <3>2. n.path = KeySet(op.node) /\ n.path.attr = "keyset"
          BY <1>3, <3>1 DEF Step, KeySet
    <3>3. Key(epochKey) \in n.items
          BY <1>2, <1>3, <1>5, <3>2, EditAdds
    <3>4. PICK p, x : p = KeySet(op.node) /\ x = Key(epochKey)
          OBVIOUS
    <3>5. Coming(p, x)'
          BY <1>2, <3>2, <3>3, <3>4 DEF Coming
    <3>6. GroupOrder(op)'
          BY <1>2, <3>1, <3>4, <3>5 DEF GroupOrder
    <3> QED
        BY <1>2, <1>5, <3>2, <3>6 DEF OrderInv
  <2>2. CASE todo = Tail(program) /\ Coming(KeySet(op.node), Key(epochKey))
    <3>1. Head(todo) = Step(KeyMap(op.node), "empty", "abort") /\ todo' = Tail(Tail(program))
          BY <1>2, <2>2, GroupProgram, Zenon
    <3>2. n.path = KeyMap(op.node) /\ n.path.attr = "keymap"
          BY <1>3, <3>1 DEF Step, KeyMap
    <3>3. GroupItem(op.group) \in n.items
          BY <1>2, <1>3, <1>5, <3>2, EditAdds
    <3>4. PICK p, x : p = KeyMap(op.node) /\ x = GroupItem(op.group)
          OBVIOUS
    <3>5. Coming(p, x)'
          BY <1>2, <3>2, <3>3, <3>4 DEF Coming
    <3>6. Key(epochKey) \in held[KeySet(op.node)]
          BY <2>2 DEF Coming
    <3>7. GroupOrder(op)'
          BY <1>2, <3>1, <3>4, <3>5, <3>6 DEF GroupOrder
    <3> QED
        BY <1>2, <1>5, <3>2, <3>7 DEF OrderInv
  <2>3. CASE /\ todo = Tail(Tail(program)) /\ Key(epochKey) \in held[KeySet(op.node)]
             /\ Coming(KeyMap(op.node), GroupItem(op.group))
    <3>1. todo' = AddGroupStep(op.node)
          BY <1>2, <2>3, GroupProgram, Zenon
    <3>2. GroupUsable(op)'
          BY <1>2, <2>3 DEF Coming, GroupUsable
    <3>3. GroupOrder(op)'
          BY <1>2, <3>1 DEF GroupOrder
    <3> QED
        BY <1>2, <1>5, <3>2, <3>3 DEF OrderInv
  <2>4. CASE todo = AddGroupStep(op.node)
    <3>1. Head(todo) = Step(GroupTable(op.node), "none", "ignore") /\ todo' = <<>>
          BY <1>2, <2>4, GroupProgram, Zenon
    <3>2. n.path.attr = "groups"
          BY <1>3, <3>1 DEF Step, GroupTable
    <3> QED
        BY <1>2, <1>5, <3>1, <3>2 DEF OrderInv, GroupOrder
  <2> QED
      BY <1>2, <1>5, <2>1, <2>2, <2>3, <2>4 DEF OrderInv, GroupOrder
<1>6. CASE op.kind \notin {"create_binding", "create_group_binding"}
      BY <1>2, <1>6 DEF OrderInv
<1> QED
    BY <1>4, <1>5, <1>6

LEMMA DeliverKeepsOrder ==
    ASSUME TypeOK, PromptInv, OrderInv, NEW m \in inflight, Deliver(m)
    PROVE  OrderInv'
<1> USE DEF keyVars
<1>1. /\ inflight' = {} /\ UNCHANGED <<epochKey, op, todo>>
      BY DEF Deliver, httpdVars, PromptInv
<1>2. todo # <<>> => op \in Requests
      BY DEF TypeOK
<1>3. CASE todo = <<>>
      BY <1>1, <1>3 DEF OrderInv, PairOrder, GroupOrder
<1>4. CASE todo # <<>> /\ op.kind = "create_binding"
  <2>1. op.light \in Devices
        BY <1>2, <1>4 DEF Requests, PairRequests, TargetRequests, MemberRequests, NodeResets,
                          BindingResets
  <2>2. PICK p, x : p = Acl(op.light) /\ x = NodeGrant(op.node)
        OBVIOUS
  <2>3. p \in Paths /\ p.attr # "groups"
        BY <2>1, <2>2 DEF Acl, Paths
  <2>4. Coming(p, x) => Coming(p, x)'
        BY <1>1, <2>3, Arrived DEF Coming
  <2>5. PairOrder(op)'
        BY <1>1, <1>4, <2>2, <2>4 DEF OrderInv, PairOrder
  <2> QED
      BY <1>1, <1>4, <2>5 DEF OrderInv
<1>5. CASE todo # <<>> /\ op.kind = "create_group_binding"
  <2>1. op.node \in Devices
        BY <1>2, <1>5 DEF Requests, PairRequests, TargetRequests, MemberRequests, NodeResets,
                          BindingResets
  <2>2. PICK p, x, q, y : /\ p = KeySet(op.node) /\ x = Key(epochKey)
                          /\ q = KeyMap(op.node) /\ y = GroupItem(op.group)
        OBVIOUS
  <2>3. p \in Paths /\ p.attr # "groups" /\ q \in Paths /\ q.attr # "groups" /\ p # q
        BY <2>1, <2>2 DEF KeySet, KeyMap, Paths
  <2>4. (Coming(p, x) => Coming(p, x)') /\ (Coming(q, y) => Coming(q, y)')
        BY <1>1, <2>3, Arrived DEF Coming
  <2>5. Coming(q, y) => held'[p] = held[p]
        BY <2>3 DEF Coming, PromptInv, Deliver, TypeOK
  <2>6. GroupOrder(op)'
        BY <1>1, <1>5, <2>2, <2>4, <2>5 DEF OrderInv, GroupOrder
  <2> QED
      BY <1>1, <1>5, <2>6 DEF OrderInv
<1>6. CASE op.kind \notin {"create_binding", "create_group_binding"}
      BY <1>1, <1>6 DEF OrderInv
<1> QED
    BY <1>3, <1>4, <1>5, <1>6

LEMMA NextOrderInv ==
    TypeOK /\ TodoInv /\ PromptInv /\ OrderInv /\ [PromptNext]_vars => OrderInv'
<1> SUFFICES ASSUME TypeOK, TodoInv, PromptInv, OrderInv, [PromptNext]_vars PROVE OrderInv'
    OBVIOUS
<1> USE DEF keyVars
<1>1. ASSUME inflight' = {}, todo' = <<>> PROVE OrderInv'
      BY <1>1 DEF OrderInv, PairOrder, GroupOrder
<1>2. ASSUME UNCHANGED <<held, inflight, epochKey, op, todo>> PROVE OrderInv'
      BY <1>2 DEF OrderInv, PairOrder, GroupOrder, PairUsable, GroupUsable, Coming
<1>3. ASSUME op.kind \notin {"create_binding", "create_group_binding"}, op' = op PROVE OrderInv'
      BY <1>3 DEF OrderInv
<1>4. ASSUME NEW r \in Accepted, Begin(r), inflight = {} PROVE OrderInv'
  <2>1. inflight' = {} /\ op' = r /\ todo' = Program(r)
        BY <1>4 DEF Begin, Continue
  <2>2. /\ r.kind = "create_binding" => Program(r) = CreateBinding(r)
        /\ r.kind = "create_group_binding" => Program(r) = CreateGroupBinding(r)
        BY DEF Program
  <2> QED
      BY <2>1, <2>2 DEF OrderInv, PairOrder, GroupOrder
<1>5. CASE ReadOk
      BY <1>2, <1>5 DEF ReadOk
<1>6. CASE ReadFails /\ inflight = {}
  <2>1. /\ UNCHANGED <<held, inflight, epochKey, op>> /\ todo # <<>>
        /\ \/ todo' = <<>> \/ todo' = todo
           \/ Head(todo).read = "skip"
        BY <1>6 DEF ReadFails, Reading, Continue
  <2> QED
      BY <1>1, <1>2, <1>3, <1>6, <2>1, NoStepIsSkipped
<1>7. CASE Send /\ inflight = {}
      BY <1>7, SendKeepsOrder
<1>8. CASE SendFails /\ inflight = {}
  <2>1. /\ UNCHANGED <<inflight, op>> /\ todo # <<>>
        /\ todo' = IF Head(todo).send = "abort" THEN <<>> ELSE Tail(todo)
        BY <1>8 DEF SendFails, Sending, Continue
  <2> QED
      BY <1>1, <1>3, <1>8, <2>1, NoStepIsSkipped
<1>9. ASSUME NEW g \in Groups, CreateGroup(g) \/ DeleteGroup(g), inflight = {} PROVE OrderInv'
      BY <1>1, <1>9 DEF CreateGroup, DeleteGroup, Idle
<1>10. CASE Restart /\ inflight = {}
      BY <1>1, <1>10 DEF Restart, Continue
<1>11. ASSUME NEW m \in inflight, Deliver(m) PROVE OrderInv'
      BY <1>11, DeliverKeepsOrder
<1>12. CASE UNCHANGED vars
      BY <1>2, <1>12 DEF vars, httpdVars
<1> QED
    BY <1>4, <1>5, <1>6, <1>7, <1>8, <1>9, <1>10, <1>11, <1>12 DEF PromptNext, HttpdStep

\* What a request adds to a binding table is the target it is about.
LEMMA TargetsAdded ==
    ASSUME NEW r \in Requests, NEW p \in Paths, p.attr = "bindings", NEW old, NEW key,
           NEW t \in Edit(r, p, old, key) \ old
    PROVE  \/ r.kind = "create_binding" /\ t = Unicast(r.light, r.lightEp)
           \/ r.kind = "create_group_binding" /\ t = GroupItem(r.group)
<1>1. t \in BindingsEdit(r, old)
      BY DEF Edit
<1> QED
    BY <1>1 DEF BindingsEdit

LEMMA AddedIsUsable ==
    ASSUME TypeOK, PromptInv, OrderInv, [PromptNext]_vars, NEW s \in Devices, NEW e \in Endpoints,
           NEW t \in held'[Bindings(s, e)] \ held[Bindings(s, e)]
    PROVE  UsableWhenAdded(s, t)
<1> USE DEF keyVars
<1> DEFINE p == Bindings(s, e)
<1>1. p \in Paths /\ p.attr = "bindings" /\ p.dev = s
      BY DEF Bindings, Paths
<1>2. PICK m \in inflight : Deliver(m)
      BY DEF PromptNext, HttpdStep, Begin, ReadOk, ReadFails, Send, SendFails, CreateGroup,
             DeleteGroup, Restart, vars, httpdVars
<1>3. /\ m.op = op /\ m.op \in Requests /\ m.path \in Fabric!Tables(op)
      /\ m.path.attr # "groups" => Outcome(op, m.path, m.items)
      BY DEF PromptInv, TypeOK, Messages
<1>4. m.path = p
      BY <1>1, <1>2 DEF Deliver, TypeOK
<1> HIDE DEF p
<1>5. held'[p] = m.items
      BY <1>1, <1>2, <1>4 DEF Deliver, TypeOK
<1>6. PICK old : t \in Edit(op, p, old, epochKey) \ old
  <2>1. t \in m.items /\ t \notin held[p] /\ Outcome(op, p, m.items)
        BY <1>1, <1>3, <1>4, <1>5 DEF p
  <2>2. t \in Edit(op, p, held[p], epochKey) \ held[p] \/ t \in Edit(op, p, {}, epochKey) \ {}
        BY <2>1 DEF Outcome
  <2> QED
      BY <2>2
<1>7. CASE op.kind = "create_binding"
  <2>1. t = Unicast(op.light, op.lightEp)
        BY <1>1, <1>3, <1>6, <1>7, TargetsAdded
  <2>2. NodeGrant(op.node) \in held[Acl(op.light)]
        BY <1>1, <1>4, <1>7 DEF OrderInv, PairUsable
  <2>3. op.node = s
    <3>1. p \in {Acl(op.light), Bindings(op.node, op.ep)}
          BY <1>3, <1>4, <1>7, RequestTables
    <3> QED
        BY <1>1, <3>1 DEF Acl, Bindings
  <2>4. \A d, f : t = Unicast(d, f) => d = op.light
        BY <2>1 DEF Unicast
  <2>5. \A g : t # GroupItem(g)
        BY <2>1 DEF Unicast, GroupItem
  <2> QED
      BY <2>2, <2>3, <2>4, <2>5 DEF UsableWhenAdded
<1>8. CASE op.kind = "create_group_binding"
  <2>1. t = GroupItem(op.group)
        BY <1>1, <1>3, <1>6, <1>8, TargetsAdded
  <2>2. Key(epochKey) \in held[KeySet(op.node)] /\ GroupItem(op.group) \in held[KeyMap(op.node)]
        BY <1>1, <1>4, <1>8 DEF OrderInv, GroupUsable
  <2>3. op.node = s
    <3>1. p \in {KeySet(op.node), KeyMap(op.node), GroupTable(op.node), Bindings(op.node, op.ep)}
          BY <1>3, <1>4, <1>8, RequestTables
    <3> QED
        BY <1>1, <3>1 DEF KeySet, KeyMap, GroupTable, Bindings
  <2>4. \A d, f : t # Unicast(d, f)
        BY <2>1 DEF Unicast, GroupItem
  <2>5. \A g : t = GroupItem(g) => g = op.group
        BY <2>1 DEF GroupItem
  <2> QED
      BY <2>2, <2>3, <2>4, <2>5 DEF UsableWhenAdded
<1> QED
    BY <1>1, <1>3, <1>6, <1>7, <1>8, TargetsAdded

\* When every message is applied before the httpd task's next step, a switch is given a
\* light only once the light grants it Operate, and a group only once it holds the key
\* and maps the group, whatever step fails, is refused or is cut off by a restart: the
\* step that makes a target usable comes first, and the request goes no further without.
THEOREM TargetsUsable == PromptSpec => TargetsUsableWhenAdded
<1>1. Init => PromptInv /\ OrderInv
      BY DEF Init, PromptInv, OrderInv, PairOrder, GroupOrder
<1>2. TypeOK /\ TodoInv /\ PromptInv /\ OrderInv /\ [PromptNext]_vars
        => (TypeOK /\ TodoInv /\ PromptInv /\ OrderInv)'
      BY NextTypeOK, NextTodoInv, NextPromptInv, NextOrderInv, PromptIsNext
<1>3. TypeOK /\ PromptInv /\ OrderInv /\ [PromptNext]_vars
        => [\A s \in Devices, e \in Endpoints :
               \A t \in held'[Bindings(s, e)] \ held[Bindings(s, e)] : UsableWhenAdded(s, t)]_vars
      BY AddedIsUsable
<1> QED
    BY InitTypeOK, <1>1, <1>2, <1>3, PTL DEF PromptSpec, TargetsUsableWhenAdded

LEMMA CreatedKeepsOthers ==
    ASSUME TypeOK, PromptInv, [PromptNext]_vars, NEW m \in inflight, m.op.kind = "create_binding",
           m.path.attr = "bindings", m \notin inflight'
    PROVE  held[m.path] \subseteq held'[m.path]
<1> USE DEF keyVars
<1>1. Deliver(m)
  <2>1. PICK n \in inflight : Deliver(n)
        BY DEF PromptNext, HttpdStep, Begin, ReadOk, ReadFails, Send, SendFails, CreateGroup,
               DeleteGroup, Restart, vars, httpdVars
  <2> QED
      BY <2>1 DEF PromptInv
<1>2. m.path \in Paths /\ held'[m.path] = m.items
      BY <1>1 DEF Deliver, TypeOK, Messages
<1>3. m.items = Edit(m.op, m.path, held[m.path], epochKey)
      BY DEF PromptInv, Outcome, Refills, NeedsKey
<1>4. Edit(m.op, m.path, held[m.path], epochKey) = BindingsEdit(m.op, held[m.path])
      BY DEF Edit
<1>5. BindingsEdit(m.op, held[m.path]) = held[m.path] \union {Unicast(m.op.light, m.op.lightEp)}
      BY DEF BindingsEdit
<1> QED
    BY <1>2, <1>3, <1>4, <1>5

\* The binding that a new one makes a switch lose (NewBindingPreservesOthers fails for
\* Spec) is lost to messages under way and to nothing else: with a prompt network no
\* failed read, refused send or restart loses one.
THEOREM PromptBindingsPreserved == PromptSpec => NewBindingPreservesOthers
<1>1. Init => PromptInv
      BY DEF Init, PromptInv
<1>2. TypeOK /\ TodoInv /\ PromptInv /\ [PromptNext]_vars => (TypeOK /\ TodoInv /\ PromptInv)'
      BY NextTypeOK, NextTodoInv, NextPromptInv, PromptIsNext
<1>3. TypeOK /\ PromptInv /\ [PromptNext]_vars
        => [\A m \in inflight :
               m.op.kind = "create_binding" /\ m.path.attr = "bindings" /\ m \notin inflight' =>
                   held[m.path] \subseteq held'[m.path]]_vars
      BY CreatedKeepsOthers
<1> QED
    BY InitTypeOK, <1>1, <1>2, <1>3, PTL DEF PromptSpec, NewBindingPreservesOthers

-----------------------------------------------------------------------------
(* What becomes of a group's grant                                         *)

\* An ACL edit takes a group's grant away only if its request is one that does.
LEMMA EditKeepsGrants ==
    ASSUME NEW r \in Requests, NEW g \in Groups, NEW old, GroupGrant(g) \in old,
           ~TakesGroupGrant(r, g), r.kind \in {"add_member", "remove_member"}
    PROVE  GroupGrant(g) \in AclEdit(r, old)
<1>1. GroupGrant(g) \in NotAdminCase(old)
      BY DEF NotAdminCase, GroupGrant
<1>2. CASE r.kind = "add_member"
      BY <1>1, <1>2 DEF AclEdit
<1>3. CASE r.kind = "remove_member"
  <2>1. GroupGrant(r.group) # GroupGrant(g)
        BY <1>3 DEF TakesGroupGrant, GroupGrant
  <2> QED
      BY <1>1, <1>3, <2>1 DEF AclEdit
<1> QED
    BY <1>2, <1>3

LEMMA GrantTaken ==
    ASSUME TypeOK, PromptInv, [PromptNext]_vars, NEW d \in Devices, NEW g \in Groups,
           GroupGrant(g) \in held[Acl(d)] \ held'[Acl(d)]
    PROVE  \E m \in inflight \ inflight' : m.path = Acl(d) /\ TakesGroupGrant(m.op, g)
<1> USE DEF keyVars
<1>0. PICK p : p = Acl(d) /\ p \in Paths /\ p.attr = "acl"
      BY PathTypes DEF Acl, Paths
<1>1. PICK m \in inflight : Deliver(m)
      BY DEF PromptNext, HttpdStep, Begin, ReadOk, ReadFails, Send, SendFails, CreateGroup,
             DeleteGroup, Restart, vars, httpdVars
<1>2. m.path = p
      BY <1>0, <1>1 DEF Deliver, TypeOK
<1>3. held'[p] = m.items /\ m \notin inflight'
      BY <1>0, <1>1, <1>2 DEF Deliver, TypeOK
<1>4. m.items = AclEdit(m.op, held[p])
      BY <1>0, <1>2 DEF PromptInv, Outcome, Refills, Edit
<1>5. m.op \in Requests /\ p \in Fabric!Tables(m.op)
      BY <1>2 DEF PromptInv, TypeOK, Messages
<1>6. m.op.kind \in {"create_binding", "delete_binding", "add_member", "remove_member", "reset_acl"}
  <2>1. m.op.kind \notin {"create_group_binding", "delete_group_binding", "reset_groups",
                          "reset_bindings"}
        BY <1>0, <1>5, RequestTables DEF KeySet, KeyMap, GroupTable, Bindings
  <2> QED
      BY <1>5, <2>1 DEF Requests, PairRequests, TargetRequests, MemberRequests, NodeResets,
                        BindingResets
<1>7. TakesGroupGrant(m.op, g)
  <2>1. CASE m.op.kind \in {"create_binding", "delete_binding", "reset_acl"}
        BY <2>1 DEF TakesGroupGrant
  <2>2. CASE m.op.kind \in {"add_member", "remove_member"}
        BY <1>0, <1>3, <1>4, <1>5, <2>2, EditKeepsGrants
  <2> QED
      BY <1>6, <2>1, <2>2
<1> QED
    BY <1>0, <1>2, <1>3, <1>7

\* With a prompt network a member keeps a group's grant whatever is done for other
\* groups, until a binding of a switch to it rewrites its ACL, and whatever fails.
THEOREM GroupGrantsKept == PromptSpec => GroupGrantsStay
<1>1. Init => PromptInv
      BY DEF Init, PromptInv
<1>2. TypeOK /\ TodoInv /\ PromptInv /\ [PromptNext]_vars => (TypeOK /\ TodoInv /\ PromptInv)'
      BY NextTypeOK, NextTodoInv, NextPromptInv, PromptIsNext
<1>3. TypeOK /\ PromptInv /\ [PromptNext]_vars
        => [\A d \in Devices, g \in Groups :
               GroupGrant(g) \in held[Acl(d)] \ held'[Acl(d)] =>
                   \E m \in inflight \ inflight' :
                      m.path = Acl(d) /\ TakesGroupGrant(m.op, g)]_vars
      BY GrantTaken
<1> QED
    BY InitTypeOK, <1>1, <1>2, <1>3, PTL DEF PromptSpec, GroupGrantsStay

=============================================================================
