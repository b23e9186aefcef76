------------------------------- MODULE Canvas -------------------------------
(***************************************************************************)
(* The canvas: what a browser shows (Canvas.tsx), what nodes.json has      *)
(* (node_manager.cpp), and what the devices were told (their group         *)
(* membership and bindings).                                               *)
(*                                                                         *)
(* A gesture changes the view at once and sends a request for each thing   *)
(* it changes, all at the same time and without waiting for an answer or   *)
(* looking at it: they are served in any order (wire), and one that is     *)
(* lost, refused or fails stays on its way for ever.  Only the request for *)
(* a new group is answered before the browser goes on (replies).  A page   *)
(* that is loaded shows what nodes.json has, and puts its groups again.    *)
(* Meanwhile the Devices tab may re-interview or delete a device, and a    *)
(* factory reset takes the fabric and leaves nodes.json.                   *)
(*                                                                         *)
(* A node is named by its device or group; a group id names the Matter     *)
(* group as well.  A device's node has the group it is within in its       *)
(* settings.  A node that is put without settings keeps those it has, and  *)
(* is a stray if it was not there.  (A stray is shown as a device without  *)
(* a name, and gestures on it are left out.)  A connection is drawn from a *)
(* switch to a light or a group.  What a request does on the devices       *)
(* (Provisioning) is one step here, but for the Binding list of a switch:  *)
(* it is read at once and handed over to be written, which may be later    *)
(* (writes).  A save is one step (JsonStore), two equal requests on their  *)
(* way count as one, and there is one page.                                *)
(*                                                                         *)
(* KeepBinding, LoadBlindly, KeepSettings, LowestFree and WiderId are      *)
(* slips, not part of CanvasSpec.                                          *)
(***************************************************************************)
EXTENDS Integers

CONSTANTS
    Devices, Switches,
    Loads,        \* the switches with a light of their own, an On/Off endpoint
    Width,        \* the number of values of the group id counter (2^16)
    MaxGestures   \* bound: gestures made, those on the Devices tab too

GroupIds == 0..(Width - 1)
Names == Devices \union GroupIds
NoGroup == -1

ASSUME CanvasAssumption ==
    /\ Switches \subseteq Devices /\ Loads \subseteq Switches
    /\ Devices \intersect (GroupIds \union {NoGroup}) = {}
    /\ Width \in Nat \ {0, 1} /\ MaxGestures \in Nat

VARIABLES
    shown, within, lines,   \* the view: devices and groups, within[d], connections
    nodes, parent, edges,   \* nodes.json: the same
    strays,                 \* its nodes without settings
    groups, nextGroup,      \* the controller's groups and its counter (KVS)
    members, bindings,      \* on the devices
    writes,                 \* the Binding lists handed over to be written: switch, list
    known,                  \* the devices on the fabric
    wire,                   \* requests on their way
    replies,                \* answers on their way: the ids of groups that were made
    gestures,               \* how many gestures were made, on the Devices tab too
    touched,  \* history: the devices whose node was changed by somebody else
    tidy,     \* history: every gesture found the ones before served
    setback,  \* history: the group id counter did not go on
    coupled,  \* history: switches with a light, and groups they were connected with
    crossed   \* history: switches whose list was read before a write of it

view == <<shown, within, lines>>
store == <<nodes, parent, edges, strays>>
ids == <<groups, nextGroup, setback>>
lists == <<bindings, writes, crossed>>
memberships == <<members, coupled>>
matter == <<ids, lists, memberships, known>>
canvasVars == <<view, store, matter, wire, replies, gestures, touched, tidy>>

Links == {l \in Switches \X (Names \ (Switches \ Loads)) : l[1] # l[2]}
Ops == {"touch", "put", "erase", "edge", "unedge", "bind", "unbind",
        "join", "leave", "make", "drop"}
Messages == Ops \X Names \X (Names \union {NoGroup})

\* Nothing is on its way.
Quiet == wire = {} /\ replies = {} /\ writes = {}

CanvasTypeOK ==
    /\ shown \subseteq Names /\ nodes \subseteq Names /\ strays \subseteq Names \ nodes
    /\ within \in [Devices -> GroupIds \union {NoGroup}]
    /\ parent \in [Devices -> GroupIds \union {NoGroup}]
    /\ lines \subseteq Links /\ edges \subseteq Links /\ bindings \subseteq Links
    /\ groups \subseteq GroupIds /\ nextGroup \in GroupIds
    /\ members \subseteq Devices \X GroupIds
    /\ known \subseteq Devices /\ touched \subseteq Devices
    /\ wire \subseteq Messages /\ replies \subseteq GroupIds
    /\ gestures \in 0..MaxGestures
    /\ writes \subseteq Switches \X SUBSET Links
    /\ coupled \subseteq Devices \X GroupIds /\ crossed \subseteq Switches
    /\ tidy \in BOOLEAN /\ setback \in BOOLEAN

\* A canvas that was drawn, saved and carried out.
CanvasInit ==
    /\ known = Devices
    /\ nextGroup \in 1..(Width - 1) /\ setback = FALSE
    /\ groups \in SUBSET (1..(nextGroup - 1))
    /\ \E drawn \in SUBSET Devices : nodes = drawn \union groups
    /\ parent \in [Devices -> groups \union {NoGroup}]
    /\ \A d \in Devices \ nodes : parent[d] = NoGroup
    /\ edges \in SUBSET {l \in Links : l[1] \in nodes /\ l[2] \in nodes}
    /\ shown = nodes /\ within = parent /\ lines = edges
    /\ strays = {} /\ bindings = edges /\ writes = {} /\ crossed = {}
    /\ coupled = edges \intersect (Loads \X GroupIds)
    /\ members = coupled \union {m \in Devices \X GroupIds : parent[m[1]] = m[2]}
    /\ wire = {} /\ replies = {} /\ gestures = 0
    /\ touched = {} /\ tidy = TRUE

-----------------------------------------------------------------------------
(* The browser: gestures                                                   *)

Act == gestures < MaxGestures /\ gestures' = gestures + 1

Gesture(requests) ==
    /\ Act
    /\ wire' = wire \union requests
    /\ tidy' = (tidy /\ Quiet)
    /\ UNCHANGED <<store, matter, replies, touched>>

\* persistPosition
Move(n) ==
    /\ n \in shown
    /\ Gesture({<<"touch", n, NoGroup>>})
    /\ UNCHANGED view

\* onNodesChange, after a resize
Resize(g) ==
    /\ g \in shown
    /\ Gesture({<<"put", g, NoGroup>>})
    /\ UNCHANGED view

Leaving(d) == {<<"leave", d, g>> : g \in {within[d]} \ {NoGroup}}

\* onNodeDragStop: d is dropped in another group, or outside every group.
Join(d, g) ==
    /\ {d, g} \subseteq shown /\ within[d] # g
    /\ within' = [within EXCEPT ![d] = g]
    /\ Gesture({<<"put", d, g>>, <<"join", d, g>>} \union Leaving(d))
    /\ UNCHANGED <<shown, lines>>

Leave(d) ==
    /\ d \in shown /\ within[d] # NoGroup
    /\ within' = [within EXCEPT ![d] = NoGroup]
    /\ Gesture({<<"put", d, NoGroup>>} \union Leaving(d))
    /\ UNCHANGED <<shown, lines>>

\* onConnect
Connect(l) ==
    /\ {l[1], l[2]} \subseteq shown /\ l \notin lines
    /\ lines' = lines \union {l}
    /\ Gesture({<<"edge", l[1], l[2]>>, <<"bind", l[1], l[2]>>})
    /\ UNCHANGED <<shown, within>>

KeepBinding(gone) == {<<"unedge", l[1], l[2]>> : l \in gone}

\* onEdgesChange; bindingBodyFor finds no binding without both ends.
Unlink(gone) ==
    {<<"unedge", l[1], l[2]>> : l \in gone} \union
    {<<"unbind", l[1], l[2]>> : l \in {k \in gone : {k[1], k[2]} \subseteq shown}}

Disconnect(l) ==
    /\ l \in lines /\ {l[1], l[2]} \subseteq shown
    /\ lines' = lines \ {l}
    /\ Gesture(Unlink({l}))
    /\ UNCHANGED <<shown, within>>

\* A group is deleted with the devices in it (React Flow).
Doomed(n) == {n} \union {d \in Devices \intersect shown : within[d] = n}

\* onNodesDelete, and the connections of what is deleted
Delete(n) ==
    /\ n \in shown
    /\ LET doomed == Doomed(n)
           gone == {l \in lines : l[1] \in doomed \/ l[2] \in doomed}
       IN  /\ shown' = shown \ doomed
           /\ within' = [d \in Devices |-> IF d \in doomed THEN NoGroup ELSE within[d]]
           /\ lines' = lines \ gone
           /\ Gesture({<<"erase", m, NoGroup>> : m \in doomed} \union Unlink(gone)
                      \union {<<"drop", g, NoGroup>> : g \in doomed \intersect GroupIds}
                      \union UNION {Leaving(d) : d \in doomed \intersect Devices})

\* onNodesChange, when React Flow has measured the boxes of groups
Measured(boxes) == {<<"put", g, NoGroup>> : g \in boxes \intersect GroupIds}

LoadBlindly ==
    /\ shown' = nodes /\ lines' = edges
    /\ within' = parent
    /\ Act /\ wire' = {m \in wire : m[1] # "make"} \union Measured(nodes)
    /\ replies' = {}
    /\ tidy' = (tidy /\ Quiet)
    /\ UNCHANGED <<store, matter, touched>>

\* onInit of a new page; the old one was told of no more new groups.
Load ==
    /\ shown' = nodes /\ lines' = edges
    /\ within' = [d \in Devices |->
                    IF d \in nodes /\ parent[d] \in nodes THEN parent[d] ELSE NoGroup]
    /\ Act /\ wire' = {m \in wire : m[1] # "make"} \union Measured(nodes)
    /\ replies' = {}
    /\ tidy' = (tidy /\ Quiet)
    /\ UNCHANGED <<store, matter, touched>>

\* addGroup, before and after the answer; its box is measured like any other.
AddGroup ==
    /\ Gesture({<<"make", 0, NoGroup>>})
    /\ UNCHANGED view

GroupAdded(g) ==
    /\ g \in replies /\ replies' = replies \ {g}
    /\ shown' = shown \union {g}
    /\ wire' = wire \union Measured({g})
    /\ UNCHANGED <<within, lines, store, matter, gestures, touched, tidy>>

-----------------------------------------------------------------------------
(* The httpd task                                                          *)

Take(op, n, g) == <<op, n, g>> \in wire /\ wire' = wire \ {<<op, n, g>>}

\* node_manager_upsert without settings, and with them
ServeTouch(n) ==
    /\ Take("touch", n, NoGroup)
    /\ strays' = strays \union ({n} \ nodes)
    /\ UNCHANGED <<view, nodes, parent, edges, matter, replies, gestures, touched, tidy>>

KeepSettings(n, g) == parent

Settings(n, g) == [d \in Devices |-> IF d = n THEN g ELSE parent[d]]

ServePut(n, g) ==
    /\ Take("put", n, g)
    /\ nodes' = nodes \union {n} /\ strays' = strays \ {n}
    /\ parent' = Settings(n, g)
    /\ UNCHANGED <<view, edges, matter, replies, gestures, touched, tidy>>

\* node_manager_delete
ServeErase(n) ==
    /\ Take("erase", n, NoGroup)
    /\ nodes' = nodes \ {n} /\ strays' = strays \ {n}
    /\ parent' = Settings(n, NoGroup)
    /\ UNCHANGED <<view, edges, matter, replies, gestures, touched, tidy>>

\* node_manager_upsert_edge and node_manager_delete_edge
ServeEdge(s, t) ==
    /\ \/ Take("edge", s, t) /\ edges' = edges \union {<<s, t>>}
       \/ Take("unedge", s, t) /\ edges' = edges \ {<<s, t>>}
    /\ UNCHANGED <<view, nodes, parent, strays, matter, replies, gestures, touched, tidy>>

ListOf(s) == {l \in bindings : l[1] = s}

\* blocking_write_attr: returns when the list is handed over.
Write(s, list) ==
    /\ writes' = writes \union {<<s, list>>}
    /\ crossed' = crossed \union {w[1] : w \in {v \in writes : v[1] = s}}
    /\ UNCHANGED bindings

\* A device that is not on the fabric is not reached.  A switch with a light of its own
\* is made a member of a group it is connected to, and taken out of it again, if the
\* device accepts that.
ServeBinding(s, t) ==
    LET own == {<<s, t>>} \intersect (Loads \X GroupIds)
        reached == s \in known /\ (t \in Devices => t \in known)
    IN  /\ \/ /\ Take("bind", s, t) /\ reached
              /\ Write(s, ListOf(s) \union {<<s, t>>})
              /\ \E joined \in SUBSET own : members' = members \union joined
           \/ /\ Take("unbind", s, t) /\ s \in known
              /\ Write(s, ListOf(s) \ {<<s, t>>})
              /\ \E left \in SUBSET own : members' = members \ left
           \/ /\ (Take("bind", s, t) /\ ~reached) \/ (Take("unbind", s, t) /\ s \notin known)
              /\ UNCHANGED <<lists, members>>
        /\ coupled' = coupled \union own
        /\ UNCHANGED <<view, store, ids, known, replies, gestures, touched, tidy>>

\* A list that was handed over reaches the switch.
Land(w) ==
    /\ w \in writes /\ writes' = writes \ {w}
    /\ bindings' = (bindings \ ListOf(w[1])) \union w[2]
    /\ UNCHANGED <<view, store, ids, memberships, crossed, known, wire, replies, gestures,
                   touched, tidy>>

\* Group 0 is refused.
ServeMember(d, g) ==
    /\ \/ /\ Take("join", d, g)
          /\ members' = members \union {m \in {<<d, g>>} : d \in known /\ g # 0}
       \/ Take("leave", d, g) /\ members' = members \ {m \in {<<d, g>>} : g # 0}
    /\ UNCHANGED <<view, store, ids, lists, coupled, known, replies, gestures, touched, tidy>>

ServeDrop(g) ==
    /\ Take("drop", g, NoGroup)
    /\ groups' = groups \ ({g} \ {0})
    /\ UNCHANGED <<view, store, nextGroup, setback, lists, memberships, known, replies,
                   gestures, touched, tidy>>

LowestFree(g) ==
    (CHOOSE h \in 1..Width : h \notin groups /\ 1..(h - 1) \subseteq groups) % Width
NewId(g) == g

WiderId(g) == g + 1
NextId(g) == (g + 1) % Width

\* matter_controller_allocate_group_id, which takes a counter that cannot be read for a
\* new one and does not look whether it was saved; then create_group, which may fail.
ServeMake ==
    /\ Take("make", 0, NoGroup)
    /\ \E read, saved \in BOOLEAN :
         LET next == IF read THEN nextGroup ELSE 1
         IN  /\ nextGroup' = IF saved THEN NextId(next) ELSE nextGroup
             /\ setback' = (setback \/ ~read \/ ~saved \/ next = 0)
             /\ \E made \in SUBSET {NewId(next)} :
                  groups' = groups \union made /\ replies' = replies \union made
    /\ UNCHANGED <<view, store, lists, memberships, known, gestures, touched, tidy>>

-----------------------------------------------------------------------------
(* The Devices tab                                                         *)

\* update_canvas_node_type, at the end of an interview: settings without a group
Reinterview(d) ==
    /\ Act
    /\ d \in known
    /\ nodes' = nodes \union {d} /\ strays' = strays \ {d}
    /\ parent' = Settings(d, NoGroup)
    /\ touched' = touched \union {e \in {d} : d \notin nodes \/ parent[d] # NoGroup}
    /\ UNCHANGED <<view, edges, matter, wire, replies, tidy>>

\* device_delete_handler: the device leaves the fabric with all it was told; the
\* canvas keeps the connections.
Remove(d) ==
    /\ Act
    /\ d \in known /\ known' = known \ {d}
    /\ members' = {m \in members : m[1] # d}
    /\ bindings' = bindings \ ListOf(d) /\ writes' = {w \in writes : w[1] # d}
    /\ nodes' = nodes \ {d} /\ strays' = strays \ {d}
    /\ parent' = Settings(d, NoGroup)
    /\ touched' = touched \union {d}
    /\ UNCHANGED <<view, edges, ids, coupled, crossed, wire, replies, tidy>>

\* matter_factory_reset: nothing of the fabric is left, on no device and in the KVS,
\* where the counter was; nodes.json is.
FactoryReset ==
    /\ Act
    /\ groups' = {} /\ nextGroup' = 1 /\ setback' = TRUE
    /\ members' = {} /\ bindings' = {} /\ writes' = {} /\ known' = {}
    /\ UNCHANGED <<view, store, coupled, crossed, wire, replies, touched, tidy>>

ByHand ==
    \/ \E n \in Names : Move(n) \/ Delete(n)
    \/ \E g \in GroupIds : Resize(g)
    \/ \E d \in Devices : Leave(d) \/ \E g \in GroupIds : Join(d, g)
    \/ \E l \in Links : Connect(l) \/ Disconnect(l)
    \/ Load \/ AddGroup

Serve ==
    \/ \E n \in Names :
         \/ ServeTouch(n) \/ ServeErase(n)
         \/ \E g \in GroupIds \union {NoGroup} : ServePut(n, g)
    \/ \E l \in Links : ServeEdge(l[1], l[2]) \/ ServeBinding(l[1], l[2])
    \/ \E d \in Devices, g \in GroupIds : ServeMember(d, g)
    \/ \E g \in GroupIds : ServeDrop(g)
    \/ ServeMake

CanvasNext ==
    \/ ByHand \/ Serve \/ FactoryReset
    \/ \E w \in writes : Land(w)
    \/ \E g \in GroupIds : GroupAdded(g)
    \/ \E d \in Devices : Reinterview(d) \/ Remove(d)

CanvasSpec == CanvasInit /\ [][CanvasNext]_canvasVars

-----------------------------------------------------------------------------
(* Properties                                                              *)

Untouched == Names \ touched

\* The requests of a gesture may be served in any order: when all are, nodes.json has
\* what the page shows, and the connections lead to nodes it has.  (Except for the
\* devices that a re-interview took out of their group, or that were deleted.)
ViewIsSaved ==
    tidy /\ Quiet =>
        /\ nodes \intersect Untouched = shown \intersect Untouched
        /\ \A d \in Devices \ touched : parent[d] = within[d]
        /\ edges = lines /\ strays \subseteq touched
        /\ \A l \in edges : {l[1], l[2]} \subseteq nodes \union touched

\* And the devices have been told what the page shows: each is in the group it is
\* within and in no other, each connection is a binding and no other is, and there is a
\* group for each box.  (Except for a switch with a light of its own and a group it was
\* connected with, whose member it is or not whatever is shown; and for the bindings of
\* a switch whose list was read before it was written, which may have lost one or kept
\* one.)
MatterFollowsView ==
    tidy /\ ~setback /\ Quiet =>
        /\ groups = shown \intersect GroupIds
        /\ \A d \in Devices \ touched, g \in GroupIds :
             <<d, g>> \notin coupled => (<<d, g>> \in members <=> within[d] = g)
        /\ \A l \in Links : {l[1], l[2]} \subseteq Untouched /\ l[1] \notin crossed =>
             (l \in bindings <=> l \in lines)

\* Whatever the browser and the Devices tab do, and whatever is lost or late, a device
\* is only shown in a group whose box is shown (React Flow accepts no other).
ShownWithGroup ==
    \A d \in Devices : within[d] # NoGroup => d \in shown /\ within[d] \in shown

\* Somewhere an id is the name of a group: on the page, in nodes.json, in the
\* controller, on a device, or in a request or an answer on its way.
Remembered(g) ==
    \/ g \in shown \union nodes \union strays \union groups \union replies
    \/ \E d \in Devices : g \in {within[d], parent[d]} \/ <<d, g>> \in members
    \/ \E l \in lines \union edges \union bindings : l[2] = g
    \/ \E w \in writes : \E l \in w[2] : l[2] = g
    \/ \E m \in wire : m[1] # "make" /\ g \in {m[2], m[3]}

\* The id of a new group was given to no group before that anybody still remembers,
\* even one deleted while its members were out of reach (until the counter is set back,
\* which nothing guards against: it is at its end, cannot be read or saved, or a
\* factory reset clears it).
GroupIdsAreNew ==
    [][\A g \in replies' \ replies : Remembered(g) => setback']_canvasVars

=============================================================================
