---------------------------- MODULE CanvasProofs ----------------------------
(***************************************************************************)
(* Proofs about Canvas, for any devices, any width of the group id counter *)
(* and any number of gestures.                                             *)
(*                                                                         *)
(* ShownWithGroup is inductive with the types.  GroupIdsAreNew rests on    *)
(* IdsAreBelow: no step but the making of a group brings an id to a place  *)
(* that remembers it, so that every id in use was given out, and the       *)
(* counter, while it goes on, has gone past it.                            *)
(*                                                                         *)
(* ViewIsSaved and MatterFollowsView speak of a state in which nothing is  *)
(* on its way.  SavedInv and MatterInv say of every state what they say of *)
(* that one, thing by thing (Agree): what is shown is stored, or the one   *)
(* request that stores it is on its way and none that undoes it; and the   *)
(* same for what is not shown.  A gesture found the ones before served     *)
(* (tidy), so that only its own requests are on their way; serving one     *)
(* changes the things it names and no other, which is why the order does   *)
(* not matter.  A binding is stored when the list on its way has it, if    *)
(* there is one (Written), and there is at most one for a switch that is   *)
(* not crossed.                                                            *)
(***************************************************************************)
EXTENDS Canvas, TLAPS

\* The parts of the state are named only to say what a step leaves alone.
USE CanvasAssumption DEF ids, lists, memberships

LEMMA Kinds ==
    /\ NoGroup \notin Names /\ Devices \intersect GroupIds = {} /\ GroupIds \subseteq Names
    /\ 0 \in GroupIds /\ Devices \subseteq Names
BY DEF NoGroup, Names, GroupIds

\* A request of each kind is a message.
LEMMA Requests ==
    ASSUME NEW op \in Ops, NEW n \in Names, NEW g \in Names \union {NoGroup}
    PROVE <<op, n, g>> \in Messages
BY DEF Messages

LEMMA LinkEnds ==
    ASSUME NEW l \in Links
    PROVE /\ l[1] \in Devices /\ l[1] \in Names /\ l[2] \in Names /\ l = <<l[1], l[2]>>
          /\ l[1] \in Switches
BY DEF Links, Names

LEMMA InitTypes == CanvasInit => CanvasTypeOK
<1> SUFFICES ASSUME CanvasInit PROVE CanvasTypeOK
  OBVIOUS
<1>1. groups \subseteq GroupIds /\ nextGroup \in GroupIds
  BY DEF CanvasInit, GroupIds
<1>2. nodes \subseteq Names
  BY <1>1 DEF CanvasInit, Names
<1>3. /\ members \subseteq Devices \X GroupIds /\ gestures \in 0..MaxGestures
      /\ coupled \subseteq Devices \X GroupIds
  BY DEF CanvasInit
<1> QED
  BY <1>1, <1>2, <1>3 DEF CanvasInit, CanvasTypeOK

\* A gesture whose requests are messages.
LEMMA GestureTypes ==
    ASSUME CanvasTypeOK, NEW requests \in SUBSET Messages, Gesture(requests),
           shown' \subseteq Names, within' \in [Devices -> GroupIds \union {NoGroup}],
           lines' \subseteq Links
    PROVE CanvasTypeOK'
<1>1. wire' \subseteq Messages /\ gestures' \in 0..MaxGestures
  BY DEF Gesture, Act, CanvasTypeOK
<1> QED
  BY <1>1 DEF Gesture, CanvasTypeOK, store, matter

LEMMA LeavingTypes ==
    ASSUME CanvasTypeOK, NEW d \in Devices
    PROVE Leaving(d) \subseteq Messages
<1>1. \A g \in {within[d]} \ {NoGroup} : g \in Names /\ "leave" \in Ops
  BY DEF CanvasTypeOK, Names, Ops
<1> QED
  BY <1>1, Kinds, Requests DEF Leaving

LEMMA UnlinkTypes ==
    ASSUME NEW gone \in SUBSET Links
    PROVE Unlink(gone) \subseteq Messages
<1>1. "unedge" \in Ops /\ "unbind" \in Ops
  BY DEF Ops
<1> QED
  BY <1>1, LinkEnds, Requests DEF Unlink

LEMMA DeleteTypes ==
    ASSUME CanvasTypeOK, NEW n \in Names, Delete(n)
    PROVE CanvasTypeOK'
<1> DEFINE doomed == Doomed(n)
           gone == {l \in lines : l[1] \in doomed \/ l[2] \in doomed}
           requests == {<<"erase", m, NoGroup>> : m \in doomed} \union Unlink(gone)
                       \union {<<"drop", g, NoGroup>> : g \in doomed \intersect GroupIds}
                       \union UNION {Leaving(d) : d \in doomed \intersect Devices}
<1>1. doomed \subseteq Names
  BY Kinds DEF Doomed
<1>2. requests \subseteq Messages
  <2>1. "erase" \in Ops /\ "drop" \in Ops
    BY DEF Ops
  <2>2. Unlink(gone) \subseteq Messages
    BY UnlinkTypes DEF CanvasTypeOK
  <2>3. UNION {Leaving(d) : d \in doomed \intersect Devices} \subseteq Messages
    BY LeavingTypes
  <2>4. {<<"erase", m, NoGroup>> : m \in doomed} \subseteq Messages
    BY <1>1, <2>1, Requests
  <2>5. {<<"drop", g, NoGroup>> : g \in doomed \intersect GroupIds} \subseteq Messages
    BY <2>1, Kinds, Requests
  <2> QED
    BY <2>2, <2>3, <2>4, <2>5
<1>3. Gesture(requests)
  BY DEF Delete
<1>4. /\ shown' \subseteq Names /\ lines' \subseteq Links
      /\ within' \in [Devices -> GroupIds \union {NoGroup}]
  BY DEF Delete, CanvasTypeOK
<1> HIDE DEF requests
<1> QED
  BY <1>2, <1>3, <1>4, GestureTypes

LEMMA ByHandTypes == CanvasTypeOK /\ ByHand => CanvasTypeOK'
<1> SUFFICES ASSUME CanvasTypeOK, ByHand PROVE CanvasTypeOK'
  OBVIOUS
<1> USE DEF Ops
<1>1. ASSUME NEW n \in Names, Move(n) PROVE CanvasTypeOK'
  BY <1>1, Requests, GestureTypes DEF Move, view, CanvasTypeOK
<1>2. ASSUME NEW g \in GroupIds, Resize(g) PROVE CanvasTypeOK'
  BY <1>2, Kinds, Requests, GestureTypes DEF Resize, view, CanvasTypeOK
<1>3. ASSUME NEW d \in Devices, Leave(d) PROVE CanvasTypeOK'
  <2>1. {<<"put", d, NoGroup>>} \union Leaving(d) \in SUBSET Messages
    BY Kinds, Requests, LeavingTypes
  <2> QED
    BY <1>3, <2>1, GestureTypes DEF Leave, CanvasTypeOK
<1>4. ASSUME NEW d \in Devices, NEW g \in GroupIds, Join(d, g) PROVE CanvasTypeOK'
  <2>1. {<<"put", d, g>>, <<"join", d, g>>} \union Leaving(d) \in SUBSET Messages
    BY Kinds, Requests, LeavingTypes
  <2> QED
    BY <1>4, <2>1, GestureTypes DEF Join, CanvasTypeOK
<1>5. ASSUME NEW l \in Links, Connect(l) PROVE CanvasTypeOK'
  BY <1>5, LinkEnds, Requests, GestureTypes DEF Connect, CanvasTypeOK
<1>6. ASSUME NEW l \in Links, Disconnect(l) PROVE CanvasTypeOK'
  BY <1>6, UnlinkTypes, GestureTypes DEF Disconnect, CanvasTypeOK
<1>7. CASE Load
  <2>1. Measured(nodes) \subseteq Messages
    BY Kinds, Requests DEF Measured
  <2> QED
    BY <1>7, <2>1 DEF Load, Act, CanvasTypeOK, store, matter
<1>8. CASE AddGroup
  BY <1>8, Kinds, Requests, GestureTypes DEF AddGroup, view, CanvasTypeOK
<1> QED
  BY <1>1, <1>2, <1>3, <1>4, <1>5, <1>6, <1>7, <1>8, DeleteTypes DEF ByHand

LEMMA SettingsTypes ==
    ASSUME CanvasTypeOK, NEW n, NEW g \in GroupIds \union {NoGroup}
    PROVE Settings(n, g) \in [Devices -> GroupIds \union {NoGroup}]
BY DEF CanvasTypeOK, Settings

LEMMA MakeTypes == CanvasTypeOK /\ ServeMake => CanvasTypeOK'
<1> SUFFICES ASSUME CanvasTypeOK, ServeMake PROVE CanvasTypeOK'
  OBVIOUS
<1>1. 1 \in GroupIds /\ \A g \in GroupIds : NextId(g) \in GroupIds
  BY DEF NextId, GroupIds
<1>2. /\ groups' \subseteq GroupIds /\ replies' \subseteq GroupIds /\ wire' \subseteq Messages
      /\ nextGroup' \in GroupIds /\ setback' \in BOOLEAN
  BY <1>1 DEF ServeMake, NewId, CanvasTypeOK, Take
<1> QED
  BY <1>1, <1>2 DEF ServeMake, CanvasTypeOK, view, store

LEMMA ServeTypes == CanvasTypeOK /\ Serve => CanvasTypeOK'
<1> SUFFICES ASSUME CanvasTypeOK, Serve PROVE CanvasTypeOK'
  OBVIOUS
<1> USE DEF Take, view, store, matter
<1>1. ASSUME NEW n \in Names, ServeTouch(n) PROVE CanvasTypeOK'
  BY <1>1 DEF ServeTouch, CanvasTypeOK
<1>2. ASSUME NEW n \in Names, ServeErase(n) PROVE CanvasTypeOK'
  BY <1>2, SettingsTypes DEF ServeErase, CanvasTypeOK
<1>3. ASSUME NEW n \in Names, NEW g \in GroupIds \union {NoGroup}, ServePut(n, g)
      PROVE CanvasTypeOK'
  BY <1>3, SettingsTypes DEF ServePut, CanvasTypeOK
<1>4. ASSUME NEW l \in Links, ServeEdge(l[1], l[2]) PROVE CanvasTypeOK'
  BY <1>4, LinkEnds DEF ServeEdge, CanvasTypeOK
<1>5. ASSUME NEW l \in Links, ServeBinding(l[1], l[2]) PROVE CanvasTypeOK'
  <2>1. /\ members' \subseteq members \union ({l} \intersect (Loads \X GroupIds))
        /\ coupled' \subseteq coupled \union ({l} \intersect (Loads \X GroupIds))
        /\ wire' \subseteq wire
    BY <1>5, LinkEnds DEF ServeBinding
  <2>2. writes' \subseteq Switches \X SUBSET Links /\ crossed' \subseteq Switches
    BY <1>5, LinkEnds DEF ServeBinding, Write, ListOf, CanvasTypeOK
  <2>3. bindings' = bindings
    BY <1>5 DEF ServeBinding, Write
  <2> QED
    BY <1>5, <2>1, <2>2, <2>3 DEF ServeBinding, CanvasTypeOK
<1>6. ASSUME NEW d \in Devices, NEW g \in GroupIds, ServeMember(d, g) PROVE CanvasTypeOK'
  BY <1>6 DEF ServeMember, CanvasTypeOK
<1>7. ASSUME NEW g \in GroupIds, ServeDrop(g) PROVE CanvasTypeOK'
  BY <1>7 DEF ServeDrop, CanvasTypeOK
<1> QED
  BY <1>1, <1>2, <1>3, <1>4, <1>5, <1>6, <1>7, MakeTypes DEF Serve

LEMMA NextTypes == CanvasTypeOK /\ [CanvasNext]_canvasVars => CanvasTypeOK'
<1> SUFFICES ASSUME CanvasTypeOK, [CanvasNext]_canvasVars PROVE CanvasTypeOK'
  OBVIOUS
<1> USE DEF view, store, matter
<1>1. ASSUME NEW g \in GroupIds, GroupAdded(g) PROVE CanvasTypeOK'
  BY <1>1, Kinds, Requests DEF GroupAdded, Measured, CanvasTypeOK, Ops
<1>2. ASSUME NEW d \in Devices, Reinterview(d) PROVE CanvasTypeOK'
  BY <1>2, Kinds, SettingsTypes DEF Reinterview, Act, CanvasTypeOK
<1>3. ASSUME NEW d \in Devices, Remove(d) PROVE CanvasTypeOK'
  BY <1>3, SettingsTypes DEF Remove, Act, CanvasTypeOK
<1>5. ASSUME NEW w \in writes, Land(w) PROVE CanvasTypeOK'
  BY <1>5 DEF Land, CanvasTypeOK
<1>6. CASE FactoryReset
  BY <1>6 DEF FactoryReset, Act, CanvasTypeOK, GroupIds
<1>4. CASE UNCHANGED canvasVars
  BY <1>4 DEF canvasVars, CanvasTypeOK
<1> QED
  BY <1>1, <1>2, <1>3, <1>4, <1>5, <1>6, ByHandTypes, ServeTypes DEF CanvasNext

\* The view, nodes.json, the devices and the wire keep their types.
THEOREM CanvasTypeCorrect == CanvasSpec => []CanvasTypeOK
<1>1. QED
  BY InitTypes, NextTypes, PTL DEF CanvasSpec

-----------------------------------------------------------------------------
(* Boxes                                                                   *)

LEMMA NextShown == CanvasTypeOK /\ ShownWithGroup /\ [CanvasNext]_canvasVars => ShownWithGroup'
<1> SUFFICES ASSUME CanvasTypeOK, ShownWithGroup, [CanvasNext]_canvasVars PROVE ShownWithGroup'
  OBVIOUS
<1> USE DEF ShownWithGroup
<1>1. ASSUME UNCHANGED view PROVE ShownWithGroup'
  BY <1>1 DEF view
<1>2. CASE Serve
  BY <1>1, <1>2 DEF Serve, ServeTouch, ServePut, ServeErase, ServeEdge, ServeBinding,
                    ServeMember, ServeDrop, ServeMake
<1>3. CASE ByHand
  <2>1. ASSUME NEW d \in Devices, NEW g \in GroupIds, Join(d, g) PROVE ShownWithGroup'
    BY <2>1 DEF Join, CanvasTypeOK
  <2>2. ASSUME NEW d \in Devices, Leave(d) PROVE ShownWithGroup'
    BY <2>2 DEF Leave, CanvasTypeOK
  \* What was within the group that is deleted goes with it, and a device is no group.
  <2>3. ASSUME NEW n \in Names, Delete(n) PROVE ShownWithGroup'
    <3> SUFFICES ASSUME NEW d \in Devices, within'[d] # NoGroup
                 PROVE d \in shown' /\ within'[d] \in shown'
      OBVIOUS
    <3>1. shown' = shown \ Doomed(n) /\ d \notin Doomed(n) /\ within'[d] = within[d]
      BY <2>3 DEF Delete
    <3>2. within[d] # n /\ within[d] \notin Devices
      BY <3>1, Kinds DEF Doomed, CanvasTypeOK
    <3> QED
      BY <3>1, <3>2 DEF Doomed
  <2>4. CASE Load
    BY <2>4 DEF Load
  <2> QED
    BY <1>1, <1>3, <2>1, <2>2, <2>3, <2>4
    DEF ByHand, Move, Resize, Connect, Disconnect, AddGroup, view
<1>4. ASSUME NEW g \in GroupIds, GroupAdded(g) PROVE ShownWithGroup'
  BY <1>4 DEF GroupAdded
<1>5. CASE \/ (\E d \in Devices : Reinterview(d) \/ Remove(d)) \/ (\E w \in writes : Land(w))
           \/ FactoryReset \/ UNCHANGED canvasVars
  BY <1>1, <1>5 DEF Reinterview, Remove, Land, FactoryReset, canvasVars
<1> QED
  BY <1>2, <1>3, <1>4, <1>5 DEF CanvasNext

\* A device is only shown in a group whose box is shown.
THEOREM BoxesShown == CanvasSpec => []ShownWithGroup
<1>1. CanvasInit => ShownWithGroup
  BY DEF CanvasInit, ShownWithGroup
<1> QED
  BY <1>1, InitTypes, NextTypes, NextShown, PTL DEF CanvasSpec

-----------------------------------------------------------------------------
(* Group ids                                                               *)

\* Every id in use is one that the counter has gone past, until it is at its end.
IdsAreBelow ==
    ~setback => \A g \in GroupIds : Remembered(g) => 0 < g /\ (g < nextGroup \/ nextGroup = 0)

\* A request names the id.
Names3(m, g) == m[1] # "make" /\ g \in {m[2], m[3]}

LEMMA InitIds == CanvasInit => IdsAreBelow
<1> SUFFICES ASSUME CanvasInit PROVE IdsAreBelow
  OBVIOUS
<1>1. groups \subseteq 1..(nextGroup - 1) /\ nextGroup \in 1..(Width - 1)
  BY DEF CanvasInit
<1>2. ASSUME NEW g \in GroupIds, Remembered(g) PROVE g \in groups
  <2>1. g \in nodes => g \in groups
    BY Kinds DEF CanvasInit
  <2>2. \A d \in Devices : parent[d] \in groups \union {NoGroup} /\ within[d] = parent[d]
    <3>1. parent \in [Devices -> groups \union {NoGroup}] /\ within = parent
      BY Zenon DEF CanvasInit
    <3> QED
      BY <3>1
  <2>3. \A d \in Devices : <<d, g>> \in members => parent[d] = g \/ <<d, g>> \in edges
    <3>1. \A m \in members : m \in edges \/ parent[m[1]] = m[2]
      BY DEF CanvasInit
    <3> QED
      BY <3>1
  <2>4. \A l \in lines \union edges \union bindings : l[2] \in nodes
    BY DEF CanvasInit
  <2>5. CASE g \in shown \union nodes \union strays \union groups \union replies
    BY <2>1, <2>5 DEF CanvasInit
  <2>6. CASE \E d \in Devices : g \in {within[d], parent[d]} \/ <<d, g>> \in members
    BY <2>1, <2>2, <2>3, <2>4, <2>6, Kinds
  <2>7. CASE \E l \in lines \union edges \union bindings : l[2] = g
    BY <2>1, <2>4, <2>7
  <2>8. wire = {} /\ writes = {}
    BY DEF CanvasInit
  <2> QED
    BY <1>2, <2>5, <2>6, <2>7, <2>8 DEF Remembered
<1> QED
  BY <1>1, <1>2 DEF IdsAreBelow, GroupIds

\* A step that brings no id to a new place, and leaves the counter alone.
LEMMA NoNewIds ==
    ASSUME IdsAreBelow, UNCHANGED <<nextGroup, setback>>,
           \A g \in GroupIds : Remembered(g)' => Remembered(g)
    PROVE IdsAreBelow'
BY DEF IdsAreBelow

\* A gesture whose requests name ids of the page.
LEMMA GestureIds ==
    ASSUME IdsAreBelow, CanvasTypeOK, NEW requests, Gesture(requests),
           \A m \in requests : \A g \in GroupIds : Names3(m, g) => Remembered(g),
           \A g \in GroupIds :
             g \in shown' \/ (\E d \in Devices : within'[d] = g) \/ (\E l \in lines' : l[2] = g)
               => Remembered(g)
    PROVE IdsAreBelow'
<1>1. \A g \in GroupIds : Remembered(g)' => Remembered(g)
  <2> SUFFICES ASSUME NEW g \in GroupIds, Remembered(g)' PROVE Remembered(g)
    OBVIOUS
  <2>1. CASE g \in shown' \/ (\E d \in Devices : within'[d] = g) \/ (\E l \in lines' : l[2] = g)
    BY <2>1
  <2>2. CASE \/ g \in nodes' \union strays' \union groups' \union replies'
             \/ \E d \in Devices : g = parent'[d] \/ <<d, g>> \in members'
             \/ \E l \in edges' \union bindings' : l[2] = g
             \/ \E w \in writes' : \E l \in w[2] : l[2] = g
    BY <2>2 DEF Gesture, store, matter, Remembered
  <2>3. CASE \E m \in wire' : Names3(m, g)
    BY <2>3 DEF Gesture, Remembered, Names3
  <2> QED
    BY <2>1, <2>2, <2>3 DEF Remembered, Names3
<1>2. UNCHANGED <<nextGroup, setback>>
  BY DEF Gesture, matter
<1> QED
  BY <1>1, <1>2, NoNewIds

LEMMA LeavingIds ==
    ASSUME NEW d \in Devices, NEW m \in Leaving(d), NEW g \in GroupIds, Names3(m, g)
    PROVE Remembered(g)
BY Kinds DEF Leaving, Names3, Remembered

LEMMA UnlinkIds ==
    ASSUME NEW gone \in SUBSET lines, lines \subseteq Links,
           NEW m \in Unlink(gone), NEW g \in GroupIds, Names3(m, g)
    PROVE Remembered(g)
<1>1. PICK l \in gone : m[2] = l[1] /\ m[3] = l[2]
  BY DEF Unlink
<1>2. l[1] # g
  BY LinkEnds, Kinds
<1> QED
  BY <1>1, <1>2 DEF Names3, Remembered

LEMMA DeleteIds ==
    ASSUME CanvasTypeOK, IdsAreBelow, NEW n \in Names, Delete(n)
    PROVE IdsAreBelow'
<1> DEFINE doomed == Doomed(n)
           gone == {l \in lines : l[1] \in doomed \/ l[2] \in doomed}
           requests == {<<"erase", m, NoGroup>> : m \in doomed} \union Unlink(gone)
                       \union {<<"drop", g, NoGroup>> : g \in doomed \intersect GroupIds}
                       \union UNION {Leaving(d) : d \in doomed \intersect Devices}
<1>1. doomed \subseteq shown
  BY DEF Delete, Doomed
<1>2. \A m \in requests : \A g \in GroupIds : Names3(m, g) => Remembered(g)
  <2> SUFFICES ASSUME NEW m \in requests, NEW g \in GroupIds, Names3(m, g) PROVE Remembered(g)
    OBVIOUS
  <2>1. CASE m \in {<<"erase", k, NoGroup>> : k \in doomed}
             \/ m \in {<<"drop", k, NoGroup>> : k \in doomed \intersect GroupIds}
    BY <1>1, <2>1, Kinds DEF Names3, Remembered
  <2>2. CASE m \in Unlink(gone)
    BY <2>2, UnlinkIds DEF CanvasTypeOK
  <2>3. CASE m \in UNION {Leaving(d) : d \in doomed \intersect Devices}
    BY <2>3, LeavingIds
  <2> QED
    BY <2>1, <2>2, <2>3
<1>3. Gesture(requests)
  BY DEF Delete
<1>4. shown' \subseteq shown /\ lines' \subseteq lines
      /\ \A d \in Devices : within'[d] \in {within[d], NoGroup}
  BY DEF Delete
<1> HIDE DEF requests
<1>5. \A g \in GroupIds :
        g \in shown' \/ (\E d \in Devices : within'[d] = g) \/ (\E l \in lines' : l[2] = g)
          => Remembered(g)
  BY <1>4, Kinds DEF Remembered
<1> QED
  BY <1>2, <1>3, <1>5, GestureIds

LEMMA ByHandIds == CanvasTypeOK /\ IdsAreBelow /\ ByHand => IdsAreBelow'
<1> SUFFICES ASSUME CanvasTypeOK, IdsAreBelow, ByHand PROVE IdsAreBelow'
  OBVIOUS
<1>1. ASSUME NEW n \in Names, Move(n) PROVE IdsAreBelow'
  BY <1>1, Kinds, GestureIds DEF Move, view, Names3, Remembered
<1>2. ASSUME NEW g \in GroupIds, Resize(g) PROVE IdsAreBelow'
  BY <1>2, Kinds, GestureIds DEF Resize, view, Names3, Remembered
<1>3. ASSUME NEW d \in Devices, Leave(d) PROVE IdsAreBelow'
  <2>1. \A e \in Devices : within'[e] \in {within[e], NoGroup}
    BY <1>3 DEF Leave, CanvasTypeOK
  <2>2. \A m \in {<<"put", d, NoGroup>>} \union Leaving(d) : \A g \in GroupIds :
          Names3(m, g) => Remembered(g)
    BY Kinds, LeavingIds DEF Names3
  <2>3. \A g \in GroupIds :
          g \in shown' \/ (\E e \in Devices : within'[e] = g) \/ (\E l \in lines' : l[2] = g)
            => Remembered(g)
    BY <1>3, <2>1, Kinds DEF Leave, Remembered
  <2> QED
    BY <1>3, <2>2, <2>3, GestureIds DEF Leave
<1>4. ASSUME NEW d \in Devices, NEW h \in GroupIds, Join(d, h) PROVE IdsAreBelow'
  <2>1. h \in shown /\ \A e \in Devices : within'[e] \in {within[e], h}
    BY <1>4 DEF Join, CanvasTypeOK
  <2>2. \A m \in {<<"put", d, h>>, <<"join", d, h>>} \union Leaving(d) : \A g \in GroupIds :
          Names3(m, g) => Remembered(g)
    BY <2>1, Kinds, LeavingIds DEF Names3, Remembered
  <2>3. \A g \in GroupIds :
          g \in shown' \/ (\E e \in Devices : within'[e] = g) \/ (\E l \in lines' : l[2] = g)
            => Remembered(g)
    BY <1>4, <2>1, Kinds DEF Join, Remembered
  <2> QED
    BY <1>4, <2>2, <2>3, GestureIds DEF Join
<1>5. ASSUME NEW k \in Links, Connect(k) PROVE IdsAreBelow'
  <2>1. k[1] \in Devices /\ k[2] \in shown /\ lines' = lines \union {k}
    BY <1>5, LinkEnds DEF Connect
  <2>2. \A m \in {<<"edge", k[1], k[2]>>, <<"bind", k[1], k[2]>>} : \A g \in GroupIds :
          Names3(m, g) => Remembered(g)
    BY <2>1, Kinds DEF Names3, Remembered
  <2>3. \A g \in GroupIds :
          g \in shown' \/ (\E e \in Devices : within'[e] = g) \/ (\E l \in lines' : l[2] = g)
            => Remembered(g)
    BY <1>5, <2>1 DEF Connect, Remembered
  <2> QED
    BY <1>5, <2>2, <2>3, GestureIds DEF Connect
<1>6. ASSUME NEW k \in Links, Disconnect(k) PROVE IdsAreBelow'
  <2>1. {k} \in SUBSET lines /\ lines \subseteq Links
    BY <1>6 DEF Disconnect, CanvasTypeOK
  <2>2. \A m \in Unlink({k}) : \A g \in GroupIds : Names3(m, g) => Remembered(g)
    BY <2>1, UnlinkIds
  <2>3. \A g \in GroupIds :
          g \in shown' \/ (\E e \in Devices : within'[e] = g) \/ (\E l \in lines' : l[2] = g)
            => Remembered(g)
    BY <1>6 DEF Disconnect, Remembered
  <2> QED
    BY <1>6, <2>2, <2>3, GestureIds DEF Disconnect
<1>7. CASE Load
  <2>1. \A g \in GroupIds : Remembered(g)' => Remembered(g)
    BY <1>7, Kinds DEF Load, Measured, store, matter, Remembered
  <2> QED
    BY <1>7, <2>1, NoNewIds DEF Load, matter
<1>8. CASE AddGroup
  BY <1>8, GestureIds DEF AddGroup, view, Names3, Remembered
<1> QED
  BY <1>1, <1>2, <1>3, <1>4, <1>5, <1>6, <1>7, <1>8, DeleteIds DEF ByHand

\* A request that is served leaves its ids on the devices or in nodes.json.
LEMMA ServeIds ==
    ASSUME CanvasTypeOK, IdsAreBelow, Serve, ~ServeMake
    PROVE IdsAreBelow'
<1> USE DEF Take, view, store, matter
<1>1. UNCHANGED <<nextGroup, setback>>
  BY DEF Serve, ServeTouch, ServePut, ServeErase, ServeEdge, ServeBinding, ServeMember, ServeDrop
<1> SUFFICES ASSUME NEW h \in GroupIds, Remembered(h)' PROVE Remembered(h)
  BY <1>1, NoNewIds
<1>2. ASSUME NEW n \in Names, ServeTouch(n) PROVE Remembered(h)
  BY <1>2 DEF ServeTouch, Remembered
<1>3. ASSUME NEW n \in Names, ServeErase(n) PROVE Remembered(h)
  BY <1>3, Kinds DEF ServeErase, Remembered, Settings
<1>4. ASSUME NEW n \in Names, NEW g \in GroupIds \union {NoGroup}, ServePut(n, g)
      PROVE Remembered(h)
  <2>1. <<"put", n, g>> \in wire /\ wire' \subseteq wire /\ nodes' = nodes \union {n}
        /\ \A d \in Devices : parent'[d] \in {parent[d], g}
    BY <1>4 DEF ServePut, Settings
  <2>2. CASE h \in {n, g}
    BY <2>1, <2>2 DEF Remembered
  <2>3. CASE h \notin {n, g}
    BY <1>4, <2>1, <2>3 DEF ServePut, Remembered
  <2> QED
    BY <2>2, <2>3
<1>5. ASSUME NEW l \in Links, ServeEdge(l[1], l[2]) PROVE Remembered(h)
  <2>1. wire' \subseteq wire
        /\ \A k \in edges' : k \in edges \/ (k[2] = l[2] /\ <<"edge", l[1], l[2]>> \in wire)
    BY <1>5 DEF ServeEdge
  <2>2. \A k \in edges' : k[2] = h => Remembered(h)
    BY <2>1 DEF Remembered
  <2> QED
    BY <1>5, <2>1, <2>2 DEF ServeEdge, Remembered
<1>6. ASSUME NEW l \in Links, ServeBinding(l[1], l[2]) PROVE Remembered(h)
  <2>1. /\ wire' \subseteq wire /\ bindings' = bindings
        /\ <<l[1], l[2]>> = l /\ l[1] \in Devices
        /\ \A m \in members' \ members : m = l /\ <<"bind", l[1], l[2]>> \in wire
    BY <1>6, LinkEnds DEF ServeBinding, Write
  <2>2. ASSUME NEW w \in writes', NEW k \in w[2] PROVE
          \/ w \in writes
          \/ k \in bindings \/ (k[2] = l[2] /\ <<"bind", l[1], l[2]>> \in wire)
    BY <1>6, <2>2 DEF ServeBinding, Write, ListOf
  <2>3. (\E w \in writes' : \E k \in w[2] : k[2] = h) => Remembered(h)
    BY <2>2 DEF Remembered
  <2>4. \A d \in Devices : <<d, h>> \in members' => Remembered(h)
    BY <2>1 DEF Remembered
  <2> QED
    BY <1>6, <2>1, <2>3, <2>4 DEF ServeBinding, Remembered
<1>7. ASSUME NEW d \in Devices, NEW g \in GroupIds, ServeMember(d, g) PROVE Remembered(h)
  <2>1. wire' \subseteq wire /\ members' \subseteq members \union {<<d, g>>}
        /\ (<<d, g>> \in members' \ members => <<"join", d, g>> \in wire)
    BY <1>7 DEF ServeMember
  <2>2. h = g /\ <<"join", d, g>> \in wire => Remembered(h)
    BY DEF Remembered
  <2> QED
    BY <1>7, <2>1, <2>2 DEF ServeMember, Remembered
<1>8. ASSUME NEW g \in GroupIds, ServeDrop(g) PROVE Remembered(h)
  BY <1>8 DEF ServeDrop, Remembered
<1> QED
  BY <1>2, <1>3, <1>4, <1>5, <1>6, <1>7, <1>8 DEF Serve

\* The counter goes past the id it gives.
LEMMA MakeIds == CanvasTypeOK /\ IdsAreBelow /\ ServeMake => IdsAreBelow'
<1> SUFFICES ASSUME CanvasTypeOK, IdsAreBelow, ServeMake, ~setback' PROVE IdsAreBelow'
  BY DEF IdsAreBelow
<1>1. ~setback /\ nextGroup # 0 /\ nextGroup \in GroupIds /\ nextGroup' = NextId(nextGroup)
  BY DEF ServeMake, CanvasTypeOK
<1>2. nextGroup' = nextGroup + 1 \/ nextGroup' = 0
  BY <1>1 DEF NextId, GroupIds
<1>3. \A g \in GroupIds : Remembered(g)' => Remembered(g) \/ g = nextGroup
  <2>1. /\ groups' \subseteq groups \union {nextGroup} /\ replies' \subseteq replies \union {nextGroup}
        /\ wire' \subseteq wire
        /\ UNCHANGED <<shown, within, lines, nodes, parent, edges, strays, members, bindings, writes>>
    BY DEF ServeMake, NewId, Take, view, store
  <2> QED
    BY <2>1 DEF Remembered
<1> QED
  BY <1>1, <1>2, <1>3 DEF IdsAreBelow, GroupIds

LEMMA NextIds == CanvasTypeOK /\ IdsAreBelow /\ [CanvasNext]_canvasVars => IdsAreBelow'
<1> SUFFICES ASSUME CanvasTypeOK, IdsAreBelow, [CanvasNext]_canvasVars PROVE IdsAreBelow'
  OBVIOUS
<1> USE DEF view, store, matter
<1>1. ASSUME NEW g \in GroupIds, GroupAdded(g) PROVE IdsAreBelow'
  <2>1. \A h \in GroupIds : Remembered(h)' => Remembered(h)
    <3> SUFFICES ASSUME NEW h \in GroupIds, Remembered(h)' PROVE Remembered(h)
      OBVIOUS
    <3>1. CASE h = g
      BY <1>1, <3>1 DEF GroupAdded, Remembered
    <3>2. CASE h # g
      <4>1. \A m \in wire' : Names3(m, h) => m \in wire
        BY <1>1, <3>2, Kinds DEF GroupAdded, Measured, Names3
      <4> QED
        BY <1>1, <3>2, <4>1 DEF GroupAdded, Remembered, Names3
    <3> QED
      BY <3>1, <3>2
  <2> QED
    BY <1>1, <2>1, NoNewIds DEF GroupAdded
<1>2. ASSUME NEW d \in Devices, Reinterview(d) \/ Remove(d) PROVE IdsAreBelow'
  <2>1. /\ nodes' \subseteq nodes \union {d} /\ strays' \subseteq strays /\ members' \subseteq members
        /\ bindings' \subseteq bindings /\ writes' \subseteq writes
        /\ \A e \in Devices : parent'[e] \in {parent[e], NoGroup}
        /\ UNCHANGED <<shown, within, lines, edges, groups, replies, wire, nextGroup, setback>>
    <3>1. CASE Reinterview(d)
      BY <3>1 DEF Reinterview, Settings
    <3>2. CASE Remove(d)
      BY <3>2 DEF Remove, Settings
    <3> QED
      BY <1>2, <3>1, <3>2
  <2>2. ASSUME NEW h \in GroupIds, Remembered(h)' PROVE Remembered(h)
    <3>1. h # d /\ h # NoGroup
      BY Kinds
    <3>2. CASE h \in shown' \union nodes' \union strays' \union groups' \union replies'
      BY <2>1, <3>1, <3>2 DEF Remembered
    <3>3. CASE \E e \in Devices : h \in {within'[e], parent'[e]} \/ <<e, h>> \in members'
      BY <2>1, <3>1, <3>3 DEF Remembered
    <3> QED
      BY <2>1, <2>2, <3>2, <3>3 DEF Remembered
  <2> QED
    BY <2>1, <2>2, NoNewIds
<1>3. CASE UNCHANGED canvasVars
  BY <1>3, NoNewIds DEF canvasVars, Remembered
<1>4. ASSUME NEW w \in writes, Land(w) PROVE IdsAreBelow'
  <2>1. \A h \in GroupIds : Remembered(h)' => Remembered(h)
    BY <1>4 DEF Land, Remembered
  <2> QED
    BY <1>4, <2>1, NoNewIds DEF Land
<1>5. CASE FactoryReset
  BY <1>5 DEF FactoryReset, IdsAreBelow
<1> QED
  BY <1>1, <1>2, <1>3, <1>4, <1>5, ByHandIds, ServeIds, MakeIds DEF CanvasNext

\* An id is answered only when the group is made.
LEMMA NewIdIsForgotten ==
    CanvasTypeOK /\ IdsAreBelow /\ [CanvasNext]_canvasVars =>
      \A g \in replies' \ replies : Remembered(g) => setback'
<1> SUFFICES ASSUME CanvasTypeOK, IdsAreBelow, [CanvasNext]_canvasVars,
                    NEW g \in replies' \ replies, Remembered(g), ~setback'
             PROVE FALSE
  OBVIOUS
<1>1. ServeMake
  BY DEF CanvasNext, canvasVars, ByHand, Move, Resize, Join, Leave, Connect, Disconnect, Delete,
         AddGroup, Gesture, Load, Serve, ServeTouch, ServePut, ServeErase, ServeEdge,
         ServeBinding, ServeMember, ServeDrop, GroupAdded, Reinterview, Remove, Land,
         FactoryReset
<1>2. g = nextGroup /\ g \in GroupIds /\ g # 0 /\ ~setback
  BY <1>1 DEF ServeMake, NewId, CanvasTypeOK
<1> QED
  BY <1>2 DEF IdsAreBelow, GroupIds

\* The id of a new group is remembered nowhere, until the counter is set back.
THEOREM NewGroupIds == CanvasSpec => GroupIdsAreNew
<1>1. CanvasSpec => [](CanvasTypeOK /\ IdsAreBelow)
  BY InitTypes, InitIds, NextTypes, NextIds, PTL DEF CanvasSpec
<1> QED
  BY <1>1, NewIdIsForgotten, PTL DEF CanvasSpec, GroupIdsAreNew

-----------------------------------------------------------------------------
(* The view, nodes.json and the devices                                    *)

\* What is shown and what is stored of one thing: they agree, or the request that makes
\* them agree is on its way, and none that undoes it.
Agree(isShown, isStored, adding, removing) ==
    IF isShown THEN (isStored \/ adding) /\ ~removing ELSE (~isStored \/ removing) /\ ~adding

Putting(n) == \E g \in GroupIds \union {NoGroup} : <<"put", n, g>> \in wire
Erasing(n) == <<"erase", n, NoGroup>> \in wire

NodesAgree == \A n \in Untouched : Agree(n \in shown, n \in nodes, Putting(n), Erasing(n))

ParentsAgree ==
    \A d \in Devices \ touched :
        /\ \A g \in GroupIds \union {NoGroup} : <<"put", d, g>> \in wire => g = within[d]
        /\ parent[d] = within[d] \/ <<"put", d, within[d]>> \in wire \/ Erasing(d)

EdgesAgree ==
    \A l \in Links : Agree(l \in lines, l \in edges,
                           <<"edge", l[1], l[2]>> \in wire, <<"unedge", l[1], l[2]>> \in wire)

\* A gesture that moves a node, and one that makes a group, have no other request, and
\* one group at most is waiting to be shown.
LoneRequests ==
    /\ \A n \in Names : <<"touch", n, NoGroup>> \in wire =>
         n \in shown /\ wire = {<<"touch", n, NoGroup>>}
    /\ <<"make", 0, NoGroup>> \in wire => wire = {<<"make", 0, NoGroup>>} /\ replies = {}
    /\ replies # {} => wire = {}
    /\ \A g, h \in replies : g = h

EndsShown == \A l \in lines : {l[1], l[2]} \subseteq shown \union touched

SavedInv ==
    /\ touched \subseteq Devices
    /\ tidy => /\ NodesAgree /\ ParentsAgree /\ EdgesAgree
               /\ LoneRequests /\ EndsShown /\ strays \subseteq touched

MembersAgree ==
    \A d \in Devices \ touched, g \in GroupIds :
        <<d, g>> \notin coupled =>
        Agree(within[d] = g, <<d, g>> \in members,
              <<"join", d, g>> \in wire, <<"leave", d, g>> \in wire)

\* The switch has the binding, or will have it when the list on its way is written.
Writing(s) == \E w \in writes : w[1] = s
Written(l) == IF Writing(l[1]) THEN \E w \in writes : w[1] = l[1] /\ l \in w[2]
                               ELSE l \in bindings

BindingsAgree ==
    \A l \in Links : {l[1], l[2]} \subseteq Untouched /\ l[1] \notin crossed =>
        Agree(l \in lines, Written(l),
              <<"bind", l[1], l[2]>> \in wire, <<"unbind", l[1], l[2]>> \in wire)

GroupsAgree ==
    \A g \in GroupIds :
        Agree(g \in shown \union replies, g \in groups, FALSE, <<"drop", g, NoGroup>> \in wire)

\* A list has the links of its switch, and only a crossed switch has two on their way.
ListsAreOwn ==
    /\ \A w \in writes : \A l \in w[2] : l[1] = w[1]
    /\ \A v, w \in writes : v[1] = w[1] /\ v[1] \notin crossed => v = w

MatterInv ==
    /\ ListsAreOwn
    /\ ~setback => Devices \ touched \subseteq known
    /\ tidy /\ ~setback => MembersAgree /\ BindingsAgree /\ GroupsAgree

ViewInv == CanvasTypeOK /\ ShownWithGroup /\ IdsAreBelow /\ SavedInv /\ MatterInv

LEMMA NamesAndLinks ==
    /\ Untouched \subseteq Names /\ \A n \in Untouched : n \notin touched
    /\ \A l \in Links : l = <<l[1], l[2]>>
BY LinkEnds DEF Untouched

\* When nothing is on its way, everything agrees.
LEMMA Settled ==
    ASSUME SavedInv, MatterInv, tidy, Quiet
    PROVE  /\ \A n \in Untouched : n \in nodes <=> n \in shown
           /\ \A d \in Devices \ touched : parent[d] = within[d]
           /\ \A l \in Links : l \in edges <=> l \in lines
           /\ ~setback =>
                /\ \A d \in Devices \ touched, g \in GroupIds :
                     <<d, g>> \notin coupled => (<<d, g>> \in members <=> within[d] = g)
                /\ \A l \in Links : {l[1], l[2]} \subseteq Untouched /\ l[1] \notin crossed =>
                     (l \in bindings <=> l \in lines)
                /\ \A g \in GroupIds : g \in groups <=> g \in shown
<1>1. wire = {} /\ replies = {} /\ writes = {}
  BY DEF Quiet
<1>2. \A n \in Untouched : n \in nodes <=> n \in shown
  BY <1>1 DEF SavedInv, NodesAgree, Agree, Putting, Erasing
<1>3. \A d \in Devices \ touched : parent[d] = within[d]
  BY <1>1 DEF SavedInv, ParentsAgree, Erasing
<1>4. \A l \in Links : l \in edges <=> l \in lines
  BY <1>1 DEF SavedInv, EdgesAgree, Agree
<1>5. ~setback =>
        \A d \in Devices \ touched, g \in GroupIds :
          <<d, g>> \notin coupled => (<<d, g>> \in members <=> within[d] = g)
  BY <1>1 DEF MatterInv, MembersAgree, Agree
<1>6. ~setback => \A l \in Links : {l[1], l[2]} \subseteq Untouched /\ l[1] \notin crossed =>
                     (l \in bindings <=> l \in lines)
  BY <1>1 DEF MatterInv, BindingsAgree, Written, Writing, Agree
<1>7. ~setback => \A g \in GroupIds : g \in groups <=> g \in shown
  BY <1>1 DEF MatterInv, GroupsAgree, Agree
<1> QED
  BY <1>2, <1>3, <1>4, <1>5, <1>6, <1>7

\* What a gesture's requests owe to what it changes in the view.
SavesView(R) ==
    /\ \A n \in Untouched :
         Agree(n \in shown', n \in shown,
               \E g \in GroupIds \union {NoGroup} : <<"put", n, g>> \in R, <<"erase", n, NoGroup>> \in R)
    /\ \A d \in Devices \ touched :
         /\ \A g \in GroupIds \union {NoGroup} : <<"put", d, g>> \in R => g = within'[d]
         /\ within'[d] = within[d] \/ <<"put", d, within'[d]>> \in R \/ <<"erase", d, NoGroup>> \in R
    /\ \A l \in Links : Agree(l \in lines', l \in lines,
                              <<"edge", l[1], l[2]>> \in R, <<"unedge", l[1], l[2]>> \in R)
    /\ \A n \in Names : <<"touch", n, NoGroup>> \in R =>
         n \in shown' /\ R = {<<"touch", n, NoGroup>>}
    /\ <<"make", 0, NoGroup>> \in R => R = {<<"make", 0, NoGroup>>}
    /\ \A l \in lines' : {l[1], l[2]} \subseteq shown' \union touched

TellsDevices(R) ==
    /\ \A d \in Devices \ touched, g \in GroupIds :
         Agree(within'[d] = g, within[d] = g, <<"join", d, g>> \in R, <<"leave", d, g>> \in R)
    /\ \A l \in Links : {l[1], l[2]} \subseteq Untouched =>
         Agree(l \in lines', l \in lines,
               <<"bind", l[1], l[2]>> \in R, <<"unbind", l[1], l[2]>> \in R)
    /\ \A g \in GroupIds : Agree(g \in shown', g \in shown, FALSE, <<"drop", g, NoGroup>> \in R)

LEMMA GestureKeeps ==
    ASSUME ViewInv, NEW R, Gesture(R), tidy /\ Quiet => SavesView(R) /\ TellsDevices(R)
    PROVE SavedInv' /\ MatterInv'
<1>1. /\ UNCHANGED <<nodes, parent, edges, strays, groups, setback, members, coupled, bindings,
                      writes, crossed, known, replies, touched>>
      /\ wire' = wire \union R /\ tidy' = (tidy /\ Quiet)
  BY DEF Gesture, store, matter
<1>0. ListsAreOwn'
  BY <1>1 DEF ViewInv, MatterInv, ListsAreOwn
<1>2. CASE ~(tidy /\ Quiet)
  BY <1>0, <1>1, <1>2 DEF ViewInv, SavedInv, MatterInv
<1>3. CASE tidy /\ Quiet
  <2>1. wire' = R /\ replies' = {}
    BY <1>1, <1>3 DEF Quiet
  <2>2. Untouched' = Untouched
    BY <1>1 DEF Untouched
  <2>3. NodesAgree'
    BY <1>1, <1>3, <2>1, <2>2, Settled
    DEF ViewInv, SavesView, NodesAgree, Putting, Erasing, Agree
  <2>4. ParentsAgree'
    BY <1>1, <1>3, <2>1, Settled DEF ViewInv, SavesView, ParentsAgree, Erasing
  <2>5. EdgesAgree'
    BY <1>1, <1>3, <2>1, Settled DEF ViewInv, SavesView, EdgesAgree, Agree
  <2>6. LoneRequests' /\ EndsShown'
    BY <1>1, <1>3, <2>1 DEF SavesView, LoneRequests, EndsShown
  <2>7. ~setback => MembersAgree'
    BY <1>1, <1>3, <2>1, Settled DEF ViewInv, TellsDevices, MembersAgree, Agree
  <2>8. ~setback => BindingsAgree'
    <3>1. writes' = {} /\ bindings' = bindings /\ crossed' = crossed
      BY <1>1, <1>3 DEF Quiet
    <3>2. ASSUME ~setback PROVE BindingsAgree'
      BY <1>1, <1>3, <2>1, <2>2, <3>1, <3>2, Settled
      DEF ViewInv, TellsDevices, BindingsAgree, Written, Writing, Agree
    <3> QED
      BY <3>2
  <2>9. ~setback => GroupsAgree'
    BY <1>1, <1>3, <2>1, Settled DEF ViewInv, TellsDevices, GroupsAgree, Agree
  <2> QED
    BY <1>0, <1>1, <1>3, <2>3, <2>4, <2>5, <2>6, <2>7, <2>8, <2>9 DEF ViewInv, SavedInv, MatterInv
<1> QED
  BY <1>2, <1>3

LEMMA MoveAgrees ==
    ASSUME ViewInv, NEW n \in Names, Move(n) PROVE SavedInv' /\ MatterInv'
<1> DEFINE R == {<<"touch", n, NoGroup>>}
<1>1. Gesture(R) /\ UNCHANGED <<shown, within, lines>> /\ n \in shown
  BY DEF Move, view
<1>2. tidy => SavesView(R)
  BY <1>1, NamesAndLinks DEF ViewInv, SavedInv, EndsShown, SavesView, Agree
<1>3. TellsDevices(R)
  BY <1>1 DEF TellsDevices, Agree
<1> HIDE DEF R
<1> QED
  BY <1>1, <1>2, <1>3, GestureKeeps

LEMMA ResizeAgrees ==
    ASSUME ViewInv, NEW h \in GroupIds, Resize(h) PROVE SavedInv' /\ MatterInv'
<1> DEFINE R == {<<"put", h, NoGroup>>}
<1>1. Gesture(R) /\ UNCHANGED <<shown, within, lines>> /\ h \in shown /\ h \notin Devices
  BY Kinds DEF Resize, view
<1>2. tidy => SavesView(R)
  BY <1>1 DEF ViewInv, SavedInv, EndsShown, SavesView, Agree
<1>3. TellsDevices(R)
  BY <1>1 DEF TellsDevices, Agree
<1> HIDE DEF R
<1> QED
  BY <1>1, <1>2, <1>3, GestureKeeps

LEMMA AddGroupAgrees ==
    ASSUME ViewInv, AddGroup PROVE SavedInv' /\ MatterInv'
<1> DEFINE R == {<<"make", 0, NoGroup>>}
<1>1. Gesture(R) /\ UNCHANGED <<shown, within, lines>>
  BY DEF AddGroup, view
<1>2. tidy => SavesView(R)
  BY <1>1 DEF ViewInv, SavedInv, EndsShown, SavesView, Agree
<1>3. TellsDevices(R)
  BY <1>1 DEF TellsDevices, Agree
<1> HIDE DEF R
<1> QED
  BY <1>1, <1>2, <1>3, GestureKeeps

\* A device that joins a group leaves the one it was in.
LEMMA JoinAgrees ==
    ASSUME ViewInv, NEW d \in Devices, NEW h \in GroupIds, Join(d, h)
    PROVE SavedInv' /\ MatterInv'
<1> DEFINE R == {<<"put", d, h>>, <<"join", d, h>>} \union Leaving(d)
<1>1. /\ Gesture(R) /\ UNCHANGED <<shown, lines>> /\ {d, h} \subseteq shown /\ within[d] # h
      /\ within'[d] = h /\ \A e \in Devices \ {d} : within'[e] = within[e]
  BY DEF Join, ViewInv, CanvasTypeOK
<1>2. \A m \in R : m[1] \in {"put", "join", "leave"}
  BY DEF Leaving
<1>3. /\ \A n, g : <<"put", n, g>> \in R <=> n = d /\ g = h
      /\ \A n, g : <<"join", n, g>> \in R <=> n = d /\ g = h
      /\ \A n, g : <<"leave", n, g>> \in R <=> n = d /\ g = within[d] /\ g # NoGroup
  BY DEF Leaving
<1> HIDE DEF R
<1>4. tidy => SavesView(R)
  <2>1. \A a, b : {<<"erase", a, b>>, <<"edge", a, b>>, <<"unedge", a, b>>, <<"touch", a, b>>,
                   <<"make", a, b>>} \intersect R = {}
    BY <1>2
  <2>2. \A n \in Untouched :
          Agree(n \in shown', n \in shown,
                \E g \in GroupIds \union {NoGroup} : <<"put", n, g>> \in R,
                <<"erase", n, NoGroup>> \in R)
    BY <1>1, <1>3, <2>1 DEF Agree
  <2>3. \A e \in Devices \ touched :
          /\ \A g \in GroupIds \union {NoGroup} : <<"put", e, g>> \in R => g = within'[e]
          /\ within'[e] = within[e] \/ <<"put", e, within'[e]>> \in R
    BY <1>1, <1>3
  <2>4. \A l \in Links : Agree(l \in lines', l \in lines,
                               <<"edge", l[1], l[2]>> \in R, <<"unedge", l[1], l[2]>> \in R)
    BY <1>1, <2>1 DEF Agree
  <2>5. tidy => \A l \in lines' : {l[1], l[2]} \subseteq shown' \union touched
    BY <1>1 DEF ViewInv, SavedInv, EndsShown
  <2> QED
    BY <2>1, <2>2, <2>3, <2>4, <2>5 DEF SavesView
<1>5. TellsDevices(R)
  BY <1>1, <1>2, <1>3, Kinds DEF TellsDevices, Agree
<1> QED
  BY <1>1, <1>4, <1>5, GestureKeeps

LEMMA LeaveAgrees ==
    ASSUME ViewInv, NEW d \in Devices, Leave(d)
    PROVE SavedInv' /\ MatterInv'
<1> DEFINE R == {<<"put", d, NoGroup>>} \union Leaving(d)
<1>1. /\ Gesture(R) /\ UNCHANGED <<shown, lines>> /\ d \in shown /\ within[d] # NoGroup
      /\ within'[d] = NoGroup /\ \A e \in Devices \ {d} : within'[e] = within[e]
  BY DEF Leave, ViewInv, CanvasTypeOK
<1>2. \A m \in R : m[1] \in {"put", "leave"}
  BY DEF Leaving
<1>3. /\ \A n, g : <<"put", n, g>> \in R <=> n = d /\ g = NoGroup
      /\ \A n, g : <<"leave", n, g>> \in R <=> n = d /\ g = within[d]
  BY <1>1 DEF Leaving
<1> HIDE DEF R
<1>4. tidy => SavesView(R)
  <2>1. \A a, b : {<<"erase", a, b>>, <<"edge", a, b>>, <<"unedge", a, b>>, <<"touch", a, b>>,
                   <<"make", a, b>>} \intersect R = {}
    BY <1>2
  <2>2. \A n \in Untouched :
          Agree(n \in shown', n \in shown,
                \E g \in GroupIds \union {NoGroup} : <<"put", n, g>> \in R,
                <<"erase", n, NoGroup>> \in R)
    BY <1>1, <1>3, <2>1 DEF Agree
  <2>3. \A e \in Devices \ touched :
          /\ \A g \in GroupIds \union {NoGroup} : <<"put", e, g>> \in R => g = within'[e]
          /\ within'[e] = within[e] \/ <<"put", e, within'[e]>> \in R
    BY <1>1, <1>3
  <2>4. \A l \in Links : Agree(l \in lines', l \in lines,
                               <<"edge", l[1], l[2]>> \in R, <<"unedge", l[1], l[2]>> \in R)
    BY <1>1, <2>1 DEF Agree
  <2>5. tidy => \A l \in lines' : {l[1], l[2]} \subseteq shown' \union touched
    BY <1>1 DEF ViewInv, SavedInv, EndsShown
  <2> QED
    BY <2>1, <2>2, <2>3, <2>4, <2>5 DEF SavesView
<1>5. TellsDevices(R)
  BY <1>1, <1>2, <1>3, Kinds DEF TellsDevices, Agree
<1> QED
  BY <1>1, <1>4, <1>5, GestureKeeps

LEMMA ConnectAgrees ==
    ASSUME ViewInv, NEW k \in Links, Connect(k)
    PROVE SavedInv' /\ MatterInv'
<1> DEFINE R == {<<"edge", k[1], k[2]>>, <<"bind", k[1], k[2]>>}
<1>1. /\ Gesture(R) /\ UNCHANGED <<shown, within>> /\ {k[1], k[2]} \subseteq shown
      /\ k \notin lines /\ lines' = lines \union {k}
  BY DEF Connect
<1>2. \A m \in R : m[1] \in {"edge", "bind"}
  OBVIOUS
<1>3. \A l \in Links : /\ <<"edge", l[1], l[2]>> \in R <=> l = k
                       /\ <<"bind", l[1], l[2]>> \in R <=> l = k
  <2>1. \A l \in Links : l[1] = k[1] /\ l[2] = k[2] => l = k
    BY NamesAndLinks
  <2> QED
    BY <2>1
<1> HIDE DEF R
<1>4. tidy => SavesView(R)
  BY <1>1, <1>2, <1>3 DEF ViewInv, SavedInv, EndsShown, SavesView, Agree
<1>5. TellsDevices(R)
  BY <1>1, <1>2, <1>3 DEF TellsDevices, Agree
<1> QED
  BY <1>1, <1>4, <1>5, GestureKeeps

\* The requests that take connections away.
LEMMA UnlinkRequests ==
    ASSUME NEW gone \in SUBSET Links
    PROVE  /\ \A m \in Unlink(gone) : m[1] \in {"unedge", "unbind"}
           /\ \A l \in Links : <<"unedge", l[1], l[2]>> \in Unlink(gone) <=> l \in gone
           /\ \A l \in Links : <<"unbind", l[1], l[2]>> \in Unlink(gone) <=>
                                 l \in gone /\ {l[1], l[2]} \subseteq shown
<1>1. \A l, k \in Links : l[1] = k[1] /\ l[2] = k[2] => l = k
  BY NamesAndLinks
<1>2. \A m \in Unlink(gone) : m[1] \in {"unedge", "unbind"}
  BY DEF Unlink
<1>3. ASSUME NEW l \in Links PROVE <<"unedge", l[1], l[2]>> \in Unlink(gone) <=> l \in gone
  BY <1>1 DEF Unlink
<1>4. ASSUME NEW l \in Links
      PROVE <<"unbind", l[1], l[2]>> \in Unlink(gone) <=> l \in gone /\ {l[1], l[2]} \subseteq shown
  BY <1>1 DEF Unlink
<1> QED
  BY <1>2, <1>3, <1>4

LEMMA DisconnectAgrees ==
    ASSUME ViewInv, NEW k \in Links, Disconnect(k)
    PROVE SavedInv' /\ MatterInv'
<1> DEFINE R == Unlink({k})
<1>1. /\ Gesture(R) /\ UNCHANGED <<shown, within>> /\ {k[1], k[2]} \subseteq shown
      /\ k \in lines /\ lines' = lines \ {k}
  BY DEF Disconnect
<1>2. /\ \A m \in R : m[1] \in {"unedge", "unbind"}
      /\ \A l \in Links : <<"unedge", l[1], l[2]>> \in R <=> l = k
      /\ \A l \in Links : <<"unbind", l[1], l[2]>> \in R <=> l = k
  BY <1>1, UnlinkRequests
<1> HIDE DEF R
<1>4. tidy => SavesView(R)
  BY <1>1, <1>2 DEF ViewInv, SavedInv, EndsShown, SavesView, Agree
<1>5. TellsDevices(R)
  BY <1>1, <1>2 DEF TellsDevices, Agree
<1> QED
  BY <1>1, <1>4, <1>5, GestureKeeps

\* A group is deleted with its devices, which leave it, and with all their connections.
LEMMA DeleteAgrees ==
    ASSUME ViewInv, NEW n \in Names, Delete(n)
    PROVE SavedInv' /\ MatterInv'
<1> DEFINE doomed == Doomed(n)
           gone == {l \in lines : l[1] \in doomed \/ l[2] \in doomed}
           erasing == {<<"erase", m, NoGroup>> : m \in doomed}
           dropping == {<<"drop", g, NoGroup>> : g \in doomed \intersect GroupIds}
           leaving == UNION {Leaving(d) : d \in doomed \intersect Devices}
           R == erasing \union Unlink(gone) \union dropping \union leaving
<1>1. /\ Gesture(R) /\ n \in shown /\ shown' = shown \ doomed /\ lines' = lines \ gone
      /\ \A d \in Devices : within'[d] = IF d \in doomed THEN NoGroup ELSE within[d]
  BY DEF Delete
<1>2. gone \in SUBSET Links /\ doomed \subseteq shown
  BY <1>1 DEF Doomed, ViewInv, CanvasTypeOK
<1>3. /\ \A m \in erasing : m[1] = "erase"
      /\ \A m \in dropping : m[1] = "drop"
      /\ \A m \in leaving : m[1] = "leave"
  BY DEF Leaving
<1>4. \A m : <<"erase", m, NoGroup>> \in erasing <=> m \in doomed
  OBVIOUS
<1>5. \A g : <<"drop", g, NoGroup>> \in dropping <=> g \in doomed \intersect GroupIds
  OBVIOUS
<1>6. \A d, g : <<"leave", d, g>> \in leaving <=>
                  d \in doomed \intersect Devices /\ g = within[d] /\ g # NoGroup
  BY DEF Leaving
<1>7. /\ \A m \in R : m[1] \in {"erase", "unedge", "unbind", "drop", "leave"}
      /\ \A m : <<"erase", m, NoGroup>> \in R <=> m \in doomed
      /\ \A g : <<"drop", g, NoGroup>> \in R <=> g \in doomed \intersect GroupIds
      /\ \A d, g : <<"leave", d, g>> \in R <=>
                     d \in doomed \intersect Devices /\ g = within[d] /\ g # NoGroup
      /\ \A l \in Links : <<"unedge", l[1], l[2]>> \in R <=> l \in gone
      /\ \A l \in Links : <<"unbind", l[1], l[2]>> \in R <=>
                            l \in gone /\ {l[1], l[2]} \subseteq shown
  <2>1. /\ \A m \in Unlink(gone) : m[1] \in {"unedge", "unbind"}
        /\ \A l \in Links : <<"unedge", l[1], l[2]>> \in Unlink(gone) <=> l \in gone
        /\ \A l \in Links : <<"unbind", l[1], l[2]>> \in Unlink(gone) <=>
                              l \in gone /\ {l[1], l[2]} \subseteq shown
    BY <1>2, UnlinkRequests
  <2> HIDE DEF erasing, dropping, leaving, gone, doomed
  <2> QED
    BY <1>3, <1>4, <1>5, <1>6, <2>1
<1>10. \A l \in Links : l \in gone => l \in lines
  OBVIOUS
<1>11. \A l \in lines \ gone : l[1] \notin doomed /\ l[2] \notin doomed
  OBVIOUS
<1> HIDE DEF R, doomed, gone
<1>12. \A a, b : {<<"put", a, b>>, <<"edge", a, b>>, <<"touch", a, b>>, <<"make", a, b>>,
                  <<"join", a, b>>, <<"bind", a, b>>} \intersect R = {}
  BY <1>7
<1>8. tidy => SavesView(R)
  <2> SUFFICES ASSUME tidy PROVE SavesView(R)
    OBVIOUS
  <2>1. \A m \in Untouched :
          Agree(m \in shown', m \in shown,
                \E g \in GroupIds \union {NoGroup} : <<"put", m, g>> \in R,
                <<"erase", m, NoGroup>> \in R)
    BY <1>1, <1>2, <1>7, <1>12 DEF Agree
  <2>2. \A d \in Devices \ touched :
          /\ \A g \in GroupIds \union {NoGroup} : <<"put", d, g>> \in R => g = within'[d]
          /\ \/ within'[d] = within[d] \/ <<"put", d, within'[d]>> \in R
             \/ <<"erase", d, NoGroup>> \in R
    BY <1>1, <1>7, <1>12
  <2>3. \A l \in Links : Agree(l \in lines', l \in lines,
                               <<"edge", l[1], l[2]>> \in R, <<"unedge", l[1], l[2]>> \in R)
    <3> SUFFICES ASSUME NEW l \in Links
                 PROVE Agree(l \in lines', l \in lines,
                             <<"edge", l[1], l[2]>> \in R, <<"unedge", l[1], l[2]>> \in R)
      OBVIOUS
    <3>1. <<"edge", l[1], l[2]>> \notin R /\ (<<"unedge", l[1], l[2]>> \in R <=> l \in gone)
      BY <1>7, <1>12
    <3>2. l \in lines' <=> l \in lines /\ l \notin gone
      BY <1>1
    <3> QED
      BY <1>10, <3>1, <3>2 DEF Agree
  <2>4. \A l \in lines' : {l[1], l[2]} \subseteq shown' \union touched
    BY <1>1, <1>11 DEF ViewInv, SavedInv, EndsShown
  <2> QED
    BY <1>12, <2>1, <2>2, <2>3, <2>4 DEF SavesView
<1>9. tidy => TellsDevices(R)
  <2> SUFFICES ASSUME tidy PROVE TellsDevices(R)
    OBVIOUS
  <2>1. \A d \in Devices \ touched, g \in GroupIds :
          Agree(within'[d] = g, within[d] = g, <<"join", d, g>> \in R, <<"leave", d, g>> \in R)
    <3> SUFFICES ASSUME NEW d \in Devices, NEW g \in GroupIds
                 PROVE Agree(within'[d] = g, within[d] = g,
                             <<"join", d, g>> \in R, <<"leave", d, g>> \in R)
      OBVIOUS
    <3>1. g # NoGroup /\ <<"join", d, g>> \notin R
      BY <1>12, Kinds
    <3> QED
      BY <1>1, <1>7, <3>1 DEF Agree
  <2>2. ASSUME NEW l \in Links, {l[1], l[2]} \subseteq Untouched
        PROVE Agree(l \in lines', l \in lines,
                    <<"bind", l[1], l[2]>> \in R, <<"unbind", l[1], l[2]>> \in R)
    <3>1. l \in lines => {l[1], l[2]} \subseteq shown
      BY <2>2, NamesAndLinks DEF ViewInv, SavedInv, EndsShown
    <3> QED
      BY <1>1, <1>7, <1>10, <1>12, <3>1 DEF Agree
  <2>3. \A g \in GroupIds : Agree(g \in shown', g \in shown, FALSE, <<"drop", g, NoGroup>> \in R)
    BY <1>1, <1>2, <1>7 DEF Agree
  <2> QED
    BY <2>1, <2>2, <2>3 DEF TellsDevices
<1> QED
  BY <1>1, <1>8, <1>9, GestureKeeps

\* A page that is loaded when nothing is on its way shows what it showed before.
LEMMA LoadAgrees ==
    ASSUME ViewInv, Load PROVE SavedInv' /\ MatterInv'
<1>1. /\ UNCHANGED <<nodes, parent, edges, strays, groups, setback, members, coupled, bindings,
                      writes, crossed, known, touched>>
      /\ tidy' = (tidy /\ Quiet)
  BY DEF Load, store, matter
<1>0. ListsAreOwn'
  BY <1>1 DEF ViewInv, MatterInv, ListsAreOwn
<1>2. CASE ~(tidy /\ Quiet)
  BY <1>0, <1>1, <1>2 DEF ViewInv, SavedInv, MatterInv
<1>3. CASE tidy /\ Quiet
  <2>1. replies' = {} /\ Untouched' = Untouched
    BY <1>1, <1>3 DEF Load, Quiet, Untouched
  \* All that is on its way puts groups that are shown again.
  <2>0. /\ wire' = Measured(nodes) /\ shown' = nodes
        /\ \A o, a, b : <<o, a, b>> \in wire' =>
             o = "put" /\ a \in shown' /\ a \in GroupIds /\ a \notin Devices /\ b = NoGroup
    BY <1>3, Kinds DEF Load, Quiet, Measured
  <2>2. \A n \in Untouched : n \in shown' <=> n \in shown
    BY <1>3, Settled DEF ViewInv, Load
  <2>3. GroupIds \subseteq Untouched
    BY Kinds DEF ViewInv, SavedInv, Untouched
  <2>4. ASSUME NEW d \in Devices \ touched PROVE within'[d] = within[d]
    <3>1. d \in Untouched /\ parent[d] = within[d]
      BY <1>3, Kinds, Settled DEF ViewInv, Untouched
    <3>2. within[d] # NoGroup => d \in nodes /\ within[d] \in nodes
      BY <1>3, <2>3, <3>1, Settled DEF ViewInv, ShownWithGroup, CanvasTypeOK
    <3> QED
      BY <3>1, <3>2 DEF Load
  <2>5. \A l \in Links : l \in lines' <=> l \in lines
    BY <1>3, Settled DEF ViewInv, Load
  <2>6. lines' \subseteq lines /\ lines \subseteq Links
    BY <2>5 DEF Load, ViewInv, CanvasTypeOK
  <2>7. NodesAgree' /\ ParentsAgree'
    <3>1. NodesAgree'
      <4>1. ASSUME NEW n PROVE (Putting(n)' => n \in shown') /\ ~Erasing(n)'
        <5>1. /\ \A g : <<"put", n, g>> \in wire' => n \in shown'
              /\ <<"erase", n, NoGroup>> \notin wire'
          BY <2>0
        <5> QED
          BY <5>1 DEF Putting, Erasing
      <4>2. nodes' = shown'
        BY <1>1, <2>0
      <4> QED
        BY <4>1, <4>2 DEF NodesAgree, Agree
    <3>2. ParentsAgree'
      BY <1>1, <1>3, <2>0, <2>4, Settled DEF ViewInv, ParentsAgree, Erasing
    <3> QED
      BY <3>1, <3>2
  <2>8. EdgesAgree' /\ LoneRequests'
    BY <1>1, <2>0, <2>1 DEF Load, EdgesAgree, LoneRequests, Agree
  <2>9. EndsShown'
    <3> SUFFICES ASSUME NEW l \in lines', NEW n \in {l[1], l[2]} PROVE n \in shown' \union touched
      BY <1>1 DEF EndsShown
    <3>1. n \in Names /\ n \in shown \union touched
      BY <1>3, <2>6, LinkEnds DEF ViewInv, SavedInv, EndsShown
    <3> QED
      BY <2>2, <3>1 DEF Untouched
  <2>10. ~setback => MembersAgree' /\ BindingsAgree' /\ GroupsAgree'
    <3> SUFFICES ASSUME ~setback PROVE MembersAgree' /\ BindingsAgree' /\ GroupsAgree'
      OBVIOUS
    <3>1. MembersAgree'
      BY <1>1, <1>3, <2>0, <2>4, Settled DEF ViewInv, MembersAgree, Agree
    <3>2. BindingsAgree'
      <4>1. writes' = {}
        BY <1>1, <1>3 DEF Quiet
      <4> QED
        BY <1>1, <1>3, <2>0, <2>1, <2>5, <4>1, Settled
        DEF ViewInv, BindingsAgree, Written, Writing, Agree
    <3>3. GroupsAgree'
      BY <1>1, <1>3, <2>0, <2>1, <2>2, <2>3, Settled DEF ViewInv, GroupsAgree, Agree
    <3> QED
      BY <3>1, <3>2, <3>3
  <2> QED
    BY <1>0, <1>1, <1>3, <2>7, <2>8, <2>9, <2>10 DEF ViewInv, SavedInv, MatterInv
<1> QED
  BY <1>2, <1>3

\* The requests of some kinds that are on their way stay the same.
Same(ops) == \A op \in ops : \A a, b : <<op, a, b>> \in wire' <=> <<op, a, b>> \in wire

LEMMA Taken ==
    ASSUME NEW op, NEW n, NEW g, Take(op, n, g)
    PROVE  /\ <<op, n, g>> \in wire /\ wire' \subseteq wire
           /\ \A o, a, b : <<o, a, b>> \in wire' <=>
                             <<o, a, b>> \in wire /\ ~(o = op /\ a = n /\ b = g)
BY DEF Take

\* Each part of the invariant depends on few variables and on the requests of its kinds.
LEMMA NodesFrame ==
    NodesAgree /\ Same({"put", "erase"}) /\ UNCHANGED <<shown, nodes, touched>> => NodesAgree'
BY DEF NodesAgree, Same, Putting, Erasing, Untouched, Agree

LEMMA ParentsFrame ==
    ParentsAgree /\ Same({"put", "erase"}) /\ UNCHANGED <<within, parent, touched>> => ParentsAgree'
BY DEF ParentsAgree, Same, Erasing

LEMMA EdgesFrame ==
    EdgesAgree /\ Same({"edge", "unedge"}) /\ UNCHANGED <<lines, edges>> => EdgesAgree'
BY DEF EdgesAgree, Same, Agree

LEMMA LoneFrame ==
    LoneRequests /\ wire' \subseteq wire /\ UNCHANGED <<shown, replies>> => LoneRequests'
BY DEF LoneRequests

LEMMA EndsFrame == EndsShown /\ UNCHANGED <<lines, shown, touched>> => EndsShown'
BY DEF EndsShown

LEMMA MembersFrame ==
    MembersAgree /\ Same({"join", "leave"}) /\ UNCHANGED <<within, memberships, touched>>
      => MembersAgree'
BY DEF MembersAgree, Same, Agree

LEMMA BindingsFrame ==
    BindingsAgree /\ Same({"bind", "unbind"}) /\ UNCHANGED <<lines, lists, touched>>
      => BindingsAgree'
BY DEF BindingsAgree, Same, Untouched, Written, Writing, Agree

LEMMA ListsFrame == ListsAreOwn /\ UNCHANGED lists => ListsAreOwn'
BY DEF ListsAreOwn

LEMMA GroupsFrame ==
    GroupsAgree /\ Same({"drop"}) /\ UNCHANGED <<shown, replies, groups>> => GroupsAgree'
BY DEF GroupsAgree, Same, Agree

\* Serving a request for nodes.json leaves the devices alone, and the other way round.
LEMMA ServeStoreFrame ==
    ASSUME MatterInv, UNCHANGED <<shown, within, lines, matter, replies, touched, tidy>>,
           Same({"join", "leave", "bind", "unbind", "drop"})
    PROVE MatterInv'
BY MembersFrame, BindingsFrame, GroupsFrame, ListsFrame DEF MatterInv, matter, Same

LEMMA ServeMatterFrame ==
    ASSUME SavedInv, UNCHANGED <<view, store, replies, touched, tidy>>, wire' \subseteq wire,
           Same({"put", "erase", "edge", "unedge"})
    PROVE SavedInv'
BY NodesFrame, ParentsFrame, EdgesFrame, LoneFrame, EndsFrame DEF SavedInv, view, store, Same

LEMMA ServeTouchAgrees ==
    ASSUME ViewInv, NEW n \in Names, ServeTouch(n) PROVE SavedInv' /\ MatterInv'
<1>1. /\ <<"touch", n, NoGroup>> \in wire /\ wire' \subseteq wire
      /\ Same(Ops \ {"touch"})
      /\ UNCHANGED <<shown, within, lines, nodes, parent, edges, matter, replies, touched, tidy>>
      /\ strays' = strays \union ({n} \ nodes)
  BY Taken DEF ServeTouch, view, Same
<1>2. MatterInv'
  BY <1>1, ServeStoreFrame DEF ViewInv, Same, Ops
<1>3. tidy => n \in nodes \union touched
  \* The node is moved alone: nothing erases it meanwhile.
  <2> SUFFICES ASSUME tidy, n \notin touched PROVE n \in nodes
    OBVIOUS
  <2>1. n \in shown /\ wire = {<<"touch", n, NoGroup>>} /\ n \in Untouched
    BY <1>1 DEF ViewInv, SavedInv, LoneRequests, Untouched
  <2>2. ~Putting(n)
    BY <2>1 DEF Putting
  <2> QED
    BY <2>1, <2>2 DEF ViewInv, SavedInv, NodesAgree, Agree
<1>4. SavedInv'
  BY <1>1, <1>3, NodesFrame, ParentsFrame, EdgesFrame, LoneFrame, EndsFrame
  DEF ViewInv, SavedInv, Same, Ops
<1> QED
  BY <1>2, <1>4

LEMMA ServePutAgrees ==
    ASSUME ViewInv, NEW n \in Names, NEW g \in GroupIds \union {NoGroup}, ServePut(n, g)
    PROVE SavedInv' /\ MatterInv'
<1>1. /\ <<"put", n, g>> \in wire /\ wire' \subseteq wire /\ Same(Ops \ {"put"})
      /\ \A a, b : <<"put", a, b>> \in wire' <=> <<"put", a, b>> \in wire /\ ~(a = n /\ b = g)
      /\ UNCHANGED <<shown, within, lines, edges, matter, replies, touched, tidy>>
      /\ nodes' = nodes \union {n} /\ strays' \subseteq strays
      /\ \A d \in Devices : parent'[d] = IF d = n THEN g ELSE parent[d]
  BY Taken DEF ServePut, view, Same, Settings
<1>2. MatterInv'
  BY <1>1, ServeStoreFrame DEF ViewInv, Same, Ops
<1>3. ASSUME tidy PROVE NodesAgree'
  <2> SUFFICES ASSUME NEW m \in Untouched
               PROVE Agree(m \in shown, m \in nodes', Putting(m)', Erasing(m)')
    BY <1>1 DEF NodesAgree, Untouched
  <2>1. Erasing(m)' <=> Erasing(m)
    BY <1>1 DEF Erasing, Same, Ops
  <2>2. Agree(m \in shown, m \in nodes, Putting(m), Erasing(m))
    BY <1>3 DEF ViewInv, SavedInv, NodesAgree
  <2>3. CASE m = n
    <3>1. Putting(m)
      BY <1>1, <2>3 DEF Putting
    <3> QED
      BY <1>1, <2>1, <2>2, <2>3, <3>1 DEF Agree
  <2>4. CASE m # n
    <3>1. Putting(m)' <=> Putting(m)
      BY <1>1, <2>4 DEF Putting
    <3> QED
      BY <1>1, <2>1, <2>2, <2>4, <3>1 DEF Agree
  <2> QED
    BY <2>3, <2>4
<1>4. ASSUME tidy PROVE ParentsAgree'
  <2> SUFFICES ASSUME NEW d \in Devices \ touched
               PROVE /\ \A h \in GroupIds \union {NoGroup} : <<"put", d, h>> \in wire' => h = within[d]
                     /\ \/ parent'[d] = within[d] \/ <<"put", d, within[d]>> \in wire'
                        \/ Erasing(d)'
    BY <1>1 DEF ParentsAgree
  <2>1. /\ \A h \in GroupIds \union {NoGroup} : <<"put", d, h>> \in wire => h = within[d]
        /\ parent[d] = within[d] \/ <<"put", d, within[d]>> \in wire \/ Erasing(d)
    BY <1>4 DEF ViewInv, SavedInv, ParentsAgree
  <2>2. Erasing(d)' <=> Erasing(d)
    BY <1>1 DEF Erasing, Same, Ops
  <2> QED
    BY <1>1, <2>1, <2>2
<1>5. SavedInv'
  BY <1>1, <1>3, <1>4, EdgesFrame, LoneFrame, EndsFrame DEF ViewInv, SavedInv, Same, Ops
<1> QED
  BY <1>2, <1>5

LEMMA ServeEraseAgrees ==
    ASSUME ViewInv, NEW n \in Names, ServeErase(n) PROVE SavedInv' /\ MatterInv'
<1>1. /\ <<"erase", n, NoGroup>> \in wire /\ wire' \subseteq wire /\ Same(Ops \ {"erase"})
      /\ \A a, b : <<"erase", a, b>> \in wire' <=>
                     <<"erase", a, b>> \in wire /\ ~(a = n /\ b = NoGroup)
      /\ UNCHANGED <<shown, within, lines, edges, matter, replies, touched, tidy>>
      /\ nodes' = nodes \ {n} /\ strays' \subseteq strays
      /\ \A d \in Devices : parent'[d] = IF d = n THEN NoGroup ELSE parent[d]
  BY Taken DEF ServeErase, view, Same, Settings
<1>2. MatterInv'
  BY <1>1, ServeStoreFrame DEF ViewInv, Same, Ops
<1>3. ASSUME tidy PROVE NodesAgree'
  <2> SUFFICES ASSUME NEW m \in Untouched
               PROVE Agree(m \in shown, m \in nodes', Putting(m)', Erasing(m)')
    BY <1>1 DEF NodesAgree, Untouched
  <2>1. Putting(m)' <=> Putting(m)
    BY <1>1 DEF Putting, Same, Ops
  <2>2. Agree(m \in shown, m \in nodes, Putting(m), Erasing(m))
    BY <1>3 DEF ViewInv, SavedInv, NodesAgree
  <2> QED
    BY <1>1, <2>1, <2>2 DEF Erasing, Agree
\* A device whose node is erased is not shown, and so in no group.
<1>4. ASSUME tidy PROVE ParentsAgree'
  <2> SUFFICES ASSUME NEW d \in Devices \ touched
               PROVE /\ \A h \in GroupIds \union {NoGroup} : <<"put", d, h>> \in wire' => h = within[d]
                     /\ \/ parent'[d] = within[d] \/ <<"put", d, within[d]>> \in wire'
                        \/ Erasing(d)'
    BY <1>1 DEF ParentsAgree
  <2>1. /\ \A h \in GroupIds \union {NoGroup} : <<"put", d, h>> \in wire => h = within[d]
        /\ parent[d] = within[d] \/ <<"put", d, within[d]>> \in wire \/ Erasing(d)
    BY <1>4 DEF ViewInv, SavedInv, ParentsAgree
  <2>2. \A h : <<"put", d, h>> \in wire' <=> <<"put", d, h>> \in wire
    BY <1>1 DEF Same, Ops
  <2>3. CASE d = n
    <3>1. d \notin shown
      BY <1>1, <1>4, <2>3, Kinds DEF ViewInv, SavedInv, NodesAgree, Agree, Erasing, Untouched
    <3> QED
      BY <1>1, <2>1, <2>2, <2>3, <3>1 DEF ViewInv, ShownWithGroup
  <2>4. CASE d # n
    BY <1>1, <2>1, <2>2, <2>4 DEF Erasing
  <2> QED
    BY <2>3, <2>4
<1>5. SavedInv'
  BY <1>1, <1>3, <1>4, EdgesFrame, LoneFrame, EndsFrame DEF ViewInv, SavedInv, Same, Ops
<1> QED
  BY <1>2, <1>5

LEMMA ServeEdgeAgrees ==
    ASSUME ViewInv, NEW k \in Links, ServeEdge(k[1], k[2]) PROVE SavedInv' /\ MatterInv'
<1> DEFINE Served(op) ==
             /\ <<op, k[1], k[2]>> \in wire /\ wire' \subseteq wire /\ Same(Ops \ {op})
             /\ \A l \in Links : <<op, l[1], l[2]>> \in wire' <=>
                                   <<op, l[1], l[2]>> \in wire /\ l # k
<1>0. ASSUME NEW op \in Ops, Take(op, k[1], k[2]) PROVE Served(op)
  <2>1. \A l \in Links : l[1] = k[1] /\ l[2] = k[2] <=> l = k
    BY NamesAndLinks
  <2> QED
    BY <1>0, <2>1, Taken DEF Same
<1>1. /\ UNCHANGED <<view, nodes, parent, strays, matter, replies, touched, tidy>>
      /\ \/ Served("edge") /\ edges' = edges \union {k}
         \/ Served("unedge") /\ edges' = edges \ {k}
  BY <1>0, NamesAndLinks DEF ServeEdge, Ops
<1>2. MatterInv'
  BY <1>1, ServeStoreFrame DEF ViewInv, Same, Ops, view
<1>3. ASSUME tidy PROVE EdgesAgree'
  <2>1. EdgesAgree /\ "edge" \in Ops /\ "unedge" \in Ops
    BY <1>3 DEF ViewInv, SavedInv, Ops
  <2>2. CASE Served("edge") /\ edges' = edges \union {k}
    BY <1>1, <2>1, <2>2 DEF EdgesAgree, Agree, Same, view
  <2>3. CASE Served("unedge") /\ edges' = edges \ {k}
    BY <1>1, <2>1, <2>3 DEF EdgesAgree, Agree, Same, view
  <2> QED
    BY <1>1, <2>2, <2>3
<1>4. SavedInv'
  BY <1>1, <1>3, NodesFrame, ParentsFrame, LoneFrame, EndsFrame
  DEF ViewInv, SavedInv, Same, Ops, view
<1> QED
  BY <1>2, <1>4

\* A request about the devices reaches those that were not removed.
LEMMA ServeBindingAgrees ==
    ASSUME ViewInv, NEW k \in Links, ServeBinding(k[1], k[2]) PROVE SavedInv' /\ MatterInv'
<1> DEFINE Served(op) ==
             /\ <<op, k[1], k[2]>> \in wire /\ wire' \subseteq wire /\ Same(Ops \ {op})
             /\ \A l \in Links : <<op, l[1], l[2]>> \in wire' <=>
                                   <<op, l[1], l[2]>> \in wire /\ l # k
<1>0. ASSUME NEW op \in Ops, Take(op, k[1], k[2]) PROVE Served(op)
  <2>1. \A l \in Links : l[1] = k[1] /\ l[2] = k[2] <=> l = k
    BY NamesAndLinks
  <2> QED
    BY <1>0, <2>1, Taken DEF Same
<1>1. /\ UNCHANGED <<view, store, groups, setback, bindings, known, replies, touched, tidy>>
      /\ \/ Served("bind") /\ k[1] \in known /\ (k[2] \in Devices => k[2] \in known)
              /\ Write(k[1], ListOf(k[1]) \union {k})
         \/ Served("unbind") /\ k[1] \in known /\ Write(k[1], ListOf(k[1]) \ {k})
         \/ /\ Served("bind") /\ ~(k[1] \in known /\ (k[2] \in Devices => k[2] \in known))
            /\ UNCHANGED lists
         \/ Served("unbind") /\ k[1] \notin known /\ UNCHANGED lists
  BY <1>0, NamesAndLinks DEF ServeBinding, Ops, Write
<1>2. SavedInv'
  BY <1>1, ServeMatterFrame DEF ViewInv, Same, Ops
<1>3. k[1] \in Devices /\ \A l \in Links : l[1] = k[1] /\ l[2] = k[2] => l = k
  BY LinkEnds, NamesAndLinks
\* A list that is handed over, when no other is on its way to the switch, has what the
\* switch has but for the link.
<1>4. ASSUME NEW list, \A l \in list : l[1] = k[1], Write(k[1], list)
      PROVE  /\ ListsAreOwn' /\ crossed \subseteq crossed' /\ (Writing(k[1]) => k[1] \in crossed')
             /\ \A l : l[1] # k[1] => (Written(l)' <=> Written(l))
             /\ ~Writing(k[1]) => \A l : l[1] = k[1] => (Written(l)' <=> l \in list)
  <2>1. /\ writes' = writes \union {<<k[1], list>>} /\ bindings' = bindings
        /\ crossed \subseteq crossed' /\ (Writing(k[1]) => k[1] \in crossed')
    BY <1>4 DEF Write, Writing
  <2>2. ListsAreOwn'
    BY <1>4, <2>1 DEF ListsAreOwn, Writing, ViewInv, MatterInv
  <2>3. \A l : l[1] # k[1] => (Written(l)' <=> Written(l))
    BY <2>1 DEF Written, Writing
  <2>4. ~Writing(k[1]) => \A l : l[1] = k[1] => (Written(l)' <=> l \in list)
    <3> SUFFICES ASSUME ~Writing(k[1]), NEW l, l[1] = k[1] PROVE Written(l)' <=> l \in list
      OBVIOUS
    <3>1. <<k[1], list>> \in writes' /\ \A w \in writes' : w[1] = k[1] => w = <<k[1], list>>
      BY <2>1 DEF Writing
    <3> QED
      BY <3>1 DEF Written, Writing
  <2> QED
    BY <2>1, <2>2, <2>3, <2>4
<1>5. /\ \A l \in ListOf(k[1]) \union {k} : l[1] = k[1]
      /\ \A l : l[1] = k[1] /\ ~Writing(k[1]) => (Written(l) <=> l \in ListOf(k[1]))
  BY DEF ListOf, Written
<1>6. ListsAreOwn'
  BY <1>1, <1>4, <1>5, ListsFrame DEF ViewInv, MatterInv
<1>7. ASSUME tidy, ~setback PROVE BindingsAgree'
  <2>1. BindingsAgree /\ "bind" \in Ops /\ "unbind" \in Ops
    BY <1>7 DEF ViewInv, MatterInv, Ops
  <2>2. {k[1], k[2]} \subseteq Untouched => k[1] \in known /\ (k[2] \in Devices => k[2] \in known)
    BY <1>3, <1>7, NamesAndLinks DEF ViewInv, MatterInv
  <2>3. Untouched' = Untouched /\ lines' = lines
    BY <1>1 DEF Untouched, view
  <2> SUFFICES ASSUME NEW l \in Links, {l[1], l[2]} \subseteq Untouched, l[1] \notin crossed'
               PROVE Agree(l \in lines, Written(l)',
                           <<"bind", l[1], l[2]>> \in wire', <<"unbind", l[1], l[2]>> \in wire')
    BY <2>3 DEF BindingsAgree
  <2>4. l[1] \notin crossed => Agree(l \in lines, Written(l),
                <<"bind", l[1], l[2]>> \in wire, <<"unbind", l[1], l[2]>> \in wire)
    BY <2>1 DEF BindingsAgree
  <2>5. CASE Served("bind") /\ Write(k[1], ListOf(k[1]) \union {k})
    <3>1. /\ l[1] \notin crossed
          /\ IF l = k THEN Written(l)' ELSE Written(l)' <=> Written(l)
      BY <1>4, <1>5, <2>5
    <3> QED
      BY <2>1, <2>4, <2>5, <3>1 DEF Agree, Same
  <2>6. CASE Served("unbind") /\ Write(k[1], ListOf(k[1]) \ {k})
    <3>1. /\ l[1] \notin crossed
          /\ IF l = k THEN ~Written(l)' ELSE Written(l)' <=> Written(l)
      BY <1>4, <1>5, <2>6
    <3> QED
      BY <2>1, <2>4, <2>6, <3>1 DEF Agree, Same
  <2>7. CASE /\ UNCHANGED lists
             /\ \/ Served("bind") /\ ~(k[1] \in known /\ (k[2] \in Devices => k[2] \in known))
                \/ Served("unbind") /\ k[1] \notin known
    <3>1. l # k /\ l[1] \notin crossed
      BY <2>2, <2>7
    <3>2. Written(l)' <=> Written(l)
      BY <2>7 DEF Written, Writing
    <3> QED
      BY <2>1, <2>4, <2>7, <3>1, <3>2 DEF Agree, Same
  <2> QED
    BY <1>1, <2>5, <2>6, <2>7
<1>8. ASSUME tidy, ~setback PROVE MembersAgree'
  <2>1. /\ coupled \subseteq coupled' /\ within' = within /\ touched' = touched
        /\ \A d \in Devices, g \in GroupIds : <<d, g>> \notin coupled' =>
             (<<d, g>> \in members' <=> <<d, g>> \in members)
    BY DEF ServeBinding, view
  <2>2. MembersAgree /\ Same({"join", "leave"})
    BY <1>1, <1>8 DEF ViewInv, MatterInv, Same, Ops
  <2> QED
    BY <2>1, <2>2 DEF MembersAgree, Same, Agree
<1>9. MatterInv'
  BY <1>1, <1>6, <1>7, <1>8, GroupsFrame DEF ViewInv, MatterInv, Same, Ops, view
<1> QED
  BY <1>2, <1>9

\* A list that reaches the switch is what was written before.
LEMMA LandAgrees ==
    ASSUME ViewInv, NEW w \in writes, Land(w) PROVE SavedInv' /\ MatterInv'
<1>1. /\ UNCHANGED <<view, store, groups, setback, members, coupled, crossed, known, wire, replies,
                      touched, tidy>>
      /\ writes' = writes \ {w}
      /\ \A l : l \in bindings' <=> IF l[1] = w[1] THEN l \in w[2] ELSE l \in bindings
  BY DEF Land, ListOf, ViewInv, MatterInv, ListsAreOwn
<1>2. SavedInv' /\ Same(Ops)
  BY <1>1, ServeMatterFrame DEF ViewInv, Same, Ops
<1>3. ListsAreOwn'
  BY <1>1 DEF ViewInv, MatterInv, ListsAreOwn
<1>4. \A l : l[1] \notin crossed => (Written(l)' <=> Written(l))
  BY <1>1 DEF ViewInv, MatterInv, ListsAreOwn, Written, Writing
<1>5. ASSUME tidy, ~setback PROVE BindingsAgree'
  BY <1>1, <1>4, <1>5 DEF ViewInv, MatterInv, BindingsAgree, Untouched, Agree, view
<1>6. MatterInv'
  BY <1>1, <1>2, <1>3, <1>5, MembersFrame, GroupsFrame DEF ViewInv, MatterInv, Same, Ops, view
<1> QED
  BY <1>2, <1>6

\* Group 0, which every request refuses, is in use only after the counter was at its end.
LEMMA NotGroupZero ==
    ASSUME ViewInv, ~setback, NEW m \in wire, m[1] # "make", NEW g \in GroupIds, g \in {m[2], m[3]}
    PROVE g # 0
BY DEF ViewInv, IdsAreBelow, Remembered

LEMMA ServeMemberAgrees ==
    ASSUME ViewInv, NEW d \in Devices, NEW g \in GroupIds, ServeMember(d, g)
    PROVE SavedInv' /\ MatterInv'
<1> DEFINE Served(op) ==
             /\ <<op, d, g>> \in wire /\ wire' \subseteq wire /\ Same(Ops \ {op})
             /\ \A a, b : <<op, a, b>> \in wire' <=> <<op, a, b>> \in wire /\ ~(a = d /\ b = g)
<1>0. ASSUME NEW op \in Ops, Take(op, d, g) PROVE Served(op)
  BY <1>0, Taken DEF Same
<1>1. /\ UNCHANGED <<view, store, groups, setback, lists, coupled, known, replies, touched, tidy>>
      /\ \/ Served("join") /\ members' = members \union {m \in {<<d, g>>} : d \in known /\ g # 0}
         \/ Served("leave") /\ members' = members \ {m \in {<<d, g>>} : g # 0}
  BY <1>0 DEF ServeMember, Ops
<1>2. SavedInv'
  BY <1>1, ServeMatterFrame DEF ViewInv, Same, Ops
<1>3. ASSUME tidy, ~setback PROVE MembersAgree'
  <2>1. MembersAgree /\ "join" \in Ops /\ "leave" \in Ops
    BY <1>3 DEF ViewInv, MatterInv, Ops
  <2>2. g # 0 /\ (d \notin touched => d \in known)
    <3>1. PICK op \in {"join", "leave"} : <<op, d, g>> \in wire
      BY <1>1
    <3> QED
      BY <1>3, <3>1, NotGroupZero DEF ViewInv, MatterInv
  <2>3. within' = within /\ touched' = touched /\ coupled' = coupled
    BY <1>1 DEF view
  <2>4. CASE Served("join")
             /\ members' = members \union {m \in {<<d, g>>} : d \in known /\ g # 0}
    BY <2>1, <2>2, <2>3, <2>4 DEF MembersAgree, Agree, Same
  <2>5. CASE Served("leave") /\ members' = members \ {m \in {<<d, g>>} : g # 0}
    BY <2>1, <2>2, <2>3, <2>5 DEF MembersAgree, Agree, Same
  <2> QED
    BY <1>1, <2>4, <2>5
<1>4. MatterInv'
  BY <1>1, <1>3, BindingsFrame, ListsFrame, GroupsFrame DEF ViewInv, MatterInv, Same, Ops, view
<1> QED
  BY <1>2, <1>4

LEMMA ServeDropAgrees ==
    ASSUME ViewInv, NEW h \in GroupIds, ServeDrop(h) PROVE SavedInv' /\ MatterInv'
<1>1. /\ <<"drop", h, NoGroup>> \in wire /\ wire' \subseteq wire /\ Same(Ops \ {"drop"})
      /\ \A a, b : <<"drop", a, b>> \in wire' <=> <<"drop", a, b>> \in wire /\ ~(a = h /\ b = NoGroup)
      /\ UNCHANGED <<view, store, setback, memberships, lists, known, replies, touched, tidy>>
      /\ groups' = groups \ ({h} \ {0})
  BY Taken DEF ServeDrop, Same
<1>2. SavedInv'
  BY <1>1, ServeMatterFrame DEF ViewInv, Same, Ops
<1>3. ASSUME tidy, ~setback PROVE GroupsAgree'
  <2>1. h # 0
    BY <1>1, <1>3, NotGroupZero
  <2> QED
    BY <1>1, <1>3, <2>1 DEF ViewInv, MatterInv, GroupsAgree, Agree, view
<1>4. MatterInv'
  BY <1>1, <1>3, MembersFrame, BindingsFrame, ListsFrame DEF ViewInv, MatterInv, Same, Ops, view
<1> QED
  BY <1>2, <1>4

\* A group is made by a gesture of its own.
LEMMA ServeMakeAgrees == ViewInv /\ ServeMake => SavedInv' /\ MatterInv'
<1> SUFFICES ASSUME ViewInv, ServeMake PROVE SavedInv' /\ MatterInv'
  OBVIOUS
<1>1. /\ <<"make", 0, NoGroup>> \in wire /\ wire' = wire \ {<<"make", 0, NoGroup>>}
      /\ Same(Ops \ {"make"})
      /\ UNCHANGED <<shown, within, lines, store, memberships, lists, known, touched, tidy>>
      /\ (~setback' => ~setback)
  BY Taken DEF ServeMake, Take, view, Same
<1>2. PICK id : \E made \in SUBSET {id} :
         groups' = groups \union made /\ replies' = replies \union made
  BY DEF ServeMake, NewId
<1>3. ASSUME tidy PROVE wire' = {} /\ replies = {}
  BY <1>1, <1>3 DEF ViewInv, SavedInv, LoneRequests
<1>4. tidy => LoneRequests'
  BY <1>2, <1>3 DEF LoneRequests
<1>5. SavedInv'
  BY <1>1, <1>4, NodesFrame, ParentsFrame, EdgesFrame, EndsFrame
  DEF ViewInv, SavedInv, Same, Ops, store
<1>6. ASSUME tidy, ~setback' PROVE GroupsAgree'
  BY <1>1, <1>2, <1>3, <1>6 DEF ViewInv, MatterInv, GroupsAgree, Agree
<1>7. MatterInv'
  BY <1>1, <1>6, MembersFrame, BindingsFrame, ListsFrame DEF ViewInv, MatterInv, Same, Ops
<1> QED
  BY <1>5, <1>7

LEMMA GroupAddedAgrees ==
    ASSUME ViewInv, NEW h \in GroupIds, GroupAdded(h) PROVE SavedInv' /\ MatterInv'
<1>1. /\ h \in replies /\ replies' = replies \ {h} /\ shown' = shown \union {h}
      /\ wire' = wire \union {<<"put", h, NoGroup>>} /\ h \notin Devices /\ Same(Ops \ {"put"})
      /\ \A a, b : <<"put", a, b>> \in wire' <=> <<"put", a, b>> \in wire \/ (a = h /\ b = NoGroup)
      /\ UNCHANGED <<within, lines, store, matter, touched, tidy>>
  BY Kinds DEF GroupAdded, Measured, Same
<1>2. ASSUME tidy PROVE wire = {} /\ replies' = {}
  BY <1>1, <1>2 DEF ViewInv, SavedInv, LoneRequests
<1>3. ASSUME tidy PROVE NodesAgree'
  <2> SUFFICES ASSUME NEW m \in Untouched
               PROVE Agree(m \in shown', m \in nodes, Putting(m)', Erasing(m)')
    BY <1>1 DEF NodesAgree, Untouched, store
  <2>1. Agree(m \in shown, m \in nodes, Putting(m), Erasing(m)) /\ ~Putting(m) /\ ~Erasing(m)
    BY <1>2, <1>3 DEF ViewInv, SavedInv, NodesAgree, Putting, Erasing
  <2>2. ~Erasing(m)'
    BY <1>1, <1>2, <1>3 DEF Erasing
  <2>3. CASE m = h
    BY <1>1, <2>2, <2>3 DEF Agree, Putting
  <2>4. CASE m # h
    <3>1. ~Putting(m)'
      BY <1>1, <1>2, <1>3, <2>4 DEF Putting
    <3> QED
      BY <1>1, <2>1, <2>2, <2>4, <3>1 DEF Agree
  <2> QED
    BY <2>3, <2>4
<1>4. ASSUME tidy PROVE ParentsAgree'
  <2>1. \A d \in Devices \ touched : parent[d] = within[d]
    BY <1>2, <1>4 DEF ViewInv, SavedInv, ParentsAgree, Erasing
  <2> QED
    BY <1>1, <1>2, <1>4, <2>1 DEF ParentsAgree, store
<1>5. ASSUME tidy PROVE LoneRequests' /\ EndsShown'
  BY <1>1, <1>2, <1>5 DEF ViewInv, SavedInv, LoneRequests, EndsShown
<1>6. SavedInv'
  BY <1>1, <1>3, <1>4, <1>5, EdgesFrame DEF ViewInv, SavedInv, Same, Ops, store
<1>7. ASSUME tidy, ~setback PROVE GroupsAgree'
  BY <1>1, <1>7 DEF ViewInv, MatterInv, GroupsAgree, Agree, matter, Same, Ops
<1>8. MatterInv'
  BY <1>1, <1>7, MembersFrame, BindingsFrame, ListsFrame DEF ViewInv, MatterInv, Same, Ops, matter
<1> QED
  BY <1>6, <1>8

\* The Devices tab changes nothing of a device that it has not touched.
LEMMA DevicesTabAgrees ==
    ASSUME ViewInv, NEW d \in Devices, Reinterview(d) \/ Remove(d) PROVE SavedInv' /\ MatterInv'
<1>1. /\ UNCHANGED <<shown, within, lines, edges, groups, setback, coupled, crossed, wire, replies, tidy>>
      /\ touched \subseteq touched' /\ touched' \subseteq touched \union {d}
      /\ known \ {d} \subseteq known' /\ known' \subseteq known
      /\ strays' \subseteq strays
  <2>1. CASE Reinterview(d)
    BY <2>1 DEF Reinterview, view, matter
  <2>2. CASE Remove(d)
    BY <2>2 DEF Remove, view
  <2> QED
    BY <2>1, <2>2
<1>2. /\ \A n \in Names : n # d => (n \in nodes' <=> n \in nodes)
      /\ \A e \in Devices \ {d} : parent'[e] = parent[e]
      /\ \A e \in Devices \ {d}, g \in GroupIds : <<e, g>> \in members' <=> <<e, g>> \in members
      /\ \A l \in Links : l[1] # d => (l \in bindings' <=> l \in bindings)
      /\ writes' \subseteq writes /\ \A w \in writes : w[1] # d => w \in writes'
  <2>1. CASE Reinterview(d)
    BY <2>1 DEF Reinterview, matter, Settings
  <2>2. CASE Remove(d)
    BY <2>2 DEF Remove, ListOf, Settings
  <2> QED
    BY <2>1, <2>2
<1>3. d \notin touched' =>
        d \in nodes /\ nodes' = nodes /\ parent'[d] = parent[d] /\ known' = known
        /\ members' = members /\ bindings' = bindings /\ writes' = writes
  <2>1. CASE Reinterview(d)
    BY <2>1 DEF Reinterview, matter, Settings
  <2>2. CASE Remove(d)
    BY <2>2 DEF Remove
  <2> QED
    BY <2>1, <2>2
<1>4. Untouched' \subseteq Untouched /\ \A n \in Untouched' : n \in Names /\ n \notin touched'
  BY <1>1 DEF Untouched
<1>5. ASSUME tidy PROVE NodesAgree'
  BY <1>1, <1>2, <1>3, <1>4, <1>5
  DEF ViewInv, SavedInv, NodesAgree, Agree, Putting, Erasing
<1>6. ASSUME tidy PROVE ParentsAgree'
  BY <1>1, <1>2, <1>3, <1>6 DEF ViewInv, SavedInv, ParentsAgree, Erasing
<1>7. ASSUME tidy PROVE EdgesAgree' /\ LoneRequests' /\ EndsShown' /\ strays' \subseteq touched'
  BY <1>1, <1>7 DEF ViewInv, SavedInv, EdgesAgree, LoneRequests, EndsShown, Agree
<1>8. SavedInv'
  BY <1>1, <1>5, <1>6, <1>7 DEF ViewInv, SavedInv
<1>9. ASSUME tidy, ~setback PROVE MembersAgree'
  BY <1>1, <1>2, <1>3, <1>9 DEF ViewInv, MatterInv, MembersAgree, Agree
<1>10. ASSUME tidy, ~setback PROVE BindingsAgree'
  <2>1. \A l \in Links : l[1] \notin touched' => (Written(l)' <=> Written(l))
    BY <1>1, <1>2, <1>3 DEF Written, Writing
  <2> QED
    BY <1>1, <1>4, <1>10, <2>1 DEF ViewInv, MatterInv, BindingsAgree, Agree
<1>11. ASSUME tidy, ~setback PROVE GroupsAgree'
  BY <1>1, <1>11 DEF ViewInv, MatterInv, GroupsAgree, Agree
<1>12. MatterInv'
  BY <1>1, <1>2, <1>3, <1>9, <1>10, <1>11 DEF ViewInv, MatterInv, ListsAreOwn
<1> QED
  BY <1>8, <1>12

\* A factory reset leaves the view and nodes.json.
LEMMA ResetAgrees ==
    ASSUME ViewInv, FactoryReset PROVE SavedInv' /\ MatterInv'
<1>1. UNCHANGED <<view, store, wire, replies, touched, tidy>> /\ writes' = {} /\ setback'
  BY DEF FactoryReset
<1> QED
  BY <1>1, ServeMatterFrame DEF ViewInv, MatterInv, ListsAreOwn, Same

LEMMA InitViewInv == CanvasInit => ViewInv
<1> SUFFICES ASSUME CanvasInit PROVE ViewInv
  OBVIOUS
<1>1. /\ wire = {} /\ replies = {} /\ strays = {} /\ touched = {} /\ known = Devices /\ writes = {}
      /\ shown = nodes /\ within = parent /\ lines = edges /\ bindings = edges
  BY DEF CanvasInit
<1>2. SavedInv
  <2>1. \A l \in lines : {l[1], l[2]} \subseteq shown
    BY DEF CanvasInit
  <2> QED
    BY <1>1, <2>1
    DEF SavedInv, NodesAgree, ParentsAgree, EdgesAgree, LoneRequests, EndsShown, Agree, Putting,
        Erasing
<1>3. MembersAgree
  <2>1. \A m \in Devices \X GroupIds : m \in members <=> m \in coupled \/ parent[m[1]] = m[2]
    BY DEF CanvasInit
  <2> QED
    BY <1>1, <2>1 DEF MembersAgree, Agree
<1>4. GroupsAgree
  <2>1. \A g \in GroupIds : g \in nodes <=> g \in groups
    BY Kinds DEF CanvasInit
  <2> QED
    BY <1>1, <2>1 DEF GroupsAgree, Agree
<1>5. MatterInv
  BY <1>1, <1>3, <1>4 DEF MatterInv, BindingsAgree, ListsAreOwn, Written, Writing, Agree
<1>6. ShownWithGroup
  BY DEF CanvasInit, ShownWithGroup
<1> QED
  BY <1>2, <1>5, <1>6, InitTypes, InitIds DEF ViewInv

LEMMA NextViewInv == ViewInv /\ [CanvasNext]_canvasVars => ViewInv'
<1> SUFFICES ASSUME ViewInv, [CanvasNext]_canvasVars PROVE ViewInv'
  OBVIOUS
<1>1. CASE ByHand
  BY <1>1, MoveAgrees, DeleteAgrees, ResizeAgrees, JoinAgrees, LeaveAgrees, ConnectAgrees,
     DisconnectAgrees, LoadAgrees, AddGroupAgrees, NextTypes, NextShown, NextIds
  DEF ByHand, ViewInv
<1>2. CASE Serve
  <2>1. SavedInv' /\ MatterInv'
    BY <1>2, ServeTouchAgrees, ServeEraseAgrees, ServePutAgrees, ServeEdgeAgrees,
       ServeBindingAgrees, ServeMemberAgrees, ServeDropAgrees, ServeMakeAgrees DEF Serve
  <2> QED
    BY <2>1, NextTypes, NextShown, NextIds DEF ViewInv
<1>3. ASSUME NEW g \in GroupIds, GroupAdded(g) PROVE ViewInv'
  BY <1>3, GroupAddedAgrees, NextTypes, NextShown, NextIds DEF ViewInv
<1>4. ASSUME NEW d \in Devices, Reinterview(d) \/ Remove(d) PROVE ViewInv'
  BY <1>4, DevicesTabAgrees, NextTypes, NextShown, NextIds DEF ViewInv
<1>5. CASE UNCHANGED canvasVars
  <2>1. Same(Ops) /\ UNCHANGED <<shown, within, lines, nodes, parent, edges, strays, groups, setback,
                                 memberships, lists, known, wire, replies, touched, tidy>>
    BY <1>5 DEF canvasVars, view, store, matter, Same
  <2>2. SavedInv' /\ MatterInv'
    BY <2>1, NodesFrame, ParentsFrame, EdgesFrame, LoneFrame, EndsFrame, MembersFrame,
       BindingsFrame, ListsFrame, GroupsFrame DEF ViewInv, SavedInv, MatterInv, Same, Ops
  <2> QED
    BY <2>2, NextTypes, NextShown, NextIds DEF ViewInv
<1>6. ASSUME NEW w \in writes, Land(w) PROVE ViewInv'
  BY <1>6, LandAgrees, NextTypes, NextShown, NextIds DEF ViewInv
<1>7. CASE FactoryReset
  BY <1>7, ResetAgrees, NextTypes, NextShown, NextIds DEF ViewInv
<1> QED
  BY <1>1, <1>2, <1>3, <1>4, <1>5, <1>6, <1>7 DEF CanvasNext

LEMMA ViewInvIsKept == CanvasSpec => []ViewInv
BY InitViewInv, NextViewInv, PTL DEF CanvasSpec

\* When all requests of a gesture that found the ones before served are served, in any
\* order, nodes.json has what the page shows.
THEOREM ViewsSaved == CanvasSpec => []ViewIsSaved
<1>1. ViewInv => ViewIsSaved
  <2> SUFFICES ASSUME ViewInv, tidy, Quiet
               PROVE /\ nodes \intersect Untouched = shown \intersect Untouched
                     /\ \A d \in Devices \ touched : parent[d] = within[d]
                     /\ edges = lines /\ strays \subseteq touched
                     /\ \A l \in edges : {l[1], l[2]} \subseteq nodes \union touched
    BY DEF ViewIsSaved
  <2>1. /\ \A n \in Untouched : n \in nodes <=> n \in shown
        /\ \A d \in Devices \ touched : parent[d] = within[d]
        /\ \A l \in Links : l \in edges <=> l \in lines
    BY Settled DEF ViewInv
  <2>2. edges = lines
    BY <2>1 DEF ViewInv, CanvasTypeOK
  <2>3. \A l \in edges : {l[1], l[2]} \subseteq nodes \union touched
    BY <2>1, <2>2, LinkEnds DEF ViewInv, SavedInv, EndsShown, CanvasTypeOK, Untouched
  <2> QED
    BY <2>1, <2>2, <2>3 DEF ViewInv, SavedInv
<1> QED
  BY <1>1, ViewInvIsKept, PTL

\* And the devices that were not touched otherwise have been told of it.
THEOREM DevicesFollow == CanvasSpec => []MatterFollowsView
<1>1. ViewInv => MatterFollowsView
  <2> SUFFICES ASSUME ViewInv, tidy, ~setback, Quiet
               PROVE /\ groups = shown \intersect GroupIds
                     /\ \A d \in Devices \ touched, g \in GroupIds :
                          <<d, g>> \notin coupled => (<<d, g>> \in members <=> within[d] = g)
                     /\ \A l \in Links : {l[1], l[2]} \subseteq Untouched /\ l[1] \notin crossed =>
                          (l \in bindings <=> l \in lines)
    BY DEF MatterFollowsView
  <2> QED
    BY Settled DEF ViewInv, CanvasTypeOK
<1> QED
  BY <1>1, ViewInvIsKept, PTL

=============================================================================
