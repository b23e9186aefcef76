------------------------ MODULE DeviceRecordsProofs ------------------------
(***************************************************************************)
(* What a re-interview leaves in the record, for all devices with the      *)
(* endpoints 0..n and all numbers of reads.                                *)
(*                                                                         *)
(* RecordsInv is the inductive invariant: how far the newest read has got  *)
(* says which part of the record is the device's, and what another read    *)
(* adds meanwhile is there already or will be.                             *)
(***************************************************************************)
EXTENDS DeviceRecords, EndpointTreeProofs, FiniteSetTheorems

-----------------------------------------------------------------------------
(* The endpoints of a device                                               *)

LEMMA EndsOfDevice ==
    ASSUME LastEndpoint \in Nat, NEW s, IsDevice(s)
    PROVE  /\ Reports(s) \in Nat
           /\ Ends(s) \subseteq Eps /\ 0 \in Ends(s)
           /\ \A e \in Ends(s) : e \in Nat /\ 2 * e + 1 < Reports(s)
           /\ \A e \in Nat : 2 * e < Reports(s) => e \in Ends(s)
<1>1. PICK last \in Eps : Ends(s) = 0..last
  BY DEF IsDevice
<1>2. last \in Nat /\ last <= LastEndpoint
  BY DEF Eps
<1>3. Cardinality(0..last) = last + 1
  BY <1>2, FS_Interval
<1>4. Reports(s) = 2 * (last + 1)
  BY <1>1, <1>3 DEF Reports
<1> QED BY <1>1, <1>2, <1>4 DEF Eps

\* A report is one of an endpoint of the device, its types or its parts.
LEMMA ReportedEndpoint ==
    ASSUME RecordsAssumption, RecordsTypeOK, NEW r \in OpenReads, reads[r] < Reports(shape)
    PROVE  /\ Reported(r) \in Ends(shape) /\ Reported(r) \in Eps
           /\ reads[r] \in Nat /\ reads[r] + 1 \in Closed..Reports(shape)
           /\ reads[r] % 2 = 0 => reads[r] = 2 * Reported(r)
           /\ reads[r] % 2 = 1 => reads[r] = 2 * Reported(r) + 1
<1>1. r \in Reads /\ reads[r] \in Nat
  BY DEF OpenReads, RecordsTypeOK, Closed
<1>2. /\ Reports(shape) \in Nat /\ Ends(shape) \subseteq Eps
      /\ \A n \in Nat : 2 * n < Reports(shape) => n \in Ends(shape)
  BY EndsOfDevice DEF RecordsAssumption, RecordsTypeOK
<1> DEFINE e == reads[r] \div 2
<1>3. /\ e \in Nat
      /\ reads[r] % 2 = 0 => reads[r] = 2 * e
      /\ reads[r] % 2 = 1 => reads[r] = 2 * e + 1
      /\ 2 * e <= reads[r]
  BY <1>1
<1> HIDE DEF e
<1>4. e \in Ends(shape)
  BY <1>1, <1>2, <1>3
<1> QED BY <1>1, <1>2, <1>3, <1>4 DEF Reported, Closed, e

\* The lists of a device are lists of the record.
LEMMA ListsOfDevice ==
    ASSUME RecordsAssumption, RecordsTypeOK, NEW e \in Ends(shape)
    PROVE  /\ e \in Eps /\ <<e>> \in Seq(Eps) /\ ToSet(<<e>>) = {e}
           /\ shape.parts[e] \in Seq(Eps) /\ shape.types[e] \in Seq(DeviceTypes)
           /\ IsInjective(shape.parts[e]) /\ IsInjective(shape.types[e])
<1>1. Ends(shape) \subseteq Eps
  BY EndsOfDevice DEF RecordsAssumption, RecordsTypeOK
<1>2. ToSet(<<e>>) = {e}
  BY DEF ToSet
<1>3. shape.parts[e] \in Seq(Ends(shape)) /\ shape.types[e] \in Seq(DeviceTypes)
  BY DEF RecordsTypeOK, IsDevice
<1>4. shape.parts[e] \in Seq(Eps)
  BY <1>1, <1>3
<1>5. IsInjective(shape.parts[e]) /\ IsInjective(shape.types[e])
  BY DEF RecordsTypeOK, IsDevice
<1> QED BY <1>1, <1>2, <1>3, <1>4, <1>5

-----------------------------------------------------------------------------
(* Types                                                                   *)

LEMMA RecordsTypeInit ==
    ASSUME RecordsAssumption, RecordsInit
    PROVE  RecordsTypeOK
<1>1. IsDevice(shape) /\ Reports(shape) \in Nat
  BY EndsOfDevice DEF RecordsAssumption, RecordsInit
<1>2. <<>> \in Seq(Eps) /\ <<>> \in Seq(DeviceTypes) /\ IsInjective(<<>>)
  BY DEF IsInjective
<1>3. None \in [Eps -> Seq(Eps)] /\ None \in [Eps -> Seq(DeviceTypes)] /\ \A e \in Eps : None[e] = <<>>
  BY <1>2 DEF None
<1>4. [r \in Reads |-> Closed] \in [Reads -> Closed..Reports(shape)]
  BY <1>1 DEF Closed
<1> QED BY <1>1, <1>2, <1>3, <1>4 DEF RecordsInit, RecordsTypeOK

LEMMA RecordsTypeStep ==
    ASSUME RecordsAssumption, RecordsTypeOK, [RecordsNext]_recordVars
    PROVE  RecordsTypeOK'
<1>1. Reports(shape) \in Nat /\ IsDevice(shape)
  BY EndsOfDevice DEF RecordsAssumption, RecordsTypeOK
<1>2. CASE ClearEndpoints
  <2>1. <<>> \in Seq(Eps) /\ <<>> \in Seq(DeviceTypes) /\ IsInjective(<<>>)
    BY DEF IsInjective
  <2>2. None \in [Eps -> Seq(Eps)] /\ None \in [Eps -> Seq(DeviceTypes)] /\ \A e \in Eps : None[e] = <<>>
    BY <2>1 DEF None
  <2> QED BY <1>2, <2>1, <2>2 DEF ClearEndpoints, RecordsTypeOK, IsDevice, Reports, Ends, Children
<1>3. CASE NotSent
  BY <1>3 DEF NotSent, record, RecordsTypeOK
<1>4. ASSUME NEW r \in Reads, Interrogate(r)
      PROVE  RecordsTypeOK'
  <2>1. reads' = [reads EXCEPT ![r] = 0] /\ 0 \in Closed..Reports(shape)
    BY <1>1, <1>4 DEF Interrogate, Closed
  <2>2. /\ UNCHANGED <<shape, order, parts, types, parent, primary, pending, told, steady, alone>>
        /\ clearing' = FALSE /\ newest' = r
    BY <1>4 DEF Interrogate, record
  <2> QED BY <2>1, <2>2 DEF RecordsTypeOK
<1>5. ASSUME NEW r \in Reads, ReportTypes(r)
      PROVE  RecordsTypeOK'
  <2> DEFINE e == Reported(r)
  <2>1. e \in Ends(shape) /\ reads[r] + 1 \in Closed..Reports(shape)
    BY <1>5, ReportedEndpoint DEF ReportTypes
  <2> HIDE DEF e
  <2>2. /\ e \in Eps /\ <<e>> \in Seq(Eps) /\ shape.types[e] \in Seq(DeviceTypes)
        /\ order \in Seq(Eps) /\ types[e] \in Seq(DeviceTypes) /\ pending[e] \in Seq(DeviceTypes)
        /\ IsInjective(order) /\ IsInjective(types[e])
    BY <2>1, ListsOfDevice DEF RecordsTypeOK
  <2>3. /\ AddAll(order, <<e>>) \in Seq(Eps) /\ IsInjective(AddAll(order, <<e>>))
    BY <2>2, AddAllAdds
  <2>4. /\ AddAll(types[e], shape.types[e]) \in Seq(DeviceTypes)
        /\ IsInjective(AddAll(types[e], shape.types[e]))
    BY <2>2, AddAllAdds
  <2>5. pending[e] \o shape.types[e] \in Seq(DeviceTypes)
    BY <2>2
  <2>6. /\ order' = AddAll(order, <<e>>)
        /\ types' = [types EXCEPT ![e] = AddAll(@, shape.types[e])]
        /\ pending' = [pending EXCEPT ![e] = @ \o shape.types[e]]
        /\ reads' = [reads EXCEPT ![r] = @ + 1]
    BY <1>5 DEF ReportTypes, Progress, e
  <2>7. types' \in [Eps -> Seq(DeviceTypes)] /\ \A d \in Eps : IsInjective(types'[d])
    BY <2>2, <2>4, <2>6 DEF RecordsTypeOK
  <2>8. pending' \in [Eps -> Seq(DeviceTypes)] /\ reads' \in [Reads -> Closed..Reports(shape)]
    BY <2>1, <2>2, <2>5, <2>6 DEF RecordsTypeOK
  <2>9. UNCHANGED <<shape, parts, parent, primary, clearing, newest, told, steady, alone>>
    BY <1>5 DEF ReportTypes
  <2>10. IsDevice(shape)' /\ Reports(shape)' = Reports(shape)
    BY <2>9 DEF RecordsTypeOK
  <2> QED BY <2>3, <2>6, <2>7, <2>8, <2>9, <2>10 DEF RecordsTypeOK
<1>6. ASSUME NEW r \in Reads, ReportParts(r)
      PROVE  RecordsTypeOK'
  <2> DEFINE e == Reported(r)
  <2>1. e \in Ends(shape) /\ reads[r] + 1 \in Closed..Reports(shape)
    BY <1>6, ReportedEndpoint DEF ReportParts
  <2> HIDE DEF e
  <2>2. /\ e \in Eps /\ shape.parts[e] \in Seq(Eps)
        /\ order \in Seq(Eps) /\ parts[e] \in Seq(Eps)
        /\ IsInjective(order) /\ IsInjective(parts[e])
    BY <2>1, ListsOfDevice DEF RecordsTypeOK
  <2>3. /\ AddAll(order, shape.parts[e]) \in Seq(Eps) /\ IsInjective(AddAll(order, shape.parts[e]))
        /\ AddAll(parts[e], shape.parts[e]) \in Seq(Eps)
        /\ IsInjective(AddAll(parts[e], shape.parts[e]))
    BY <2>2, AddAllAdds
  <2>4. /\ order' = AddAll(order, shape.parts[e])
        /\ parts' \in {parts, [parts EXCEPT ![e] = AddAll(@, shape.parts[e])]}
        /\ reads' = [reads EXCEPT ![r] = @ + 1]
    BY <1>6 DEF ReportParts, Progress, e
  <2> QED BY <1>6, <2>1, <2>2, <2>3, <2>4 DEF ReportParts, RecordsTypeOK
<1>7. ASSUME NEW r \in Reads, Finish(r)
      PROVE  RecordsTypeOK'
  <2>1. Primary(pending) \in DeviceTypes \union {NoType}
    <3>1. Eps \in SUBSET Nat /\ pending \in [Eps -> Seq(DeviceTypes)]
      BY DEF Eps, RecordsTypeOK
    <3> QED BY <3>1, PrimaryType
  <2>2. None \in [Eps -> Seq(DeviceTypes)]
    BY DEF None
  <2>3. \A e \in Eps : Parent(order, parts, e) \in Eps \union {NoParent}
    BY ParentIsThere DEF RecordsTypeOK
  <2>4. parent' \in [Eps -> Eps \union {NoParent}]
    BY <1>7, <2>3 DEF Finish
  <2> QED BY <1>1, <1>7, <2>1, <2>2, <2>4 DEF Finish, ChooseType, RecordsTypeOK, Closed
<1>8. ASSUME NEW r \in Reads, Lost(r)
      PROVE  RecordsTypeOK'
  BY <1>1, <1>8 DEF Lost, record, RecordsTypeOK, Closed
<1>9. ASSUME NEW s \in Later, ChangeShape(s)
      PROVE  RecordsTypeOK'
  <2>1. IsDevice(s) /\ Reports(s) \in Nat
    BY EndsOfDevice DEF RecordsAssumption
  <2>2. reads \in [Reads -> Closed..Reports(s)]
    BY <1>9, <2>1 DEF ChangeShape, OpenReads, RecordsTypeOK, Closed
  <2> QED BY <1>9, <2>1, <2>2 DEF ChangeShape, record, RecordsTypeOK
<1>10. CASE UNCHANGED recordVars
  BY <1>10 DEF recordVars, record, RecordsTypeOK
<1> QED BY <1>2, <1>3, <1>4, <1>5, <1>6, <1>7, <1>8, <1>9, <1>10 DEF RecordsNext

\* The entries, the types and the parts of each, the parent links and the type of a
\* record stay what device_manager's vectors hold: lists without a duplicate, of the
\* endpoints a device can have; and no read gives more reports than the device has.
THEOREM RecordsTypeCorrect == RecordsSpec => []RecordsTypeOK
<1> USE RecordsAssumption
<1>1. RecordsInit => RecordsTypeOK
  BY RecordsTypeInit
<1>2. RecordsTypeOK /\ [RecordsNext]_recordVars => RecordsTypeOK'
  BY RecordsTypeStep
<1> QED BY <1>1, <1>2, PTL DEF RecordsSpec

-----------------------------------------------------------------------------
(* The newest read                                                         *)

\* It is open until it has told all it will, and none is before the endpoints are
\* cleared and the read sent.
HistoryInv ==
    /\ newest # 0 => newest \in OpenReads
    /\ told => newest = 0
    /\ clearing => newest = 0 /\ ~told

LEMMA HistoryInit == RecordsInit => HistoryInv
BY DEF RecordsInit, HistoryInv

LEMMA HistoryStep ==
    ASSUME RecordsTypeOK, HistoryInv, [RecordsNext]_recordVars
    PROVE  HistoryInv'
<1>1. CASE ClearEndpoints
  BY <1>1 DEF ClearEndpoints, HistoryInv
<1>2. CASE NotSent
  BY <1>2 DEF NotSent, HistoryInv, OpenReads
<1>3. ASSUME NEW r \in Reads, Interrogate(r)
      PROVE  HistoryInv'
  <2>1. reads'[r] = 0 /\ newest' = r /\ ~clearing' /\ ~told'
    BY <1>3 DEF Interrogate, RecordsTypeOK, HistoryInv
  <2> QED BY <2>1 DEF HistoryInv, OpenReads, Closed
<1>4. ASSUME NEW r \in Reads, ReportTypes(r) \/ ReportParts(r)
      PROVE  HistoryInv'
  <2>1. /\ reads[r] # Closed /\ reads' = [reads EXCEPT ![r] = @ + 1]
        /\ UNCHANGED <<newest, told, clearing>>
    BY <1>4 DEF ReportTypes, ReportParts, Progress, OpenReads
  <2>2. reads[r] + 1 # Closed /\ reads \in [Reads -> Closed..Reports(shape)]
    BY <2>1 DEF RecordsTypeOK, Closed
  <2> QED BY <2>1, <2>2 DEF HistoryInv, OpenReads
<1>5. ASSUME NEW r \in Reads, Finish(r) \/ Lost(r)
      PROVE  HistoryInv'
  <2>1. /\ r \in OpenReads /\ r # 0 /\ reads' = [reads EXCEPT ![r] = Closed]
        /\ newest' = IF r = newest THEN 0 ELSE newest
        /\ told' => told \/ r = newest
        /\ clearing' = clearing
    BY <1>5 DEF Finish, Lost, OpenReads, Closed, Reads, RecordsTypeOK
  <2> QED BY <2>1 DEF HistoryInv, OpenReads, RecordsTypeOK
<1>6. ASSUME NEW s \in Later, ChangeShape(s)
      PROVE  HistoryInv'
  BY <1>6 DEF ChangeShape, HistoryInv, OpenReads
<1>7. CASE UNCHANGED recordVars
  BY <1>7 DEF recordVars, HistoryInv, OpenReads
<1> QED BY <1>1, <1>2, <1>3, <1>4, <1>5, <1>6, <1>7 DEF RecordsNext

-----------------------------------------------------------------------------
(* The structure                                                           *)

\* The record has nothing that the device has not.
Within ==
    /\ ToSet(order) \subseteq Ends(shape)
    /\ \A e \in Ends(shape) : /\ types[e] \in {<<>>, shape.types[e]}
                              /\ parts[e] \in {<<>>, shape.parts[e]}

\* It has what k reports of a read tell.
Covers(k) ==
    \A e \in Ends(shape) :
        /\ 2 * e < k => e \in ToSet(order) /\ types[e] = shape.types[e]
        /\ 2 * e + 1 < k => parts[e] = shape.parts[e] /\ ToSet(shape.parts[e]) \subseteq ToSet(order)

ParentsRight == \A e \in Ends(shape) : IsBelow(e, parent[e])

StructureInv ==
    steady => /\ Within
              /\ newest # 0 => Covers(reads[newest])
              /\ told => Covers(Reports(shape)) /\ ParentsRight

\* Nothing is above endpoint 0, and what is directly below an endpoint is below it.
LEMMA UnderIsBelow ==
    ASSUME NEW s, IsDevice(s), NEW e \in Ends(s)
    PROVE  /\ Children(s, e) \subseteq Under(s, e)
           /\ Under(s, e) \subseteq Ends(s) \ {0}
<1>1. Children(s, e) \subseteq Under(s, e)
  BY DEF Under, Children
<1>2. ASSUME NEW c \in Under(s, e)
      PROVE  c \in Ends(s) \ {0}
  <2> DEFINE S == Ends(s) \ {0}
  <2>1. S \in SUBSET Ends(s) /\ \A d \in S \union {e} : Children(s, d) \subseteq S
    BY DEF Children
  <2> HIDE DEF S
  <2>2. c \in S
    BY <1>2, <2>1 DEF Under
  <2> QED BY <2>2 DEF S
<1> QED BY <1>1, <1>2

\* Once all reports are in, device_manager_resolve_parents finds an endpoint that each
\* is below, and the one that it is directly below where no other aggregator lists it.
LEMMA ParentIsAbove ==
    ASSUME RecordsAssumption, RecordsTypeOK, Within, Covers(Reports(shape)), NEW e \in Ends(shape)
    PROVE  Contains(order, e) /\ IsBelow(e, Parent(order, parts, e))
<1> DEFINE up == shape.above[e]
           claimants == Claimants(order, parts, e)
<1>1. /\ Ends(shape) \subseteq Eps /\ 0 \in Ends(shape)
      /\ \A c \in Ends(shape) : c \in Nat /\ 2 * c + 1 < Reports(shape)
      /\ Reports(shape) \in Nat
  BY EndsOfDevice DEF RecordsAssumption, RecordsTypeOK
<1>2. \A c \in Ends(shape) : 2 * c < Reports(shape)
  BY <1>1
<1>3. ToSet(order) = Ends(shape) /\ \A c \in Ends(shape) : parts[c] = shape.parts[c]
  BY <1>1, <1>2 DEF Within, Covers
<1>4. order \in Seq(Eps) /\ Contains(order, e)
  BY <1>3, ContainsIsIn DEF RecordsTypeOK
<1>5. \A c \in Ends(shape) : /\ Contains(parts[c], e) <=> e \in ToSet(shape.parts[c])
                             /\ Contains(shape.parts[c], e) <=> e \in ToSet(shape.parts[c])
  BY <1>1, <1>3, ContainsIsIn DEF RecordsTypeOK
<1>6. claimants = {c \in Ends(shape) : e \in ToSet(shape.parts[c])}
  BY <1>3, <1>5 DEF Claimants
<1>7. \A c \in Ends(shape) : /\ Children(shape, c) \subseteq ToSet(shape.parts[c])
                             /\ ToSet(shape.parts[c]) \subseteq Under(shape, c)
                             /\ Under(shape, c) \subseteq Ends(shape) \ {0}
  <2>1. IsDevice(shape)
    BY DEF RecordsTypeOK
  <2>2. \A c \in Ends(shape) : ToSet(shape.parts[c]) \in {Children(shape, c), Under(shape, c)}
    BY <2>1 DEF IsDevice
  <2>3. \A c \in Ends(shape) : /\ Children(shape, c) \subseteq Under(shape, c)
                               /\ Under(shape, c) \subseteq Ends(shape) \ {0}
    BY <2>1, UnderIsBelow
  <2> QED BY <2>2, <2>3
<1>8. CASE e = 0
  <2>1. claimants = {}
    BY <1>6, <1>7, <1>8
  <2> QED BY <1>4, <1>8, <2>1, ParentOfUnlisted DEF IsBelow
<1>9. CASE e # 0
  <2>1. up \in Ends(shape) /\ e \in Children(shape, up)
    BY <1>9 DEF RecordsTypeOK, IsDevice, Children
  <2>2. up \in claimants
    BY <1>6, <1>7, <2>1
  <2>3. Parent(order, parts, e) \in claimants
    BY <1>4, <2>2, ParentIsThere
  <2>4. Parent(order, parts, e) \in Ends(shape) /\ e \in Under(shape, Parent(order, parts, e))
    BY <1>6, <1>7, <2>3
  <2>5. ASSUME NamedDirectly(e)
        PROVE  Parent(order, parts, e) = up
    <3>1. claimants \subseteq {0, up}
      BY <1>5, <1>6, <2>5 DEF NamedDirectly
    <3>2. CASE claimants = {up}
      BY <1>4, <3>2, ParentOfOne
    <3>3. CASE claimants = {0, up} /\ up # 0
      <4>1. e \in ToSet(shape.parts[0]) /\ e \notin Children(shape, 0)
        BY <1>6, <2>1, <3>3 DEF Children
      <4>2. ToSet(shape.parts[0]) = Ends(shape) \ {0}
        BY <1>1, <4>1 DEF RecordsTypeOK, IsDevice
      <4>3. up \in ToSet(parts[0]) \ {0}
        BY <1>1, <1>3, <2>1, <3>3, <4>2
      <4> QED BY <1>4, <3>3, <4>3, ParentBelowRoot
    <3> QED BY <2>2, <3>1, <3>2, <3>3
  <2> QED BY <1>4, <1>9, <2>4, <2>5 DEF IsBelow
<1> QED BY <1>8, <1>9

LEMMA ParentsRightKept ==
    ASSUME UNCHANGED <<shape, parent>>, ParentsRight
    PROVE  ParentsRight'
<1>1. shape' = shape /\ parent' = parent
  OBVIOUS
<1> QED BY <1>1 DEF ParentsRight, IsBelow, NamedDirectly

\* The first report of the types of an endpoint keeps them as they are, a second one
\* changes nothing.
LEMMA TypesReported ==
    ASSUME RecordsAssumption, RecordsTypeOK, Within, NEW r \in Reads, ReportTypes(r)
    PROVE  LET e == Reported(r)
           IN  /\ e \in Ends(shape) /\ reads[r] = 2 * e /\ reads' = [reads EXCEPT ![r] = 2 * e + 1]
               /\ ToSet(order)' = ToSet(order) \union {e}
               /\ \A c \in Eps : types'[c] = IF c = e THEN shape.types[c] ELSE types[c]
               /\ UNCHANGED <<shape, parts, parent, newest, told, steady>>
<1> DEFINE e == Reported(r)
<1>1. e \in Ends(shape) /\ reads[r] = 2 * e
  BY ReportedEndpoint DEF ReportTypes
<1>2. reads' = [reads EXCEPT ![r] = 2 * e + 1] /\ UNCHANGED <<shape, parts, parent, newest, told, steady>>
  BY <1>1 DEF ReportTypes, Progress
<1>3. order' = AddAll(order, <<e>>) /\ types' = [types EXCEPT ![e] = AddAll(@, shape.types[e])]
  BY DEF ReportTypes
<1> HIDE DEF e
<1>4. /\ e \in Eps /\ <<e>> \in Seq(Eps) /\ ToSet(<<e>>) = {e} /\ order \in Seq(Eps)
      /\ shape.types[e] \in Seq(DeviceTypes) /\ IsInjective(shape.types[e])
  BY <1>1, ListsOfDevice DEF RecordsTypeOK
<1>5. ToSet(AddAll(order, <<e>>)) = ToSet(order) \union {e}
  <2> DEFINE one == <<e>>
  <2>1. one \in Seq(Eps) /\ ToSet(one) = {e}
    BY <1>4
  <2> HIDE DEF one
  <2>2. ToSet(AddAll(order, one)) = ToSet(order) \union ToSet(one)
    BY <1>4, <2>1, AddAllAdds
  <2> QED BY <2>1, <2>2 DEF one
<1>6. AddAll(types[e], shape.types[e]) = shape.types[e]
  <2>1. CASE types[e] = <<>>
    BY <1>4, <2>1, AddAllToNone
  <2>2. CASE types[e] = shape.types[e]
    BY <1>4, <2>2, AddAllKeeps
  <2> QED BY <1>1, <2>1, <2>2 DEF Within
<1>7. \A c \in Eps : types'[c] = IF c = e THEN shape.types[c] ELSE types[c]
  BY <1>3, <1>4, <1>6 DEF RecordsTypeOK
<1> QED BY <1>1, <1>2, <1>3, <1>5, <1>7 DEF e

\* So does the report of its parts, if the endpoint is known.
LEMMA PartsReported ==
    ASSUME RecordsAssumption, RecordsTypeOK, Within, NEW r \in Reads, ReportParts(r)
    PROVE  LET e == Reported(r)
           IN  /\ e \in Ends(shape) /\ reads[r] = 2 * e + 1 /\ reads' = [reads EXCEPT ![r] = 2 * e + 2]
               /\ ToSet(order)' = ToSet(order) \union ToSet(shape.parts[e])
               /\ ToSet(shape.parts[e]) \subseteq Ends(shape)
               /\ \A c \in Eps : parts'[c] = IF c = e /\ e \in ToSet(order) THEN shape.parts[c] ELSE parts[c]
               /\ UNCHANGED <<shape, types, parent, newest, told, steady>>
<1> DEFINE e == Reported(r)
<1>1. e \in Ends(shape) /\ reads[r] = 2 * e + 1 /\ reads[r] + 1 = 2 * e + 2
  <2>1. e \in Ends(shape) /\ e \in Eps /\ reads[r] = 2 * e + 1
    BY ReportedEndpoint DEF ReportParts
  <2> QED BY <2>1 DEF Eps
<1>2. reads' = [reads EXCEPT ![r] = 2 * e + 2] /\ UNCHANGED <<shape, types, parent, newest, told, steady>>
  BY <1>1 DEF ReportParts, Progress
<1>3. /\ order' = AddAll(order, shape.parts[e])
      /\ parts' = IF Contains(order, e) THEN [parts EXCEPT ![e] = AddAll(@, shape.parts[e])] ELSE parts
  BY DEF ReportParts
<1> HIDE DEF e
<1>4. /\ e \in Eps /\ order \in Seq(Eps)
      /\ shape.parts[e] \in Seq(Eps) /\ IsInjective(shape.parts[e])
  BY <1>1, ListsOfDevice DEF RecordsTypeOK
<1>5. ToSet(AddAll(order, shape.parts[e])) = ToSet(order) \union ToSet(shape.parts[e])
  BY <1>4, AddAllAdds
<1>6. ToSet(shape.parts[e]) \subseteq Ends(shape)
  <2>1. shape.parts[e] \in Seq(Ends(shape))
    BY <1>1 DEF RecordsTypeOK, IsDevice
  <2> QED BY <2>1, ContainsIsIn
<1>7. AddAll(parts[e], shape.parts[e]) = shape.parts[e]
  <2>1. CASE parts[e] = <<>>
    BY <1>4, <2>1, AddAllToNone
  <2>2. CASE parts[e] = shape.parts[e]
    BY <1>4, <2>2, AddAllKeeps
  <2> QED BY <1>1, <2>1, <2>2 DEF Within
<1>8. Contains(order, e) <=> e \in ToSet(order)
  BY <1>4, ContainsIsIn
<1>9. \A c \in Eps : parts'[c] = IF c = e /\ e \in ToSet(order) THEN shape.parts[c] ELSE parts[c]
  BY <1>3, <1>4, <1>7, <1>8 DEF RecordsTypeOK
<1> QED BY <1>1, <1>2, <1>3, <1>5, <1>6, <1>9 DEF e

LEMMA StructureInit == RecordsInit => StructureInv
BY DEF RecordsInit, StructureInv

LEMMA StructureStep ==
    ASSUME RecordsAssumption, RecordsTypeOK, HistoryInv, StructureInv, [RecordsNext]_recordVars
    PROVE  StructureInv'
<1>1. /\ Ends(shape) \subseteq Eps /\ Reports(shape) \in Nat
      /\ \A e \in Ends(shape) : e \in Nat
  BY EndsOfDevice DEF RecordsAssumption, RecordsTypeOK
<1>2. CASE ClearEndpoints
  <2>1. order' = <<>> /\ types' = None /\ parts' = None /\ shape' = shape /\ newest' = 0 /\ told' = FALSE
    BY <1>2 DEF ClearEndpoints
  <2>2. ToSet(<<>>) = {} /\ \A e \in Eps : None[e] = <<>>
    BY DEF ToSet, None
  <2>3. Within'
    BY <1>1, <2>1, <2>2 DEF Within
  <2> QED BY <2>1, <2>3 DEF StructureInv
<1>3. CASE NotSent
  BY <1>3, ParentsRightKept DEF NotSent, record, StructureInv, Within, Covers
<1>4. ASSUME NEW r \in Reads, Interrogate(r)
      PROVE  StructureInv'
  <2>1. /\ reads'[r] = 0 /\ newest' = r /\ told' = told /\ ~told /\ steady' = steady
        /\ UNCHANGED <<shape, order, parts, types>>
    BY <1>4 DEF Interrogate, record, RecordsTypeOK, HistoryInv
  <2>2. Covers(0)'
    BY <1>1, <2>1 DEF Covers
  <2>3. Covers(reads[newest])'
    BY <2>1, <2>2
  <2> QED BY <2>1, <2>3 DEF StructureInv, Within
<1>5. ASSUME NEW r \in Reads, ReportTypes(r), steady
      PROVE  StructureInv'
  <2>1. Within
    BY <1>5 DEF StructureInv
  <2>2. PICK e \in Ends(shape) :
          /\ reads[r] = 2 * e /\ reads' = [reads EXCEPT ![r] = 2 * e + 1]
          /\ ToSet(order)' = ToSet(order) \union {e}
          /\ \A c \in Eps : types'[c] = IF c = e THEN shape.types[c] ELSE types[c]
          /\ UNCHANGED <<shape, parts, parent, newest, told, steady>>
    BY <1>5, <2>1, TypesReported
  <2>3. Within'
    BY <1>1, <2>1, <2>2 DEF Within
  <2>4. ASSUME NEW k \in Int, Covers(k)
        PROVE  Covers(k)'
    BY <1>1, <2>2, <2>4 DEF Covers
  <2>5. Covers(2 * e) => Covers(2 * e + 1)'
    BY <1>1, <2>2 DEF Covers
  <2>6. told => Covers(Reports(shape))' /\ ParentsRight'
    <3>1. PICK k \in Int : k = Reports(shape)
      BY <1>1
    <3>2. told => Covers(k) /\ ParentsRight
      BY <1>5, <3>1 DEF StructureInv
    <3> QED BY <2>2, <2>4, <3>1, <3>2, ParentsRightKept
  <2>7. newest # 0 => Covers(reads[newest])'
    <3> SUFFICES ASSUME newest # 0 PROVE Covers(reads[newest])'
      OBVIOUS
    <3>1. PICK k : k = reads[newest]
      OBVIOUS
    <3>2. Covers(k) /\ newest \in Reads /\ k \in Int
      BY <1>5, <3>1 DEF StructureInv, RecordsTypeOK, Closed
    <3>3. CASE newest = r
      <4>1. k = 2 * e /\ (reads[newest])' = 2 * e + 1
        BY <2>2, <3>1, <3>2, <3>3 DEF RecordsTypeOK
      <4> QED BY <2>5, <3>2, <4>1
    <3>4. CASE newest # r
      <4>1. (reads[newest])' = k
        BY <2>2, <3>1, <3>2, <3>4 DEF RecordsTypeOK
      <4> QED BY <2>4, <3>2, <4>1
    <3> QED BY <3>3, <3>4
  <2> QED BY <2>2, <2>3, <2>6, <2>7 DEF StructureInv
<1>6. ASSUME NEW r \in Reads, ReportParts(r), steady
      PROVE  StructureInv'
  <2>1. Within
    BY <1>6 DEF StructureInv
  <2>2. PICK e \in Ends(shape) :
          /\ reads[r] = 2 * e + 1 /\ reads' = [reads EXCEPT ![r] = 2 * e + 2]
          /\ ToSet(order)' = ToSet(order) \union ToSet(shape.parts[e])
          /\ ToSet(shape.parts[e]) \subseteq Ends(shape)
          /\ \A c \in Eps : parts'[c] = IF c = e /\ e \in ToSet(order) THEN shape.parts[c] ELSE parts[c]
          /\ UNCHANGED <<shape, types, parent, newest, told, steady>>
    BY <1>6, <2>1, PartsReported
  <2>3. Within'
    BY <1>1, <2>1, <2>2 DEF Within
  <2>4. ASSUME NEW k \in Int, Covers(k)
        PROVE  Covers(k)'
    BY <1>1, <2>2, <2>4 DEF Covers
  <2>5. Covers(2 * e + 1) => Covers(2 * e + 2)'
    BY <1>1, <2>2 DEF Covers
  <2>6. told => Covers(Reports(shape))' /\ ParentsRight'
    <3>1. PICK k \in Int : k = Reports(shape)
      BY <1>1
    <3>2. told => Covers(k) /\ ParentsRight
      BY <1>6, <3>1 DEF StructureInv
    <3> QED BY <2>2, <2>4, <3>1, <3>2, ParentsRightKept
  <2>7. newest # 0 => Covers(reads[newest])'
    <3> SUFFICES ASSUME newest # 0 PROVE Covers(reads[newest])'
      OBVIOUS
    <3>1. PICK k : k = reads[newest]
      OBVIOUS
    <3>2. Covers(k) /\ newest \in Reads /\ k \in Int
      BY <1>6, <3>1 DEF StructureInv, RecordsTypeOK, Closed
    <3>3. CASE newest = r
      <4>1. k = 2 * e + 1 /\ (reads[newest])' = 2 * e + 2
        BY <2>2, <3>1, <3>2, <3>3 DEF RecordsTypeOK
      <4> QED BY <2>5, <3>2, <4>1
    <3>4. CASE newest # r
      <4>1. (reads[newest])' = k
        BY <2>2, <3>1, <3>2, <3>4 DEF RecordsTypeOK
      <4> QED BY <2>4, <3>2, <4>1
    <3> QED BY <3>3, <3>4
  <2> QED BY <2>2, <2>3, <2>6, <2>7 DEF StructureInv
<1>7. ASSUME NEW r \in Reads, Finish(r), steady
      PROVE  StructureInv'
  <2>1. Within /\ (newest # 0 => Covers(reads[newest])) /\ (told => Covers(Reports(shape)))
    BY <1>7 DEF StructureInv
  <2>2. /\ reads' = [reads EXCEPT ![r] = Closed]
        /\ parent' = [e \in Eps |-> IF Contains(order, e) THEN Parent(order, parts, e) ELSE NoParent]
        /\ told' => told \/ (r = newest /\ reads[r] = Reports(shape))
        /\ newest' = IF r = newest THEN 0 ELSE newest
        /\ UNCHANGED <<shape, order, parts, types, steady>>
    BY <1>7 DEF Finish
  <2>3. Within'
    BY <2>1, <2>2 DEF Within
  <2>4. told' => Covers(Reports(shape))
    BY <2>1, <2>2 DEF Reads
  <2>5. told' => Covers(Reports(shape))'
    BY <2>2, <2>4 DEF Covers
  <2>6. told' => ParentsRight'
    <3> SUFFICES ASSUME told', NEW e \in Ends(shape) PROVE IsBelow(e, parent'[e])
      BY <2>2 DEF ParentsRight, IsBelow, NamedDirectly
    <3>1. e \in Eps /\ Contains(order, e) /\ IsBelow(e, Parent(order, parts, e))
      BY <1>1, <2>1, <2>4, ParentIsAbove
    <3> QED BY <2>2, <3>1
  <2>7. newest' # 0 => Covers(reads[newest])'
    <3> SUFFICES ASSUME newest' # 0 PROVE Covers(reads[newest])'
      OBVIOUS
    <3>1. newest' = newest /\ newest # r /\ newest \in Reads /\ (reads[newest])' = reads[newest]
      BY <2>2 DEF RecordsTypeOK
    <3> QED BY <2>1, <2>2, <3>1 DEF Covers
  <2> QED BY <2>2, <2>3, <2>5, <2>6, <2>7 DEF StructureInv
<1>8. ASSUME NEW r \in Reads, Lost(r)
      PROVE  StructureInv'
  <2>1. /\ reads' = [reads EXCEPT ![r] = Closed] /\ newest' = IF r = newest THEN 0 ELSE newest
        /\ UNCHANGED <<shape, order, parts, types, parent, told, steady>>
    BY <1>8 DEF Lost, record
  <2>2. newest' # 0 => newest' = newest /\ reads'[newest] = reads[newest]
    BY <2>1 DEF RecordsTypeOK
  <2> QED BY <2>1, <2>2, ParentsRightKept DEF StructureInv, Within, Covers
<1>9. ASSUME NEW s \in Later, ChangeShape(s)
      PROVE  StructureInv'
  BY <1>9 DEF ChangeShape, StructureInv
<1>10. CASE ~steady /\ steady' = steady
  BY <1>10 DEF StructureInv
<1>11. CASE UNCHANGED recordVars
  BY <1>11, ParentsRightKept DEF recordVars, record, StructureInv, Within, Covers
<1>12. ASSUME NEW r \in Reads, ReportTypes(r) \/ ReportParts(r) \/ Finish(r)
       PROVE  steady' = steady
  BY <1>12 DEF ReportTypes, ReportParts, Finish
<1> QED BY <1>2, <1>3, <1>4, <1>5, <1>6, <1>7, <1>8, <1>9, <1>10, <1>11, <1>12 DEF RecordsNext

LEMMA RecordedIsTrue ==
    ASSUME RecordsAssumption, RecordsTypeOK, StructureInv
    PROVE  StructureIsTrue
<1> SUFFICES ASSUME told, steady PROVE StructureIsTrue
  BY DEF StructureIsTrue
<1>1. Within /\ Covers(Reports(shape)) /\ ParentsRight
  BY DEF StructureInv
<1>2. /\ Reports(shape) \in Nat
      /\ \A e \in Ends(shape) : e \in Nat /\ 2 * e + 1 < Reports(shape)
  BY EndsOfDevice DEF RecordsTypeOK, RecordsAssumption
<1>3. \A e \in Ends(shape) : 2 * e < Reports(shape)
  BY <1>2
<1> QED BY <1>1, <1>3 DEF StructureIsTrue, Within, Covers, ParentsRight

\* A complete re-interview leaves the device's endpoints in the record and no others,
\* with their types and each below an endpoint it is part of, for every device and
\* whatever other reads report meanwhile: every report is of the same device, and adds
\* what is there already or what the newest read is yet to tell.
THEOREM StructureRight == RecordsSpec => []StructureIsTrue
<1> USE RecordsAssumption
<1>1. RecordsInit => RecordsTypeOK /\ HistoryInv /\ StructureInv
  BY RecordsTypeInit, HistoryInit, StructureInit
<1>2. RecordsTypeOK /\ HistoryInv /\ StructureInv /\ [RecordsNext]_recordVars
        => (RecordsTypeOK /\ HistoryInv /\ StructureInv)'
  BY RecordsTypeStep, HistoryStep, StructureStep
<1>3. RecordsTypeOK /\ StructureInv => StructureIsTrue
  BY RecordedIsTrue
<1> QED BY <1>1, <1>2, <1>3, PTL DEF RecordsSpec

-----------------------------------------------------------------------------
(* The type                                                                *)

\* Types are pending only while a read is open.
PendingInv == (\A r \in Reads : reads[r] <= 0) => pending = None

\* The types that k reports of a read tell.
TypesTold(k) ==
    [e \in Eps |-> IF e \in Ends(shape) /\ 2 * e < k THEN shape.types[e] ELSE <<>>]

AloneInv ==
    alone =>
        /\ IF clearing THEN OpenReads = {} ELSE OpenReads \subseteq {newest}
        /\ newest # 0 => pending = TypesTold(reads[newest])
        /\ told /\ steady => primary = Primary(shape.types)

LEMMA TypeInit == RecordsInit => PendingInv /\ AloneInv
BY DEF RecordsInit, PendingInv, AloneInv

LEMMA PendingStep ==
    ASSUME RecordsAssumption, RecordsTypeOK, PendingInv, [RecordsNext]_recordVars
    PROVE  PendingInv'
<1>1. CASE ClearEndpoints
  BY <1>1 DEF ClearEndpoints, PendingInv
<1>2. CASE NotSent
  BY <1>2 DEF NotSent, PendingInv
<1>3. ASSUME NEW r \in Reads, Interrogate(r)
      PROVE  PendingInv'
  <2>1. reads[r] = Closed /\ reads' = [reads EXCEPT ![r] = 0] /\ pending' = pending
    BY <1>3 DEF Interrogate, OpenReads
  <2> QED BY <2>1 DEF PendingInv, RecordsTypeOK, Closed
<1>4. ASSUME NEW r \in Reads, ReportTypes(r) \/ ReportParts(r)
      PROVE  PendingInv'
  <2>1. reads[r] \in Nat /\ reads' = [reads EXCEPT ![r] = @ + 1]
    BY <1>4, ReportedEndpoint DEF ReportTypes, ReportParts, Progress
  <2>2. reads'[r] \in Nat /\ reads'[r] > 0
    BY <2>1 DEF RecordsTypeOK
  <2> QED BY <2>2 DEF PendingInv
<1>5. ASSUME NEW r \in Reads, Finish(r)
      PROVE  PendingInv'
  BY <1>5 DEF Finish, ChooseType, PendingInv
<1>6. ASSUME NEW r \in Reads, Lost(r)
      PROVE  PendingInv'
  <2>1. reads[r] = 0 /\ reads' = [reads EXCEPT ![r] = Closed] /\ pending' = pending
    BY <1>6 DEF Lost
  <2> QED BY <2>1 DEF PendingInv, RecordsTypeOK, Closed
<1>7. ASSUME NEW s \in Later, ChangeShape(s)
      PROVE  PendingInv'
  BY <1>7 DEF ChangeShape, PendingInv
<1>8. CASE UNCHANGED recordVars
  BY <1>8 DEF recordVars, PendingInv
<1> QED BY <1>1, <1>2, <1>3, <1>4, <1>5, <1>6, <1>7, <1>8 DEF RecordsNext

LEMMA AloneStep ==
    ASSUME RecordsAssumption, RecordsTypeOK, HistoryInv, PendingInv, AloneInv, [RecordsNext]_recordVars
    PROVE  AloneInv'
<1>1. /\ Ends(shape) \subseteq Eps /\ Reports(shape) \in Nat
      /\ \A e \in Eps : e \in Nat
      /\ \A e \in Ends(shape) : shape.types[e] \in Seq(DeviceTypes)
  <2>1. /\ Ends(shape) \subseteq Eps /\ Reports(shape) \in Nat
    BY EndsOfDevice DEF RecordsAssumption, RecordsTypeOK
  <2>2. \A e \in Eps : e \in Nat
    BY DEF Eps
  <2>3. \A e \in Ends(shape) : shape.types[e] \in Seq(DeviceTypes)
    BY ListsOfDevice
  <2> QED BY <2>1, <2>2, <2>3
<1>2. CASE ClearEndpoints
  BY <1>2 DEF ClearEndpoints, AloneInv, OpenReads
<1>3. CASE NotSent
  BY <1>3 DEF NotSent, record, AloneInv, HistoryInv, OpenReads, TypesTold
<1>4. ASSUME NEW r \in Reads, Interrogate(r), alone
      PROVE  AloneInv'
  <2>1. /\ clearing /\ ~clearing' /\ reads' = [reads EXCEPT ![r] = 0] /\ newest' = r /\ told' = told
        /\ UNCHANGED <<shape, pending>>
    BY <1>4 DEF Interrogate
  <2>2. OpenReads = {} /\ ~told
    BY <1>4, <2>1 DEF AloneInv, HistoryInv
  <2>3. \A q \in Reads : reads[q] = Closed
    BY <2>2 DEF OpenReads
  <2>4. pending = None
    BY <2>3 DEF PendingInv, Closed
  <2>5. OpenReads' \subseteq {r} /\ (reads[newest])' = 0
    BY <2>1, <2>3 DEF OpenReads, RecordsTypeOK
  <2>6. TypesTold(0)' = None
    BY <1>1, <2>1 DEF TypesTold, None
  <2> QED BY <2>1, <2>2, <2>4, <2>5, <2>6 DEF AloneInv
<1>5. ASSUME NEW r \in Reads, ReportTypes(r), alone
      PROVE  AloneInv'
  <2>1. r = newest /\ r # 0 /\ ~clearing /\ ~told /\ r \in OpenReads
    BY <1>5 DEF ReportTypes, AloneInv, HistoryInv, Reads
  <2>2. PICK e \in Ends(shape) :
          /\ reads[r] = 2 * e /\ reads' = [reads EXCEPT ![r] = 2 * e + 1]
          /\ pending' = [pending EXCEPT ![e] = @ \o shape.types[e]]
          /\ UNCHANGED <<shape, newest, told, clearing>>
    BY <1>5, ReportedEndpoint DEF ReportTypes, Progress
  <2>3. pending = TypesTold(2 * e)
    BY <1>5, <2>1, <2>2 DEF AloneInv
  <2>4. pending[e] = <<>> /\ pending[e] \o shape.types[e] = shape.types[e]
    <3>1. pending[e] = <<>>
      BY <1>1, <2>3 DEF TypesTold
    <3> QED BY <1>1, <3>1
  <2>5. pending' = TypesTold(2 * e + 1)
    <3>1. pending' = [c \in Eps |-> IF c = e THEN shape.types[e] ELSE pending[c]]
      BY <2>2, <2>4 DEF RecordsTypeOK
    <3>2. ASSUME NEW c \in Eps
          PROVE  pending'[c] = TypesTold(2 * e + 1)[c]
      <4>1. c \in Nat /\ e \in Nat /\ (2 * c < 2 * e + 1 <=> 2 * c < 2 * e \/ c = e)
        BY <1>1
      <4> QED BY <2>3, <3>1, <4>1 DEF TypesTold
    <3> QED BY <3>1, <3>2 DEF TypesTold
  <2>6. OpenReads' = OpenReads /\ (reads[newest])' = 2 * e + 1
    <3>1. 2 * e + 1 # Closed /\ reads \in [Reads -> Closed..Reports(shape)]
      BY <1>1 DEF RecordsTypeOK, Closed
    <3> QED BY <2>1, <2>2, <3>1 DEF OpenReads
  <2>7. TypesTold(2 * e + 1)' = TypesTold(2 * e + 1)
    BY <2>2 DEF TypesTold
  <2> QED BY <1>5, <2>1, <2>2, <2>5, <2>6, <2>7 DEF AloneInv
<1>6. ASSUME NEW r \in Reads, ReportParts(r), alone
      PROVE  AloneInv'
  <2>1. r = newest /\ r # 0 /\ ~clearing /\ ~told /\ r \in OpenReads
    BY <1>6 DEF ReportParts, AloneInv, HistoryInv, Reads
  <2>2. PICK e \in Ends(shape) :
          /\ reads[r] = 2 * e + 1 /\ reads' = [reads EXCEPT ![r] = @ + 1]
          /\ UNCHANGED <<shape, newest, told, clearing, pending>>
    BY <1>6, ReportedEndpoint DEF ReportParts, Progress
  <2>3. pending = TypesTold(2 * e + 1)
    BY <1>6, <2>1, <2>2 DEF AloneInv
  <2>4. TypesTold(2 * e + 2)' = TypesTold(2 * e + 1)
    BY <1>1, <2>2 DEF TypesTold
  <2>5. OpenReads' = OpenReads /\ (reads[newest])' = 2 * e + 2
    BY <1>1, <2>1, <2>2 DEF OpenReads, RecordsTypeOK, Closed
  <2> QED BY <1>6, <2>1, <2>2, <2>3, <2>4, <2>5 DEF AloneInv
<1>7. ASSUME NEW r \in Reads, Finish(r), alone
      PROVE  AloneInv'
  <2>1. r = newest /\ r # 0 /\ ~clearing /\ ~told /\ OpenReads \subseteq {r}
    BY <1>7 DEF Finish, AloneInv, HistoryInv, Reads
  <2>2. /\ reads' = [reads EXCEPT ![r] = Closed] /\ newest' = 0 /\ primary' = Primary(pending)
        /\ told' => reads[r] = Reports(shape)
        /\ UNCHANGED <<shape, clearing>>
    BY <1>7, <2>1 DEF Finish, ChooseType
  <2>3. OpenReads' = {}
    BY <2>1, <2>2 DEF OpenReads, RecordsTypeOK
  <2>4. ASSUME told'
        PROVE  primary' = Primary(shape.types)
    <3>1. pending = TypesTold(Reports(shape))
      BY <1>7, <2>1, <2>2, <2>4 DEF AloneInv
    <3>2. /\ DOMAIN pending = Eps /\ DOMAIN shape.types = Ends(shape)
          /\ \A e \in Ends(shape) : pending[e] = shape.types[e]
          /\ \A e \in Eps \ Ends(shape) : pending[e] = <<>>
      <4>1. \A e \in Ends(shape) : 2 * e + 1 < Reports(shape)
        BY EndsOfDevice DEF RecordsAssumption, RecordsTypeOK
      <4> QED BY <1>1, <3>1, <4>1 DEF TypesTold, RecordsTypeOK, IsDevice
    <3>3. Primary(pending) = Primary(shape.types)
      <4> DEFINE own == shape.types
      <4>1. /\ DOMAIN pending \subseteq Nat /\ DOMAIN own \subseteq DOMAIN pending
            /\ \A e \in DOMAIN own : pending[e] = own[e]
            /\ \A e \in DOMAIN pending \ DOMAIN own : pending[e] = <<>>
        BY <1>1, <3>2
      <4> HIDE DEF own
      <4>2. Primary(pending) = Primary(own)
        BY <4>1, PrimaryOfReported
      <4> QED BY <4>2 DEF own
    <3> QED BY <2>2, <3>3
  <2> QED BY <2>1, <2>2, <2>3, <2>4 DEF AloneInv
<1>8. ASSUME NEW r \in Reads, Lost(r), alone
      PROVE  AloneInv'
  <2>1. /\ reads' = [reads EXCEPT ![r] = Closed] /\ newest' = IF r = newest THEN 0 ELSE newest
        /\ UNCHANGED <<shape, primary, pending, told, steady, clearing, alone>>
        /\ r \in OpenReads
    BY <1>8 DEF Lost, record, OpenReads, Closed
  <2>2. r = newest /\ OpenReads \subseteq {r} /\ ~clearing
    BY <1>8, <2>1 DEF AloneInv
  <2>3. OpenReads' = {} /\ newest' = 0
    BY <2>1, <2>2 DEF OpenReads, RecordsTypeOK
  <2> QED BY <1>8, <2>1, <2>2, <2>3 DEF AloneInv
<1>9. ASSUME NEW s \in Later, ChangeShape(s), alone
      PROVE  AloneInv'
  <2>1. OpenReads = {} /\ OpenReads' = OpenReads /\ newest' = newest /\ ~steady'
    BY <1>9 DEF ChangeShape, OpenReads
  <2>2. newest = 0
    BY <2>1 DEF HistoryInv
  <2> QED BY <2>1, <2>2 DEF AloneInv
<1>10. CASE ~alone /\ alone' = alone
  BY <1>10 DEF AloneInv
<1>11. CASE UNCHANGED recordVars
  BY <1>11 DEF recordVars, record, AloneInv, OpenReads, TypesTold
<1>12. ASSUME NEW r \in Reads, Interrogate(r) \/ ReportTypes(r) \/ ReportParts(r) \/ Finish(r) \/ Lost(r)
       PROVE  alone' = alone
  BY <1>12 DEF Interrogate, ReportTypes, ReportParts, Finish, Lost
<1>13. ASSUME NEW s \in Later, ChangeShape(s)
       PROVE  alone' = alone
  BY <1>13 DEF ChangeShape
<1> QED BY <1>2, <1>3, <1>4, <1>5, <1>6, <1>7, <1>8, <1>9, <1>10, <1>11, <1>12, <1>13 DEF RecordsNext

RecordsInv == RecordsTypeOK /\ HistoryInv /\ StructureInv /\ PendingInv /\ AloneInv

\* If no other read was open, the record has the type of the device as well, and a
\* request is sent to an endpoint that can be switched exactly if the device has one:
\* what s_pending_types has at the end of the read is what the device told, no more.
THEOREM TypeRight == RecordsSpec => []TypeIsTrue
<1> USE RecordsAssumption
<1>1. RecordsInit => RecordsInv
  BY RecordsTypeInit, HistoryInit, StructureInit, TypeInit DEF RecordsInv
<1>2. RecordsInv /\ [RecordsNext]_recordVars => RecordsInv'
  BY RecordsTypeStep, HistoryStep, StructureStep, PendingStep, AloneStep DEF RecordsInv
<1>3. RecordsInv => TypeIsTrue
  <2> SUFFICES ASSUME RecordsInv, told, steady, alone PROVE TypeIsTrue
    BY DEF TypeIsTrue
  <2>1. primary = Primary(shape.types)
    BY DEF RecordsInv, AloneInv
  <2>2. ToSet(order) = Ends(shape) /\ \A e \in Ends(shape) : types[e] = shape.types[e]
    BY RecordedIsTrue DEF RecordsInv, StructureIsTrue
  <2> DEFINE lamp == FirstWith(order, types, OnOffTypes)
             lamps == {e \in Ends(shape) : ToSet(shape.types[e]) \intersect OnOffTypes # {}}
             having == {e \in ToSet(order) : ToSet(types[e]) \intersect OnOffTypes # {}}
  <2>3. having = lamps
    BY <2>2
  <2>4. IF having = {} THEN lamp = NoParent ELSE lamp \in having
    <3>1. order \in Seq(Eps)
      BY DEF RecordsInv, RecordsTypeOK
    <3> QED BY <3>1, FirstWithFinds
  <2>5. IF lamps = {} THEN lamp = NoParent ELSE lamp \in lamps
    <3> HIDE DEF having, lamps, lamp
    <3> QED BY <2>3, <2>4
  <2> QED BY <2>1, <2>5 DEF TypeIsTrue
<1> QED BY <1>1, <1>2, <1>3, PTL DEF RecordsSpec

=============================================================================
