------------------------ MODULE CommissioningProofs ------------------------
(***************************************************************************)
(* Proofs about Commissioning, for any number of node ids, any capacity of *)
(* the node list and any number of open interrogations.                    *)
(*                                                                         *)
(* The invariants follow the node id of an attempt.  While it is not on    *)
(* the fabric, and the KVS has not failed, it is at one place only: in the *)
(* handler, in the discovery or in the pairing (Busy, Whereabouts).  A     *)
(* fresh attempt has the result semaphore to itself (FreshResult).  What   *)
(* is reported, deleted or answered is followed back through the handler   *)
(* that will say so (Recorded, Erased, Interviewed).                       *)
(***************************************************************************)
EXTENDS Commissioning, FiniteSetTheorems, TLAPS

Used == joined \union left

\* Discovery and pairing go on under the delegate, one after the other.
Busy ==
    /\ pairing # NoId => delegate /\ seeking = NoId
    /\ seeking # NoId => delegate

\* Ids are given out in order, and the one of an attempt that has not ended is on
\* its way to a device through discovery and pairing, at one place at a time.
Whereabouts ==
    ~kvsFailed =>
        /\ \A id \in Used \union ({seeking, pairing} \ {NoId}) : id < nextId
        /\ seeking \notin Used /\ pairing \notin Used
        /\ pc = "attempt" => cur < nextId /\ cur \notin Used \union {seeking, pairing}

\* The result a fresh attempt waits for can only be its own.
FreshResult ==
    fresh =>
        /\ pc = "attempt" => ~delegate /\ outcome = "none"
        /\ pc = "awaiting" =>
              /\ seeking \in {NoId, cur} /\ pairing \in {NoId, cur}
              /\ outcome = "success" => cur \in Used
        /\ Succeeded => cur \in Used

\* Which handler is where.
Places ==
    /\ pc \in {"unpairing", "unpaired", "erasing"} => job = "delete"
    /\ pc \in {"attempt", "awaiting", "succeeded", "listed", "adding"} => job = "commission"

\* A device that is in RAM, in the file and in what may yet replace the file; or in
\* none of them.
Held(id) ==
    /\ records[id] # "none" /\ saved[id] # "none"
    /\ chip # NoId => draft["chip"][id] # "none"
    /\ pc \in {"adding", "erasing"} => draft["httpd"][id] # "none"
Away(id) ==
    /\ records[id] = "none" /\ saved[id] = "none"
    /\ chip # NoId => draft["chip"][id] = "none"
    /\ pc \in {"adding", "erasing"} => draft["httpd"][id] = "none"

\* A handler that will report a device, and was not disturbed, has recorded it.
Recorded ==
    /\ \A id \in known : Held(id)
    /\ pc = "adding" /\ calm =>
          /\ records[cur] # "none" /\ draft["httpd"][cur] # "none"
          /\ chip # NoId => draft["chip"][cur] # "none"
    /\ job = "commission" /\ calm /\ pc \in {"draining", "asking", "describing", "answered"} =>
          Held(cur)

\* Deleted ids are not recorded, and the one about to be recorded is not among them.
Erased ==
    /\ \A id \in deleted : Away(id)
    /\ pc = "erasing" /\ calm =>
          /\ records[cur] = "none" /\ draft["httpd"][cur] = "none"
          /\ chip # NoId => draft["chip"][cur] = "none"
    /\ pc \in {"attempt", "awaiting", "succeeded", "listed"} => cur \notin deleted

\* The only interrogation during a re-interview begun alone is its own, and its
\* semaphore is given after that one has been saved.
Interviewed ==
    job = "interview" /\ fresh =>
        /\ pc \in {"draining", "asking", "answered"} => chip = NoId /\ \A id \in Ids : reads[id] = 0
        /\ pc = "asking" => ~isem
        /\ pc = "describing" =>
              /\ chip \in {NoId, cur}
              /\ \A id \in Ids \ {cur} : reads[id] = 0
              /\ reads[cur] \in {0, 1}
              /\ chip # NoId => reads[cur] = 0 /\ draft["chip"][cur] = records[cur]
              /\ isem => chip = NoId /\ reads[cur] = 0 /\ saved[cur] = records[cur]
        /\ pc = "answered" => saved[cur] = records[cur]

\* A device that has carried RemoveFabric out is a former one.
Gone == \A id \in Ids : unpairs[id] = "left" => id \in left

IInv ==
    TypeOK /\ Busy /\ Whereabouts /\ FreshResult /\ Places /\ Recorded /\ Erased /\ Interviewed /\ Gone

-----------------------------------------------------------------------------
(* Types: one part of TypeOK for each group of variables                   *)

KvsTypes ==
    /\ nextId \in 1..(MaxIds + 1)
    /\ nodeList \subseteq Ids /\ Cardinality(nodeList) <= MaxNodes
    /\ kvsFailed \in BOOLEAN
FilesTypes ==
    /\ records \in [Ids -> Levels] /\ saved \in [Ids -> Levels]
    /\ draft \in [{"httpd", "chip"} -> [Ids -> Levels]]
    /\ canvas \subseteq Ids
HttpdTypes ==
    /\ pc \in Labels /\ job \in Jobs /\ cur \in IF pc = "idle" THEN {NoId} ELSE Ids
    /\ fresh \in BOOLEAN /\ calm \in BOOLEAN /\ known \subseteq Ids /\ deleted \subseteq Ids
PairingTypes ==
    /\ outcome \in {"none", "success", "failure"} /\ delegate \in BOOLEAN
    /\ seeking \in Ids \union {NoId} /\ pairing \in Ids \union {NoId}
InterviewTypes ==
    /\ isem \in BOOLEAN /\ reads \in [Ids -> 0..MaxOpen] /\ chip \in Ids \union {NoId}
RemovalTypes ==
    /\ rsem \in {"gone", "live", "given"}
    /\ unpairs \in [Ids -> {"none", "sent", "left"}]
FabricTypes == joined \subseteq Ids /\ left \subseteq Ids

LEMMA Parts ==
    TypeOK <=> /\ KvsTypes /\ FilesTypes /\ HttpdTypes /\ PairingTypes
               /\ InterviewTypes /\ RemovalTypes /\ FabricTypes
BY DEF TypeOK, KvsTypes, FilesTypes, HttpdTypes, PairingTypes, InterviewTypes, RemovalTypes,
       FabricTypes

LEMMA PartsNext ==
    /\ KvsTypes' /\ FilesTypes' /\ HttpdTypes' /\ PairingTypes'
    /\ InterviewTypes' /\ RemovalTypes' /\ FabricTypes'
    => TypeOK'
BY Parts, PTL

\* A group of variables that a step leaves alone keeps its types.
LEMMA PartsKept ==
    ASSUME TypeOK
    PROVE  /\ UNCHANGED kvs => KvsTypes'
           /\ UNCHANGED files => FilesTypes'
           /\ UNCHANGED httpd => HttpdTypes'
           /\ UNCHANGED pairingVars => PairingTypes'
           /\ UNCHANGED interviewVars => InterviewTypes'
           /\ UNCHANGED removalVars => RemovalTypes'
           /\ UNCHANGED fabric => FabricTypes'
<1>1. UNCHANGED kvs => KvsTypes'
    BY Parts DEF KvsTypes, kvs
<1>2. UNCHANGED files => FilesTypes'
    BY Parts DEF FilesTypes, files
<1>3. UNCHANGED httpd => HttpdTypes'
    BY Parts DEF HttpdTypes, httpd
<1>4. UNCHANGED pairingVars => PairingTypes'
    BY Parts DEF PairingTypes, pairingVars
<1>5. UNCHANGED interviewVars => InterviewTypes'
    BY Parts DEF InterviewTypes, interviewVars
<1>6. UNCHANGED removalVars => RemovalTypes'
    BY Parts DEF RemovalTypes, removalVars
<1>7. UNCHANGED fabric => FabricTypes'
    BY Parts DEF FabricTypes, fabric
<1>8. QED
    BY <1>1, <1>2, <1>3, <1>4, <1>5, <1>6, <1>7

LEMMA IdsFinite == IsFiniteSet(Ids)
BY CommissioningAssumption, FS_Interval DEF Ids

LEMMA NoReads == [id \in Ids |-> 0] \in [Ids -> 0..MaxOpen]
<1>1. 0 \in 0..MaxOpen
    BY CommissioningAssumption
<1>2. QED
    BY <1>1

LEMMA NoDraftsType == NoDrafts \in [{"httpd", "chip"} -> [Ids -> Levels]]
BY DEF NoDrafts, Nothing, Levels

LEMMA InitTypeOK == Init => TypeOK
<1> SUFFICES ASSUME Init PROVE TypeOK
    OBVIOUS
<1>1. KvsTypes
  <2>1. Cardinality({}) = 0
    BY FS_EmptySet
  <2>2. kvsFailed \in BOOLEAN
    BY DEF Init
  <2>3. QED
    BY <2>1, <2>2, CommissioningAssumption DEF Init, KvsTypes
<1>2. FilesTypes
    BY NoDraftsType DEF Init, FilesTypes, Nothing, Levels
<1>3. HttpdTypes
    BY DEF Init, HttpdTypes, Labels, Jobs
<1>4. PairingTypes /\ FabricTypes
    BY DEF Init, PairingTypes, FabricTypes
<1>5. InterviewTypes
    BY NoReads DEF Init, InterviewTypes
<1>6. RemovalTypes
    BY DEF Init, RemovalTypes, Nothing
<1>7. QED
    BY <1>1, <1>2, <1>3, <1>4, <1>5, <1>6, Parts

\* Listing a node keeps the list within its capacity, striking one keeps it finite.
LEMMA ListBounded ==
    ASSUME TypeOK, NEW id \in Ids
    PROVE  /\ IsFiniteSet(nodeList)
           /\ Cardinality(nodeList \ {id}) <= MaxNodes
           /\ Cardinality(nodeList) < MaxNodes => Cardinality(nodeList \union {id}) <= MaxNodes
           /\ Cardinality({}) < MaxNodes => Cardinality({} \union {id}) <= MaxNodes
<1>1. IsFiniteSet(nodeList)
    BY IdsFinite, FS_Subset DEF TypeOK
<1>2. Cardinality(nodeList) \in Nat /\ Cardinality(nodeList) <= MaxNodes
    BY <1>1, FS_CardinalityType DEF TypeOK
<1>3. /\ Cardinality(nodeList \ {id}) \in {Cardinality(nodeList), Cardinality(nodeList) - 1}
      /\ Cardinality(nodeList \union {id}) \in {Cardinality(nodeList), Cardinality(nodeList) + 1}
    BY <1>1, FS_AddElement, FS_RemoveElement
<1>4. Cardinality({}) = 0 /\ Cardinality({} \union {id}) = 1
  <2>1. IsFiniteSet({}) /\ Cardinality({}) = 0
    BY FS_EmptySet
  <2>2. Cardinality({} \union {id}) = IF id \in {} THEN Cardinality({}) ELSE Cardinality({}) + 1
    BY <2>1, FS_AddElement
  <2>3. QED
    BY <2>1, <2>2
<1>5. QED
    BY <1>1, <1>2, <1>3, <1>4, CommissioningAssumption

\* What a restart and a factory reset have in common.
LEMMA RebootTypes ==
    ASSUME TypeOK, Reboot
    PROVE  /\ FilesTypes' /\ PairingTypes' /\ InterviewTypes' /\ RemovalTypes'
           /\ known' \subseteq Ids /\ deleted' \subseteq Ids => HttpdTypes'
<1>1. FilesTypes'
    BY Parts, NoDraftsType DEF Reboot, FilesTypes
<1>2. PairingTypes'
    BY DEF Reboot, PairingTypes
<1>3. InterviewTypes'
    BY NoReads DEF Reboot, InterviewTypes
<1>4. RemovalTypes'
    BY DEF Reboot, RemovalTypes, Nothing
<1>5. known' \subseteq Ids /\ deleted' \subseteq Ids => HttpdTypes'
    BY DEF Reboot, HttpdTypes, Labels, Jobs
<1>6. QED
    BY <1>1, <1>2, <1>3, <1>4, <1>5

\* The two ways the httpd task goes on.
LEMMA MoveTypes ==
    ASSUME TypeOK, NEW from, NEW to \in Labels \ {"idle"}, from # "idle", Move(from, to)
    PROVE  HttpdTypes' /\ cur \in Ids
BY Parts DEF Move, HttpdTypes

LEMMA EnterTypes ==
    ASSUME TypeOK, NEW label \in Labels \ {"idle"}, NEW handler \in Jobs, NEW id \in Ids,
           NEW quiet \in BOOLEAN, Enter(label, handler, id, quiet)
    PROVE  HttpdTypes'
BY Parts DEF Enter, Begin, HttpdTypes

\* What the CHIP task and the devices do, the handler does not see.
LEMMA ChipFrame ==
    /\ OnDiscoveredDevice \/ PaseFails \/ OnCommissioningSuccess \/ OnCommissioningFailure =>
          UNCHANGED <<files, httpd, interviewVars, removalVars>>
    /\ \A id \in Ids : OnInterrogationAttr(id) \/ OnInterrogationDone(id) \/ InterrogationLost(id)
          => UNCHANGED <<httpd, removalVars>>
    /\ \A id \in Ids : LeaveFabric(id) => UNCHANGED <<files, httpd, interviewVars>>
    /\ \A id \in Ids : RemoveNodeCb(id) => UNCHANGED <<files, httpd, interviewVars>>
    /\ SaveInterrogated => UNCHANGED httpd
BY DEF OnDiscoveredDevice, PaseFails, OnCommissioningSuccess, OnCommissioningFailure,
       OnInterrogationAttr, OnInterrogationDone, InterrogationLost, LeaveFabric, RemoveNodeCb,
       SaveInterrogated

LEMMA NextTypeOK == TypeOK /\ [Next]_vars => TypeOK'
<1> SUFFICES ASSUME TypeOK, [Next]_vars PROVE TypeOK'
    OBVIOUS
<1> USE DEF Labels, Jobs
<1>1. CASE Attempt
  <2>1. HttpdTypes'
    BY <1>1, Parts, CommissioningAssumption
       DEF Attempt, BeginAttempt, Begin, HttpdTypes, KvsTypes, Ids
  <2>2. KvsTypes'
    BY <1>1, Parts, CommissioningAssumption DEF Attempt, BeginAttempt, KvsTypes
  <2>3. PairingTypes'
    BY <1>1, Parts DEF Attempt, PairingTypes
  <2>4. QED
    BY <1>1, <2>1, <2>2, <2>3, PartsKept, PartsNext DEF Attempt
<1>2. CASE StartPairing
  <2>1. HttpdTypes' /\ cur \in Ids
    BY <1>2, MoveTypes DEF StartPairing
  <2>2. PairingTypes'
    BY <1>2, <2>1, Parts DEF StartPairing, PairingTypes
  <2>3. QED
    BY <1>2, <2>1, <2>2, PartsKept, PartsNext DEF StartPairing
<1>3. CASE Outcome
  <2>1. HttpdTypes'
    BY <1>3, Parts DEF Outcome, Move, HttpdTypes
  <2>2. PairingTypes'
    BY <1>3, Parts DEF Outcome, PairingTypes
  <2>3. QED
    BY <1>3, <2>1, <2>2, PartsKept, PartsNext DEF Outcome
<1>4. CASE CommissionTimeout
  <2>1. HttpdTypes'
    BY <1>4, MoveTypes DEF CommissionTimeout
  <2>2. QED
    BY <1>4, <2>1, PartsKept, PartsNext DEF CommissionTimeout
<1>5. CASE ListNode
  <2>1. HttpdTypes' /\ cur \in Ids
    BY <1>5, MoveTypes DEF ListNode
  <2>2. PICK read \in BOOLEAN, written \in BOOLEAN :
             /\ nodeList' = LET list == IF read THEN nodeList ELSE {}
                            IN  IF written /\ Cardinality(list) < MaxNodes
                                THEN list \union {cur} ELSE nodeList
             /\ kvsFailed' = (kvsFailed \/ ~read \/ ~written)
             /\ UNCHANGED nextId
    BY <1>5, CommissioningAssumption DEF ListNode
  <2>3. KvsTypes'
    BY <2>1, <2>2, Parts, ListBounded DEF KvsTypes
  <2>4. QED
    BY <1>5, <2>1, <2>3, PartsKept, PartsNext DEF ListNode
<1>6. CASE AddDevice
  <2>1. cur \in Ids
    BY <1>6, Parts DEF AddDevice, ChangeRecord, HttpdTypes
  <2>2. HttpdTypes'
    BY <1>6, <2>1, Parts DEF AddDevice, ChangeRecord, HttpdTypes
  <2>3. FilesTypes'
    BY <1>6, <2>1, Parts DEF AddDevice, ChangeRecord, TakeSnapshot, FilesTypes, Levels
  <2>4. QED
    BY <1>6, <2>1, <2>2, <2>3, PartsKept, PartsNext DEF AddDevice, ChangeRecord
<1>7. CASE SaveAddition
  <2>1. HttpdTypes' /\ cur \in Ids
    BY <1>7, MoveTypes DEF SaveAddition
  <2>2. FilesTypes'
    BY <1>7, <2>1, Parts DEF SaveAddition, WriteFile, FilesTypes, Nothing, Levels
  <2>3. QED
    BY <1>7, <2>1, <2>2, PartsKept, PartsNext DEF SaveAddition
<1>8. ASSUME NEW id \in Ids, BeginInterview(id) PROVE TypeOK'
  <2>1. HttpdTypes'
    BY <1>8, Parts DEF BeginInterview, Enter, Begin, HttpdTypes
  <2>2. FilesTypes'
    BY <1>8, Parts DEF BeginInterview, FilesTypes, Levels
  <2>3. QED
    BY <1>8, <2>1, <2>2, PartsKept, PartsNext DEF BeginInterview
<1>9. CASE DrainInterview
  <2>1. HttpdTypes'
    BY <1>9, MoveTypes DEF DrainInterview
  <2>2. InterviewTypes'
    BY <1>9, Parts DEF DrainInterview, InterviewTypes
  <2>3. QED
    BY <1>9, <2>1, <2>2, PartsKept, PartsNext DEF DrainInterview
<1>10. CASE Interrogate
  <2>1. HttpdTypes' /\ cur \in Ids
    BY <1>10, MoveTypes DEF Interrogate
  <2>2. InterviewTypes'
    BY <1>10, <2>1, Parts, CommissioningAssumption DEF Interrogate, InterviewTypes
  <2>3. QED
    BY <1>10, <2>1, <2>2, PartsKept, PartsNext DEF Interrogate
<1>11. CASE Described
  <2>1. HttpdTypes'
    BY <1>11, MoveTypes DEF Described
  <2>2. InterviewTypes'
    BY <1>11, Parts DEF Described, InterviewTypes
  <2>3. QED
    BY <1>11, <2>1, <2>2, PartsKept, PartsNext DEF Described
<1>12. CASE InterviewTimeout
  <2>1. HttpdTypes'
    BY <1>12, Parts DEF InterviewTimeout, Move, HttpdTypes
  <2>2. QED
    BY <1>12, <2>1, PartsKept, PartsNext DEF InterviewTimeout
<1>13. ASSUME NEW id \in Ids, BeginRemoval(id) \/ UnpairFails(id) PROVE TypeOK'
  <2>1. HttpdTypes'
    BY <1>13, EnterTypes DEF BeginRemoval, UnpairFails
  <2>2. RemovalTypes'
    BY <1>13, Parts DEF BeginRemoval, UnpairFails, RemovalTypes
  <2>3. QED
    BY <1>13, <2>1, <2>2, PartsKept, PartsNext DEF BeginRemoval, UnpairFails
<1>14. CASE RemovalDone \/ RemovalTimeout
  <2>1. HttpdTypes'
    BY <1>14, MoveTypes DEF RemovalDone, RemovalTimeout
  <2>2. RemovalTypes'
    BY <1>14, Parts DEF RemovalDone, RemovalTimeout, RemovalTypes
  <2>3. QED
    BY <1>14, <2>1, <2>2, PartsKept, PartsNext DEF RemovalDone, RemovalTimeout
<1>15. CASE RemoveDevice
  <2>1. cur \in Ids
    BY <1>15, Parts DEF RemoveDevice, ChangeRecord, HttpdTypes
  <2>2. HttpdTypes'
    BY <1>15, <2>1, Parts DEF RemoveDevice, ChangeRecord, HttpdTypes
  <2>3. FilesTypes'
    BY <1>15, <2>1, Parts DEF RemoveDevice, ChangeRecord, TakeSnapshot, FilesTypes, Levels
  <2>4. QED
    BY <1>15, <2>1, <2>2, <2>3, PartsKept, PartsNext DEF RemoveDevice, ChangeRecord
<1>16. CASE SaveRemoval
  <2>1. HttpdTypes' /\ cur \in Ids
    BY <1>16, Parts DEF SaveRemoval, HttpdTypes
  <2>2. FilesTypes'
    BY <1>16, <2>1, Parts DEF SaveRemoval, WriteFile, FilesTypes, Nothing, Levels
  <2>3. QED
    BY <1>16, <2>1, <2>2, PartsKept, PartsNext DEF SaveRemoval
<1>17. CASE Reply
  <2>1. HttpdTypes'
    BY <1>17, Parts DEF Reply, HttpdTypes
  <2>2. QED
    BY <1>17, <2>1, PartsKept, PartsNext DEF Reply
<1>18. CASE \/ OnDiscoveredDevice \/ PaseFails
            \/ OnCommissioningSuccess \/ OnCommissioningFailure
  <2>1. PairingTypes'
    BY <1>18, Parts
       DEF OnDiscoveredDevice, PaseFails, OnCommissioningSuccess, OnCommissioningFailure, PairingTypes
  <2>2. FabricTypes'
    BY <1>18, Parts
       DEF OnDiscoveredDevice, PaseFails, OnCommissioningSuccess, OnCommissioningFailure,
           PairingTypes, FabricTypes, fabric
  <2>3. UNCHANGED kvs
    BY <1>18 DEF OnDiscoveredDevice, PaseFails, OnCommissioningSuccess, OnCommissioningFailure
  <2>4. QED
    BY <1>18, <2>1, <2>2, <2>3, ChipFrame, PartsKept, PartsNext
<1>19. ASSUME NEW id \in Ids, OnInterrogationAttr(id) PROVE TypeOK'
  <2>1. FilesTypes'
    BY <1>19, Parts DEF OnInterrogationAttr, FilesTypes, Levels
  <2>2. QED
    BY <1>19, <2>1, PartsKept, PartsNext DEF OnInterrogationAttr
<1>20. ASSUME NEW id \in Ids, OnInterrogationDone(id) PROVE TypeOK'
  <2>1. FilesTypes'
    BY <1>20, Parts DEF OnInterrogationDone, TakeSnapshot, FilesTypes
  <2>2. InterviewTypes'
    BY <1>20, Parts, CommissioningAssumption DEF OnInterrogationDone, Answers, InterviewTypes
  <2>3. QED
    BY <1>20, <2>1, <2>2, PartsKept, PartsNext DEF OnInterrogationDone
<1>21. CASE SaveInterrogated
  <2>1. FilesTypes'
    BY <1>21, Parts DEF SaveInterrogated, WriteFile, FilesTypes, InterviewTypes, Nothing, Levels
  <2>2. InterviewTypes'
    BY <1>21, Parts DEF SaveInterrogated, InterviewTypes
  <2>3. QED
    BY <1>21, <2>1, <2>2, PartsKept, PartsNext DEF SaveInterrogated
<1>22. ASSUME NEW id \in Ids, InterrogationLost(id) PROVE TypeOK'
  <2>1. InterviewTypes'
    BY <1>22, Parts, CommissioningAssumption DEF InterrogationLost, InterviewTypes
  <2>2. QED
    BY <1>22, <2>1, PartsKept, PartsNext DEF InterrogationLost
<1>23. ASSUME NEW id \in Ids, LeaveFabric(id) PROVE TypeOK'
  <2>1. RemovalTypes' /\ FabricTypes'
    BY <1>23, Parts DEF LeaveFabric, RemovalTypes, FabricTypes
  <2>2. QED
    BY <1>23, <2>1, PartsKept, PartsNext DEF LeaveFabric
<1>24. ASSUME NEW id \in Ids, RemoveNodeCb(id) PROVE TypeOK'
  <2>1. KvsTypes'
    BY <1>24, Parts, ListBounded DEF RemoveNodeCb, KvsTypes
  <2>2. RemovalTypes'
    BY <1>24, Parts DEF RemoveNodeCb, RemovalTypes
  <2>3. QED
    BY <1>24, <2>1, <2>2, PartsKept, PartsNext DEF RemoveNodeCb
<1>25. CASE Restart
  <2>1. HttpdTypes'
    BY <1>25, Parts, RebootTypes DEF Restart, HttpdTypes
  <2>2. QED
    BY <1>25, <2>1, RebootTypes, PartsKept, PartsNext DEF Restart
<1>26. CASE FactoryReset
  <2>1. HttpdTypes'
    BY <1>26, RebootTypes DEF FactoryReset
  <2>2. Cardinality({}) = 0 /\ kvsFailed' \in BOOLEAN
    BY <1>26, FS_EmptySet DEF FactoryReset
  <2>3. KvsTypes' /\ FabricTypes'
    BY <1>26, <2>2, CommissioningAssumption DEF FactoryReset, KvsTypes, FabricTypes
  <2>4. QED
    BY <1>26, <2>1, <2>3, RebootTypes, PartsNext DEF FactoryReset
<1>27. CASE UNCHANGED vars
    BY <1>27, PartsKept, PartsNext DEF vars
<1>28. QED
    BY <1>1, <1>2, <1>3, <1>4, <1>5, <1>6, <1>7, <1>8, <1>9, <1>10, <1>11, <1>12, <1>13, <1>14,
       <1>15, <1>16, <1>17, <1>18, <1>19, <1>20, <1>21, <1>22, <1>23, <1>24, <1>25, <1>26, <1>27 DEF Next, HandlerStep

\* Every variable keeps its range, and the node list its capacity.
THEOREM TypeCorrect == Spec => []TypeOK
BY InitTypeOK, NextTypeOK, PTL DEF Spec

-----------------------------------------------------------------------------
(* Node ids                                                                *)

\* The handler steps that leave ids, discovery and pairing alone.
Elsewhere ==
    \/ Outcome \/ CommissionTimeout \/ ListNode \/ AddDevice \/ SaveAddition
    \/ DrainInterview \/ Interrogate \/ Described \/ InterviewTimeout
    \/ RemovalDone \/ RemovalTimeout \/ RemoveDevice \/ SaveRemoval \/ Reply

\* The other steps that do.
Aside(id) ==
    \/ BeginInterview(id) \/ BeginRemoval(id) \/ UnpairFails(id)
    \/ OnInterrogationAttr(id) \/ OnInterrogationDone(id) \/ InterrogationLost(id)
    \/ RemoveNodeCb(id)

LEMMA ElsewhereFrame ==
    ASSUME Elsewhere
    PROVE  /\ UNCHANGED <<nextId, joined, left, delegate, seeking, pairing>>
           /\ kvsFailed => kvsFailed'
           /\ pc' # "attempt" /\ pc' # "awaiting"
<1> USE DEF Move, kvs, pairingVars, fabric
<1>1. CASE Outcome \/ CommissionTimeout \/ AddDevice \/ SaveAddition
    BY <1>1 DEF Outcome, CommissionTimeout, AddDevice, ChangeRecord, SaveAddition
<1>2. CASE ListNode
  <2>1. kvsFailed => kvsFailed'
    BY <1>2, Zenon DEF ListNode
  <2>2. QED
    BY <1>2, <2>1 DEF ListNode
<1>3. CASE DrainInterview \/ Interrogate \/ Described \/ InterviewTimeout
    BY <1>3 DEF DrainInterview, Interrogate, Described, InterviewTimeout
<1>4. CASE RemovalDone \/ RemovalTimeout \/ RemoveDevice \/ SaveRemoval \/ Reply
    BY <1>4 DEF RemovalDone, RemovalTimeout, RemoveDevice, ChangeRecord, SaveRemoval, Reply
<1>5. QED
    BY <1>1, <1>2, <1>3, <1>4 DEF Elsewhere

LEMMA AsideFrame ==
    ASSUME NEW id \in Ids, Aside(id)
    PROVE  /\ UNCHANGED <<nextId, kvsFailed, joined, left, outcome, delegate, seeking, pairing>>
           /\ \/ pc' \in {"draining", "unpairing", "unpaired"} /\ job' \in {"interview", "delete"}
              \/ UNCHANGED <<pc, job, cur, fresh>>
<1> USE DEF Enter, Begin, kvs, pairingVars, fabric, httpd
<1>1. CASE BeginInterview(id) \/ BeginRemoval(id) \/ UnpairFails(id)
    BY <1>1 DEF BeginInterview, BeginRemoval, UnpairFails
<1>2. CASE OnInterrogationAttr(id) \/ OnInterrogationDone(id) \/ InterrogationLost(id)
    BY <1>2 DEF OnInterrogationAttr, OnInterrogationDone, InterrogationLost
<1>3. CASE RemoveNodeCb(id)
    BY <1>3 DEF RemoveNodeCb
<1>4. QED
    BY <1>1, <1>2, <1>3 DEF Aside

\* The steps that the lemmas below treat one by one.
LEMMA NextCases ==
    ASSUME [Next]_vars
    PROVE  \/ Attempt \/ StartPairing \/ Elsewhere \/ \E id \in Ids : Aside(id)
           \/ OnDiscoveredDevice \/ PaseFails \/ OnCommissioningSuccess \/ OnCommissioningFailure
           \/ \E id \in Ids : LeaveFabric(id)
           \/ Restart \/ FactoryReset \/ UNCHANGED vars \/ SaveInterrogated
BY DEF Next, HandlerStep, Elsewhere, Aside

\* The handler that has just been given an id.
LEMMA AttemptBegun ==
    ASSUME Attempt
    PROVE  /\ pc = "idle" /\ pc' = "attempt" /\ job' = "commission" /\ fresh' = ~delegate
           /\ outcome' = "none" /\ UNCHANGED <<nodeList, delegate, seeking, pairing, joined, left>>
           /\ deleted' = deleted \ {cur'}
           /\ UNCHANGED <<calm, known, files, interviewVars, removalVars>>
           /\ ~kvsFailed' => ~kvsFailed /\ cur' = nextId /\ nextId' = nextId + 1
BY DEF Attempt, BeginAttempt, Begin, fabric

LEMMA InitBusy == Init => Busy
BY DEF Init, Busy

LEMMA NextBusy == Busy /\ [Next]_vars => Busy'
<1> SUFFICES ASSUME Busy, [Next]_vars PROVE Busy'
    OBVIOUS
<1> USE DEF Busy
<1>1. CASE Attempt
    BY <1>1, AttemptBegun
<1>2. CASE StartPairing
    BY <1>2 DEF StartPairing
<1>3. CASE Elsewhere
    BY <1>3, ElsewhereFrame
<1>4. ASSUME NEW id \in Ids, Aside(id) PROVE Busy'
    BY <1>4, AsideFrame
<1>5. CASE OnDiscoveredDevice \/ PaseFails \/ OnCommissioningSuccess \/ OnCommissioningFailure
    BY <1>5 DEF OnDiscoveredDevice, PaseFails, OnCommissioningSuccess, OnCommissioningFailure
<1>6. ASSUME NEW id \in Ids, LeaveFabric(id) PROVE Busy'
    BY <1>6 DEF LeaveFabric, pairingVars
<1>7. CASE Restart \/ FactoryReset
    BY <1>7 DEF Restart, FactoryReset, Reboot
<1>8. CASE UNCHANGED vars \/ SaveInterrogated
    BY <1>8 DEF vars, SaveInterrogated, pairingVars
<1>9. QED
    BY <1>1, <1>2, <1>3, <1>4, <1>5, <1>6, <1>7, <1>8, NextCases

LEMMA InitWhereabouts == Init => Whereabouts
BY DEF Init, Whereabouts, Used, NoId

LEMMA NextWhereabouts == TypeOK /\ Busy /\ Whereabouts /\ [Next]_vars => Whereabouts'
<1> SUFFICES ASSUME TypeOK, Busy, Whereabouts, [Next]_vars PROVE Whereabouts'
    OBVIOUS
<1> USE DEF Whereabouts, Used
<1>0. /\ nextId \in Nat /\ nextId # NoId /\ cur \in Nat /\ seeking \in Nat /\ pairing \in Nat
      /\ joined \subseteq Nat /\ left \subseteq Nat /\ NoId \notin Used
      /\ pc # "idle" => cur # NoId
    BY CommissioningAssumption DEF TypeOK, Ids, NoId
<1>1. CASE Attempt
  <2> SUFFICES ASSUME ~kvsFailed' PROVE Whereabouts'
    OBVIOUS
  <2>1. /\ ~kvsFailed /\ nextId' = nextId + 1 /\ cur' = nextId
        /\ UNCHANGED <<seeking, pairing, joined, left>>
    BY <1>1, AttemptBegun
  <2>2. nextId \notin Used \union {seeking, pairing}
    BY <1>0, <2>1
  <2>3. QED
    BY <1>0, <2>1, <2>2
<1>2. CASE StartPairing
  <2>1. UNCHANGED <<nextId, kvsFailed, pairing, joined, left>>
    BY <1>2 DEF StartPairing, kvs, fabric
  <2>2. pc = "attempt" /\ pc' = "awaiting"
    BY <1>2 DEF StartPairing, Move
  <2>3. seeking' \in {seeking, cur, NoId}
    BY <1>2 DEF StartPairing
  <2>4. QED
    BY <1>0, <2>1, <2>2, <2>3
<1>3. CASE Elsewhere
    BY <1>3, ElsewhereFrame
<1>4. ASSUME NEW id \in Ids, Aside(id) PROVE Whereabouts'
    BY <1>4, AsideFrame
<1>5. CASE OnDiscoveredDevice
    BY <1>5, <1>0 DEF OnDiscoveredDevice, kvs, httpd, fabric
<1>6. CASE PaseFails
    BY <1>6, <1>0 DEF PaseFails, kvs, httpd, fabric
<1>7. CASE OnCommissioningSuccess
  <2>1. /\ pairing # NoId /\ pairing' = NoId /\ joined' = joined \union {pairing}
        /\ UNCHANGED <<left, seeking, nextId, kvsFailed, pc, cur>>
    BY <1>7 DEF OnCommissioningSuccess, kvs, httpd
  <2>2. seeking = NoId
    BY <2>1 DEF Busy
  <2>3. QED
    BY <1>0, <2>1, <2>2
<1>8. CASE OnCommissioningFailure
    BY <1>8, <1>0 DEF OnCommissioningFailure, kvs, httpd, fabric
<1>9. ASSUME NEW id \in Ids, LeaveFabric(id) PROVE Whereabouts'
    BY <1>9 DEF LeaveFabric, kvs, httpd, pairingVars
<1>10. CASE Restart
    BY <1>10, <1>0 DEF Restart, Reboot, kvs, fabric
<1>11. CASE FactoryReset
    BY <1>11 DEF FactoryReset, Reboot
<1>12. CASE UNCHANGED vars
    BY <1>12 DEF vars, kvs, httpd, pairingVars, fabric
<1>13. CASE SaveInterrogated
    BY <1>13 DEF SaveInterrogated, kvs, httpd, pairingVars, fabric
<1>14. QED
    BY <1>1, <1>2, <1>3, <1>4, <1>5, <1>6, <1>7, <1>8, <1>9, <1>10, <1>11, <1>12, <1>13, NextCases

-----------------------------------------------------------------------------
(* The result of an attempt                                                *)

LEMMA InitPlaces == Init => Places
BY DEF Init, Places

LEMMA NextPlaces == Places /\ [Next]_vars => Places'
<1> SUFFICES ASSUME Places, [Next]_vars PROVE Places'
    OBVIOUS
<1> USE DEF Places, Enter, Begin, Move, httpd
<1>1. CASE Attempt \/ StartPairing
    BY <1>1, AttemptBegun DEF StartPairing
<1>2. CASE Outcome \/ CommissionTimeout \/ ListNode \/ AddDevice \/ SaveAddition
    BY <1>2 DEF Outcome, CommissionTimeout, ListNode, AddDevice, ChangeRecord, SaveAddition
<1>3. CASE DrainInterview \/ Interrogate \/ Described \/ InterviewTimeout
    BY <1>3 DEF DrainInterview, Interrogate, Described, InterviewTimeout
<1>4. CASE RemovalDone \/ RemovalTimeout \/ RemoveDevice \/ SaveRemoval \/ Reply
    BY <1>4 DEF RemovalDone, RemovalTimeout, RemoveDevice, ChangeRecord, SaveRemoval, Reply
<1>5. ASSUME NEW id \in Ids, BeginInterview(id) \/ BeginRemoval(id) \/ UnpairFails(id)
      PROVE  Places'
    BY <1>5 DEF BeginInterview, BeginRemoval, UnpairFails
<1>6. ASSUME UNCHANGED <<pc, job>> PROVE Places'
    BY <1>6
<1>7. CASE Restart \/ FactoryReset
    BY <1>7 DEF Restart, FactoryReset, Reboot
<1>8. QED
    BY <1>1, <1>2, <1>3, <1>4, <1>5, <1>6, <1>7, NextCases, ChipFrame
       DEF Elsewhere, Aside, vars

\* A handler that goes on towards success was on its way there, or has just taken
\* its result.
LEMMA OnItsWay ==
    ASSUME Places, Elsewhere
    PROVE  \/ pc' = "idle"
           \/ /\ UNCHANGED <<job, cur, fresh>>
              /\ Succeeded' => Succeeded \/ Outcome
<1> USE DEF Places, Move, Succeeded
<1>1. CASE Outcome \/ CommissionTimeout \/ ListNode \/ AddDevice \/ SaveAddition
    BY <1>1 DEF Outcome, CommissionTimeout, ListNode, AddDevice, ChangeRecord, SaveAddition
<1>2. CASE DrainInterview \/ Interrogate \/ Described \/ InterviewTimeout
    BY <1>2 DEF DrainInterview, Interrogate, Described, InterviewTimeout
<1>3. CASE RemovalDone \/ RemovalTimeout \/ RemoveDevice \/ SaveRemoval \/ Reply
    BY <1>3 DEF RemovalDone, RemovalTimeout, RemoveDevice, ChangeRecord, SaveRemoval, Reply
<1>4. QED
    BY <1>1, <1>2, <1>3 DEF Elsewhere

LEMMA InitFreshResult == Init => FreshResult
BY DEF Init, FreshResult, Succeeded

LEMMA NextFreshResult ==
    TypeOK /\ Busy /\ Places /\ FreshResult /\ [Next]_vars => FreshResult'
<1> SUFFICES ASSUME TypeOK, Busy, Places, FreshResult, [Next]_vars PROVE FreshResult'
    OBVIOUS
<1> USE DEF FreshResult, Used
<1>0. fresh /\ pc = "attempt" => pairing = NoId /\ seeking = NoId
    BY DEF Busy
<1>1. CASE Attempt
    BY <1>1, AttemptBegun DEF Succeeded
<1>2. CASE StartPairing
  <2>1. pc = "attempt" /\ pc' = "awaiting" /\ ~Succeeded'
        /\ UNCHANGED <<outcome, pairing, cur, fresh, joined, left>>
    BY <1>2 DEF StartPairing, Move, fabric, Succeeded
  <2>2. fresh => ~delegate /\ outcome = "none"
    BY <2>1
  <2>3. fresh => seeking' \in {cur, NoId}
    BY <1>2, <2>2 DEF StartPairing
  <2>4. QED
    BY <1>0, <2>1, <2>2, <2>3
<1>3. CASE Elsewhere
  <2>1. CASE pc' = "idle"
    BY <2>1 DEF Succeeded
  <2>2. CASE Outcome
    BY <2>2 DEF Outcome, Move, Succeeded, fabric
  <2>3. CASE UNCHANGED <<job, cur, fresh>> /\ (Succeeded' => Succeeded)
    BY <1>3, <2>3, ElsewhereFrame
  <2>4. QED
    BY <1>3, <2>1, <2>2, <2>3, OnItsWay
<1>4. ASSUME NEW id \in Ids, Aside(id) PROVE FreshResult'
    BY <1>4, AsideFrame DEF Succeeded
<1>5. CASE OnDiscoveredDevice
    BY <1>5, <1>0 DEF OnDiscoveredDevice, httpd, fabric, Succeeded
<1>6. CASE PaseFails
    BY <1>6 DEF PaseFails, httpd, fabric, Succeeded
<1>7. CASE OnCommissioningSuccess
    BY <1>7, <1>0 DEF OnCommissioningSuccess, httpd, Succeeded
<1>8. CASE OnCommissioningFailure
    BY <1>8, <1>0 DEF OnCommissioningFailure, httpd, fabric, Succeeded
<1>9. ASSUME NEW id \in Ids, LeaveFabric(id) PROVE FreshResult'
    BY <1>9 DEF LeaveFabric, httpd, pairingVars, Succeeded
<1>10. CASE Restart \/ FactoryReset
    BY <1>10 DEF Restart, FactoryReset, Reboot, Succeeded
<1>11. CASE UNCHANGED vars \/ SaveInterrogated
    BY <1>11 DEF vars, SaveInterrogated, httpd, pairingVars, fabric, Succeeded
<1>12. QED
    BY <1>1, <1>2, <1>3, <1>4, <1>5, <1>6, <1>7, <1>8, <1>9, <1>10, <1>11, NextCases

-----------------------------------------------------------------------------
(* Records                                                                 *)

\* A snapshot, a file written, a record changed by the httpd task.
LEMMA SnapshotTaken ==
    ASSUME TypeOK, NEW t \in {"httpd", "chip"}, TakeSnapshot(t)
    PROVE  /\ draft'[t] = records'
           /\ \A u \in {"httpd", "chip"} \ {t} : draft'[u] = draft[u]
BY DEF TypeOK, TakeSnapshot

LEMMA FileWritten ==
    ASSUME TypeOK, NEW t \in {"httpd", "chip"}, WriteFile(t)
    PROVE  /\ saved' = draft[t]
           /\ \A u \in {"httpd", "chip"} \ {t} : draft'[u] = draft[u]
BY DEF TypeOK, WriteFile

LEMMA RecordChanged ==
    ASSUME TypeOK, NEW from, NEW to, NEW level, from # "idle", ChangeRecord(from, to, level)
    PROVE  /\ pc = from /\ pc' = to /\ cur \in Ids
           /\ \A id \in Ids : records'[id] = IF id = cur THEN level ELSE records[id]
           /\ draft'["httpd"] = records' /\ draft'["chip"] = draft["chip"]
           /\ calm' => chip = NoId
           /\ UNCHANGED <<job, cur, saved, chip>>
<1>1. /\ pc = from /\ pc' = to /\ records' = [records EXCEPT ![cur] = level]
      /\ TakeSnapshot("httpd") /\ calm' = (chip = NoId)
      /\ UNCHANGED <<job, cur, saved, chip>>
    BY DEF ChangeRecord, interviewVars
<1>2. cur \in Ids /\ records \in [Ids -> Levels]
    BY <1>1 DEF TypeOK
<1>3. \A id \in Ids : records'[id] = IF id = cur THEN level ELSE records[id]
    BY <1>1, <1>2
<1>4. draft'["httpd"] = records' /\ draft'["chip"] = draft["chip"]
    BY <1>1, SnapshotTaken
<1>5. calm' => chip = NoId
    BY <1>1
<1>6. QED
    BY <1>1, <1>2, <1>3, <1>4, <1>5

LEMMA InitRecorded == Init => Recorded
BY DEF Init, Recorded

LEMMA NextRecorded == TypeOK /\ Places /\ Recorded /\ [Next]_vars => Recorded'
<1> SUFFICES ASSUME TypeOK, Places, Recorded, [Next]_vars PROVE Recorded'
    OBVIOUS
<1> USE DEF Recorded, Held
<1>0. /\ records \in [Ids -> Levels] /\ saved \in [Ids -> Levels] /\ known \subseteq Ids
      /\ pc # "idle" => cur \in Ids
    BY DEF TypeOK
<1>1. CASE Attempt \/ StartPairing \/ Outcome \/ CommissionTimeout \/ ListNode
    BY <1>1, AttemptBegun DEF StartPairing, Outcome, CommissionTimeout, ListNode, Move, files,
                interviewVars
<1>2. CASE AddDevice
  <2>1. known' = known
    BY <1>2 DEF AddDevice
  <2>2. /\ pc = "listed" /\ pc' = "adding" /\ cur \in Ids
        /\ \A id \in Ids : records[id] # "none" \/ id = cur => records'[id] # "none"
        /\ draft'["httpd"] = records' /\ draft'["chip"] = draft["chip"]
        /\ calm' => chip = NoId
        /\ UNCHANGED <<cur, saved, chip>>
    BY <1>2, RecordChanged DEF AddDevice
  <2>3. QED
    BY <1>0, <2>1, <2>2
<1>3. CASE SaveAddition
  <2>1. pc = "adding" /\ pc' = "draining" /\ UNCHANGED <<known, cur, calm, job, records, chip>>
    BY <1>3 DEF SaveAddition, Move, interviewVars
  <2>2. saved' = draft["httpd"] /\ draft'["chip"] = draft["chip"]
    BY <1>3, FileWritten DEF SaveAddition
  <2>3. QED
    BY <2>1, <2>2
<1>4. CASE DrainInterview \/ Interrogate \/ Described \/ InterviewTimeout
    BY <1>4 DEF DrainInterview, Interrogate, Described, InterviewTimeout, Move, files,
                interviewVars
<1>5. CASE RemovalDone \/ RemovalTimeout
    BY <1>5 DEF RemovalDone, RemovalTimeout, Move, files, interviewVars
<1>6. CASE RemoveDevice
  <2>1. known' = known \ {cur}
    BY <1>6 DEF RemoveDevice
  <2>2. /\ pc = "unpaired" /\ pc' = "erasing"
        /\ \A id \in Ids \ {cur} : records'[id] = records[id]
        /\ draft'["httpd"] = records' /\ draft'["chip"] = draft["chip"]
        /\ UNCHANGED <<saved, chip>>
    BY <1>6, RecordChanged DEF RemoveDevice
  <2>3. QED
    BY <1>0, <2>1, <2>2
<1>7. CASE SaveRemoval
  <2>1. /\ pc = "erasing" /\ pc' = "answered" /\ job' = "delete"
        /\ UNCHANGED <<known, records, chip>>
    BY <1>7 DEF SaveRemoval, Places, interviewVars
  <2>2. saved' = draft["httpd"] /\ draft'["chip"] = draft["chip"]
    BY <1>7, FileWritten DEF SaveRemoval
  <2>3. QED
    BY <2>1, <2>2
<1>8. CASE Reply
    BY <1>8 DEF Reply, files, interviewVars
<1>9. ASSUME NEW id \in Ids, BeginInterview(id) PROVE Recorded'
  <2>1. /\ pc = "idle" /\ pc' = "draining" /\ job' = "interview"
        /\ UNCHANGED <<saved, draft, chip, known>>
        /\ records' = [records EXCEPT ![id] = IF @ = "none" THEN @ ELSE "bare"]
    BY <1>9 DEF BeginInterview, Enter, Begin, interviewVars
  <2>2. \A other \in Ids : records[other] # "none" => records'[other] # "none"
    BY <1>0, <2>1
  <2>3. QED
    BY <1>0, <2>1, <2>2
<1>10. ASSUME NEW id \in Ids, BeginRemoval(id) \/ UnpairFails(id) PROVE Recorded'
    BY <1>10 DEF BeginRemoval, UnpairFails, Enter, Begin, files, interviewVars
<1>11. ASSUME NEW id \in Ids, OnInterrogationAttr(id) PROVE Recorded'
  <2>1. /\ records' = [records EXCEPT ![id] = "full"]
        /\ UNCHANGED <<saved, draft, chip, pc, job, cur, calm, known>>
    BY <1>11 DEF OnInterrogationAttr, httpd, interviewVars
  <2>2. \A other \in Ids : records[other] # "none" => records'[other] # "none"
    BY <1>0, <2>1
  <2>3. QED
    BY <1>0, <2>1, <2>2
<1>12. ASSUME NEW id \in Ids, OnInterrogationDone(id) PROVE Recorded'
  <2>1. chip = NoId /\ UNCHANGED <<saved, records, pc, job, cur, calm, known>>
    BY <1>12 DEF OnInterrogationDone, Answers, httpd
  <2>2. draft'["chip"] = records /\ draft'["httpd"] = draft["httpd"]
    BY <1>12, <2>1, SnapshotTaken DEF OnInterrogationDone
  <2>3. QED
    BY <2>1, <2>2
<1>13. CASE SaveInterrogated
  <2>1. chip # NoId /\ chip' = NoId /\ UNCHANGED <<records, pc, job, cur, calm, known>>
    BY <1>13 DEF SaveInterrogated, httpd
  <2>2. saved' = draft["chip"] /\ draft'["httpd"] = draft["httpd"]
    BY <1>13, FileWritten DEF SaveInterrogated
  <2>3. QED
    BY <2>1, <2>2
<1>14. ASSUME UNCHANGED <<files, httpd, chip>> PROVE Recorded'
    BY <1>14 DEF files, httpd
<1>15. ASSUME NEW id \in Ids, InterrogationLost(id) PROVE Recorded'
    BY <1>14, <1>15 DEF InterrogationLost
<1>16. CASE Restart \/ FactoryReset
    BY <1>16 DEF Restart, FactoryReset, Reboot
<1>17. QED
    BY <1>1, <1>2, <1>3, <1>4, <1>5, <1>6, <1>7, <1>8, <1>9, <1>10, <1>11, <1>12, <1>13, <1>14,
       <1>15, <1>16, NextCases, ChipFrame DEF Elsewhere, Aside, vars, interviewVars

LEMMA InitErased == Init => Erased
BY DEF Init, Erased

LEMMA NextErased == TypeOK /\ Places /\ Erased /\ [Next]_vars => Erased'
<1> SUFFICES ASSUME TypeOK, Places, Erased, [Next]_vars PROVE Erased'
    OBVIOUS
<1> USE DEF Erased, Away
<1>0. /\ records \in [Ids -> Levels] /\ saved \in [Ids -> Levels] /\ deleted \subseteq Ids
      /\ pc # "idle" => cur \in Ids
    BY DEF TypeOK
<1>1. CASE Attempt
    BY <1>1, AttemptBegun DEF files, interviewVars
<1>2. CASE StartPairing \/ Outcome \/ CommissionTimeout \/ ListNode
    BY <1>2 DEF StartPairing, Outcome, CommissionTimeout, ListNode, Move, files, interviewVars
<1>3. CASE AddDevice
  <2>1. deleted' = deleted
    BY <1>3 DEF AddDevice
  <2>2. /\ pc = "listed" /\ pc' = "adding"
        /\ \A id \in Ids \ {cur} : records'[id] = records[id]
        /\ draft'["httpd"] = records' /\ draft'["chip"] = draft["chip"]
        /\ UNCHANGED <<saved, chip>>
    BY <1>3, RecordChanged DEF AddDevice
  <2>3. QED
    BY <1>0, <2>1, <2>2
<1>4. CASE SaveAddition
  <2>1. pc = "adding" /\ pc' = "draining" /\ UNCHANGED <<deleted, records, chip>>
    BY <1>4 DEF SaveAddition, Move, interviewVars
  <2>2. saved' = draft["httpd"] /\ draft'["chip"] = draft["chip"]
    BY <1>4, FileWritten DEF SaveAddition
  <2>3. QED
    BY <2>1, <2>2
<1>5. CASE DrainInterview \/ Interrogate \/ Described \/ InterviewTimeout
    BY <1>5 DEF DrainInterview, Interrogate, Described, InterviewTimeout, Move, files, interviewVars
<1>6. CASE RemovalDone \/ RemovalTimeout
    BY <1>6 DEF RemovalDone, RemovalTimeout, Move, files, interviewVars
<1>7. CASE RemoveDevice
  <2>1. deleted' = deleted \ {cur}
    BY <1>7 DEF RemoveDevice
  <2>2. /\ pc = "unpaired" /\ pc' = "erasing" /\ cur \in Ids
        /\ \A id \in Ids : records'[id] = IF id = cur THEN "none" ELSE records[id]
        /\ draft'["httpd"] = records' /\ draft'["chip"] = draft["chip"]
        /\ calm' => chip = NoId
        /\ UNCHANGED <<cur, saved, chip>>
    BY <1>7, RecordChanged DEF RemoveDevice
  <2>3. QED
    BY <1>0, <2>1, <2>2
<1>8. CASE SaveRemoval
  <2>1. /\ pc = "erasing" /\ pc' = "answered" /\ UNCHANGED <<records, chip>>
        /\ deleted' = IF calm THEN deleted \union {cur} ELSE deleted
    BY <1>8 DEF SaveRemoval, interviewVars
  <2>2. saved' = draft["httpd"] /\ draft'["chip"] = draft["chip"]
    BY <1>8, FileWritten DEF SaveRemoval
  <2>3. QED
    BY <2>1, <2>2
<1>9. CASE Reply
    BY <1>9 DEF Reply, files, interviewVars
<1>10. ASSUME NEW id \in Ids, BeginInterview(id) PROVE Erased'
  <2>1. /\ pc = "idle" /\ pc' = "draining" /\ UNCHANGED <<saved, draft, chip, deleted>>
        /\ records' = [records EXCEPT ![id] = IF @ = "none" THEN @ ELSE "bare"]
    BY <1>10 DEF BeginInterview, Enter, Begin, interviewVars
  <2>2. \A other \in Ids : records[other] = "none" => records'[other] = "none"
    BY <1>0, <2>1
  <2>3. QED
    BY <1>0, <2>1, <2>2
<1>11. ASSUME NEW id \in Ids, BeginRemoval(id) \/ UnpairFails(id) PROVE Erased'
    BY <1>11 DEF BeginRemoval, UnpairFails, Enter, Begin, files, interviewVars
<1>12. ASSUME NEW id \in Ids, OnInterrogationAttr(id) PROVE Erased'
  <2>1. /\ records' = [records EXCEPT ![id] = "full"] /\ records[id] # "none"
        /\ UNCHANGED <<saved, draft, chip, pc, cur, calm, deleted>>
    BY <1>12 DEF OnInterrogationAttr, httpd, interviewVars
  <2>2. \A other \in Ids : records[other] = "none" => records'[other] = "none"
    BY <1>0, <2>1
  <2>3. QED
    BY <1>0, <2>1, <2>2
<1>13. ASSUME NEW id \in Ids, OnInterrogationDone(id) PROVE Erased'
  <2>1. chip = NoId /\ UNCHANGED <<saved, records, pc, cur, calm, deleted>>
    BY <1>13 DEF OnInterrogationDone, Answers, httpd
  <2>2. draft'["chip"] = records /\ draft'["httpd"] = draft["httpd"]
    BY <1>13, <2>1, SnapshotTaken DEF OnInterrogationDone
  <2>3. QED
    BY <2>1, <2>2
<1>14. CASE SaveInterrogated
  <2>1. chip # NoId /\ chip' = NoId /\ UNCHANGED <<records, pc, cur, calm, deleted>>
    BY <1>14 DEF SaveInterrogated, httpd
  <2>2. saved' = draft["chip"] /\ draft'["httpd"] = draft["httpd"]
    BY <1>14, FileWritten DEF SaveInterrogated
  <2>3. QED
    BY <2>1, <2>2
<1>15. CASE OnDiscoveredDevice \/ PaseFails \/ OnCommissioningSuccess \/ OnCommissioningFailure
    BY <1>15 DEF OnDiscoveredDevice, PaseFails, OnCommissioningSuccess, OnCommissioningFailure,
                 files, httpd, interviewVars
<1>16. ASSUME NEW id \in Ids, InterrogationLost(id) \/ LeaveFabric(id) \/ RemoveNodeCb(id)
       PROVE  Erased'
    BY <1>16 DEF InterrogationLost, LeaveFabric, RemoveNodeCb, files, httpd, interviewVars
<1>17. CASE Restart \/ FactoryReset
    BY <1>17 DEF Restart, FactoryReset, Reboot
<1>18. CASE UNCHANGED vars
    BY <1>18 DEF vars, files, httpd, interviewVars
<1>19. QED
    BY <1>1, <1>2, <1>3, <1>4, <1>5, <1>6, <1>7, <1>8, <1>9, <1>10, <1>11, <1>12, <1>13, <1>14,
       <1>15, <1>16, <1>17, <1>18, NextCases DEF Elsewhere, Aside

-----------------------------------------------------------------------------
(* Interviews                                                              *)

LEMMA InitInterviewed == Init => Interviewed
BY DEF Init, Interviewed

LEMMA NextInterviewed == TypeOK /\ Places /\ Interviewed /\ [Next]_vars => Interviewed'
<1> SUFFICES ASSUME TypeOK, Places, Interviewed, [Next]_vars PROVE Interviewed'
    OBVIOUS
<1> USE DEF Interviewed
<1>0. /\ reads \in [Ids -> Nat] /\ chip \in Ids \union {NoId} /\ NoId \notin Ids
      /\ records \in [Ids -> Levels] /\ saved \in [Ids -> Levels]
      /\ pc # "idle" => cur \in Ids
    BY CommissioningAssumption DEF TypeOK, Ids, NoId
<1>1. CASE Attempt \/ StartPairing
    BY <1>1, AttemptBegun DEF StartPairing, Move
<1>2. CASE Outcome \/ CommissionTimeout \/ ListNode \/ AddDevice \/ SaveAddition
    BY <1>2 DEF Outcome, CommissionTimeout, ListNode, AddDevice, ChangeRecord, SaveAddition, Move, Places
<1>3. CASE RemovalDone \/ RemovalTimeout \/ RemoveDevice \/ SaveRemoval
    BY <1>3 DEF RemovalDone, RemovalTimeout, RemoveDevice, ChangeRecord, SaveRemoval, Move, Places
<1>4. ASSUME NEW id \in Ids, BeginInterview(id) PROVE Interviewed'
    BY <1>4 DEF BeginInterview, Enter, Begin, interviewVars
<1>5. ASSUME NEW id \in Ids, BeginRemoval(id) \/ UnpairFails(id) PROVE Interviewed'
    BY <1>5 DEF BeginRemoval, UnpairFails, Enter, Begin
<1>6. CASE DrainInterview
    BY <1>6 DEF DrainInterview, Move
<1>7. CASE Interrogate
  <2>1. /\ chip = NoId /\ pc = "asking" /\ pc' = "describing"
        /\ UNCHANGED <<job, cur, fresh, isem, chip, records, saved>>
        /\ reads' \in {reads, [reads EXCEPT ![cur] = @ + 1]}
    BY <1>7 DEF Interrogate, Move, files
  <2>2. cur \in Ids
    BY <1>0, <2>1
  <2>3. \A id \in Ids : reads'[id] = reads[id] \/ (id = cur /\ reads'[id] = reads[id] + 1)
    BY <1>0, <2>1, <2>2
  <2>4. QED
    BY <1>0, <2>1, <2>2, <2>3
<1>8. CASE Described
  <2>1. /\ isem /\ pc = "describing" /\ pc' = "answered"
        /\ UNCHANGED <<job, cur, fresh, reads, chip, records, saved>>
    BY <1>8 DEF Described, Move, files
  <2>2. QED
    BY <1>0, <2>1
<1>9. CASE InterviewTimeout
    BY <1>9 DEF InterviewTimeout, Move
<1>10. CASE Reply
    BY <1>10 DEF Reply
<1>11. ASSUME NEW id \in Ids, OnInterrogationAttr(id) PROVE Interviewed'
  <2>1. /\ reads[id] > 0 /\ records' = [records EXCEPT ![id] = "full"]
        /\ UNCHANGED <<saved, draft, reads, isem, chip, pc, job, cur, fresh>>
    BY <1>11 DEF OnInterrogationAttr, Answers, httpd, interviewVars
  <2>2. id # cur => records'[cur] = records[cur]
    BY <1>0, <2>1
  <2>3. QED
    BY <1>0, <2>1, <2>2
<1>12. ASSUME NEW id \in Ids, OnInterrogationDone(id) PROVE Interviewed'
  <2>1. /\ chip = NoId /\ reads[id] > 0 /\ reads' = [reads EXCEPT ![id] = @ - 1]
        /\ chip' = id /\ UNCHANGED <<saved, records, isem, pc, job, cur, fresh>>
        /\ draft'["chip"] = records
    BY <1>12, SnapshotTaken DEF OnInterrogationDone, Answers, httpd
  <2>2. \A other \in Ids : reads'[other] = IF other = id THEN reads[id] - 1 ELSE reads[other]
    BY <1>0, <2>1
  <2>3. QED
    BY <1>0, <2>1, <2>2
<1>13. CASE SaveInterrogated
  <2>1. chip # NoId /\ chip' = NoId /\ UNCHANGED <<reads, records, pc, job, cur, fresh>>
    BY <1>13 DEF SaveInterrogated, httpd
  <2>2. saved' = draft["chip"]
    BY <1>13, FileWritten DEF SaveInterrogated
  <2>3. QED
    BY <1>0, <2>1, <2>2
<1>14. ASSUME NEW id \in Ids, InterrogationLost(id) PROVE Interviewed'
  <2>1. /\ reads[id] > 0 /\ reads' = [reads EXCEPT ![id] = @ - 1]
        /\ UNCHANGED <<records, saved, isem, chip, pc, job, cur, fresh>>
    BY <1>14 DEF InterrogationLost, httpd, files
  <2>2. \A other \in Ids : reads'[other] = IF other = id THEN reads[id] - 1 ELSE reads[other]
    BY <1>0, <2>1
  <2>3. QED
    BY <1>0, <2>1, <2>2
<1>15. ASSUME UNCHANGED <<files, httpd, interviewVars>> PROVE Interviewed'
    BY <1>15 DEF files, httpd, interviewVars
<1>16. CASE Restart \/ FactoryReset
    BY <1>16 DEF Restart, FactoryReset, Reboot
<1>17. QED
    BY <1>1, <1>2, <1>3, <1>4, <1>5, <1>6, <1>7, <1>8, <1>9, <1>10, <1>11, <1>12, <1>13, <1>14,
       <1>15, <1>16, NextCases, ChipFrame DEF Elsewhere, Aside, vars

-----------------------------------------------------------------------------
(* Removal                                                                 *)

LEMMA InitGone == Init => Gone
BY DEF Init, Gone, Nothing

LEMMA NextGone == TypeOK /\ Gone /\ [Next]_vars => Gone'
<1> SUFFICES ASSUME TypeOK, Gone, [Next]_vars PROVE Gone'
    OBVIOUS
<1> USE DEF Gone
<1>0. unpairs \in [Ids -> {"none", "sent", "left"}]
    BY DEF TypeOK
<1>1. CASE Attempt \/ StartPairing
    BY <1>1, AttemptBegun DEF StartPairing, removalVars, fabric
<1>2. CASE Outcome \/ CommissionTimeout \/ ListNode \/ AddDevice \/ SaveAddition
    BY <1>2 DEF Outcome, CommissionTimeout, ListNode, AddDevice, ChangeRecord, SaveAddition,
                removalVars, fabric
<1>3. CASE DrainInterview \/ Interrogate \/ Described \/ InterviewTimeout
    BY <1>3 DEF DrainInterview, Interrogate, Described, InterviewTimeout, removalVars, fabric
<1>4. CASE RemovalDone \/ RemovalTimeout \/ RemoveDevice \/ SaveRemoval \/ Reply
    BY <1>4 DEF RemovalDone, RemovalTimeout, RemoveDevice, ChangeRecord, SaveRemoval, Reply,
                removalVars, fabric
<1>5. ASSUME NEW id \in Ids, BeginInterview(id) \/ UnpairFails(id) PROVE Gone'
    BY <1>5 DEF BeginInterview, UnpairFails, removalVars, fabric
<1>6. ASSUME NEW id \in Ids, BeginRemoval(id) PROVE Gone'
    BY <1>0, <1>6 DEF BeginRemoval, fabric
<1>7. CASE OnDiscoveredDevice \/ PaseFails \/ OnCommissioningFailure \/ SaveInterrogated
    BY <1>7 DEF OnDiscoveredDevice, PaseFails, OnCommissioningFailure, SaveInterrogated,
                removalVars, fabric
<1>8. CASE OnCommissioningSuccess
    BY <1>8 DEF OnCommissioningSuccess, removalVars
<1>9. ASSUME NEW id \in Ids,
             OnInterrogationAttr(id) \/ OnInterrogationDone(id) \/ InterrogationLost(id)
      PROVE  Gone'
    BY <1>9 DEF OnInterrogationAttr, OnInterrogationDone, InterrogationLost, removalVars, fabric
<1>10. ASSUME NEW id \in Ids, LeaveFabric(id) PROVE Gone'
    BY <1>0, <1>10 DEF LeaveFabric
<1>11. ASSUME NEW id \in Ids, RemoveNodeCb(id) PROVE Gone'
    BY <1>0, <1>11 DEF RemoveNodeCb, fabric
<1>12. CASE Restart \/ FactoryReset
    BY <1>12 DEF Restart, FactoryReset, Reboot, Nothing
<1>13. CASE UNCHANGED vars
    BY <1>13 DEF vars, removalVars, fabric
<1>14. QED
    BY <1>1, <1>2, <1>3, <1>4, <1>5, <1>6, <1>7, <1>8, <1>9, <1>10, <1>11, <1>12, <1>13,
       NextCases DEF Elsewhere, Aside

\* While the KVS works, no step but a factory reset takes a node off the list whose device
\* has not left.
LEMMA StrikesOnlyTheLeft ==
    ASSUME TypeOK, Gone, [Next]_vars
    PROVE  [nextId' = 1 \/ kvsFailed' \/ nodeList \ nodeList' \subseteq left']_vars
<1>1. CASE Attempt \/ StartPairing
    BY <1>1, AttemptBegun DEF StartPairing, kvs
<1>2. CASE Outcome \/ CommissionTimeout \/ AddDevice \/ SaveAddition
    BY <1>2 DEF Outcome, CommissionTimeout, AddDevice, ChangeRecord, SaveAddition, kvs
<1>2a. CASE ListNode
    BY <1>2a DEF ListNode
<1>3. CASE DrainInterview \/ Interrogate \/ Described \/ InterviewTimeout
    BY <1>3 DEF DrainInterview, Interrogate, Described, InterviewTimeout, kvs
<1>4. CASE RemovalDone \/ RemovalTimeout \/ RemoveDevice \/ SaveRemoval \/ Reply
    BY <1>4 DEF RemovalDone, RemovalTimeout, RemoveDevice, ChangeRecord, SaveRemoval, Reply, kvs
<1>5. ASSUME NEW id \in Ids, BeginInterview(id) \/ BeginRemoval(id) \/ UnpairFails(id)
      PROVE  nodeList' = nodeList
    BY <1>5 DEF BeginInterview, BeginRemoval, UnpairFails, kvs
<1>6. CASE \/ OnDiscoveredDevice \/ PaseFails \/ OnCommissioningSuccess
           \/ OnCommissioningFailure \/ SaveInterrogated
    BY <1>6 DEF OnDiscoveredDevice, PaseFails, OnCommissioningSuccess, OnCommissioningFailure,
                SaveInterrogated, kvs
<1>7. ASSUME NEW id \in Ids,
             \/ OnInterrogationAttr(id) \/ OnInterrogationDone(id) \/ InterrogationLost(id)
             \/ LeaveFabric(id)
      PROVE  nodeList' = nodeList
    BY <1>7 DEF OnInterrogationAttr, OnInterrogationDone, InterrogationLost, LeaveFabric, kvs
<1>8. ASSUME NEW id \in Ids, RemoveNodeCb(id) PROVE nodeList \ nodeList' \subseteq left'
    BY <1>8 DEF RemoveNodeCb, Gone, fabric
<1>9. CASE Restart \/ FactoryReset
    BY <1>9 DEF Restart, FactoryReset, kvs
<1>10. CASE UNCHANGED vars
    BY <1>10
<1>11. QED
    BY <1>1, <1>2, <1>2a, <1>3, <1>4, <1>5, <1>6, <1>7, <1>8, <1>9, <1>10, NextCases
       DEF Elsewhere, Aside

-----------------------------------------------------------------------------

LEMMA InitIInv == Init => IInv
BY InitTypeOK, InitBusy, InitWhereabouts, InitFreshResult, InitPlaces, InitRecorded, InitErased,
   InitInterviewed, InitGone DEF IInv

LEMMA NextIInv == IInv /\ [Next]_vars => IInv'
BY NextTypeOK, NextBusy, NextWhereabouts, NextFreshResult, NextPlaces, NextRecorded, NextErased,
   NextInterviewed, NextGone DEF IInv

LEMMA Invariance == Spec => []IInv
BY InitIInv, NextIInv, PTL DEF Spec

\* Commissioning on a controller with nothing of an earlier attempt under way
\* records an id that a device has.
THEOREM FreshAttempts == Spec => []FreshAttemptIsFaithful
<1>1. IInv => FreshAttemptIsFaithful
    BY DEF IInv, FreshResult, FreshAttemptIsFaithful, Used
<1>2. QED
    BY <1>1, Invariance, PTL

\* No node id is given to two devices of a fabric, while the KVS works.
THEOREM UniqueNodeIds == Spec => []NodeIdsAreUnique
<1>1. IInv => NodeIdsAreUnique
    BY CommissioningAssumption
       DEF IInv, TypeOK, Ids, NoId, Whereabouts, NodeIdsAreUnique, Used
<1>2. QED
    BY <1>1, Invariance, PTL

\* What was reported stays recorded, whenever the controller restarts.
THEOREM RecordsKept == Spec => []ReportedIsDurable
<1>1. IInv => ReportedIsDurable
    BY DEF IInv, Recorded, Held, ReportedIsDurable
<1>2. QED
    BY <1>1, Invariance, PTL

\* A deleted device stays away, in RAM and in flash.
THEOREM DeletionsKept == Spec => []DeletedStaysDeleted
<1>1. IInv => DeletedStaysDeleted
    BY DEF IInv, Erased, Away, DeletedStaysDeleted
<1>2. QED
    BY <1>1, Invariance, PTL

\* A re-interview begun alone reports what has been saved.
THEOREM InterviewsSaved == Spec => []QuietInterviewIsSaved
<1>1. IInv => QuietInterviewIsSaved
    BY DEF IInv, Interviewed, QuietInterviewIsSaved
<1>2. QED
    BY <1>1, Invariance, PTL

\* A node leaves the node list after its device has left the fabric, while the KVS works.
THEOREM ListKept == Spec => ListedUntilLeft
<1>1. IInv /\ [Next]_vars => [nextId' = 1 \/ kvsFailed' \/ nodeList \ nodeList' \subseteq left']_vars
    BY StrikesOnlyTheLeft DEF IInv
<1>2. QED
    BY <1>1, Invariance, PTL DEF Spec, ListedUntilLeft

=============================================================================
