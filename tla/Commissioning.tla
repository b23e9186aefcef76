---------------------------- MODULE Commissioning ----------------------------
(***************************************************************************)
(* A device's life with the controller: commissioning, interrogation and   *)
(* removal (matter_controller.cpp, pairing_command.cpp and the two web     *)
(* handlers that call them).                                               *)
(*                                                                         *)
(* The httpd task runs one handler at a time and waits in it, with a time  *)
(* limit, for a callback of the CHIP task.  A handler that gives up leaves *)
(* its pairing, its interrogation or its unpairing running: the callback   *)
(* comes later, into whatever the httpd task is doing then.  pc says where *)
(* the httpd task is; chip says that the CHIP task is inside               *)
(* on_interrogation_done, saving, which the steps that take the CHIP       *)
(* stack's lock wait for.                                                  *)
(*                                                                         *)
(* A device record is "bare" (a node id only, or its endpoints were        *)
(* cleared) or "full" (interrogated).  device_manager_persist takes a      *)
(* snapshot of the records under its mutex and writes it to devices.json   *)
(* without: the two tasks may do so at once, and the file is then the one  *)
(* that was renamed last.  The write itself is taken to succeed.  The node *)
(* id counter and the node list are in the KVS, whose reads and writes may *)
(* fail without anybody looking.  The canvas is the set of node ids it     *)
(* shows.  The requests that only edit the canvas are not modelled here.   *)
(*                                                                         *)
(* Operators named after a slip (AllocateLate, AttemptUndrained,           *)
(* KeepWaiting, ListAlways, AddUnsaved, SkipDrain, DoneResurrecting,       *)
(* StrikeAnyway) are not part of Spec: each stands for a coding error that *)
(* one of the properties rules out.                                        *)
(***************************************************************************)
EXTENDS Integers, FiniteSets

CONSTANTS
    MaxIds,    \* bound: node ids given out in one life of the fabric
    MaxNodes,  \* kMaxNodes, the capacity of the node list
    MaxOpen,   \* bound: interrogations open for one node at a time
    KvsFails   \* bound: whether the KVS may fail

ASSUME CommissioningAssumption == MaxIds \in Nat /\ MaxNodes \in Nat /\ MaxOpen \in Nat \ {0}
                              /\ KvsFails \in BOOLEAN

Ids == 1..MaxIds
NoId == 0

VARIABLES
    nextId,      \* the node id counter (KVS)
    nodeList,    \* the list of nodes (KVS)
    records,     \* records[id]: the device_manager's record in RAM
    saved,       \* saved[id]: the record in devices.json
    canvas,      \* the devices of nodes.json
    pc, job, cur,  \* where the httpd task is, in which handler, and for which node id
    outcome,     \* s_commission_ctx: the result its semaphore was given with, if it was
    delegate,    \* pairing_command is the commissioner's pairing delegate
    seeking,     \* m_remote_node_id while discovery runs for it
    pairing,     \* the node id PairDevice is giving to a device
    isem,        \* s_interrogation_done is given
    reads,       \* reads[id]: interrogations of id that have not ended
    chip,        \* the node on_interrogation_done is saving
    draft,       \* draft[t]: the snapshot that task t is writing there
    rsem,        \* the semaphore of s_remove_ctx, "gone" once it is deleted
    unpairs,     \* unpairs[id]: how far RemoveFabric is on the device
    joined, left,      \* the devices: ids of those on the fabric, and of former ones
    fresh,       \* history: nothing of an earlier handler was under way when this one began
    calm,        \* history: no save of the CHIP task was under way when it changed a record
    known, deleted,    \* history: ids reported as commissioned, ids deleted, of calm handlers
    kvsFailed    \* history: the KVS failed to read or write the counter or the list

kvs == <<nextId, nodeList, kvsFailed>>
files == <<records, saved, canvas, draft>>
httpd == <<pc, job, cur, fresh, calm, known, deleted>>
pairingVars == <<outcome, delegate, seeking, pairing>>
interviewVars == <<isem, reads, chip>>
removalVars == <<rsem, unpairs>>
fabric == <<joined, left>>
vars == <<kvs, files, httpd, pairingVars, interviewVars, removalVars, fabric>>

Levels == {"none", "bare", "full"}
Jobs == {"commission", "interview", "delete"}
Labels == {"idle", "attempt", "awaiting", "succeeded", "listed", "adding", "draining",
           "asking", "describing", "unpairing", "unpaired", "erasing", "answered", "failed"}

TypeOK ==
    /\ nextId \in 1..(MaxIds + 1)
    /\ nodeList \subseteq Ids /\ Cardinality(nodeList) <= MaxNodes
    /\ records \in [Ids -> Levels] /\ saved \in [Ids -> Levels]
    /\ draft \in [{"httpd", "chip"} -> [Ids -> Levels]]
    /\ canvas \subseteq Ids
    /\ pc \in Labels /\ job \in Jobs /\ cur \in IF pc = "idle" THEN {NoId} ELSE Ids
    /\ outcome \in {"none", "success", "failure"} /\ delegate \in BOOLEAN
    /\ seeking \in Ids \union {NoId} /\ pairing \in Ids \union {NoId}
    /\ isem \in BOOLEAN /\ reads \in [Ids -> 0..MaxOpen] /\ chip \in Ids \union {NoId}
    /\ rsem \in {"gone", "live", "given"}
    /\ unpairs \in [Ids -> {"none", "sent", "left"}]
    /\ joined \subseteq Ids /\ left \subseteq Ids
    /\ fresh \in BOOLEAN /\ calm \in BOOLEAN /\ known \subseteq Ids /\ deleted \subseteq Ids
    /\ kvsFailed \in BOOLEAN

Nothing == [id \in Ids |-> "none"]
NoDrafts == [t \in {"httpd", "chip"} |-> Nothing]

Init ==
    /\ nextId = 1 /\ nodeList = {}
    /\ records = Nothing /\ saved = Nothing /\ canvas = {}
    /\ pc = "idle" /\ job = "commission" /\ cur = NoId
    /\ outcome = "none" /\ delegate = FALSE /\ seeking = NoId /\ pairing = NoId
    /\ isem = FALSE /\ reads = [id \in Ids |-> 0] /\ chip = NoId
    /\ draft = NoDrafts
    /\ rsem = "gone" /\ unpairs = Nothing
    /\ joined = {} /\ left = {}
    /\ fresh = TRUE /\ calm = TRUE /\ known = {} /\ deleted = {} /\ kvsFailed = FALSE

\* The httpd task begins a handler, and goes from one place in it to the next.
Begin(label, handler, id, quiet) ==
    /\ pc = "idle"
    /\ pc' = label /\ job' = handler /\ cur' = id /\ fresh' = quiet
    /\ UNCHANGED <<calm, known>>
Enter(label, handler, id, quiet) == Begin(label, handler, id, quiet) /\ UNCHANGED deleted
Move(from, to) == pc = from /\ pc' = to /\ UNCHANGED <<job, cur, fresh, calm, known, deleted>>

-----------------------------------------------------------------------------
(* POST /controller/commission                                             *)

\* An id that is given out again is no longer that of a deleted device.
BeginAttempt(id) ==
    /\ id <= MaxIds
    /\ Begin("attempt", "commission", id, ~delegate)
    /\ deleted' = deleted \ {id}

AllocateLate ==
    /\ BeginAttempt(nextId)
    /\ outcome' = "none"
    /\ UNCHANGED <<kvs, files, delegate, seeking, pairing>>
    /\ UNCHANGED <<interviewVars, removalVars, fabric>>

AttemptUndrained ==
    /\ BeginAttempt(nextId)
    /\ nextId' = nextId + 1
    /\ UNCHANGED <<nodeList, kvsFailed, files, pairingVars>>
    /\ UNCHANGED <<interviewVars, removalVars, fabric>>

\* The payload was parsed: drain the semaphore and take the next node id, which
\* is written back before it is used.  A counter that cannot be read is taken for a new
\* one, and nobody looks whether it was written.
Attempt ==
    /\ \E read, written \in {TRUE, ~KvsFails} :
         LET id == IF read THEN nextId ELSE 1
         IN  /\ BeginAttempt(id)
             /\ nextId' = IF written THEN id + 1 ELSE nextId
             /\ kvsFailed' = (kvsFailed \/ ~read \/ ~written)
    /\ outcome' = "none"
    /\ UNCHANGED <<nodeList, files, delegate, seeking, pairing>>
    /\ UNCHANGED <<interviewVars, removalVars, fabric>>

\* pairing_on_network refuses while there is a pairing delegate; nobody looks at
\* what it returns.  Discovery itself may fail to start.
StartPairing ==
    /\ chip = NoId
    /\ Move("attempt", "awaiting")
    /\ IF delegate
       THEN UNCHANGED <<delegate, seeking>>
       ELSE delegate' = TRUE /\ seeking' \in {cur, NoId}
    /\ UNCHANGED <<kvs, files, outcome, pairing, interviewVars, removalVars, fabric>>

\* The semaphore was given; a failure is answered at once.
Outcome ==
    /\ outcome # "none"
    /\ Move("awaiting", IF outcome = "success" THEN "succeeded" ELSE "failed")
    /\ outcome' = "none"
    /\ UNCHANGED <<kvs, files, delegate, seeking, pairing>>
    /\ UNCHANGED <<interviewVars, removalVars, fabric>>

KeepWaiting == outcome = "none" /\ pc = "awaiting" /\ UNCHANGED vars

\* 180 seconds have passed.  The pairing is not cancelled.
CommissionTimeout ==
    /\ outcome = "none"
    /\ Move("awaiting", "failed")
    /\ UNCHANGED <<kvs, files, pairingVars, interviewVars, removalVars, fabric>>

ListAlways ==
    /\ Move("succeeded", "listed")
    /\ nodeList' = nodeList \union {cur}
    /\ UNCHANGED <<nextId, kvsFailed, files, pairingVars, interviewVars, removalVars, fabric>>

\* node_list_add drops the node when the list is full.  A list that cannot be read is
\* taken for an empty one, and nobody looks whether it was written.
ListNode ==
    /\ Move("succeeded", "listed")
    /\ \E read, written \in {TRUE, ~KvsFails} :
         LET list == IF read THEN nodeList ELSE {}
         IN  /\ nodeList' = IF written /\ Cardinality(list) < MaxNodes
                            THEN list \union {cur} ELSE nodeList
             /\ kvsFailed' = (kvsFailed \/ ~read \/ ~written)
    /\ UNCHANGED <<nextId, files, pairingVars, interviewVars, removalVars, fabric>>

\* device_manager_persist: the snapshot, and the file that takes its place.
TakeSnapshot(t) == draft' = [draft EXCEPT ![t] = records']
WriteFile(t) == saved' = draft[t] /\ draft' = [draft EXCEPT ![t] = Nothing]

\* The httpd task changes the record of cur and goes on to save it.
ChangeRecord(from, to, level) ==
    /\ pc = from /\ pc' = to
    /\ records' = [records EXCEPT ![cur] = level]
    /\ TakeSnapshot("httpd")
    /\ calm' = (chip = NoId)
    /\ UNCHANGED <<job, cur, fresh, saved, canvas>>
    /\ UNCHANGED <<kvs, pairingVars, interviewVars, removalVars, fabric>>

AddUnsaved ==
    /\ ChangeRecord("listed", "draining", IF records[cur] = "none" THEN "bare" ELSE records[cur])
    /\ UNCHANGED <<known, deleted>>

\* device_manager_add_device, and device_manager_persist up to its snapshot.
AddDevice ==
    /\ ChangeRecord("listed", "adding", IF records[cur] = "none" THEN "bare" ELSE records[cur])
    /\ UNCHANGED <<known, deleted>>

\* The rest of it, and add_canvas_node.
SaveAddition ==
    /\ Move("adding", "draining")
    /\ WriteFile("httpd")
    /\ canvas' = canvas \union {cur}
    /\ UNCHANGED <<records, kvs, pairingVars, interviewVars, removalVars, fabric>>

-----------------------------------------------------------------------------
(* POST /api/reinterview/:nodeId, and the interrogation that both share    *)

\* The page lists the records; one loaded earlier may still show a device that has
\* left.
Offered(id) == records[id] # "none" \/ id \in left

\* The handler clears the device's endpoints (device_manager_clear_device_endpoints,
\* which saves nothing).
BeginInterview(id) ==
    /\ Offered(id)
    /\ Enter("draining", "interview", id, chip = NoId /\ \A other \in Ids : reads[other] = 0)
    /\ records' = [records EXCEPT ![id] = IF @ = "none" THEN @ ELSE "bare"]
    /\ UNCHANGED <<saved, draft, canvas, kvs>>
    /\ UNCHANGED <<pairingVars, interviewVars, removalVars, fabric>>

SkipDrain ==
    /\ Move("draining", "asking")
    /\ UNCHANGED <<kvs, files, pairingVars, interviewVars, removalVars, fabric>>

\* xSemaphoreTake(s_interrogation_done, 0)
DrainInterview ==
    /\ Move("draining", "asking")
    /\ isem' = FALSE
    /\ UNCHANGED <<kvs, files, pairingVars, reads, chip, removalVars, fabric>>

\* interrogate_node; without memory for the paths no read is sent.
Interrogate ==
    /\ chip = NoId
    /\ Move("asking", "describing")
    /\ \/ reads[cur] < MaxOpen /\ reads' = [reads EXCEPT ![cur] = @ + 1]
       \/ UNCHANGED reads
    /\ UNCHANGED <<kvs, files, pairingVars, isem, chip, removalVars, fabric>>

Described ==
    /\ isem
    /\ Move("describing", "answered")
    /\ isem' = FALSE
    /\ UNCHANGED <<kvs, files, pairingVars, reads, chip, removalVars, fabric>>

\* Commissioning has succeeded all the same; a re-interview has not.
InterviewTimeout ==
    /\ ~isem
    /\ Move("describing", IF job = "commission" THEN "answered" ELSE "failed")
    /\ UNCHANGED <<kvs, files, pairingVars, interviewVars, removalVars, fabric>>

-----------------------------------------------------------------------------
(* DELETE /api/devices/:nodeId                                             *)

\* matter_controller_remove_node makes a semaphore for this call and asks the
\* device to leave; if it cannot even ask, it deletes the semaphore.
BeginRemoval(id) ==
    /\ chip = NoId
    /\ Offered(id)
    /\ Enter("unpairing", "delete", id, FALSE)
    /\ rsem' = "live"
    /\ unpairs' = [unpairs EXCEPT ![id] = "sent"]
    /\ UNCHANGED <<kvs, files, pairingVars, interviewVars, fabric>>

UnpairFails(id) ==
    /\ chip = NoId
    /\ Offered(id)
    /\ Enter("unpaired", "delete", id, FALSE)
    /\ rsem' = "gone"
    /\ UNCHANGED <<kvs, files, pairingVars, interviewVars, unpairs, fabric>>

\* The callback's outcome makes no difference to what follows.
RemovalDone ==
    /\ rsem = "given"
    /\ Move("unpairing", "unpaired")
    /\ rsem' = "gone"
    /\ UNCHANGED <<kvs, files, pairingVars, interviewVars, unpairs, fabric>>

\* 30 seconds have passed.  The unpairing is not cancelled.
RemovalTimeout ==
    /\ rsem = "live"
    /\ Move("unpairing", "unpaired")
    /\ rsem' = "gone"
    /\ UNCHANGED <<kvs, files, pairingVars, interviewVars, unpairs, fabric>>

\* device_manager_remove_device, which persists.
RemoveDevice ==
    /\ ChangeRecord("unpaired", "erasing", "none")
    /\ known' = known \ {cur} /\ deleted' = deleted \ {cur}

\* and node_manager_delete.
SaveRemoval ==
    /\ pc = "erasing" /\ pc' = "answered"
    /\ WriteFile("httpd")
    /\ canvas' = canvas \ {cur}
    /\ deleted' = IF calm THEN deleted \union {cur} ELSE deleted
    /\ UNCHANGED <<job, cur, fresh, calm, known, records>>
    /\ UNCHANGED <<kvs, pairingVars, interviewVars, removalVars, fabric>>

\* The handler returns; a commissioned device's node id is in the answer.
Reply ==
    /\ pc \in {"answered", "failed"}
    /\ pc' = "idle" /\ job' = "commission" /\ cur' = NoId /\ fresh' = TRUE /\ calm' = TRUE
    /\ known' = IF pc = "answered" /\ job = "commission" /\ calm THEN known \union {cur} ELSE known
    /\ UNCHANGED <<deleted, kvs, files, pairingVars, interviewVars, removalVars, fabric>>

\* The steps of a handler once it has begun.
HandlerStep ==
    \/ StartPairing \/ Outcome \/ CommissionTimeout \/ ListNode
    \/ AddDevice \/ SaveAddition
    \/ DrainInterview \/ Interrogate \/ Described \/ InterviewTimeout
    \/ RemovalDone \/ RemovalTimeout \/ RemoveDevice \/ SaveRemoval \/ Reply

-----------------------------------------------------------------------------
(* The CHIP task: one callback at a time                                   *)

\* OnDiscoveredDevice takes the first device with an open window, whichever it is.
\* PairDevice may refuse, and nobody is told.
OnDiscoveredDevice ==
    /\ chip = NoId
    /\ seeking # NoId
    /\ seeking' = NoId
    /\ pairing' \in {seeking, NoId}
    /\ UNCHANGED <<outcome, delegate>>
    /\ UNCHANGED <<kvs, files, httpd, interviewVars, removalVars, fabric>>

\* OnPairingComplete with an error: no callback of matter_controller.cpp is set
\* for it.
PaseFails ==
    /\ chip = NoId
    /\ pairing # NoId
    /\ pairing' = NoId
    /\ delegate' = FALSE
    /\ UNCHANGED <<outcome, seeking>>
    /\ UNCHANGED <<kvs, files, httpd, interviewVars, removalVars, fabric>>

\* OnCommissioningSuccess: the device has joined under the id PairDevice was given.
\* The callback does not look at the id.
OnCommissioningSuccess ==
    /\ chip = NoId
    /\ pairing # NoId
    /\ joined' = joined \union {pairing}
    /\ pairing' = NoId
    /\ delegate' = FALSE
    /\ outcome' = "success"
    /\ UNCHANGED <<left, seeking>>
    /\ UNCHANGED <<kvs, files, httpd, interviewVars, removalVars>>

OnCommissioningFailure ==
    /\ chip = NoId
    /\ pairing # NoId
    /\ pairing' = NoId
    /\ delegate' = FALSE
    /\ outcome' = "failure"
    /\ UNCHANGED seeking
    /\ UNCHANGED <<kvs, files, httpd, interviewVars, removalVars, fabric>>

\* Only a device that has joined can answer a read, or end one.
Answers(id) == chip = NoId /\ reads[id] > 0 /\ id \in joined \union left

\* on_interrogation_attr: what it learns goes into the record, if there is one.
OnInterrogationAttr(id) ==
    /\ Answers(id)
    /\ records[id] # "none"
    /\ records' = [records EXCEPT ![id] = "full"]
    /\ UNCHANGED <<saved, draft, canvas>>
    /\ UNCHANGED <<kvs, httpd, pairingVars, interviewVars, removalVars, fabric>>

DoneResurrecting(id) ==
    /\ Answers(id)
    /\ reads' = [reads EXCEPT ![id] = @ - 1]
    /\ records' = [records EXCEPT ![id] = IF @ = "none" THEN "bare" ELSE @]
    /\ TakeSnapshot("chip")
    /\ chip' = id
    /\ UNCHANGED <<isem, saved, canvas>>
    /\ UNCHANGED <<kvs, httpd, pairingVars, removalVars, fabric>>

\* on_interrogation_done, up to the snapshot of device_manager_persist
OnInterrogationDone(id) ==
    /\ Answers(id)
    /\ reads' = [reads EXCEPT ![id] = @ - 1]
    /\ UNCHANGED records
    /\ TakeSnapshot("chip")
    /\ chip' = id
    /\ UNCHANGED <<isem, saved, canvas>>
    /\ UNCHANGED <<kvs, httpd, pairingVars, removalVars, fabric>>

\* The rest of it, and update_canvas_node_type, which adds a canvas node that is
\* missing.
SaveInterrogated ==
    /\ chip # NoId
    /\ WriteFile("chip")
    /\ canvas' = canvas \union {chip}
    /\ isem' = TRUE
    /\ chip' = NoId
    /\ UNCHANGED <<reads, records, kvs, httpd, pairingVars, removalVars, fabric>>

\* No session: the command is freed and no callback runs.
InterrogationLost(id) ==
    /\ chip = NoId
    /\ reads[id] > 0
    /\ reads' = [reads EXCEPT ![id] = @ - 1]
    /\ UNCHANGED <<isem, chip>>
    /\ UNCHANGED <<kvs, files, httpd, pairingVars, removalVars, fabric>>

\* The device carries RemoveFabric out.
LeaveFabric(id) ==
    /\ unpairs[id] = "sent"
    /\ id \in joined
    /\ unpairs' = [unpairs EXCEPT ![id] = "left"]
    /\ joined' = joined \ {id}
    /\ left' = left \union {id}
    /\ UNCHANGED <<kvs, files, httpd, pairingVars, interviewVars, rsem>>

StrikeAnyway(id) ==
    /\ chip = NoId
    /\ unpairs[id] # "none"
    /\ unpairs' = [unpairs EXCEPT ![id] = "none"]
    /\ nodeList' = nodeList \ {id}
    /\ rsem' = IF rsem = "live" THEN "given" ELSE rsem
    /\ UNCHANGED <<nextId, kvsFailed, files, httpd, pairingVars, interviewVars, fabric>>

\* remove_node_cb, with the device's answer or an error.  It gives the semaphore
\* of whichever call is the last; one deleted since is freed memory, written to
\* without effect or with a crash (Restart).
RemoveNodeCb(id) ==
    /\ chip = NoId
    /\ unpairs[id] # "none"
    /\ unpairs' = [unpairs EXCEPT ![id] = "none"]
    /\ nodeList' \in IF unpairs[id] = "left" THEN {nodeList, nodeList \ {id}} ELSE {nodeList}
    /\ rsem' = IF rsem = "live" THEN "given" ELSE rsem
    /\ UNCHANGED <<nextId, kvsFailed, files, httpd, pairingVars, interviewVars, fabric>>

-----------------------------------------------------------------------------
(* The controller                                                          *)

\* What a restart leaves: the KVS and the files.
Reboot ==
    /\ records' = saved
    /\ pc' = "idle" /\ job' = "commission" /\ cur' = NoId /\ fresh' = TRUE /\ calm' = TRUE
    /\ outcome' = "none" /\ delegate' = FALSE /\ seeking' = NoId /\ pairing' = NoId
    /\ isem' = FALSE /\ reads' = [id \in Ids |-> 0] /\ chip' = NoId
    /\ draft' = NoDrafts
    /\ rsem' = "gone" /\ unpairs' = Nothing
    /\ UNCHANGED <<saved, canvas>>

Restart ==
    /\ Reboot
    /\ UNCHANGED <<kvs, known, deleted, fabric>>

\* matter_factory_reset erases the KVS and restarts, as a new fabric without
\* members.  Nobody clears devices.json and nodes.json.
FactoryReset ==
    /\ pc = "idle"
    /\ Reboot
    /\ nextId' = 1 /\ nodeList' = {} /\ kvsFailed' = FALSE
    /\ joined' = {} /\ left' = {}
    /\ known' = {} /\ deleted' = {}

Next ==
    \/ Attempt
    \/ \E id \in Ids : BeginInterview(id) \/ BeginRemoval(id) \/ UnpairFails(id)
    \/ HandlerStep
    \/ OnDiscoveredDevice \/ PaseFails \/ OnCommissioningSuccess \/ OnCommissioningFailure
    \/ \E id \in Ids :
          OnInterrogationAttr(id) \/ OnInterrogationDone(id) \/ InterrogationLost(id)
    \/ SaveInterrogated
    \/ \E id \in Ids : LeaveFabric(id) \/ RemoveNodeCb(id)
    \/ Restart \/ FactoryReset

\* The scheduler runs the httpd task, and a callback that has begun returns.
\* Nothing makes a device appear or answer.
Spec == Init /\ [][Next]_vars
FairSpec == Spec /\ WF_vars(HandlerStep) /\ WF_vars(SaveInterrogated)

-----------------------------------------------------------------------------
(* Properties                                                              *)

Succeeded == job = "commission" /\ pc \in {"succeeded", "listed", "adding", "draining",
                                           "asking", "describing", "answered"}

\* A commissioning begun while no pairing of an earlier one was under way succeeds
\* only if a device joined under the node id it then records.  (The callbacks say
\* which node they are about and nobody compares; after an attempt that timed out
\* the next one may end with its result and record an id without a device.)
FreshAttemptIsFaithful ==
    fresh /\ Succeeded => cur \in joined \union left

\* A node id is given to one device of a fabric at most, whatever is still being
\* discovered or paired for an attempt that was given up, and over restarts, while the
\* KVS reads and writes the counter.
NodeIdsAreUnique ==
    ~kvsFailed =>
    /\ pairing \notin joined \union left
    /\ seeking \notin joined \union left

\* A device reported as commissioned has its record in devices.json until it is
\* deleted, whenever the controller restarts, if the CHIP task was not saving an
\* interrogation just when the record was added.
ReportedIsDurable == \A id \in known : saved[id] # "none"

\* A commissioned device is "recorded even if interrogation is slow or fails"
\* (matter_controller.cpp:1854), its own or another's.
RecordedAtOnce ==
    job = "commission" /\ pc \in {"draining", "asking", "describing", "answered"} =>
        saved[cur] # "none"

\* The record of a deleted device stays away, in RAM and on disk, although its
\* interrogations may still be answered, if the CHIP task was not saving one just
\* when the record was removed (and until its id is given to a new device, after a
\* factory reset or a failure of the KVS).
DeletedStaysDeleted == \A id \in deleted : records[id] = "none" /\ saved[id] = "none"

\* A node is struck off the node list only when its device has left the fabric,
\* however late the answer to RemoveFabric comes (a factory reset, which sets the
\* counter back, takes the list with it, and so may a failure of the KVS).
ListedUntilLeft == [][nextId' = 1 \/ kvsFailed' \/ nodeList \ nodeList' \subseteq left']_vars

\* A re-interview begun while no interrogation was open answers with success only
\* when devices.json has what the device reported ("so the caller sees freshly
\* persisted data", matter_controller.cpp:1886).
QuietInterviewIsSaved ==
    job = "interview" /\ pc = "answered" /\ fresh => saved[cur] = records[cur]

\* Whatever devices do not answer, every handler returns: the httpd task, and with
\* it the web interface, is not lost.
HandlersReturn == (pc # "idle") ~> (pc = "idle")

=============================================================================
