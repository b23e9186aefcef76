# A TLA+ model of the Matter ESP32 controller

The program is the firmware of a Matter controller for the ESP32-S3 with a web
interface: it commissions devices, records them, and provisions them (bindings,
groups, access control) so that switches drive lights directly. This directory
models its control: what the tasks do in which order, what they leave to each
other, and what is left behind when a step fails or comes late.

Paths without a directory are under `src/firmware/main/`; `mc` stands for
`matter_controller.cpp`.

## 1. The system

### Tasks

| task | runs | waits for |
|------|------|-----------|
| main | start-up (`main.cpp`), then ends | an IPv6 address, at most 15 s |
| httpd | **every** web handler, one after the other (`web_server.c`) | callbacks of the CHIP task, with time limits of 5 s (reads), 10/15 s (interrogation), 30 s (removal), 180 s (commissioning) |
| CHIP | every Matter callback (reads, pairing, unpairing) | the network |
| browser | a React canvas (`html_app/src`), several requests at once | answers |

The httpd task takes the CHIP stack's lock only to hand a command over; a
callback never runs while it holds it. Everything else the two tasks share is
static data with a binary semaphore beside it, and no callback says which call
it belongs to. A handler that times out cancels nothing. That, and the writes
nobody waits for, are where this program is hard.

### Components

| component | state | operations | talks to | correct when |
|---|---|---|---|---|
| attribute reads (mc 402-481, 577-870) | a semaphore and an ok flag per channel, a static buffer per attribute | `blocking_read_attr`, `get_onoff`, `get_acl`, `get_binding_table`, ... | CHIP task callbacks | a read returns its own data or an error, and ends |
| provisioning (mc 1140-1700) | the devices' ACL, Binding, GroupKeyMap, key set and group tables; the shared epoch key (KVS) | bindings, groups, members, resets | reads, fire-and-forget writes and commands | the controller keeps its Administer entry; all members hold one key; a target is usable when a switch gets it; other entries survive |
| commissioning (mc 1808-1872, `pairing_command.cpp`) | `s_commission_ctx`, the pairing delegate, node id counter and node list (KVS) | `commission_on_network` and five callbacks | the device, device and canvas records | node ids are unique; success means a device joined under that id; the handler returns |
| interrogation (mc 267-396, 1879-1899) | `s_interrogation_done`, the reads under way | at commissioning and on re-interview | device records, canvas | success means the result is saved |
| removal (mc 1711-1760, `web_server.c` 186-207) | `s_remove_ctx` | `remove_node`, then the records | `unpair` | deleted stays deleted; a node is struck off only when its device left |
| device records (`device_manager.cpp`) | devices and endpoints in RAM, `devices.json` | add, set, add endpoint/part, `resolve_parents`, lookups, remove, persist | both tasks | the file is one the RAM had; the newest wins; a lookup finds the endpoint commands go to |
| canvas store (`node_manager.cpp`) | nodes and edges, `nodes.json` | upsert, update, delete, persist | both tasks, the canvas | edges have ends; grouping survives a re-interview |
| Thread credentials (`thread_credentials.cpp`, `thread_meshcop.cpp`) | the dataset, `thread.json` (its initialisation is commented out, `main.cpp` 108) | discover, fetch, get, clear | a border agent (DTLS, CoAP) | stored is what was fetched; cleared stays cleared |
| web server (`web_server.c`) | none of its own | 30-odd handlers | all of the above | it always answers |
| user interface (`Canvas.tsx`, `Devices.tsx`) | what it last loaded | gestures, each a series of requests | web server | what it shows is what the devices hold |
| mDNS, WebSocket, start-up | services announced, clients | publish, broadcast (no caller) | network | announced once an address is there |

Left aside: `components/ethernet_init` (a vendored example the firmware does not
use), the setup-code and ICD parts of `pairing_command.cpp` (not called), static
files, and the mock service worker except where it differs from the firmware.

### What is hard here

`PROJECT.json` lists each hazard with its line. The groups are: completions of
abandoned reads, pairings, interrogations and unpairings that arrive in the next
handler; read-modify-write of device tables with writes that are not awaited;
failed reads taken for empty tables; tables replaced whole by code that knows
only some of their entries; restarts between two writes; two tasks that save one
file; a factory reset that clears half of what is stored.

## 2. Plan

| | modules | what |
|---|---|---|
| A | `AttributeRead` (abstract), `ReadRendezvous`, `ReadRendezvousProofs` | reads over the shared semaphore |
| B | `FabricTables`, `AtomicFabric` (abstract), `Provisioning`, `MCProvisioning`, `ProvisioningProofs` | bindings, groups, ACLs |
| C | `Commissioning`, `CommissioningProofs` | a device's life |
| D | `DurableStore` (abstract), `JsonStore`, `JsonStoreProofs` | the save of one file: two writers of one temporary file, crash and failure at every call, size limits |
| E | `Canvas`, `CanvasProofs` | the page, `nodes.json`, and the series of requests a gesture sends |
| F | `EndpointTree`, `EndpointTreeProofs`, `DeviceRecords`, `DeviceRecordsProofs` | what an interrogation puts into a record; `resolve_parents`, the endpoint lookups and `select_primary_device_type` as operators |
| G | `ThreadCredentials`, `ThreadCredentialsProofs` | the MeshCoP exchange, store, load, clear |

`MCRecords` checks F and D in one run, `MCPages` E and G.

How they fit together:

- B takes a read to return what the table holds when it returns, which is A's
  `QuiescentReadIsFaithful`. What a late read does to that is shown by
  `reads_late` and not carried into B.
- C has the life of a record, F what is in it, and D how its file is written. C
  writes a file in one step; `NeverEmptied` is what makes this step right for a
  file that is whole, and D's order of two writers is kept in C (an older
  snapshot may land later).
- E takes a save to be one step (D) and what a request does on the devices to
  be one step (B); the loss or delay of a request in E stands for every way it may fail.
- G EXTENDS D with one writer, and the two together implement `DurableStore`.

## 3. Modules

### A. ReadRendezvous

`pc` is where the httpd task is in `blocking_read_attr` or `get_onoff`; `stage[r]`
is how far the CHIP task is with read r; `sem`, `ok` and `buffer` are the static
variables. A buffer holds the number of the read that filled it (or `NoRead`
after it was cleared, `Torn` while a list is decoded into it), which is all the
properties need. `Begin*`, `Drain`, `Send`, `Wake`, `Timeout`, `Check`, `Copy`
are the steps of the code in its order; `Report*`, `Done`, `Unreachable` are the
callbacks of any read still open, abandoned or not. `send_command` runs under
the stack's lock, so `Send` waits for the end of a callback.

The attributes of the Thread diagnostics (`DiagKinds`) differ: their buffers are fields
of one struct, which `get_thread_info` clears before the first of its five reads only,
and their callback (mc 790) leaves a field alone whose value does not decode, and sets the
ok flag all the same (`FieldUndecodable`). Such a read may return ESP_OK with the field as it was;
it is a best-effort snapshot for display. So the properties promise its own data to all
others, and to these that no field is half-filled; `AttributeRead` leaves them out.

`AttributeRead` is what callers take a read to be: it ends, and a *quiet* one
(no other read open, and for OnOff no signal left over) returns ESP_OK only with
its own data. `ReadRendezvous!ImplementsAttributeRead` says that the machinery
implements it.

### B. FabricTables, Provisioning, AtomicFabric

A device's tables are sets of items at paths `[dev, ep, attr]`. `FabricTables`
has the edit each request makes of a table it finds (`AclEdit`, `BindingsEdit`,
`GroupEdit`, `KeySetEdit`). `Provisioning` has how the requests are carried out:
each is a program of steps (`CreateBinding`, `AddGroupMember`, ...); a step names
its table, whether it reads first, what a failed read does (abort, skip, go on
with an empty table) and whether a refused send ends the request, all as the
code has them. Sending only hands the message over; `Deliver` and `Lose` apply or
drop any message at any time. `PromptSpec` applies each message before the next
step. `AtomicFabric` serves one request at a time, which edits only the tables it is
about, one at a time, each by its edit of what the table holds.

Abstracted: an ACL entry with several subjects is one item for each; entry
targets and invalid entries (privilege 0) are left out, and so are other
administrators, none of which the controller writes. The group table is one per
device (the code takes the first On/Off endpoint, or 1). The KeySetRemove scan
over ids 1 to 32 is the removal of the one application key set. Endpoints are
constants, since provisioning does not change them: `SwitchEp` and `OnOffEp` give what
`device_manager` finds for a device (the first in its record, or none; module F has the
order), and a request may name any other endpoint, which the code takes as given.
`groupcast_toggle` (mc 1702) sends one command and keeps no state.

The key store may fail at each use. A failed Put ends `create_group` (mc 1410). A failed
Get in `install_group_key_on_node` ends the request. A failed Get in `create_group`
is taken for "no key yet": a new key is drawn and stored over the one the members have
(`NewKey`; `regenerated` records it). `KeyAgreement` says that nothing *else* leads to
a second key, and `key_regenerated` shows this one. A behaviour is that of one fabric:
a factory reset ends it.

`create_binding` and `delete_binding` rebuild a light's ACL from its Operate/CASE subjects
(mc 661), so a binding to a group's member takes the group's grant away. No sentence of the
repository promises otherwise. `GroupGrantsStay` says what is promised (mc 1467): the other
edits keep it.

### C. Commissioning

`pc`, `job` and `cur` are the httpd task's place, handler and node id. `outcome`
is `s_commission_ctx`, `delegate`/`seeking`/`pairing` are how far the pairing
command is, `isem` and `reads` the interrogation, `rsem` and `unpairs` the removal,
`chip` is the node for which the CHIP task is in `on_interrogation_done`, past the
snapshot of `device_manager_persist`. Steps that take the stack's lock have
`chip = NoId` as a guard. `records` and `saved` are device_manager's RAM and
`devices.json`, and `draft[t]` is the snapshot task t took under the mutex and is
writing without it: an older draft may land after a newer one. `nextId` and
`nodeList` are in the KVS. Nobody looks whether reading or writing them succeeds (mc 132, 159): a
counter that cannot be read starts again at 1, one that cannot be written gives the same id
again, a list that cannot be read is taken for empty. `KvsFails` says whether a run has these
failures, and `kvsFailed` whether one has happened: node ids are unique and the node list is kept
until then (`NodeIdsAreUnique`, `ListedUntilLeft`), and the other properties hold regardless. `Restart` may come at any
time and keeps KVS and files; `FactoryReset` keeps only the files. A device joins
under the id that `PairDevice` was given, whatever the handler is doing then.

`fresh` records that nothing of an earlier handler was under way when this one
began; the two properties that have it as a condition fail without it, which is
the late-result hazard itself (mc 1838, 1893). `calm` records that the CHIP task was not
saving when the handler changed its device's record; `known` and `deleted` are the
ids reported or deleted by calm handlers. What happens to the others is
`device_lost`: an interrogation's older snapshot replaces the file that had the
record added or removed, and the next restart loads it.

Abstracted: an interrogation makes a record "full" or leaves it "bare" (F has the
rest); requests that only edit the canvas are module E. A write is taken to succeed
and to replace the file whole (the temporary file both tasks use, and failures and
crashes within the write, are module D), and `nodes.json` is written in the same step
as `devices.json`. A request names a device the page lists (`Offered`): one that has a
record, or one that left since the page was loaded. An id that is given to a new attempt
is no longer one of a deleted device (`BeginAttempt`). Renaming a device and choosing
its endpoints change and save the record from the httpd task as well; they neither
add nor remove one, and are left out.

### D. JsonStore, DurableStore

`held` is the RAM of a component (`device_manager`, `node_manager`,
`thread_credentials` save alike), `file` and `tmp` what the file system has,
`at[w]` and `text[w]` how far writer w is in `persist` and the snapshot it took.
`Snapshot` is under the mutex; `Open`, `Sync`, `Close`, `Rename` are not (but in
`thread_credentials`), so another writer may be anywhere in between. Each has the
failures the code sees (`OpenFails`, `PutsFails`, `RenameFails`: persist answers an
error) and the one it does not (`FlushFails`). `StoreRestart` comes at any point,
and loads what the loader takes: a file that is missing, cut short or above the
loader's limit is `Blank`.

LittleFS is external: an open file's new content is committed by a sync, `rename` is
atomic and refused while another task has the file open. `hurt` records that a
write failed and the code went on: `fflush` and `fsync` are not checked, and one
writer may rename what another one failed to write.

`DurableStore` is what such a component promises: a save replaces the saved value
at one moment or not at all. One writer at a time implements it
(`ImplementsDurableStore`); two do not, since the older snapshot may land last
(`device_lost` in C).

### E. Canvas

Three places hold one drawing: `view` is what the page shows (`shown`, `within`,
`lines`), `store` is `nodes.json` (`nodes`, `parent`, `edges`, `strays`), `matter` is
what controller and devices have (`groups`, `members`, `bindings`, and `writes`, the Binding
lists handed over and not yet applied). A gesture is one
action (`Move`, `Resize`, `Join`, `Leave`, `Connect`, `Disconnect`, `Delete`,
`AddGroup`, `Load`): it changes the view and puts its requests on `wire`, as
`Canvas.tsx` sends them without waiting. `Serve*` is a web handler with the
`node_manager` or controller call it makes. A request that is lost, refused or
failed stays on the wire for ever, which is the same for every property here.
`AddGroup` alone waits for its answer (`replies`), because it needs the id. React Flow
measures every group's box when it is first drawn, and the page puts the size
(`Measured`), at a load as well as for a new group.
`Reinterview` and `Remove` are the Devices tab's requests, which write `nodes.json`
behind the canvas; `FactoryReset` takes everything but the page and `nodes.json`.

A binding request reads the switch's list and hands the new one over (`Write`), which lands
later (`Land`), perhaps after another request has read the list. A switch with an On/Off
endpoint of its own (`Loads`) may be a connection's target as well, and is made a member of a
group it is connected to, and taken out of a group it is disconnected from (mc 1590, 1627),
if it accepts that. The other steps of a request on the devices are one step here, and a
request that fails has no partial effect; module B has what it leaves half done.

`touched` are the devices whose node the Devices tab changed; `tidy` says that every
gesture found the previous ones served (two gestures on one device that overtake
each other may be served in the wrong order, and nothing in the code prevents it).
`MatterFollowsView` leaves out what the code does otherwise: `coupled`, a combined switch and
a group it was connected with, in which it is a member without being shown within it, or is
shown without being a member; `crossed`, a switch whose list was read before an earlier write
of it landed (`binding_lost` in B), two connections removed by one deletion included. `setback`
says that the group id counter did not go on: it was at its end, could not be read or
saved (mc 143, 145), or was cleared by a factory reset while `nodes.json` still has the groups.
After it a new group may get an id that is remembered, and nothing in the code notices.

### F. EndpointTree, DeviceRecords

`EndpointTree` has pure operators: `Depth` (breadth first), `Parent` (the deepest of
the endpoints that list one), `Primary`, `FirstWith`. `DeviceRecords` is the state
they work on: `order`, `parts`, `types`, `parent` are the endpoint vector of a
record, `pending` is `s_pending_types`, `reads[r]` is how many reports an open read
has given. A callback is one step, although the code takes the mutex for each item (mc 284-287,
293-312, 345-357): only the clearing could come between, and leaves what a shorter report would. A re-interview clears the record (`ClearEndpoints`) and sends its read
(`Interrogate`); `ReportTypes`, `ReportParts`, `Finish` are the CHIP task's callbacks,
of any read still open. The device is `shape`; `StructureIsTrue` compares what the
operators make of its reports with the tree it is (`above`), so they are checked
against a definition that none of them uses. `IsDevice` says what a device may be:
any tree, each list in any order and with nothing twice; a list names an endpoint's own
parts, or everything below it, as endpoint 0's and an aggregator's may. Where an aggregator's
does, `StructureIsTrue` asks only that the parent found is above the endpoint (see section 6). Endpoints, parts and types go into the record through `AddAll`, the
loop that leaves out what is there; `pending` takes them as they come, as
`s_pending_types` does (mc 310).

`steady`, `alone` and `told` say that the device did not change meanwhile, that no
other read was open, and that the read was complete. `TypeIsTrue` needs `alone`: the
end of an abandoned read takes the types reported so far away from the new one
(mc 346).

### G. ThreadCredentials

`pc` is the httpd task in `thread_credentials_fetch`, `store` or `clear`; `agent`,
`late` and `net` are the session: what the border agent (external) has done about
the two requests, which it acknowledged first, and the datagrams under way.
`coap_exchange` takes the next datagram for its answer, whatever it is
(`PetitionAccepted`, `ReadDataset`: `got` is `Junk` if it is no dataset). Closing the
session drops its datagrams. `ready` is the initialisation: without it, as the
firmware is now, taking the mutex restarts the controller (`Abort`); the component
with the call in place is checked as well.

## 4. Runs

| run | specification | shows |
|---|---|---|
| `reads` | `FairSpec`, two list attributes, one of the diagnostics and OnOff, 3 reads | `TypeOK`, `QuiescentReadIsFaithful`, `RmwEndsOnNewCallbacks`, `OnOffValueIsCurrent`, `ImplementsAttributeRead` (with liveness) |
| `reads_late` | `Spec`, 2 reads | **violation**: a late completion ends another read's wait with ESP_OK (`RmwBlocksOnOwnCompletion`, mc 835-837) |
| `provisioning` | `Spec`, two devices, one group, 3 requests, messages lost and reordered, restarts, a key store that may fail | `AdminNeverLost`, `KeyAgreement` |
| `provisioning_prompt` | `PromptSpec`, two groups, two endpoints, 4 requests | `AtomicEdits`, `TargetsUsableWhenAdded`, `GroupGrantsStay` |
| `binding_lost` | `Spec`, 2 requests | **violation**: `NewBindingPreservesOthers` (mc 1198) |
| `keymap_wiped` | `PromptSpec`, 3 requests | **violation**: `InstallPreservesKeyMap` (mc 1387) |
| `key_regenerated` | `PromptSpec`, one group, 3 requests | **violation**: `KeyReusedForever` (mc 1403-1405) |
| `commissioning` | `Spec`, 2 node ids, a node list of 1, one interrogation open per node, a KVS that works | `FreshAttemptIsFaithful`, `NodeIdsAreUnique`, `ReportedIsDurable`, `DeletedStaysDeleted`, `QuietInterviewIsSaved`, `ListedUntilLeft` |
| `handlers_return` | `FairSpec`, 1 node id, two interrogations open, a KVS that may fail | `HandlersReturn`, `ReportedIsDurable`, `DeletedStaysDeleted` |
| `device_lost` | `Spec`, 2 node ids, a node list of 2 | **violation**: a commissioned device is not in `devices.json` (`RecordedAtOnce`, mc 1854) |
| `records` | `MCRecords`: every tree of up to three endpoints below endpoint 0, two reads; two writers of one file | `RecordsTypeOK`, `StructureIsTrue`, `TypeIsTrue`; `StoreTypeOK`, `NeverEmptied` |
| `pages` | `MCPages`: a switch with a light of its own, a lamp, groups of a counter of 3 values, 2 gestures; two datasets and one too long | `CanvasTypeOK`, `ViewIsSaved`, `MatterFollowsView`, `ShownWithGroup`, `GroupIdsAreNew`; `ThreadTypeOK`, `AnsweredIsDurable`, `DatasetIsGenuine`, `ImplementsDurableStore` |

`records` and `pages` explore two modules each that share no variable; `moving`
chooses which of them a behaviour moves, so the state spaces are added up and not
multiplied.

**Bounds.** Three reads let one abandoned read be late in the next and leave its
signal for the one after. Two devices with two endpoints and two groups have
every overlap of two requests on a table; the fourth request lets a group, two
members and a group binding happen in one behaviour. Two node ids let an attempt
that was given up end in the next one; a node list of one is full at the second
device. With failures of the KVS on top, two ids are too many states for one run: `commissioning`
leaves them out, `handlers_return` has them with one id, which is then given out again and
again, and the proofs have both at once. `MaxOpen` bounds interrogations open at one node: one is enough for an
interrogation of commissioning to end in a re-interview of the same node or of
another. `Shapes` has all trees of endpoints 0 to 3 (`LastEndpoint`), and `MaxReads` is 2, a read
that was abandoned and the one after it; endpoint 0 lists every endpoint,
or its own parts, in every order, and the top of a chain its part or all below it: a
grandchild that is listed twice and comes first is among them. `Later` bounds what the device may change to and what it may be while
two reads are open. A save has seven steps, so two writers and three values (one
too long) have every overlap. A canvas starts with any drawing, so a second gesture
only has to meet what the first left: an overtaking request, a lost answer, a page
reloaded in between. A counter of three values has a group that is there, one that is made, and
the wrap; the switch is of the kind with a light, whose requests include all of those of one
without. The two groups of `provisioning_prompt` are interchangeable (`SYMMETRY`).
`CHECK_DEADLOCK FALSE` stands where a bound on requests or gestures
ends the behaviour; `commissioning` has no such bound (a factory reset gives ids back) and
is checked for deadlock.

**Fairness.** The FreeRTOS scheduler runs the httpd task when it is ready, and its
waits have time limits, so its next step is always taken in the end
(`WF(ReadSteps)`, `WF(HandlerStep)`); a callback that has begun returns. Nothing is
assumed of a device or of the network: no read is answered and no pairing ends by
necessity.

**Violations** are sentences of the repository the code does not keep; each is a
finding in `PROJECT.json` with the sentence quoted.

Each module that is checked also defines operators named after a slip (a drain
left out, a counter written late). They are in no specification; substituted for
the real action, they make the property they are aimed at fail.

## 5. Proofs

All theorems hold for every value of the constants, under the assumptions named
in the modules (bounds are naturals; the kinds of read, the endpoints and the
controller's id are what they should be).

**ReadRendezvousProofs.** `TypeCorrect`, `QuiescentReads`, `RmwEnds`,
`OnOffIsCurrent`, `ReadRefinement`. The first
property speaks of a read that has ended, so the invariant follows a quiet read
through its steps: while it runs no other read is open, a signal, an ok flag or a
filled buffer on its channel stems from its own callbacks, and the CHIP task
decodes no other read's report. `ReadRefinement` maps the steps up to `Check` to
stutters. `RmwEnds` and `OnOffIsCurrent` rest on `Signals`: after the drain, a signal
has the end of a read behind it, and an ok flag a report, that came since the read
began.

**ProvisioningProofs.** `TypeCorrect`, `AdminSafe`, `KeysAgree`,
`GroupGrantsKept`, `ProvisioningRefinement`, `TargetsUsable`, `PromptBindingsPreserved`. `AdminSafe` is inductive with the ACL messages under way
included, since every edit writes the Administer entry afresh. `KeysAgree` needs that
key-set messages under way carry the stored key too, and that a request which
needs a key found one; all this as long as no stored key was replaced. For `ProvisioningRefinement` the invariant is that with a
prompt network a message under way is the edit of what its table holds now (or of
an empty one, for the two requests written so) by the request being served: nobody
else wrote the table since the read returned. What each request may still do is kept
in the type of its remaining steps (`GoodSteps`).

**CommissioningProofs.** `TypeCorrect`, `FreshAttempts`, `UniqueNodeIds`,
`RecordsKept`, `DeletionsKept`, `InterviewsSaved`, `ListKept`. The invariants: `Busy`
(discovery and pairing go on one after the other, under the delegate), `Whereabouts` (while the KVS
works, every id discovered, paired, joined or left is below the counter, and a
pairing under way is for an id nobody has), `Places` (which handler is where), `FreshResult` (in a fresh attempt a
success is one of its own id), `Recorded` and `Erased` (a reported id is, and a
deleted one is not, in RAM, in the file and in every snapshot that may yet replace the
file; and what each place in a calm handler has already seen to), `Interviewed` (in a
re-interview begun quietly, only its own interrogation can be open, its snapshot is what RAM has, and the signal means that it was written),
`Gone` (a device whose RemoveFabric was carried out is among those that left).

**JsonStoreProofs.** `StoreTypeCorrect`, `FileNeverEmptied`, for any number of
writers. While nothing failed unnoticed, a temporary file that a writer has just synced is not
cut short (`SyncedIsWhole`), and while one is cut short and some writer is about to
rename it, another has it open (`CutIsInUse`), so that the rename is refused.

**ThreadCredentialsProofs.** `ThreadTypeCorrect`, `AnsweredStays`,
`DatasetsAreGenuine`, `ThreadRefinement`. `SaveInv` says where a save is in terms of
`pc` and what is in RAM, in the file and in the temporary file by then; `AgentInv`,
that a verdict under way is the one the agent gave, and that an agent that
acknowledges nothing first gives it once, which is why a verdict that was taken cannot
come again in the dataset's place;
`Genuine`, that what is under way, got, held or saved was given by the agent.
`ThreadRefinement` maps a save to the moment of its rename.

**CanvasProofs.** `CanvasTypeCorrect`, `BoxesShown`, `NewGroupIds`, `ViewsSaved`,
`DevicesFollow`, for any devices, counter width and number of gestures. Two of the
properties speak of a moment when nothing is under way, so the invariant says what
holds until then: for each thing the page shows (a node, a grouping, a connection, a
membership, a binding, a group) the store agrees with the view, or the request that
makes it agree is on the wire and none that would undo it is (`Agree`). `IdsAreBelow`:
every id that anybody remembers is below the counter, until it is set back. A Binding list
that was handed over but not yet taken decides what its switch will be bound to: `Written`
says that a binding counts as stored when that list has it, if there is one, and `ListsAreOwn`
that a switch has at most one such list unless it is among the `crossed`.

**EndpointTreeProofs.** What the record's operators compute, for all vectors and lists.
Three of them are loops, written as functions over the number of steps (`Reached`,
`Adding`) or as the least number of a set. The induction this takes is over numbers and has
no operator parameter: `LeastNumber` comes from the order of the naturals being well founded,
and `CountingUp` and `LoopExists` from it. With them: `AddAll` keeps what is there, adds what
is not, in order, and nothing twice (`AddAllAdds`, `AddAllKeeps`, `AddAllToNone`);
endpoint 0 is at depth 0 and what it lists at depth 1 (`DepthNearRoot`); `Parent` is an
endpoint that lists it, if there is one, and, where there are two of which one is endpoint 0, the other one
(`ParentIsThere`, `ParentOfOne`, `ParentBelowRoot`); `Primary` and `FirstWith`
find one exactly if there is one.

**DeviceRecordsProofs.** `RecordsTypeCorrect`, `StructureRight`, `TypeRight`, for any set of
devices, any number of endpoints and any number of open reads. `RecordsInv` has four parts.
`HistoryInv`: a newest read is open, and while it is, or after it was complete, nothing has been
cleared since. `StructureInv`: for a device that did not change, everything in the record is
the device's (`Within`), what the newest read has reported is all there (`Covers`), and
after its end the parents are right (`ParentsRight`), whatever an older read adds or
resolves again; this is where `ParentIsAbove` uses that the record holds every list.
`PendingInv`: as long as no open read has reported anything, no types wait. `AloneInv`: with no
other read open, the types that wait are those of the newest read's reports so far, so that its end
chooses from all of them.

`TargetsUsable` (in ProvisioningProofs) needs to know of a request what its earlier steps
have achieved: `OrderInv` says, for each place in the program of a binding, which of its
light's grant, group key and key map entry is held or under way (`Coming`), and
that while a write of the switch's Binding is under way they are held; no failed read or
refused send passes over a step this depends on (`NoStepIsSkipped`). `PromptBindingsPreserved` says that with a prompt network a
new binding keeps the others: what `binding_lost` shows is due to late messages
alone.

**Model-checked only:** liveness, which is `HandlersReturn` and the fairness half of
`ImplementsAttributeRead` (`ReadRefinement` proves the other half). Liveness under
fairness and ENABLED are out of the prover's reach. Every other property of a passing run
is a theorem. Five sentences of the repository are not true of the code; that they fail
is what the runs show.

## 6. Not modelled, and why

- **Start-up and network** (`main.cpp`): sequential hardware set-up before anything
  runs beside it. **mDNS**: two library calls on start and on address events.
- **No caller in the repository:** the WebSocket broadcast, the setup-code and ICD
  parts of `pairing_command.cpp`, `node_manager_clear`, `components/ethernet_init` (a
  vendored example). The mock service worker stands in for the firmware in development.
- **Libraries:** CHIP, DTLS, LittleFS, React Flow, Thread border agents. They appear as
  external actions, as far as the code's use of them shows what they do.
- **Requests that keep no state:** on/off, identify, group toggle, table dumps, static
  files; and names, labels, positions, electrical sensors, formatting and logging.
- **The Devices and Thread pages:** their requests are taken from anywhere and at any
  time, which is more than the pages do.

What modelling showed about the code, and no run refutes because it contradicts no
sentence of the repository:

- With `main.cpp` 108 as it is, every Thread request but the discovery ends in a restart.
- Where endpoint 0's list and an aggregator's both name their whole subtree, every endpoint
  has depth 1, and `resolve_parents` takes the first claimant and not the nearest: with the lists
  1, 2, 3 of endpoint 0, 2, 3 of endpoint 1 and 3 of endpoint 2, endpoint 3 comes out below 1
  (`device_manager.cpp` 514 has the comment, 495 the depth).
- The end of an abandoned interrogation takes the types that the next one has reported so
  far (mc 346): the device's type may come out wrong.
- After a flush that failed, the old temporary file may be renamed over the new
  one: credentials that were cleared can come back.
- A border agent that acknowledges first and answers twice has its petition's verdict
  stored as the dataset (`thread_meshcop.cpp` 278).
- A re-interview takes a device out of its group on the canvas and leaves its membership;
  deleting a device leaves its connections in `nodes.json`.
- The group id counter wraps to 0, which the controller refuses afterwards, and then to
  ids in use (mc 144). It starts again when it cannot be read, and after a factory reset, which
  leaves the groups in `nodes.json`. The node id counter does the former too (mc 132).
- Binding a switch to a light that is a group's member takes the group's grant out of the light's
  ACL (mc 1187).
- A failed read of the Binding list is taken for an empty one when a group is connected (mc 1576),
  and the switch endpoint's other bindings go.
- A switch with a light of its own follows a group it is connected to without being shown in
  it, and leaves one it is shown in when the connection is removed.
