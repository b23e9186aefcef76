----------------------- MODULE ThreadCredentialsProofs -----------------------
(***************************************************************************)
(* Proofs about ThreadCredentials, for any datasets.                       *)
(*                                                                         *)
(* ThreadInv has three parts.  SaveInv follows the save: while one is      *)
(* under way its text is what is held, the temporary file is that text     *)
(* once it is synced, and after the rename the file is; nothing is         *)
(* answered before that.  AgentInv follows the session: as long as the     *)
(* agent answers with the acknowledgement, the petition has one verdict,   *)
(* which is taken before the dataset is asked for.  Genuine says that      *)
(* whatever is held, saved or being saved is then a dataset that was       *)
(* given.                                                                  *)
(***************************************************************************)
EXTENDS ThreadCredentials, JsonStoreProofs

USE JsonStoreAssumption, ThreadAssumption

Me == "httpd"
Fitting == (Datasets \ Oversize) \union {Junk, Blank}
Saving == {"built", "open", "synced", "closed"}

SaveInv ==
    /\ StoreTypeOK /\ answered \in Values \union {Missing}
    /\ \A w \in Writers \ {Me} : at[w] = "idle"
    /\ pc # "persisting" => at[Me] = "idle"
    /\ held \in Fitting /\ text[Me] \in Fitting
    /\ file \in Fitting \union {Missing, Cut} /\ tmp \in Fitting \union {Missing, Cut}
    /\ at[Me] \in Saving => text[Me] = held
    /\ ~hurt /\ at[Me] \in {"synced", "closed"} => tmp = held
    /\ ~hurt /\ at[Me] = "saved" => file = held /\ tmp = Missing
    /\ answered # Missing => pc # "persisting"
    /\ AnsweredIsDurable

AgentInv ==
    /\ ready \in BOOLEAN
    /\ pc \in {"idle", "connecting", "petition", "active", "storing", "persisting"}
    /\ got \in Fitting
    /\ agent \in [Requests -> {"none", "asked", "answered"} \union Verdicts]
    /\ late \subseteq Requests /\ net \subseteq Packets
    /\ plain \in BOOLEAN /\ given \subseteq Datasets
    /\ pc \notin {"petition", "active"} => agent = Nobody /\ late = {} /\ net = {}
    /\ plain => late = {}
    /\ net \intersect Verdicts \subseteq {agent["cp"]}
    /\ net \ (Verdicts \union Empty) \subseteq given
    /\ plain /\ pc = "active" => net \intersect Verdicts = {} /\ agent["cp"] = "accept"

Genuine ==
    plain => {held, got, text[Me], file, tmp} \subseteq
             {Blank, Missing, Cut} \union (given \ Oversize)

ThreadInv == SaveInv /\ AgentInv /\ Genuine

\* What fits can be held and loaded.
LEMMA FittingValues ==
    /\ Fitting \subseteq Values \ Large
    /\ Missing \notin Fitting /\ Cut \notin Fitting
BY DEF Fitting

LEMMA LoadedFits ==
    ASSUME NEW content \in Fitting \union {Missing, Cut}
    PROVE Loaded(content) \in Fitting /\ (Loaded(content) = content \/ Loaded(content) = Blank)
BY FittingValues DEF Loaded, Fitting

LEMMA InitThread == ThreadInit => ThreadInv
<1> SUFFICES ASSUME ThreadInit PROVE ThreadInv
  OBVIOUS
<1>1. StoreTypeOK
  BY InitStore DEF ThreadInit, StoreInv
<1>2. SaveInv
  BY <1>1 DEF ThreadInit, StoreInit, SaveInv, Fitting, Saving, Me, AnsweredIsDurable
<1>3. AgentInv
  BY DEF ThreadInit, AgentInv, Fitting, Nobody, Requests, Packets, Verdicts
<1> QED
  BY <1>2, <1>3 DEF ThreadInit, StoreInit, ThreadInv, Genuine, Me

-----------------------------------------------------------------------------
(* The session: steps that leave the store alone                           *)

LEMMA SessionKeepsSave ==
    ASSUME SaveInv, UNCHANGED <<storeVars, answered>>,
           pc' = pc \/ (pc # "persisting" /\ pc' # "persisting")
    PROVE SaveInv'
BY DEF storeVars, SaveInv, StoreTypeOK, AnsweredIsDurable

\* What is kept stays genuine when nothing new is got.
LEMMA NothingNewIsGenuine ==
    ASSUME Genuine, UNCHANGED <<held, text, file, tmp>>,
           got' = got \/ got' = Blank, plain' => plain, given \subseteq given'
    PROVE Genuine'
BY DEF Genuine

LEMMA FetchKeeps == ThreadInv /\ Fetch => ThreadInv'
<1> SUFFICES ASSUME ThreadInv, Fetch PROVE ThreadInv'
  OBVIOUS
<1>1. SaveInv'
  BY SessionKeepsSave DEF ThreadInv, Fetch
<1>2. AgentInv'
  BY DEF ThreadInv, AgentInv, Fetch, session
<1> QED
  BY <1>1, <1>2, NothingNewIsGenuine DEF ThreadInv, Fetch, storeVars, session

LEMMA SendPetitionKeeps == ThreadInv /\ SendPetition => ThreadInv'
<1> SUFFICES ASSUME ThreadInv, SendPetition PROVE ThreadInv'
  OBVIOUS
<1>1. SaveInv'
  BY SessionKeepsSave DEF ThreadInv, SendPetition
<1>2. PICK fate \in {"asked", "none"} : agent' = [Nobody EXCEPT !["cp"] = fate]
  BY DEF SendPetition, Ask
<1>3. agent' \in [Requests -> {"none", "asked", "answered"} \union Verdicts]
  BY <1>2 DEF Nobody, Requests, Verdicts
<1>4. net = {} /\ late = {}
  BY DEF ThreadInv, AgentInv, SendPetition
<1>5. AgentInv'
  BY <1>3, <1>4 DEF ThreadInv, AgentInv, SendPetition
<1> QED
  BY <1>1, <1>5, NothingNewIsGenuine DEF ThreadInv, SendPetition, storeVars

LEMMA PetitionAcceptedKeeps == ThreadInv /\ PetitionAccepted => ThreadInv'
<1> SUFFICES ASSUME ThreadInv, PetitionAccepted PROVE ThreadInv'
  OBVIOUS
<1>1. SaveInv'
  BY SessionKeepsSave DEF ThreadInv, PetitionAccepted
<1>2. PICK fate \in {"asked", "none"} : agent' = [agent EXCEPT !["ag"] = fate]
  BY DEF PetitionAccepted, Ask
<1>3. agent' \in [Requests -> {"none", "asked", "answered"} \union Verdicts]
      /\ agent'["cp"] = agent["cp"]
  BY <1>2 DEF ThreadInv, AgentInv, Requests
<1>4. agent["cp"] = "accept" /\ net' \intersect Verdicts = {}
  BY DEF ThreadInv, AgentInv, PetitionAccepted, Verdicts
<1>5. AgentInv'
  BY <1>3, <1>4 DEF ThreadInv, AgentInv, PetitionAccepted
<1> QED
  BY <1>1, <1>5, NothingNewIsGenuine DEF ThreadInv, PetitionAccepted, storeVars

LEMMA NobodyIsAgent == Nobody \in [Requests -> {"none", "asked", "answered"} \union Verdicts]
BY DEF Nobody

LEMMA GiveUpKeeps == ThreadInv /\ pc # "persisting" /\ GiveUp => ThreadInv'
<1> SUFFICES ASSUME ThreadInv, pc # "persisting", GiveUp PROVE ThreadInv'
  OBVIOUS
<1>1. SaveInv'
  BY SessionKeepsSave DEF ThreadInv, GiveUp
<1>2. AgentInv'
  BY NobodyIsAgent DEF ThreadInv, AgentInv, GiveUp, CloseSession
<1> QED
  BY <1>1, <1>2, NothingNewIsGenuine DEF ThreadInv, GiveUp, storeVars

\* In a session with plain answers no verdict is left to be taken for the dataset.
LEMMA ReadDatasetKeeps == ThreadInv /\ ReadDataset => ThreadInv'
<1> SUFFICES ASSUME ThreadInv, ReadDataset PROVE ThreadInv'
  OBVIOUS
<1>1. SaveInv'
  BY SessionKeepsSave DEF ThreadInv, ReadDataset
<1>2. PICK m \in net \ (Empty \union Oversize) : got' = IF m \in Datasets THEN m ELSE Junk
  BY DEF ReadDataset
<1>3. got' \in Fitting
  BY <1>2 DEF Fitting
<1>4. plain => got' \in given \ Oversize
  BY <1>2 DEF ThreadInv, AgentInv, ReadDataset
<1>5. AgentInv'
  BY <1>3, NobodyIsAgent DEF ThreadInv, AgentInv, ReadDataset, CloseSession
<1> QED
  BY <1>1, <1>4, <1>5 DEF ThreadInv, ReadDataset, storeVars, Genuine

\* The agent answers request q with m.
LEMMA ReplyKeeps ==
    ASSUME ThreadInv, NEW q \in Requests, NEW verdict \in {"answered"} \union Verdicts,
           NEW m \in Packets, Reply(q, verdict, m),
           given \subseteq given', given' \subseteq Datasets,
           m \in Verdicts => q = "cp" /\ verdict = m,
           q = "cp" => verdict \in Verdicts,
           m \in Verdicts \union Empty \union given'
    PROVE ThreadInv'
<1>1. SaveInv'
  BY SessionKeepsSave DEF ThreadInv, Reply
<1>2. agent' \in [Requests -> {"none", "asked", "answered"} \union Verdicts]
      /\ agent'[q] = verdict /\ \A r \in Requests \ {q} : agent'[r] = agent[r]
  BY DEF ThreadInv, AgentInv, Reply
<1>3. agent[q] = "asked"
  BY DEF Reply
<1>4. pc \in {"petition", "active"}
  BY <1>3 DEF ThreadInv, AgentInv, Nobody, Requests
<1>5. ~(plain /\ pc = "active" /\ q = "cp")
  BY <1>3 DEF ThreadInv, AgentInv
<1>6. net' \intersect Verdicts \subseteq {agent'["cp"]}
  <2>1. CASE q = "cp"
    \* Until now the petition had no verdict.
    <3>1. net \intersect Verdicts = {}
      BY <2>1, <1>3 DEF ThreadInv, AgentInv, Verdicts
    <3> QED
      BY <2>1, <3>1, <1>2 DEF Reply
  <2>2. CASE q # "cp"
    BY <2>2, <1>2 DEF ThreadInv, AgentInv, Reply, Requests
  <2> QED
    BY <2>1, <2>2
<1>7. AgentInv'
  BY <1>2, <1>4, <1>5, <1>6 DEF ThreadInv, AgentInv, Reply, Requests
<1> QED
  BY <1>1, <1>7, NothingNewIsGenuine DEF ThreadInv, Reply, storeVars

LEMMA JudgeKeeps ==
    ASSUME ThreadInv, NEW verdict \in Verdicts, Judge(verdict)
    PROVE ThreadInv'
BY ReplyKeeps DEF Judge, Requests, Packets, ThreadInv, AgentInv

LEMMA GiveDatasetKeeps ==
    ASSUME ThreadInv, NEW d \in Datasets, GiveDataset(d)
    PROVE ThreadInv'
BY ReplyKeeps DEF GiveDataset, Requests, Packets, ThreadInv, AgentInv

LEMMA RefuseKeeps == ThreadInv /\ Refuse => ThreadInv'
<1>1. "refusal" \in Empty /\ "refusal" \notin Verdicts
  BY DEF Empty, Verdicts
<1> QED
  BY <1>1, ReplyKeeps DEF Refuse, Requests, Packets, ThreadInv, AgentInv

LEMMA AckFirstKeeps ==
    ASSUME ThreadInv, NEW q \in Requests, AckFirst(q)
    PROVE ThreadInv'
<1>1. SaveInv'
  BY SessionKeepsSave DEF ThreadInv, AckFirst
<1>2. pc \in {"petition", "active"}
  BY DEF ThreadInv, AgentInv, Nobody, Requests, AckFirst
<1>3. "ack" \in Empty /\ "ack" \notin Verdicts
  BY DEF Empty, Verdicts
<1>4. AgentInv'
  BY <1>2, <1>3 DEF ThreadInv, AgentInv, AckFirst, Packets
<1> QED
  BY <1>1, <1>4, NothingNewIsGenuine DEF ThreadInv, AckFirst, storeVars

LEMMA JudgeAgainKeeps == ThreadInv /\ JudgeAgain => ThreadInv'
<1> SUFFICES ASSUME ThreadInv, JudgeAgain PROVE ThreadInv'
  OBVIOUS
<1>1. SaveInv'
  BY SessionKeepsSave DEF ThreadInv, JudgeAgain
<1>2. pc \in {"petition", "active"} /\ ~plain
  BY DEF ThreadInv, AgentInv, JudgeAgain
<1>3. AgentInv'
  BY <1>2 DEF ThreadInv, AgentInv, JudgeAgain, Packets
<1> QED
  BY <1>1, <1>3, NothingNewIsGenuine DEF ThreadInv, JudgeAgain, storeVars

-----------------------------------------------------------------------------
(* The save: steps that leave the session alone                            *)

\* The session's part is kept by a step of the store.
LEMMA StoreKeepsAgent ==
    ASSUME AgentInv, UNCHANGED <<ready, session, plain, given>>, got' \in Fitting,
           pc \notin {"petition", "active"}, pc' \in {"idle", "persisting"}
    PROVE AgentInv'
BY DEF AgentInv, session

LEMMA StoreKeeps == ThreadInv /\ Store => ThreadInv'
<1> SUFFICES ASSUME ThreadInv, Store PROVE ThreadInv'
  OBVIOUS
<1>1. AgentInv'
  BY StoreKeepsAgent DEF ThreadInv, Store, Fitting
<1>2. got \in Fitting /\ got \in Values
  BY FittingValues DEF ThreadInv, AgentInv
<1>3. SaveInv'
  BY <1>2 DEF ThreadInv, Store, SaveInv, StoreTypeOK, Saving, Me, AnsweredIsDurable
<1> QED
  BY <1>1, <1>3 DEF ThreadInv, Store, Genuine

LEMMA ClearKeeps == ThreadInv /\ Clear => ThreadInv'
<1> SUFFICES ASSUME ThreadInv, Clear PROVE ThreadInv'
  OBVIOUS
<1>1. AgentInv'
  BY StoreKeepsAgent DEF ThreadInv, Clear, AgentInv
<1>2. Blank \in Fitting /\ Blank \in Values
  BY DEF Fitting
<1>3. SaveInv'
  BY <1>2 DEF ThreadInv, Clear, SaveInv, StoreTypeOK, Contents, Saving, Me, AnsweredIsDurable
<1> QED
  BY <1>1, <1>3 DEF ThreadInv, Clear, Genuine

\* A step of the httpd task's save.
LEMMA MyStep ==
    ASSUME SaveInv, NEW from \in Steps, NEW to \in Steps, Go(Me, from, to)
    PROVE  /\ at[Me] = from /\ at'[Me] = to /\ at' \in [Writers -> Steps]
           /\ \A w \in Writers \ {Me} : at'[w] = "idle"
BY GoMoves DEF SaveInv, Me

\* What a step of the save owes when it has changed neither the text nor what is held.
LEMMA SaveMoves ==
    ASSUME SaveInv, pc = "persisting", NEW from \in Saving, NEW to \in Steps \ {"idle"},
           Go(Me, from, to), UNCHANGED <<held, text, pc, answered>>, hurt' \in BOOLEAN,
           file' \in Fitting \union {Missing, Cut}, tmp' \in Fitting \union {Missing, Cut},
           ~hurt' /\ to \in {"synced", "closed"} => tmp' = held,
           ~hurt' /\ to = "saved" => file' = held /\ tmp' = Missing
    PROVE SaveInv'
<1>1. /\ at[Me] = from /\ at'[Me] = to /\ at' \in [Writers -> Steps]
      /\ \A w \in Writers \ {Me} : at'[w] = "idle"
  BY MyStep DEF Steps, Saving
<1>2. StoreTypeOK'
  BY <1>1, FittingValues DEF SaveInv, StoreTypeOK, Contents
<1>3. answered' = Missing
  BY DEF SaveInv
<1> QED
  BY <1>1, <1>2, <1>3 DEF SaveInv, AnsweredIsDurable

LEMMA SnapshotKeepsSave ==
    ASSUME SaveInv, pc = "persisting", Snapshot(Me), UNCHANGED <<pc, answered>>
    PROVE SaveInv'
<1>1. /\ at[Me] = "idle" /\ at'[Me] = "built" /\ at' \in [Writers -> Steps]
      /\ \A w \in Writers \ {Me} : at'[w] = "idle"
  BY MyStep DEF Snapshot, Steps
<1>2. text'[Me] = held /\ text' \in [Writers -> Values]
  BY DEF Snapshot, SaveInv, StoreTypeOK, Me
<1> QED
  BY <1>1, <1>2 DEF Snapshot, SaveInv, StoreTypeOK, AnsweredIsDurable

\* Steps before the rename leave the file alone, and the rename moves what was synced.
LEMMA SaveStepKeepsSave ==
    ASSUME SaveInv, pc = "persisting", SaveStep(Me), UNCHANGED <<pc, answered>>
    PROVE SaveInv'
<1> USE DEF Steps, Saving
<1>0. hurt \in BOOLEAN /\ text[Me] \in Fitting
      /\ file \in Fitting \union {Missing, Cut} /\ tmp \in Fitting \union {Missing, Cut}
  BY DEF SaveInv, StoreTypeOK
<1>1. CASE Open(Me)
  BY <1>0, <1>1, SaveMoves DEF Open
<1>2. CASE OpenFails(Me) \/ RenameFails(Me)
  BY <1>0, <1>2, SaveMoves DEF OpenFails, RenameFails
<1>3. CASE Sync(Me)
  <2>1. text[Me] = held
    BY <1>3 DEF Sync, Go, SaveInv
  <2> QED
    BY <1>0, <1>3, <2>1, SaveMoves DEF Sync
<1>4. CASE PutsFails(Me)
  BY <1>0, <1>4, SaveMoves DEF PutsFails
<1>5. CASE FlushFails(Me)
  BY <1>0, <1>5, SaveMoves DEF FlushFails
<1>6. CASE Close(Me)
  <2>1. ~hurt => tmp = held
    BY <1>6 DEF Close, Go, SaveInv
  <2> QED
    BY <1>0, <1>6, <2>1, SaveMoves DEF Close
<1>7. CASE Rename(Me)
  <2>1. ~hurt => tmp = held
    BY <1>7 DEF Rename, Go, SaveInv
  <2> QED
    BY <1>0, <1>7, <2>1, SaveMoves DEF Rename
<1> QED
  BY <1>1, <1>2, <1>3, <1>4, <1>5, <1>6, <1>7 DEF SaveStep

\* The files and the text take their new content from each other and from what is held.
LEMMA SavingIsGenuine ==
    ASSUME SaveInv, Genuine, Snapshot(Me) \/ SaveStep(Me), UNCHANGED <<got, plain, given>>
    PROVE Genuine'
<1>1. /\ held' = held /\ text'[Me] \in {text[Me], held}
      /\ file' \in {file, tmp} /\ tmp' \in {tmp, text[Me], Missing, Cut}
  BY DEF SaveInv, StoreTypeOK, Me, Snapshot, SaveStep, Open, OpenFails, Sync, PutsFails,
         FlushFails, Close, Rename, RenameFails
<1> QED
  BY <1>1 DEF Genuine

LEMMA PersistKeeps == ThreadInv /\ Persist => ThreadInv'
<1> SUFFICES ASSUME ThreadInv, Persist PROVE ThreadInv'
  OBVIOUS
<1>1. SaveInv'
  BY SnapshotKeepsSave, SaveStepKeepsSave DEF ThreadInv, Persist, threadVars, Me
<1>2. AgentInv'
  BY DEF ThreadInv, AgentInv, Persist, threadVars, session
<1>3. Genuine'
  BY SavingIsGenuine DEF ThreadInv, Persist, threadVars, Me
<1> QED
  BY <1>1, <1>2, <1>3 DEF ThreadInv

LEMMA AnswerKeeps == ThreadInv /\ Answer => ThreadInv'
<1> SUFFICES ASSUME ThreadInv, Answer PROVE ThreadInv'
  OBVIOUS
<1>1. /\ at' \in [Writers -> Steps] /\ text' \in [Writers -> Values]
      /\ at'[Me] = "idle" /\ text'[Me] = Blank
      /\ \A w \in Writers \ {Me} : at'[w] = "idle"
  BY DEF ThreadInv, SaveInv, StoreTypeOK, Answer, Return, Me, Steps
<1>2. answered' # Missing /\ ~hurt => file = held /\ tmp = Missing /\ answered' = held
  BY DEF ThreadInv, SaveInv, Answer, Me
<1>3. answered' \in Values \union {Missing} /\ Blank \in Fitting
  BY DEF ThreadInv, SaveInv, StoreTypeOK, Answer, Fitting
<1>4. SaveInv'
  BY <1>1, <1>2, <1>3
  DEF ThreadInv, SaveInv, StoreTypeOK, Answer, Return, Saving, AnsweredIsDurable
<1>5. AgentInv'
  BY StoreKeepsAgent DEF ThreadInv, AgentInv, Answer
<1> QED
  BY <1>1, <1>4, <1>5 DEF ThreadInv, Answer, Return, Genuine

\* A restart gets back what was saved.
LEMMA ThreadRestartKeeps == ThreadInv /\ ThreadRestart => ThreadInv'
<1> SUFFICES ASSUME ThreadInv, ThreadRestart PROVE ThreadInv'
  OBVIOUS
<1>1. held' \in Fitting /\ (held' = file \/ held' = Blank)
  BY LoadedFits DEF ThreadInv, SaveInv, ThreadRestart, StoreRestart
<1>2. Blank \in Fitting /\ held' \in Values
  BY <1>1, FittingValues DEF Fitting
<1>3. at' \in [Writers -> Steps] /\ text' \in [Writers -> Values] /\ text'[Me] = Blank
      /\ \A w \in Writers : at'[w] = "idle"
  BY DEF ThreadRestart, StoreRestart, Steps, Me
<1>4. answered # Missing /\ ~hurt => held' = file
  \* What was answered is something that can be loaded.
  BY FittingValues DEF ThreadInv, SaveInv, AnsweredIsDurable, ThreadRestart, StoreRestart, Loaded
<1>5. SaveInv'
  BY <1>1, <1>2, <1>3, <1>4
  DEF ThreadInv, SaveInv, StoreTypeOK, ThreadRestart, StoreRestart, Saving, AnsweredIsDurable, Me
<1>6. AgentInv'
  BY <1>2, NobodyIsAgent DEF ThreadInv, AgentInv, ThreadRestart, CloseSession
<1> QED
  BY <1>1, <1>3, <1>5, <1>6 DEF ThreadInv, ThreadRestart, StoreRestart, Genuine

LEMMA StutterKeepsThread == ThreadInv /\ UNCHANGED <<storeVars, threadVars>> => ThreadInv'
<1> SUFFICES ASSUME ThreadInv, UNCHANGED <<storeVars, threadVars>> PROVE ThreadInv'
  OBVIOUS
<1>1. SaveInv'
  BY SessionKeepsSave DEF ThreadInv, threadVars
<1> QED
  BY <1>1 DEF ThreadInv, AgentInv, Genuine, storeVars, threadVars, session

LEMMA NextThread == ThreadInv /\ [ThreadNext]_<<storeVars, threadVars>> => ThreadInv'
<1> SUFFICES ASSUME ThreadInv, ThreadNext PROVE ThreadInv'
  BY StutterKeepsThread
<1>1. CASE ConnectFails \/ PetitionRefused \/ ReadTimeout \/ NoDataset
  BY <1>1, GiveUpKeeps DEF ConnectFails, PetitionRefused, ReadTimeout, NoDataset
<1>2. CASE Abort
  BY <1>2, ThreadRestartKeeps DEF Abort
<1> QED
  BY <1>1, <1>2, FetchKeeps, SendPetitionKeeps, PetitionAcceptedKeeps, ReadDatasetKeeps,
     StoreKeeps, ClearKeeps, PersistKeeps, AnswerKeeps, JudgeKeeps, GiveDatasetKeeps,
     RefuseKeeps, AckFirstKeeps, JudgeAgainKeeps, ThreadRestartKeeps
  DEF ThreadNext

-----------------------------------------------------------------------------
(* The theorems                                                            *)

LEMMA ThreadInvIsKept == ThreadSpec => []ThreadInv
BY InitThread, NextThread, PTL DEF ThreadSpec

\* The credentials, the session and the save keep their types, for any datasets.
THEOREM ThreadTypeCorrect == ThreadSpec => []ThreadTypeOK
<1>1. ThreadInv => ThreadTypeOK
  BY DEF ThreadInv, SaveInv, AgentInv, ThreadTypeOK, Fitting
<1> QED
  BY <1>1, ThreadInvIsKept, PTL

\* Credentials that were stored or cleared with success are so in RAM and in flash,
\* over restarts.
THEOREM AnsweredStays == ThreadSpec => []AnsweredIsDurable
<1>1. ThreadInv => AnsweredIsDurable
  BY DEF ThreadInv, SaveInv
<1> QED
  BY <1>1, ThreadInvIsKept, PTL

\* What is kept as the dataset is one that the agent gave, as long as it answers with
\* the acknowledgement.
THEOREM DatasetsAreGenuine == ThreadSpec => []DatasetIsGenuine
<1>1. ThreadInv => DatasetIsGenuine
  <2> SUFFICES ASSUME ThreadInv, plain
               PROVE {held, Loaded(file)} \subseteq {Blank} \union (given \ Oversize)
    BY DEF DatasetIsGenuine
  <2>1. held \in {Blank} \union (given \ Oversize)
    BY FittingValues DEF ThreadInv, SaveInv, Genuine
  <2>2. Loaded(file) \in {Blank} \union (given \ Oversize)
    BY LoadedFits, FittingValues DEF ThreadInv, SaveInv, Genuine
  <2> QED
    BY <2>1, <2>2
<1> QED
  BY <1>1, ThreadInvIsKept, PTL

-----------------------------------------------------------------------------
(* The refinement                                                          *)

\* What DurableStore's pending stands for.
Pending == IF at[Me] \in {"idle", "saved", "failed"} THEN Missing ELSE text[Me]

LEMMA PendingIsText ==
    ASSUME SaveInv
    PROVE /\ at[Me] \in Saving => Pending = held /\ Pending # Missing
          /\ at[Me] \notin Saving => Pending = Missing
BY FittingValues DEF SaveInv, StoreTypeOK, Pending, Saving, Steps, Me

LEMMA InitRefines == ThreadInit => Durable!Init
BY DEF ThreadInit, StoreInit, Durable!Init

\* A step that leaves the store alone is a stutter.
LEMMA SessionRefines == UNCHANGED storeVars => UNCHANGED Durable!vars
BY DEF storeVars, Durable!vars

LEMMA StoreRefines == ThreadInv /\ Store => Durable!Next
<1> SUFFICES ASSUME ThreadInv, Store PROVE Durable!Next
  OBVIOUS
<1>1. Pending = Missing /\ got \in Values
  BY PendingIsText, FittingValues DEF ThreadInv, SaveInv, AgentInv, Store, Saving
<1>2. Durable!Change(got)
  BY <1>1 DEF Store, Pending, Me, Durable!Change
<1> QED
  BY <1>1, <1>2 DEF Durable!Next

\* The unlink takes the saved credentials away; if it fails only the RAM changes.
LEMMA ClearRefines == ThreadInv /\ Clear => Durable!Next
<1> SUFFICES ASSUME ThreadInv, Clear PROVE Durable!Next
  OBVIOUS
<1>1. Pending = Missing
  BY PendingIsText DEF ThreadInv, SaveInv, Clear, Saving
<1>2. Durable!Remove \/ Durable!Change(Blank)
  BY <1>1 DEF Clear, Pending, Me, Durable!Remove, Durable!Change
<1> QED
  BY <1>2 DEF Durable!Next

\* The snapshot begins the abstract save.
LEMMA SnapshotRefines == SaveInv /\ Snapshot(Me) => Durable!Begin
<1> SUFFICES ASSUME SaveInv, Snapshot(Me) PROVE Durable!Begin
  OBVIOUS
<1>1. at[Me] = "idle" /\ at'[Me] = "built" /\ text'[Me] = held
  BY MyStep DEF Snapshot, Steps, SaveInv, StoreTypeOK, Me
<1> QED
  BY <1>1 DEF Snapshot, Me, Durable!Begin

\* The rename commits it, and what comes before that is no step or the end of the save.
LEMMA SaveStepRefines == SaveInv /\ SaveStep(Me) => [Durable!Next]_Durable!vars
<1> SUFFICES ASSUME SaveInv, SaveStep(Me) PROVE [Durable!Next]_Durable!vars
  OBVIOUS
<1> USE DEF Steps, Me
<1>1. CASE Open(Me) \/ Sync(Me) \/ Close(Me)
  <2>1. at[Me] \in Saving /\ at'[Me] \in Saving
    BY <1>1, MyStep DEF Open, Sync, Close, Saving
  <2> QED
    BY <1>1, <2>1 DEF Open, Sync, Close, Saving, Durable!vars
<1>2. CASE OpenFails(Me) \/ PutsFails(Me) \/ RenameFails(Me)
  <2>1. at'[Me] = "failed"
    BY <1>2, MyStep DEF OpenFails, PutsFails, RenameFails
  \* Nobody else is about to rename anything.
  <2>2. hurt' = hurt
    BY <1>2 DEF OpenFails, PutsFails, RenameFails, SaveInv, StoreTypeOK
  <2>3. Durable!Fail
    BY <1>2, <2>1, <2>2 DEF OpenFails, PutsFails, RenameFails, Durable!Fail
  <2> QED
    BY <2>3 DEF Durable!Next
<1>3. CASE FlushFails(Me)
  <2>1. at[Me] = "open" /\ at'[Me] = "synced"
    BY <1>3, MyStep DEF FlushFails
  <2>2. text[Me] # Missing
    BY FittingValues DEF SaveInv
  <2>3. Durable!Spoil
    BY <1>3, <2>1, <2>2 DEF FlushFails, Durable!Spoil
  <2> QED
    BY <2>3 DEF Durable!Next
<1>4. CASE Rename(Me)
  <2>1. at[Me] = "closed" /\ at'[Me] = "saved"
    BY <1>4, MyStep DEF Rename
  <2>2. text[Me] # Missing /\ text[Me] = held /\ (~hurt => tmp = held)
    BY <2>1, FittingValues DEF SaveInv, Saving
  <2>3. CASE ~hurt
    <3>1. Durable!Commit
      BY <1>4, <2>1, <2>2, <2>3 DEF Rename, Durable!Commit
    <3> QED
      BY <3>1 DEF Durable!Next
  <2>4. CASE hurt
    <3>1. tmp \in Values \union {Cut}
      BY <1>4 DEF Rename, SaveInv, StoreTypeOK, Contents
    <3>2. Durable!CommitSpoiled
      BY <1>4, <2>1, <2>2, <2>4, <3>1 DEF Rename, Durable!CommitSpoiled
    <3> QED
      BY <3>2 DEF Durable!Next
  <2> QED
    BY <2>3, <2>4
<1> QED
  BY <1>1, <1>2, <1>3, <1>4 DEF SaveStep

LEMMA AnswerRefines == ThreadInv /\ Answer => UNCHANGED Durable!vars
<1> SUFFICES ASSUME ThreadInv, Answer PROVE UNCHANGED Durable!vars
  OBVIOUS
<1>1. at[Me] \in {"saved", "failed"} /\ at'[Me] = "idle"
  BY DEF ThreadInv, SaveInv, StoreTypeOK, Answer, Return, Me
<1> QED
  BY <1>1 DEF Answer, Return, Me, Durable!vars

LEMMA RestartRefines == ThreadRestart => Durable!Next
<1> SUFFICES ASSUME ThreadRestart PROVE Durable!Next
  OBVIOUS
<1>1. at'["httpd"] = "idle"
  BY DEF ThreadRestart, StoreRestart
<1>2. Durable!Crash
  BY <1>1 DEF ThreadRestart, StoreRestart, Loaded, Durable!Crash, Durable!Recovered
<1> QED
  BY <1>2 DEF Durable!Next

LEMMA StepRefines ==
    ThreadInv /\ [ThreadNext]_<<storeVars, threadVars>> => [Durable!Next]_Durable!vars
<1> SUFFICES ASSUME ThreadInv, [ThreadNext]_<<storeVars, threadVars>>
             PROVE [Durable!Next]_Durable!vars
  OBVIOUS
<1>1. CASE UNCHANGED storeVars
  BY <1>1, SessionRefines
<1>2. CASE Persist
  BY <1>2, SnapshotRefines, SaveStepRefines DEF Persist, ThreadInv, Me, Durable!Next
<1>3. CASE ThreadRestart \/ Abort
  BY <1>3, RestartRefines DEF Abort
<1>4. CASE Store \/ Clear \/ Answer
  BY <1>4, StoreRefines, ClearRefines, AnswerRefines
<1> QED
  BY <1>1, <1>2, <1>3, <1>4
  DEF ThreadNext, Fetch, SendPetition, ConnectFails, PetitionAccepted, PetitionRefused,
      ReadTimeout, NoDataset, ReadDataset, GiveUp, Judge, GiveDataset, Refuse, Reply, AckFirst,
      JudgeAgain

\* Fetching, storing and clearing credentials, with failures and restarts anywhere, is
\* the atomic save of DurableStore.
THEOREM ThreadRefinement == ThreadSpec => ImplementsDurableStore
<1>1. QED
  BY InitRefines, StepRefines, ThreadInvIsKept, PTL
  DEF ThreadSpec, ImplementsDurableStore, Durable!Spec

=============================================================================
