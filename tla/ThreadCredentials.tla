-------------------------- MODULE ThreadCredentials --------------------------
(***************************************************************************)
(* The Thread credentials: fetched from a border agent over a MeshCoP      *)
(* session (thread_meshcop.cpp), kept in RAM and in thread.json            *)
(* (thread_credentials.cpp), shown and cleared by the web server.  All of  *)
(* it runs on the httpd task, one request at a time.                       *)
(*                                                                         *)
(* coap_exchange sends one request and takes the next datagram for its     *)
(* answer, whatever its message id, token and code.  The network brings    *)
(* datagrams in any order, late or never; a session that is closed takes   *)
(* its datagrams with it.  External: the border agent answers with the     *)
(* acknowledgement (plain), or acknowledges first, answers then, and       *)
(* answers again as long as nobody acknowledges that.                      *)
(*                                                                         *)
(* app_main does not call thread_credentials_init (the call is commented   *)
(* out), so that the mutex is null and taking it restarts the controller;  *)
(* the component with the call in place is checked as well (ready).        *)
(* Requests without effect on the state (GET with a mutex, discovery of    *)
(* border agents, a body or a port that is refused) have no action.        *)
(*                                                                         *)
(* TimeoutIgnored, AnyLength and AnswerAnyway are slips, not part of       *)
(* ThreadSpec.                                                             *)
(***************************************************************************)
EXTENDS JsonStore

CONSTANTS
    Datasets,  \* the Active Operational Datasets an agent may have
    Oversize,  \* those longer than MAX_DATASET_LEN
    Junk       \* the payload of another message, stored as a dataset

Verdicts == {"accept", "reject"}
Empty == {"ack", "refusal"}

ASSUME ThreadAssumption ==
    /\ "httpd" \in Writers
    /\ Datasets \intersect (Verdicts \union Empty) = {}
    /\ Oversize \subseteq Datasets /\ (Datasets \ Oversize) \union {Junk} \subseteq Values \ Large
    /\ Junk \notin Datasets \union {Blank} /\ Blank \notin Datasets

VARIABLES
    ready,     \* thread_credentials_init was called
    pc,        \* where the httpd task is
    got,       \* the dataset pull_dataset returned
    agent,     \* agent[q]: what the agent has done about request q of this session
    late,      \* the requests it acknowledged before it answered
    net,       \* datagrams on their way to the controller
    plain,     \* history: it never acknowledged first
    given,     \* history: the datasets it gave
    answered   \* history: what the last store or clear was answered with ESP_OK for

threadVars == <<ready, pc, got, agent, late, net, plain, given, answered>>
session == <<agent, late, net>>

Requests == {"cp", "ag"}   \* the petition, and MGMT_ACTIVE_GET
Packets == Verdicts \union Empty \union Datasets
Nobody == [q \in Requests |-> "none"]

ThreadTypeOK ==
    /\ StoreTypeOK
    /\ ready \in BOOLEAN
    /\ pc \in {"idle", "connecting", "petition", "active", "storing", "persisting"}
    /\ got \in (Datasets \ Oversize) \union {Blank, Junk}
    /\ agent \in [Requests -> {"none", "asked", "answered"} \union Verdicts]
    /\ late \subseteq Requests /\ net \subseteq Packets
    /\ plain \in BOOLEAN /\ given \subseteq Datasets
    /\ answered \in Values \union {Missing}

ThreadInit ==
    /\ StoreInit
    /\ ready \in BOOLEAN
    /\ pc = "idle" /\ got = Blank
    /\ agent = Nobody /\ late = {} /\ net = {}
    /\ plain = TRUE /\ given = {} /\ answered = Missing

-----------------------------------------------------------------------------
(* POST /api/thread/credentials/fetch: the session with the border agent   *)

CloseSession == agent' = Nobody /\ late' = {} /\ net' = {}

Fetch ==
    /\ pc = "idle" /\ pc' = "connecting"
    /\ UNCHANGED <<ready, got, session, plain, given, answered, storeVars>>

\* The request is sent; it may not arrive.
Ask(q, already) == \E fate \in {"asked", "none"} : agent' = [already EXCEPT ![q] = fate]

\* The handshake succeeded (the agent is in ephemeral-key mode, with this passcode).
SendPetition ==
    /\ pc = "connecting" /\ pc' = "petition"
    /\ Ask("cp", Nobody)
    /\ UNCHANGED <<ready, got, late, net, plain, given, answered, storeVars>>

PetitionAccepted ==
    /\ pc = "petition" /\ pc' = "active"
    /\ "accept" \in net /\ net' = net \ {"accept"}
    /\ Ask("ag", agent)
    /\ UNCHANGED <<ready, got, late, plain, given, answered, storeVars>>

\* The result is an error: the session is closed and the handler answers 500.
GiveUp ==
    /\ pc' = "idle"
    /\ CloseSession
    /\ UNCHANGED <<ready, got, plain, given, answered, storeVars>>

ConnectFails == pc = "connecting" /\ GiveUp
PetitionRefused == pc = "petition" /\ net \ {"accept"} # {} /\ GiveUp

TimeoutIgnored ==
    \/ pc = "active" /\ GiveUp
    \/ /\ pc = "petition" /\ pc' = "active"
       /\ Ask("ag", agent)
       /\ UNCHANGED <<ready, got, late, net, plain, given, answered, storeVars>>

\* No datagram within the read's 5 seconds.
ReadTimeout == pc \in {"petition", "active"} /\ GiveUp

NoDataset == pc = "active" /\ net \intersect (Empty \union Oversize) # {} /\ GiveUp

AnyLength ==
    /\ pc = "active" /\ pc' = "storing"
    /\ \E m \in net \ Empty : got' = IF m \in Datasets THEN m ELSE Junk
    /\ CloseSession
    /\ UNCHANGED <<ready, plain, given, answered, storeVars>>

\* Any payload that fits is the dataset.
ReadDataset ==
    /\ pc = "active" /\ pc' = "storing"
    /\ \E m \in net \ (Empty \union Oversize) : got' = IF m \in Datasets THEN m ELSE Junk
    /\ CloseSession
    /\ UNCHANGED <<ready, plain, given, answered, storeVars>>

-----------------------------------------------------------------------------
(* The store, and DELETE /api/thread/credentials                           *)

\* thread_credentials_store: the RAM is changed first, and stays so if the save fails.
Store ==
    /\ ready
    /\ pc = "storing" /\ pc' = "persisting"
    /\ held' = got /\ got' = Blank
    /\ answered' = Missing
    /\ UNCHANGED <<file, tmp, at, text, hurt, ready, session, plain, given>>

\* thread_credentials_clear; nobody looks whether the unlink succeeded.
Clear ==
    /\ ready
    /\ pc = "idle" /\ pc' = "persisting"
    /\ held' = Blank
    /\ file' \in {file, Missing}
    /\ answered' = Missing
    /\ UNCHANGED <<tmp, at, text, hurt, ready, got, session, plain, given>>

\* persist_locked
Persist ==
    /\ pc = "persisting"
    /\ Snapshot("httpd") \/ SaveStep("httpd")
    /\ UNCHANGED threadVars

AnswerAnyway ==
    /\ pc = "persisting" /\ pc' = "idle"
    /\ Return("httpd")
    /\ answered' = held
    /\ UNCHANGED <<ready, got, session, plain, given>>

\* The mutex is given back and the handler answers with persist's result.
Answer ==
    /\ pc = "persisting" /\ pc' = "idle"
    /\ Return("httpd")
    /\ answered' = IF at["httpd"] = "saved" THEN held ELSE Missing
    /\ UNCHANGED <<ready, got, session, plain, given>>

-----------------------------------------------------------------------------
(* The border agent                                                        *)

Reply(q, verdict, m) ==
    /\ agent[q] = "asked"
    /\ agent' = [agent EXCEPT ![q] = verdict]
    /\ net' = net \union {m}
    /\ UNCHANGED <<ready, pc, got, late, plain, answered, storeVars>>

Judge(verdict) == Reply("cp", verdict, verdict) /\ UNCHANGED given

GiveDataset(d) ==
    /\ agent["cp"] = "accept"
    /\ Reply("ag", "answered", d)
    /\ given' = given \union {d}

Refuse == agent["cp"] # "accept" /\ Reply("ag", "answered", "refusal") /\ UNCHANGED given

\* The answer is on its way to the leader: an empty acknowledgement comes first.
AckFirst(q) ==
    /\ agent[q] = "asked" /\ q \notin late
    /\ late' = late \union {q}
    /\ net' = net \union {"ack"}
    /\ plain' = FALSE
    /\ UNCHANGED <<ready, pc, got, agent, given, answered, storeVars>>

\* (A dataset sent again finds the session closed.)
JudgeAgain ==
    /\ "cp" \in late /\ agent["cp"] \in Verdicts
    /\ net' = net \union {agent["cp"]}
    /\ UNCHANGED <<ready, pc, got, agent, late, plain, given, answered, storeVars>>

-----------------------------------------------------------------------------
(* The controller                                                          *)

ThreadRestart ==
    /\ StoreRestart
    /\ pc' = "idle" /\ got' = Blank
    /\ CloseSession
    /\ UNCHANGED <<ready, plain, given, answered>>

\* GET, DELETE or a store takes the mutex that was never made.
Abort == ~ready /\ pc \in {"idle", "storing"} /\ ThreadRestart

ThreadNext ==
    \/ Fetch \/ SendPetition \/ ConnectFails
    \/ PetitionAccepted \/ PetitionRefused \/ ReadTimeout \/ NoDataset \/ ReadDataset
    \/ Store \/ Clear \/ Persist \/ Answer
    \/ \E verdict \in Verdicts : Judge(verdict)
    \/ \E d \in Datasets : GiveDataset(d)
    \/ Refuse
    \/ \E q \in Requests : AckFirst(q)
    \/ JudgeAgain
    \/ ThreadRestart \/ Abort

ThreadSpec == ThreadInit /\ [][ThreadNext]_<<storeVars, threadVars>>

-----------------------------------------------------------------------------
(* Properties                                                              *)

\* Credentials whose store was answered with success are in RAM and in flash until
\* the next store or clear, over restarts; after a DELETE answered with success no
\* file keeps any, so that no restart and no later rename brings them back.  (Unless
\* a flush failed, which persist does not notice.)
AnsweredIsDurable ==
    answered # Missing /\ ~hurt => held = answered /\ file = answered /\ tmp = Missing

\* What is kept as the network's dataset is one that the agent gave in answer to
\* MGMT_ACTIVE_GET, whole, however late its datagrams come, as long as it answers with
\* the acknowledgement.  (With an answer of its own, sent again because the controller
\* acknowledges nothing, the petition's verdict is stored as the dataset.)
DatasetIsGenuine ==
    plain => {held, Loaded(file)} \subseteq {Blank} \union (given \ Oversize)

\* Saving one request at a time, with failures, restarts and the removal of the file,
\* is the atomic save of DurableStore.
Durable == INSTANCE DurableStore WITH
    saved <- file, spoiled <- hurt, NoValue <- Missing, Broken <- Cut,
    pending <- IF at["httpd"] \in {"idle", "saved", "failed"} THEN Missing ELSE text["httpd"]
ImplementsDurableStore == Durable!Spec

=============================================================================
