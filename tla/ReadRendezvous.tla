--------------------------- MODULE ReadRendezvous ---------------------------
(***************************************************************************)
(* Attribute reads of matter_controller.cpp: blocking_read_attr and        *)
(* matter_controller_get_onoff.  The httpd task, which runs every web      *)
(* handler one after the other, asks the CHIP task to read an attribute    *)
(* and waits on a binary semaphore.  The CHIP task runs the callbacks: a   *)
(* report fills a static buffer and sets a static ok flag, and a           *)
(* completion gives the semaphore.  Nothing in a callback says which read  *)
(* it belongs to, so what a read returns depends on the callbacks of the   *)
(* reads that were given up on.                                            *)
(*                                                                         *)
(* Reads are numbered in the order they are issued.  A buffer holds the    *)
(* number of the read whose report filled it, which is all the properties  *)
(* need to know of its contents.                                           *)
(*                                                                         *)
(* Operators named after a slip (DrainMissing, BeginKeepingOk, WaitAgain,  *)
(* CheckSkipped, DoneDuringReport) are not part of Spec: each stands for a *)
(* coding error that one of the properties rules out.                      *)
(***************************************************************************)
EXTENDS Integers, FiniteSets

CONSTANTS
    RmwKinds,    \* attributes read through blocking_read_attr, a buffer each
    DiagKinds,   \* those of them that on_thread_diag_read_attr takes: the buffers
                 \* are fields of one struct
    OnOff,       \* the attribute read by matter_controller_get_onoff
    MaxReads     \* bound: reads issued in a behaviour

ASSUME KindsAssumption == OnOff \notin RmwKinds /\ DiagKinds \subseteq RmwKinds
ASSUME BoundAssumption == MaxReads \in Nat

Kinds == RmwKinds \union {OnOff}
Reads == 1..MaxReads
NoRead == 0   \* an empty or cleared buffer, an idle CHIP task
Torn == -1    \* a buffer a report is being decoded into

Channels == {"rmw", "onoff"}
Channel(k) == IF k = OnOff THEN "onoff" ELSE "rmw"

VARIABLES
    pc,      \* where the httpd task is in a read
    cur,     \* the number of the last read begun
    kindOf,  \* kindOf[r]: the attribute read r asks for
    stage,   \* stage[r]: how far the CHIP task is with read r
    sem,     \* sem[c]: the channel's semaphore has been given
    ok,      \* ok[c]: s_rmw_read_ok, s_onoff_read_ok
    buffer,  \* buffer[k]: the read that filled the static buffer of k
    chip,    \* the read whose report the CHIP task is decoding
    last,    \* what the last read that ended returned
    clean,   \* history: at the start of cur, no read was open and no signal left undrained
    since,   \* history: the reads whose report set ok since cur began
    completed \* history: the reads that completed since cur began, or drained

httpdVars == <<pc, cur, kindOf, last, clean>>
vars == <<pc, cur, kindOf, stage, sem, ok, buffer, chip, last, clean, since, completed>>

Stages == {"unused", "sent", "reported", "closed"}
Open(r) == stage[r] \in {"sent", "reported"}

Statuses == {"OK", "FAIL", "TIMEOUT", "NO_MEM"}
Results == [id: 0..MaxReads, status: Statuses, origin: {Torn, NoRead} \union Reads]

TypeOK ==
    /\ pc \in {"idle", "cleared", "ready", "waiting", "woken", "copy"}
    /\ cur \in 0..MaxReads
    /\ kindOf \in [Reads -> Kinds]
    /\ stage \in [Reads -> Stages]
    /\ sem \in [Channels -> BOOLEAN]
    /\ ok \in [Channels -> BOOLEAN]
    /\ buffer \in [Kinds -> {Torn, NoRead} \union Reads]
    /\ chip \in {NoRead} \union Reads
    /\ last \in Results
    /\ clean \in BOOLEAN
    /\ since \in SUBSET Reads
    /\ completed \in SUBSET Reads
    /\ pc # "idle" => cur \in Reads
    /\ chip # NoRead => stage[chip] = "reported"

Init ==
    /\ pc = "idle"
    /\ cur = 0
    /\ kindOf = [r \in Reads |-> OnOff]
    /\ stage = [r \in Reads |-> "unused"]
    /\ sem = [c \in Channels |-> FALSE]
    /\ ok = [c \in Channels |-> FALSE]
    /\ buffer = [k \in Kinds |-> NoRead]
    /\ chip = NoRead
    /\ last = [id |-> 0, status |-> "FAIL", origin |-> NoRead]
    /\ clean = TRUE
    /\ since = {}
    /\ completed = {}

-----------------------------------------------------------------------------
(* The httpd task                                                          *)

ChannelOf(r) == Channel(kindOf[r])

BeginKeepingOk(k) ==
    /\ pc = "idle"
    /\ cur < MaxReads
    /\ cur' = cur + 1
    /\ kindOf' = [kindOf EXCEPT ![cur + 1] = k]
    /\ clean' = ((k = OnOff => ~sem["onoff"]) /\ \A r \in Reads : ~Open(r))
    /\ since' = {}
    /\ completed' = {}
    /\ UNCHANGED <<stage, sem, ok, chip, last>>

\* A handler enters a read of k: ok is cleared and the new read gets its number.
Begin(k) ==
    /\ pc = "idle"
    /\ cur < MaxReads
    /\ cur' = cur + 1
    /\ kindOf' = [kindOf EXCEPT ![cur + 1] = k]
    /\ ok' = [ok EXCEPT ![Channel(k)] = FALSE]
    /\ clean' = ((k = OnOff => ~sem["onoff"]) /\ \A r \in Reads : ~Open(r))
    /\ since' = {}
    /\ completed' = {}
    /\ UNCHANGED <<stage, sem, chip, last>>

\* What a caller clears before it reads k: get_thread_info the whole struct.
Cleared(k) == IF k \in DiagKinds THEN DiagKinds ELSE {k}

\* blocking_read_attr up to the drain.  The matter_controller_get_* callers clear
\* the buffer first (get_thread_info only before the first of its reads), the
\* read-modify-write callers do not.
BeginRmw(k) ==
    /\ k \in RmwKinds
    /\ Begin(k)
    /\ pc' = "cleared"
    /\ \/ buffer' = [q \in Kinds |-> IF q \in Cleared(k) THEN NoRead ELSE buffer[q]]
       \/ UNCHANGED buffer

\* get_onoff clears its value as well, and has no drain.
BeginOnOff ==
    /\ Begin(OnOff)
    /\ pc' = "ready"
    /\ buffer' = [buffer EXCEPT ![OnOff] = NoRead]

DrainMissing ==
    /\ pc = "cleared"
    /\ pc' = "ready"
    /\ completed' = {}
    /\ UNCHANGED <<cur, kindOf, stage, sem, ok, buffer, chip, last, clean, since>>

\* xSemaphoreTake(s_rmw_read_done, 0)
Drain ==
    /\ pc = "cleared"
    /\ pc' = "ready"
    /\ sem' = [sem EXCEPT !["rmw"] = FALSE]
    /\ completed' = {}
    /\ UNCHANGED <<cur, kindOf, stage, ok, buffer, chip, last, clean, since>>

Return(status, origin) ==
    /\ pc' = "idle"
    /\ last' = [id |-> cur, status |-> status, origin |-> origin]

\* Allocating the path list or the command fails: ESP_ERR_NO_MEM.
NoMemory ==
    /\ pc = "ready"
    /\ Return("NO_MEM", NoRead)
    /\ UNCHANGED <<cur, kindOf, stage, sem, ok, buffer, chip, clean, since, completed>>

\* send_command under LockChipStack, so never during a callback.
Send ==
    /\ pc = "ready"
    /\ chip = NoRead
    /\ pc' = "waiting"
    /\ stage' = [stage EXCEPT ![cur] = "sent"]
    /\ UNCHANGED <<cur, kindOf, sem, ok, buffer, chip, last, clean, since, completed>>

\* xSemaphoreTake returns pdTRUE.
Wake ==
    /\ pc = "waiting"
    /\ sem[ChannelOf(cur)]
    /\ sem' = [sem EXCEPT ![ChannelOf(cur)] = FALSE]
    /\ pc' = "woken"
    /\ UNCHANGED <<cur, kindOf, stage, ok, buffer, chip, last, clean, since, completed>>

WaitAgain ==
    /\ pc = "waiting"
    /\ ~sem[ChannelOf(cur)]
    /\ UNCHANGED vars

\* Five seconds pass without a signal.  The read is given up, not cancelled: its
\* callbacks still come if the device answers late.
Timeout ==
    /\ pc = "waiting"
    /\ ~sem[ChannelOf(cur)]
    /\ Return("TIMEOUT", NoRead)
    /\ UNCHANGED <<cur, kindOf, stage, sem, ok, buffer, chip, clean, since, completed>>

CheckSkipped ==
    /\ pc = "woken"
    /\ pc' = "copy"
    /\ UNCHANGED <<cur, kindOf, stage, sem, ok, buffer, chip, last, clean, since, completed>>

\* if (!s_rmw_read_ok) return ESP_FAIL
Check ==
    /\ pc = "woken"
    /\ IF ok[ChannelOf(cur)]
       THEN pc' = "copy" /\ UNCHANGED last
       ELSE Return("FAIL", NoRead)
    /\ UNCHANGED <<cur, kindOf, stage, sem, ok, buffer, chip, clean, since, completed>>

\* ESP_OK, and the caller copies the static buffer, without a lock.
Copy ==
    /\ pc = "copy"
    /\ Return("OK", buffer[kindOf[cur]])
    /\ UNCHANGED <<cur, kindOf, stage, sem, ok, buffer, chip, clean, since, completed>>

ReadSteps == Drain \/ NoMemory \/ Send \/ Wake \/ Timeout \/ Check \/ Copy

-----------------------------------------------------------------------------
(* The CHIP task, for any open read, abandoned or not                      *)

\* A report for read r arrives: a list buffer is cleared and then filled
\* element by element; the OnOff value is a single store.  A field of the
\* diagnostics is touched only once its value is known to decode.
ReportBegin(r) ==
    /\ chip = NoRead
    /\ stage[r] = "sent"
    /\ stage' = [stage EXCEPT ![r] = "reported"]
    /\ chip' = r
    /\ \/ kindOf[r] # OnOff /\ buffer' = [buffer EXCEPT ![kindOf[r]] = Torn]
       \/ kindOf[r] \in DiagKinds \union {OnOff} /\ UNCHANGED buffer
    /\ UNCHANGED <<sem, ok, since, completed>>
    /\ UNCHANGED httpdVars

\* The payload is decoded and ok is set.
ReportEnd(r) ==
    /\ chip = r
    /\ chip' = NoRead
    /\ buffer' = [buffer EXCEPT ![kindOf[r]] = r]
    /\ ok' = [ok EXCEPT ![ChannelOf(r)] = TRUE]
    /\ since' = since \union {r}
    /\ UNCHANGED <<stage, sem, completed>>
    /\ UNCHANGED httpdVars

\* The payload is not a list (or not a boolean): ok stays as it is.
ListUndecodable(r) ==
    /\ kindOf[r] \notin DiagKinds
    /\ buffer' = IF kindOf[r] = OnOff THEN buffer ELSE [buffer EXCEPT ![kindOf[r]] = NoRead]
    /\ UNCHANGED <<ok, since>>

\* on_thread_diag_read_attr leaves the field as it is, and sets ok nonetheless.
FieldUndecodable(r) ==
    /\ kindOf[r] \in DiagKinds
    /\ buffer[kindOf[r]] # Torn
    /\ ok' = [ok EXCEPT ![ChannelOf(r)] = TRUE]
    /\ since' = since \union {r}
    /\ UNCHANGED buffer

ReportUndecodable(r) ==
    /\ chip = r
    /\ chip' = NoRead
    /\ ListUndecodable(r) \/ FieldUndecodable(r)
    /\ UNCHANGED <<stage, sem, completed>>
    /\ UNCHANGED httpdVars

DoneDuringReport(r) ==
    /\ Open(r)
    /\ stage' = [stage EXCEPT ![r] = "closed"]
    /\ sem' = [sem EXCEPT ![ChannelOf(r)] = TRUE]
    /\ completed' = completed \union {r}
    /\ UNCHANGED <<ok, buffer, chip, since>>
    /\ UNCHANGED httpdVars

\* on_rmw_read_done, on_onoff_read_done: with or without a report before it.
Done(r) ==
    /\ chip = NoRead
    /\ Open(r)
    /\ stage' = [stage EXCEPT ![r] = "closed"]
    /\ sem' = [sem EXCEPT ![ChannelOf(r)] = TRUE]
    /\ completed' = completed \union {r}
    /\ UNCHANGED <<ok, buffer, chip, since>>
    /\ UNCHANGED httpdVars

\* No session could be set up: the command is freed and no callback runs.
Unreachable(r) ==
    /\ stage[r] = "sent"
    /\ chip = NoRead
    /\ stage' = [stage EXCEPT ![r] = "closed"]
    /\ UNCHANGED <<sem, ok, buffer, chip, since, completed>>
    /\ UNCHANGED httpdVars

ReportSteps(r) == ReportEnd(r) \/ ReportUndecodable(r)

Next ==
    \/ \E k \in RmwKinds : BeginRmw(k)
    \/ BeginOnOff
    \/ Drain \/ NoMemory \/ Send \/ Wake \/ Timeout \/ Check \/ Copy
    \/ \E r \in Reads :
          ReportBegin(r) \/ ReportEnd(r) \/ ReportUndecodable(r) \/ Done(r) \/ Unreachable(r)

\* The task scheduler runs the httpd task once it is ready and lets a callback
\* that has begun return.  Nothing makes a device answer.
Fairness ==
    /\ WF_vars(ReadSteps)
    /\ WF_vars(\E r \in Reads : ReportSteps(r))

Spec == Init /\ [][Next]_vars
FairSpec == Spec /\ Fairness

-----------------------------------------------------------------------------
(* Properties                                                              *)

Ended == pc = "idle" /\ cur > 0

\* A read begun while no other read is open, and for OnOff with no signal left
\* over, returns ESP_OK only with the data of its own report: not with an
\* earlier read's data, a cleared buffer or a half-filled one.  It is what every
\* read-modify-write of matter_controller.cpp builds on.  A read of the Thread
\* diagnostics may find its field as it was, but not half-filled.
QuiescentReadIsFaithful ==
    Ended /\ clean /\ last.status = "OK" =>
        \/ last.origin = cur
        \/ kindOf[cur] \in DiagKinds /\ last.origin # Torn

\* Whatever is still open: blocking_read_attr is ended by a completion given
\* after its drain, never by a leftover signal (the comment at the drain), and
\* it returns ESP_OK only if a report was decoded after it began.
RmwEndsOnNewCallbacks ==
    Ended /\ kindOf[cur] \in RmwKinds =>
        /\ last.status \in {"OK", "FAIL"} => completed # {}
        /\ last.status = "OK" => since # {}

\* Whatever is still open: the value get_onoff returns was reported after the
\* handler asked for it, though perhaps by another device.
OnOffValueIsCurrent ==
    Ended /\ kindOf[cur] = OnOff /\ last.status = "OK" => last.origin \in since

\* blocking_read_attr returns ESP_OK only once its own read has completed: the
\* signal is drained "so we block on THIS read's completion instead of returning
\* immediately on the leftover signal" (matter_controller.cpp:835-837).
RmwBlocksOnOwnCompletion ==
    Ended /\ kindOf[cur] \in RmwKinds /\ last.status = "OK" => cur \in completed

\* A read whose data is promised to be its own.
Quiet == clean /\ (cur > 0 => kindOf[cur] \notin DiagKinds)

Promise == INSTANCE AttributeRead WITH
    asked <- cur, quiet <- Quiet, busy <- (pc # "idle"), result <- last

\* The machinery of flags, semaphores and callbacks implements the read its
\* callers are written for (module AttributeRead), and no read keeps the httpd
\* task, and with it every web handler, for ever: not even one whose callbacks
\* never run.
ImplementsAttributeRead == Promise!FairSpec

=============================================================================
