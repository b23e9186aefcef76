----------------------------- MODULE JsonStore -----------------------------
(***************************************************************************)
(* A JSON file as device_manager, node_manager and thread_credentials save *)
(* it: a snapshot of what is held, written to a temporary file that has    *)
(* one name for all, flushed, closed, and renamed over the file.  Several  *)
(* tasks may be in persist at once, since the mutex is given back before   *)
(* the temporary file is opened (thread_credentials keeps it).             *)
(*                                                                         *)
(* External: LittleFS.  fopen "w" makes a file that is missing, empty; one *)
(* that is there keeps its content until a sync commits the new one.  A    *)
(* write that fails commits nothing.  rename is atomic, and is refused     *)
(* while another task has the temporary file open.                         *)
(*                                                                         *)
(* A text that was cut short is Cut, a file that is not there Missing.     *)
(* OpenInPlace, PutsUnchecked and AsItIs are slips, in no specification    *)
(* here.                                                                   *)
(***************************************************************************)
CONSTANTS
    Writers,   \* the tasks that may save
    Values,    \* what the component can hold
    Blank,     \* what it holds when nothing was loaded
    Large,     \* the values whose text is longer than the loader takes
    Missing, Cut

ASSUME JsonStoreAssumption ==
    /\ Blank \in Values \ Large
    /\ Missing \notin Values /\ Cut \notin Values /\ Missing # Cut

VARIABLES
    held,      \* the component's state in RAM
    file, tmp, \* the file and the temporary file
    at,        \* at[w]: how far w is in persist, or the result it returns
    text,      \* text[w]: the snapshot w is saving
    hurt       \* history: a write failed and the code goes on regardless

storeVars == <<held, file, tmp, at, text, hurt>>

Steps == {"idle", "built", "open", "synced", "closed", "saved", "failed"}
Contents == Values \union {Missing, Cut}

StoreTypeOK ==
    /\ held \in Values
    /\ file \in Contents /\ tmp \in Contents
    /\ at \in [Writers -> Steps] /\ text \in [Writers -> Values]
    /\ hurt \in BOOLEAN

StoreInit ==
    /\ held = Blank
    /\ file = Missing /\ tmp = Missing
    /\ at = [w \in Writers |-> "idle"] /\ text = [w \in Writers |-> Blank]
    /\ hurt = FALSE

\* Another task has the temporary file open.
InUse(w) == \E o \in Writers \ {w} : at[o] \in {"open", "synced"}

Go(w, from, to) == at[w] = from /\ at' = [at EXCEPT ![w] = to]

\* Under the mutex: what is held becomes a text.
Snapshot(w) ==
    /\ Go(w, "idle", "built")
    /\ text' = [text EXCEPT ![w] = held]
    /\ UNCHANGED <<held, file, tmp, hurt>>

OpenInPlace(w) ==
    /\ Go(w, "built", "open")
    /\ file' = Cut
    /\ UNCHANGED <<held, tmp, text, hurt>>

Open(w) ==
    /\ Go(w, "built", "open")
    /\ tmp' = IF tmp = Missing THEN Cut ELSE tmp
    /\ UNCHANGED <<held, file, text, hurt>>

\* No memory for the text, or no temporary file.
OpenFails(w) == Go(w, "built", "failed") /\ UNCHANGED <<held, file, tmp, text, hurt>>

\* fputs, fflush and fsync
Sync(w) ==
    /\ Go(w, "open", "synced")
    /\ tmp' = text[w]
    /\ UNCHANGED <<held, file, text, hurt>>

PutsUnchecked(w) == Go(w, "open", "synced") /\ UNCHANGED <<held, file, tmp, text, hurt>>

\* fputs fails: the file is closed and the save given up.  Another task may be about
\* to rename what this one has left.
PutsFails(w) ==
    /\ Go(w, "open", "failed")
    /\ hurt' = (hurt \/ \E o \in Writers \ {w} : at[o] \in {"synced", "closed"})
    /\ UNCHANGED <<held, file, tmp, text>>

\* fflush or fsync fails: nobody looks at what they return.
FlushFails(w) ==
    /\ Go(w, "open", "synced")
    /\ hurt' = TRUE
    /\ UNCHANGED <<held, file, tmp, text>>

Close(w) == Go(w, "synced", "closed") /\ UNCHANGED <<held, file, tmp, text, hurt>>

Rename(w) ==
    /\ Go(w, "closed", "saved")
    /\ tmp # Missing /\ ~InUse(w)
    /\ file' = tmp /\ tmp' = Missing
    /\ UNCHANGED <<held, text, hurt>>

\* The other task has renamed it already, or has it open, or the flash fails.
RenameFails(w) == Go(w, "closed", "failed") /\ UNCHANGED <<held, file, tmp, text, hurt>>

\* persist returns.
Return(w) ==
    /\ at[w] \in {"saved", "failed"}
    /\ at' = [at EXCEPT ![w] = "idle"] /\ text' = [text EXCEPT ![w] = Blank]
    /\ UNCHANGED <<held, file, tmp, hurt>>

SaveStep(w) ==
    \/ Open(w) \/ OpenFails(w) \/ Sync(w) \/ PutsFails(w) \/ FlushFails(w)
    \/ Close(w) \/ Rename(w) \/ RenameFails(w)

AsItIs(content) == content

\* The loader starts afresh without a file, and with one that is empty, too long or
\* no JSON.
Loaded(content) == IF content \in Values \ Large THEN content ELSE Blank

StoreRestart ==
    /\ held' = Loaded(file)
    /\ at' = [w \in Writers |-> "idle"] /\ text' = [w \in Writers |-> Blank]
    /\ UNCHANGED <<file, tmp, hurt>>

\* A mutator of the component, which persist does not keep out.
Change(v) == held' = v /\ UNCHANGED <<file, tmp, at, text, hurt>>

StoreNext ==
    \/ \E v \in Values : Change(v)
    \/ \E w \in Writers : Snapshot(w) \/ SaveStep(w) \/ Return(w)
    \/ StoreRestart

StoreSpec == StoreInit /\ [][StoreNext]_storeVars

-----------------------------------------------------------------------------
(* Properties                                                              *)

\* Whatever two tasks that save at once do to the temporary file they share, and
\* wherever a restart finds them, the file is missing (before its first save) or one
\* whole snapshot, unless a write failed and was ignored: an empty devices.json would
\* be loaded as no devices.
NeverEmptied == ~hurt => file # Cut

=============================================================================
