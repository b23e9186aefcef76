-------------------------- MODULE JsonStoreProofs --------------------------
(***************************************************************************)
(* Proofs about JsonStore, for any tasks that save and any values.         *)
(*                                                                         *)
(* NeverEmptied is not inductive: the file gets what the temporary file    *)
(* has, whoever wrote that.  StoreInv adds what the temporary file has     *)
(* while tasks are in the middle of a save: there is one while a task has  *)
(* it open, what was synced is whole, and if it is cut short while a task  *)
(* is about to rename it, another one has it open, and the rename is       *)
(* refused.                                                                *)
(***************************************************************************)
EXTENDS JsonStore, TLAPS

USE JsonStoreAssumption

OpenHasFile == \A w \in Writers : at[w] \in {"open", "synced"} => tmp # Missing
SyncedIsWhole == ~hurt => \A w \in Writers : at[w] = "synced" => tmp # Cut
CutIsInUse ==
    ~hurt /\ tmp = Cut =>
        \A w \in Writers : at[w] = "closed" => \E o \in Writers : at[o] = "open"

StoreInv == StoreTypeOK /\ OpenHasFile /\ SyncedIsWhole /\ CutIsInUse /\ NeverEmptied

\* What the loader makes of any content is a value.
LEMMA LoadedIsValue ==
    ASSUME NEW content \in Contents
    PROVE Loaded(content) \in Values
BY DEF Loaded

\* One writer's step moves that writer alone.
LEMMA GoMoves ==
    ASSUME StoreTypeOK, NEW w \in Writers, NEW from \in Steps, NEW to \in Steps, Go(w, from, to)
    PROVE  /\ at[w] = from /\ at'[w] = to
           /\ at' \in [Writers -> Steps]
           /\ \A o \in Writers \ {w} : at'[o] = at[o]
BY DEF StoreTypeOK, Go

-----------------------------------------------------------------------------
LEMMA InitStore == StoreInit => StoreInv
BY DEF StoreInit, StoreInv, StoreTypeOK, Contents, Steps, OpenHasFile, SyncedIsWhole,
       CutIsInUse, NeverEmptied

LEMMA SnapshotKeeps ==
    ASSUME StoreInv, NEW w \in Writers, Snapshot(w)
    PROVE StoreInv'
<1>1. at'[w] = "built" /\ at' \in [Writers -> Steps] /\ \A o \in Writers \ {w} : at'[o] = at[o]
      /\ at[w] = "idle"
  BY GoMoves DEF Snapshot, StoreInv, Steps
<1>2. StoreTypeOK'
  BY <1>1 DEF Snapshot, StoreInv, StoreTypeOK
<1> QED
  BY <1>1, <1>2 DEF Snapshot, StoreInv, OpenHasFile, SyncedIsWhole, CutIsInUse, NeverEmptied

\* A step of w that leaves the files alone and after which w neither has the temporary
\* file open nor is about to rename it.
LEMMA GivingUpKeeps ==
    ASSUME StoreInv, NEW w \in Writers, NEW from \in Steps \ {"open"},
           NEW to \in {"idle", "built", "saved", "failed"},
           Go(w, from, to), UNCHANGED <<held, file, tmp, hurt>>, text' \in [Writers -> Values]
    PROVE StoreInv'
<1>1. at'[w] = to /\ at' \in [Writers -> Steps] /\ (\A o \in Writers \ {w} : at'[o] = at[o])
      /\ at[w] = from
  BY GoMoves DEF StoreInv, Steps
<1>2. StoreTypeOK'
  BY <1>1 DEF StoreInv, StoreTypeOK
<1> QED
  BY <1>1, <1>2 DEF StoreInv, OpenHasFile, SyncedIsWhole, CutIsInUse, NeverEmptied

LEMMA OpenKeeps ==
    ASSUME StoreInv, NEW w \in Writers, Open(w)
    PROVE StoreInv'
<1>1. at'[w] = "open" /\ at' \in [Writers -> Steps] /\ (\A o \in Writers \ {w} : at'[o] = at[o])
      /\ at[w] = "built"
  BY GoMoves DEF Open, StoreInv, Steps
<1>2. StoreTypeOK'
  BY <1>1 DEF Open, StoreInv, StoreTypeOK, Contents
<1>3. tmp' # Missing /\ (tmp' = tmp \/ tmp = Missing)
  BY DEF Open, StoreInv
<1>4. OpenHasFile' /\ CutIsInUse'
  BY <1>1, <1>3 DEF OpenHasFile, CutIsInUse
<1>5. SyncedIsWhole'
  BY <1>1, <1>3 DEF Open, StoreInv, OpenHasFile, SyncedIsWhole
<1> QED
  BY <1>2, <1>4, <1>5 DEF Open, StoreInv, NeverEmptied

LEMMA SyncKeeps ==
    ASSUME StoreInv, NEW w \in Writers, Sync(w)
    PROVE StoreInv'
<1>1. at'[w] = "synced" /\ at' \in [Writers -> Steps] /\ (\A o \in Writers \ {w} : at'[o] = at[o])
  BY GoMoves DEF Sync, StoreInv, Steps
<1>2. tmp' \in Values /\ tmp' # Missing /\ tmp' # Cut
  BY DEF Sync, StoreInv, StoreTypeOK
<1>3. StoreTypeOK'
  BY <1>1, <1>2 DEF Sync, StoreInv, StoreTypeOK, Contents
<1> QED
  BY <1>1, <1>2, <1>3
  DEF Sync, StoreInv, OpenHasFile, SyncedIsWhole, CutIsInUse, NeverEmptied

\* A write that failed while nobody is about to use the temporary file hurts nobody.
LEMMA PutsFailsKeeps ==
    ASSUME StoreInv, NEW w \in Writers, PutsFails(w)
    PROVE StoreInv'
<1>1. at'[w] = "failed" /\ at' \in [Writers -> Steps] /\ (\A o \in Writers \ {w} : at'[o] = at[o])
      /\ at[w] = "open"
  BY GoMoves DEF PutsFails, StoreInv, Steps
<1>2. hurt' \in BOOLEAN /\ (~hurt' => ~hurt)
  BY DEF PutsFails, StoreInv, StoreTypeOK
<1>3. ~hurt' => \A o \in Writers : at'[o] \notin {"synced", "closed"}
  BY <1>1 DEF PutsFails
<1>4. StoreTypeOK'
  BY <1>1, <1>2 DEF PutsFails, StoreInv, StoreTypeOK
<1> QED
  BY <1>1, <1>2, <1>3, <1>4
  DEF PutsFails, StoreInv, OpenHasFile, SyncedIsWhole, CutIsInUse, NeverEmptied

LEMMA FlushFailsKeeps ==
    ASSUME StoreInv, NEW w \in Writers, FlushFails(w)
    PROVE StoreInv'
<1>1. at'[w] = "synced" /\ at' \in [Writers -> Steps] /\ (\A o \in Writers \ {w} : at'[o] = at[o])
      /\ at[w] = "open"
  BY GoMoves DEF FlushFails, StoreInv, Steps
<1>2. StoreTypeOK'
  BY <1>1 DEF FlushFails, StoreInv, StoreTypeOK
<1> QED
  BY <1>1, <1>2
  DEF FlushFails, StoreInv, OpenHasFile, SyncedIsWhole, CutIsInUse, NeverEmptied

LEMMA CloseKeeps ==
    ASSUME StoreInv, NEW w \in Writers, Close(w)
    PROVE StoreInv'
<1>1. at'[w] = "closed" /\ at' \in [Writers -> Steps] /\ (\A o \in Writers \ {w} : at'[o] = at[o])
      /\ at[w] = "synced"
  BY GoMoves DEF Close, StoreInv, Steps
<1>2. StoreTypeOK'
  BY <1>1 DEF Close, StoreInv, StoreTypeOK
<1>3. ~hurt => tmp # Cut
  BY <1>1 DEF StoreInv, SyncedIsWhole
<1> QED
  BY <1>1, <1>2, <1>3
  DEF Close, StoreInv, OpenHasFile, SyncedIsWhole, CutIsInUse, NeverEmptied

\* Nobody else has the temporary file open, so it is whole.
LEMMA RenameKeeps ==
    ASSUME StoreInv, NEW w \in Writers, Rename(w)
    PROVE StoreInv'
<1>1. at'[w] = "saved" /\ at' \in [Writers -> Steps] /\ (\A o \in Writers \ {w} : at'[o] = at[o])
      /\ at[w] = "closed"
  BY GoMoves DEF Rename, StoreInv, Steps
<1>2. \A o \in Writers : at'[o] \notin {"open", "synced"}
  BY <1>1 DEF Rename, InUse
<1>3. ~hurt => tmp # Cut
  BY <1>1 DEF Rename, InUse, StoreInv, CutIsInUse
<1>4. StoreTypeOK'
  BY <1>1 DEF Rename, StoreInv, StoreTypeOK, Contents
<1> QED
  BY <1>1, <1>2, <1>3, <1>4
  DEF Rename, StoreInv, OpenHasFile, SyncedIsWhole, CutIsInUse, NeverEmptied

LEMMA RestartKeeps ==
    ASSUME StoreInv, StoreRestart
    PROVE StoreInv'
<1>1. held' \in Values
  BY LoadedIsValue DEF StoreRestart, StoreInv, StoreTypeOK
<1> QED
  BY <1>1 DEF StoreRestart, StoreInv, StoreTypeOK, Steps, OpenHasFile, SyncedIsWhole,
              CutIsInUse, NeverEmptied

LEMMA SaveStepKeeps ==
    ASSUME StoreInv, NEW w \in Writers, SaveStep(w)
    PROVE StoreInv'
<1>1. CASE OpenFails(w)
  BY <1>1, GivingUpKeeps DEF OpenFails, StoreInv, StoreTypeOK, Steps
<1>2. CASE RenameFails(w)
  BY <1>2, GivingUpKeeps DEF RenameFails, StoreInv, StoreTypeOK, Steps
<1> QED
  BY <1>1, <1>2, OpenKeeps, SyncKeeps, PutsFailsKeeps, FlushFailsKeeps, CloseKeeps, RenameKeeps
  DEF SaveStep

LEMMA ReturnKeeps ==
    ASSUME StoreInv, NEW w \in Writers, Return(w)
    PROVE StoreInv'
<1>1. Go(w, at[w], "idle") /\ at[w] \in Steps \ {"open"}
  BY DEF Return, Go, StoreInv, StoreTypeOK, Steps
<1>2. text' \in [Writers -> Values] /\ UNCHANGED <<held, file, tmp, hurt>>
  BY DEF Return, StoreInv, StoreTypeOK
<1> QED
  BY <1>1, <1>2, GivingUpKeeps

LEMMA ChangeKeeps ==
    ASSUME StoreInv, NEW v \in Values, Change(v)
    PROVE StoreInv'
BY DEF Change, StoreInv, StoreTypeOK, OpenHasFile, SyncedIsWhole, CutIsInUse, NeverEmptied

LEMMA StutterKeeps == StoreInv /\ UNCHANGED storeVars => StoreInv'
BY DEF storeVars, StoreInv, StoreTypeOK, OpenHasFile, SyncedIsWhole, CutIsInUse, NeverEmptied

LEMMA NextStore == StoreInv /\ [StoreNext]_storeVars => StoreInv'
BY SnapshotKeeps, SaveStepKeeps, ReturnKeeps, RestartKeeps, ChangeKeeps, StutterKeeps
DEF StoreNext

\* However many tasks save at once, with failures and restarts anywhere, the state
\* keeps its types.
THEOREM StoreTypeCorrect == StoreSpec => []StoreTypeOK
<1>1. StoreInv => StoreTypeOK
  BY DEF StoreInv
<1> QED
  BY <1>1, InitStore, NextStore, PTL DEF StoreSpec

\* And the file is never empty or cut short, unless a failed write was ignored.
THEOREM FileNeverEmptied == StoreSpec => []NeverEmptied
<1>1. StoreInv => NeverEmptied
  BY DEF StoreInv
<1> QED
  BY <1>1, InitStore, NextStore, PTL DEF StoreSpec

=============================================================================
