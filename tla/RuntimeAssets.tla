--------------------------- MODULE RuntimeAssets ---------------------------
(***************************************************************************)
(* The disposable media VtNote owns: the runtime_assets rows and the files *)
(* they name (runtime_assets.py), the ways files come into being           *)
(* (media.py, uploads.py), the maintenance pass that empties the trash     *)
(* (maintenance.py) and the deletion of tasks (task_deletion.py).          *)
(*                                                                         *)
(* A file move and the database commit that records it are two steps, and  *)
(* a process may die between them.  Purging and deletion hold SQLite's     *)
(* write lock from their first read to their commit; the other operations  *)
(* read first and wait for the lock only when they commit.                 *)
(***************************************************************************)
EXTENDS FiniteSets, Naturals

CONSTANTS
    Tasks,          \* tasks of one item each
    Slots,          \* canonical media paths: one for each item and role
    TaskOf,         \* the task a slot belongs to
    UploadSlots,    \* the slots of role uploaded_source
    SampleTasks,    \* tasks that hold the sample of a profile test
    Assets,         \* ids of runtime_assets rows; a row never gets an old one's id
    Bytes,          \* what a media file may contain
    Results,        \* what the durable directory of a task contains
    Threads,        \* handlers and API requests
    Maintenance,    \* the maintenance thread
    Overlaps,       \* whether handlers of one slot may overlap: {TRUE}, {FALSE} or BOOLEAN
    Mortal,         \* the threads whose processes may die
    Faults,         \* whether a directory move of a deletion may fail
    Nothing

ASSUME MediaAssumption ==
    /\ TaskOf \in [Slots -> Tasks]
    /\ UploadSlots \subseteq Slots
    /\ SampleTasks \subseteq Tasks
    /\ Maintenance \notin Threads
    /\ Mortal \subseteq Threads \cup {Maintenance}
    /\ Overlaps \subseteq BOOLEAN
    /\ Faults \in BOOLEAN
    /\ Nothing \notin Bytes \cup {Results} \cup Threads \cup {Maintenance} \cup Slots \cup Assets

\* A media path, a trash directory and a durable directory are three places.
ASSUME PlacesAssumption ==
    Slots \cap Assets = {} /\ Slots \cap Tasks = {} /\ Assets \cap Tasks = {}

Everyone  == Threads \cup {Maintenance}
Contents  == Bytes \cup {Results}

\* Where a file may be: at its slot, in the trash directory of its row, or (the results of a
\* task, taken as one file) in the durable directory of its task.
Locations == Slots \cup Assets \cup Tasks

\* The directories a deletion moves as a whole.
Sources == [kind : {"data", "cache"}, of : Tasks] \cup [kind : {"bin"}, of : Assets]

FilesIn(source) ==
    IF source.kind = "cache" THEN {s \in Slots : TaskOf[s] = source.of} ELSE {source.of}

VARIABLES
    overlap,   \* whether a late handler and its successor may produce the same slot at once
    task,      \* "working": a status that blocks a purge; "ended": a terminal one
    row,       \* runtime_assets
    disk,      \* the file at each location
    incoming,  \* the uploaded file of a slot before it is owned
    staged,    \* what deletions have moved aside: where from, what, and by whom
    lock,      \* who holds SQLite's write lock over several steps
    op,        \* what each thread is doing
    sweep,     \* how far the maintenance pass is
    due        \* the ids the pass has still to trash or purge

vars == <<overlap, task, row, disk, incoming, staged, lock, op, sweep, due>>

Idle == [pc |-> "idle", on |-> Nothing, saw |-> "unused", holds |-> Nothing,
         batch |-> {}, todo |-> {}]

NewRow == [state |-> "unused", slot |-> Nothing, sum |-> Nothing, keep |-> "none"]

Init ==
    /\ overlap \in Overlaps
    /\ task = [t \in Tasks |-> "working"]
    /\ row = [a \in Assets |-> NewRow]
    /\ disk = [l \in Locations |-> IF l \in Tasks THEN Results ELSE Nothing]
    /\ incoming \in [UploadSlots -> Bytes]
    /\ staged = {}
    /\ lock = Nothing
    /\ op = [p \in Everyone |-> Idle]
    /\ sweep = "rest"
    /\ due = {}

-----------------------------------------------------------------------------
(* Helpers *)

Present(a) == row[a].state \in {"active", "trash"}

\* Faulty variant: a conversion does not know of the media in the trash.
ActiveRowsAt(s) == {a \in Assets : row[a].state = "active" /\ row[a].slot = s}

RowsAt(s) == {a \in Assets : Present(a) /\ row[a].slot = s}

OwnerTask(a) == TaskOf[row[a].slot]

Empty(l) == disk[l] = Nothing

At(p, pc) == op[p].pc = pc

\* The thread goes on at pc with the row a, of which it has read the state.
GoOn(p, pc, a, saw) == op' = [op EXCEPT ![p] = [Idle EXCEPT !.pc = pc, !.on = a, !.saw = saw]]

\* The thread goes on at pc with some bytes for the slot s.
Carry(p, pc, s, bytes) ==
    op' = [op EXCEPT ![p] = [Idle EXCEPT !.pc = pc, !.on = s, !.holds = bytes]]

Step(p, pc) == op' = [op EXCEPT ![p].pc = pc]

End(p) == op' = [op EXCEPT ![p] = Idle]

\* A RuntimeAssetError: in the first part of a maintenance pass it ends the pass
\* (MaintenanceService.run_once), everywhere else only the operation.
Raise(p) ==
    /\ End(p)
    /\ IF p = Maintenance
       THEN sweep' = "rest" /\ due' = {}
       ELSE UNCHANGED <<sweep, due>>

Move(from, to) == disk' = [disk EXCEPT ![from] = Nothing, ![to] = disk[from]]

Unlocked == lock = Nothing

\* The one copy of a's file, unharmed, is at its slot; or in the trash.
AtSlot(a)  == Empty(a) /\ disk[row[a].slot] = row[a].sum
InTrash(a) == Empty(row[a].slot) /\ disk[a] = row[a].sum

\* Faulty variant: trash does not recognise the move it made before it died.
StartTrashAfresh(p, a) == AtSlot(a) /\ GoOn(p, "trash", a, row[a].state)

\* trash and restore load the row, look for its file and verify it: a file that is where it
\* should be is not moved any more, and without a single good copy the operation fails.
StartTrash(p, a) ==
    \/ AtSlot(a) /\ GoOn(p, "trash", a, row[a].state)
    \/ InTrash(a) /\ GoOn(p, "trashed", a, row[a].state)

StartRestore(p, a) ==
    \/ InTrash(a) /\ GoOn(p, "restore", a, row[a].state)
    \/ AtSlot(a) /\ GoOn(p, "restored", a, row[a].state)

-----------------------------------------------------------------------------
(* Tasks, as far as media depend on them *)

Finish(t) ==
    /\ Unlocked
    /\ task[t] = "working"
    /\ task' = [task EXCEPT ![t] = "ended"]
    /\ UNCHANGED <<overlap, row, disk, incoming, staged, lock, op, sweep, due>>

\* Sample tasks are never listed, so that nobody retries or deletes them.
Retry(t) ==
    /\ Unlocked
    /\ t \notin SampleTasks
    /\ task[t] = "ended"
    /\ task' = [task EXCEPT ![t] = "working"]
    /\ UNCHANGED <<overlap, row, disk, incoming, staged, lock, op, sweep, due>>

-----------------------------------------------------------------------------
(* Files come into being *)

Producing(p, s) == op[p].on = s /\ op[p].pc \in {"place", "register", "insert"}

\* Once the task has ended only exports are made, from some active asset of it (_audio_source).
HasSource(t) ==
    \E a \in Assets : row[a].state = "active" /\ OwnerTask(a) = t /\ disk[row[a].slot] = row[a].sum

\* _run_conversion, up to the end of ffmpeg: an asset in the trash is restored, a file without a
\* row is registered, and otherwise a staging file with some bytes results.  An active row ends
\* the conversion, be its file good or not, with nothing changed.
BeginConversion(p, s) ==
    /\ At(p, "idle")
    /\ task[TaskOf[s]] = "working" \/ HasSource(TaskOf[s])
    /\ overlap \/ \A q \in Threads : ~Producing(q, s)
    /\ \/ \E a \in RowsAt(s) :
            /\ row[a].state = "trash"
            /\ StartRestore(p, a)
       \/ /\ RowsAt(s) = {}
          /\ ~Empty(s)
          /\ GoOn(p, "register", s, "unused")
       \/ /\ RowsAt(s) = {}
          /\ Empty(s)
          /\ \E b \in Bytes : Carry(p, "place", s, b)
    /\ UNCHANGED <<overlap, task, row, disk, incoming, staged, lock, sweep, due>>

\* Faulty variant: a file at the slot is replaced.
PlaceConversionAnyway(p) ==
    /\ At(p, "place")
    /\ LET s == op[p].on
       IN  IF op[p].holds # Nothing
           THEN /\ disk' = [disk EXCEPT ![s] = op[p].holds]
                /\ GoOn(p, "register", s, "unused")
           ELSE /\ End(p)
                /\ UNCHANGED disk
    /\ UNCHANGED <<overlap, task, row, incoming, staged, lock, sweep, due>>

\* The rest of _run_conversion: the staging file replaces nothing, and is gone when a deletion
\* has moved the directory it was in.  What a conversion that failed has written goes to the trash
\* as failed_media, a slot like those here that nothing else uses; it is left out.
PlaceConversion(p) ==
    /\ At(p, "place")
    /\ LET s == op[p].on
       IN  IF op[p].holds # Nothing /\ Empty(s)
           THEN /\ disk' = [disk EXCEPT ![s] = op[p].holds]
                /\ GoOn(p, "register", s, "unused")
           ELSE /\ End(p)
                /\ UNCHANGED disk
    /\ UNCHANGED <<overlap, task, row, incoming, staged, lock, sweep, due>>

\* UploadService._own_file: nothing asks whether the task is still there.  fail calls it again
\* when complete has moved the file and got no further.
OwnUpload(p, s) ==
    /\ At(p, "idle")
    /\ IF incoming[s] # Nothing
       THEN /\ Empty(s)
            /\ disk' = [disk EXCEPT ![s] = incoming[s]]
            /\ incoming' = [incoming EXCEPT ![s] = Nothing]
       ELSE /\ ~Empty(s)
            /\ UNCHANGED <<disk, incoming>>
    /\ GoOn(p, "register", s, "unused")
    /\ UNCHANGED <<overlap, task, row, staged, lock, sweep, due>>

\* register_staged, until it has measured the file and found no row.
MeasureFile(p) ==
    /\ At(p, "register")
    /\ LET s == op[p].on
       IN  IF task[TaskOf[s]] # "deleted" /\ ~Empty(s) /\ RowsAt(s) = {}
           THEN Carry(p, "insert", s, disk[s])
           ELSE End(p)
    /\ UNCHANGED <<overlap, task, row, disk, incoming, staged, lock, sweep, due>>

\* The insertion; a path that has a row by now, or an item that is gone, refuses it.  The file of
\* a failed upload is trashed at once (UploadService.fail).
InsertRow(p) ==
    /\ At(p, "insert")
    /\ Unlocked
    /\ LET s == op[p].on
       IN  IF task[TaskOf[s]] # "deleted" /\ RowsAt(s) = {}
           THEN \E a \in Assets :
                  /\ row[a].state = "unused"
                  /\ row' = [row EXCEPT ![a] = [state |-> "active", slot |-> s,
                                                sum |-> op[p].holds, keep |-> "none"]]
                  /\ \/ End(p)
                     \/ s \in UploadSlots /\ disk[s] = op[p].holds /\ GoOn(p, "trash", a, "active")
           ELSE /\ End(p)
                /\ UNCHANGED row
    /\ UNCHANGED <<overlap, task, disk, incoming, staged, lock, sweep, due>>

-----------------------------------------------------------------------------
(* Trash and restore *)

\* A handler trashes the active media of the item it works on, the profile test those of its sample.
BeginTrash(p, a) ==
    /\ At(p, "idle")
    /\ row[a].state = "active"
    /\ task[OwnerTask(a)] = "working" \/ OwnerTask(a) \in SampleTasks
    /\ StartTrash(p, a)
    /\ UNCHANGED <<overlap, task, row, disk, incoming, staged, lock, sweep, due>>

\* os.replace takes whatever is at the slot by now, and fails when nothing is.
MoveToTrash(p) ==
    /\ At(p, "trash")
    /\ LET a == op[p].on
           s == row[a].slot
       IN  IF Empty(s)
           THEN Raise(p) /\ UNCHANGED disk
           ELSE Move(s, a) /\ Step(p, "trashed") /\ UNCHANGED <<sweep, due>>
    /\ UNCHANGED <<overlap, task, row, incoming, staged, lock>>

\* The update writes what the session has changed since it loaded the row; a row that is gone
\* by now raises.
CommitTrash(p) ==
    /\ At(p, "trashed")
    /\ Unlocked
    /\ LET a == op[p].on
       IN  IF Present(a)
           THEN /\ row' = IF op[p].saw = "active"
                          THEN [row EXCEPT ![a].state = "trash", ![a].keep = "retained"]
                          ELSE row
                /\ End(p)
                /\ UNCHANGED <<sweep, due>>
           ELSE /\ Raise(p)
                /\ UNCHANGED row
    /\ UNCHANGED <<overlap, task, disk, incoming, staged, lock>>

\* A user restores from the trash view, or a handler finds its source in the trash.
BeginRestore(p, a) ==
    /\ At(p, "idle")
    /\ Present(a)
    /\ StartRestore(p, a)
    /\ UNCHANGED <<overlap, task, row, disk, incoming, staged, lock, sweep, due>>

MoveBack(p) ==
    /\ At(p, "restore")
    /\ LET a == op[p].on
       IN  IF Empty(a)
           THEN End(p) /\ UNCHANGED disk
           ELSE Move(a, row[a].slot) /\ Step(p, "restored")
    /\ UNCHANGED <<overlap, task, row, incoming, staged, lock, sweep, due>>

CommitRestore(p) ==
    /\ At(p, "restored")
    /\ Unlocked
    /\ LET a == op[p].on
       IN  row' = IF Present(a) /\ op[p].saw = "trash"
                  THEN [row EXCEPT ![a].state = "active", ![a].keep = "none"]
                  ELSE row
    /\ End(p)
    /\ UNCHANGED <<overlap, task, disk, incoming, staged, lock, sweep, due>>

-----------------------------------------------------------------------------
(* The maintenance pass *)

\* The rows trash_abandoned_profile_test_samples goes through.
Abandoned(a) ==
    /\ row[a].state = "active"
    /\ OwnerTask(a) \in SampleTasks
    /\ task[OwnerTask(a)] = "ended"

BeginPass ==
    /\ sweep = "rest"
    /\ sweep' = "samples"
    /\ due' = {a \in Assets : Abandoned(a)}
    /\ UNCHANGED <<overlap, task, row, disk, incoming, staged, lock, op>>

TrashSample(a) ==
    /\ sweep = "samples"
    /\ At(Maintenance, "idle")
    /\ a \in due
    /\ IF AtSlot(a) \/ InTrash(a)
       THEN StartTrash(Maintenance, a) /\ due' = due \ {a} /\ UNCHANGED sweep
       ELSE Raise(Maintenance)
    /\ UNCHANGED <<overlap, task, row, disk, incoming, staged, lock>>

\* 24 hours after it was trashed; no operation on the asset or its slot, and no maintenance pass
\* that has yet to come to it, takes so long.
RetentionEnds(a) ==
    /\ row[a].keep = "retained"
    /\ a \notin due
    /\ \A p \in Everyone : op[p].on \notin {a, row[a].slot}
    /\ row' = [row EXCEPT ![a].keep = "over"]
    /\ UNCHANGED <<overlap, task, disk, incoming, staged, lock, op, sweep, due>>

SelectDue ==
    /\ sweep = "samples"
    /\ At(Maintenance, "idle")
    /\ due = {}
    /\ sweep' = "purge"
    /\ due' = {a \in Assets : row[a].state = "trash" /\ row[a].keep = "over"}
    /\ UNCHANGED <<overlap, task, row, disk, incoming, staged, lock, op>>

Due(a) ==
    /\ row[a].state = "trash"
    /\ row[a].keep = "over"
    /\ task[OwnerTask(a)] = "ended"
    /\ Empty(row[a].slot)

\* Faulty variants: purge does not take the write lock before it reads; one refusal ends them all.
ReservePurgeUnlocked(a) ==
    /\ sweep = "purge"
    /\ At(Maintenance, "idle")
    /\ Unlocked
    /\ a \in due
    /\ due' = due \ {a}
    /\ IF Due(a) THEN GoOn(Maintenance, "unlink", a, "trash") ELSE UNCHANGED op
    /\ UNCHANGED <<overlap, task, row, disk, incoming, staged, lock, sweep>>

ReservePurgeOrStop(a) ==
    /\ sweep = "purge"
    /\ At(Maintenance, "idle")
    /\ Unlocked
    /\ a \in due
    /\ IF Due(a)
       THEN /\ lock' = Maintenance
            /\ GoOn(Maintenance, "unlink", a, "trash")
            /\ due' = due \ {a}
       ELSE /\ due' = {}
            /\ UNCHANGED <<lock, op>>
    /\ UNCHANGED <<overlap, task, row, disk, incoming, staged, sweep>>

\* purge takes the write lock before it reads the row; a row that may not be purged is passed over.
ReservePurge(a) ==
    /\ sweep = "purge"
    /\ At(Maintenance, "idle")
    /\ Unlocked
    /\ a \in due
    /\ due' = due \ {a}
    /\ IF Due(a)
       THEN /\ lock' = Maintenance
            /\ GoOn(Maintenance, "unlink", a, "trash")
       ELSE UNCHANGED <<lock, op>>
    /\ UNCHANGED <<overlap, task, row, disk, incoming, staged, sweep>>

Unlink ==
    /\ At(Maintenance, "unlink")
    /\ LET a == op[Maintenance].on
       IN  IF disk[a] \in {Nothing, row[a].sum}
           THEN /\ disk' = [disk EXCEPT ![a] = Nothing]
                /\ Step(Maintenance, "unlinked")
                /\ UNCHANGED lock
           ELSE /\ End(Maintenance)
                /\ lock' = Nothing
                /\ UNCHANGED disk
    /\ UNCHANGED <<overlap, task, row, incoming, staged, sweep, due>>

CommitPurge ==
    /\ At(Maintenance, "unlinked")
    /\ row' = [row EXCEPT ![op[Maintenance].on].state = "gone"]
    /\ lock' = Nothing
    /\ End(Maintenance)
    /\ UNCHANGED <<overlap, task, disk, incoming, staged, sweep, due>>

\* The pass goes on to the provider reconciler (see CloudAsr) and ends.
Reconcile ==
    /\ sweep = "purge"
    /\ At(Maintenance, "idle")
    /\ due = {}
    /\ sweep' = "reconcile"
    /\ UNCHANGED <<overlap, task, row, disk, incoming, staged, lock, op, due>>

EndPass ==
    /\ sweep = "reconcile"
    /\ sweep' = "rest"
    /\ UNCHANGED <<overlap, task, row, disk, incoming, staged, lock, op, due>>

-----------------------------------------------------------------------------
(* Deletion of tasks *)

\* delete_tasks moves the directories of every item, and of every asset it found in the trash.
DirectoriesOf(batch) ==
    [kind : {"data", "cache"}, of : batch] \cup
    {x \in [kind : {"bin"}, of : Assets] : row[x.of].state = "trash" /\ OwnerTask(x.of) \in batch}

\* The whole batch is checked under the write lock.  Leases and remote clean-up, which also refuse,
\* are in StageQueue and CloudAsr.
ReserveDeletion(p, batch) ==
    /\ At(p, "idle")
    /\ Unlocked
    /\ \A t \in batch : task[t] = "ended" /\ t \notin SampleTasks
    /\ lock' = p
    /\ op' = [op EXCEPT ![p] = [Idle EXCEPT !.pc = "stage", !.batch = batch,
                                            !.todo = DirectoriesOf(batch)]]
    /\ UNCHANGED <<overlap, task, row, disk, incoming, staged, sweep, due>>

\* What is in a directory goes with it, the staging files of conversions included.
StageOne(p, source) ==
    /\ staged' = staged \cup
          {[from |-> l, bytes |-> disk[l], by |-> p] : l \in {k \in FilesIn(source) : ~Empty(k)}}
    /\ disk' = [l \in Locations |-> IF l \in FilesIn(source) THEN Nothing ELSE disk[l]]
    /\ op' = [q \in Everyone |->
                 IF q = p THEN [op[p] EXCEPT !.todo = op[p].todo \ {source}]
                 ELSE IF At(q, "place") /\ op[q].on \in FilesIn(source)
                      THEN [op[q] EXCEPT !.holds = Nothing]
                      ELSE op[q]]

\* The results of an item are moved before its media, and the trash last.
StageSource(p) ==
    /\ At(p, "stage")
    /\ \E source \in op[p].todo :
         /\ source.kind = "cache" => [source EXCEPT !.kind = "data"] \notin op[p].todo
         /\ source.kind = "bin" => \A x \in op[p].todo : x.kind = "bin"
         /\ StageOne(p, source)
    /\ UNCHANGED <<overlap, task, row, incoming, lock, sweep, due>>

\* A move or the commit fails: the transaction is rolled back first.
DeletionFails(p) ==
    /\ Faults
    /\ At(p, "stage")
    /\ lock' = Nothing
    /\ Step(p, "undo")
    /\ UNCHANGED <<overlap, task, row, disk, incoming, staged, sweep, due>>

CommitDeletion(p) ==
    /\ At(p, "stage")
    /\ op[p].todo = {}
    /\ row' = [a \in Assets |-> IF Present(a) /\ OwnerTask(a) \in op[p].batch
                                THEN [row[a] EXCEPT !.state = "gone"] ELSE row[a]]
    /\ task' = [t \in Tasks |-> IF t \in op[p].batch THEN "deleted" ELSE task[t]]
    /\ lock' = Nothing
    /\ Step(p, "discard")
    /\ UNCHANGED <<overlap, disk, incoming, staged, sweep, due>>

StagedBy(p) == {e \in staged : e.by = p}

DiscardStaging(p) ==
    /\ At(p, "discard")
    /\ staged' = staged \ StagedBy(p)
    /\ End(p)
    /\ UNCHANGED <<overlap, task, row, disk, incoming, lock, sweep, due>>

\* What nobody will move any more stays where it is.
Abandon(entries) == (staged \ entries) \cup {[e EXCEPT !.by = Nothing] : e \in entries}

EntriesOf(p, source) == {e \in StagedBy(p) : e.from \in FilesIn(source)}

\* _restore_delete_stage: a directory goes back.  It stays aside when there is one in its place by
\* now, be it empty, or when the move fails.
UndoOne(p, source) ==
    /\ EntriesOf(p, source) # {}
    /\ \/ /\ \A l \in FilesIn(source) : Empty(l)
          /\ disk' = [l \in Locations |->
                         IF \E e \in EntriesOf(p, source) : e.from = l
                         THEN (CHOOSE e \in EntriesOf(p, source) : e.from = l).bytes
                         ELSE disk[l]]
          /\ staged' = staged \ EntriesOf(p, source)
       \/ /\ staged' = Abandon(EntriesOf(p, source))
          /\ UNCHANGED disk

UndoSource(p) ==
    /\ At(p, "undo")
    /\ \E source \in Sources : UndoOne(p, source)
    /\ UNCHANGED <<overlap, task, row, incoming, lock, op, sweep, due>>

UndoEnds(p) ==
    /\ At(p, "undo")
    /\ StagedBy(p) = {}
    /\ End(p)
    /\ UNCHANGED <<overlap, task, row, disk, incoming, staged, lock, sweep, due>>

-----------------------------------------------------------------------------
\* A process dies: its transaction is rolled back, its files stay.  The staging file of a
\* conversion has no name anybody will look for and is left out of the model.
Crash(p) ==
    /\ ~At(p, "idle")
    /\ End(p)
    /\ lock' = IF lock = p THEN Nothing ELSE lock
    /\ staged' = Abandon(StagedBy(p))
    /\ IF p = Maintenance
       THEN sweep' = "rest" /\ due' = {}
       ELSE UNCHANGED <<sweep, due>>
    /\ UNCHANGED <<overlap, task, row, disk, incoming>>

-----------------------------------------------------------------------------
MediaStep(p) ==
    \/ PlaceConversion(p) \/ MeasureFile(p) \/ InsertRow(p)
    \/ MoveToTrash(p) \/ CommitTrash(p)
    \/ MoveBack(p) \/ CommitRestore(p)

DeletionStep(p) ==
    \/ StageSource(p) \/ DeletionFails(p) \/ CommitDeletion(p) \/ DiscardStaging(p)
    \/ UndoSource(p) \/ UndoEnds(p)

Request(p) ==
    \/ \E s \in Slots \ UploadSlots : BeginConversion(p, s)
    \/ \E s \in UploadSlots : OwnUpload(p, s)
    \/ \E a \in Assets : BeginTrash(p, a) \/ BeginRestore(p, a)
    \/ \E batch \in SUBSET Tasks \ {{}} : ReserveDeletion(p, batch)

MaintenanceStep ==
    \/ BeginPass \/ SelectDue \/ Unlink \/ CommitPurge \/ Reconcile \/ EndPass
    \/ \E a \in Assets : TrashSample(a) \/ ReservePurge(a)
    \/ MoveToTrash(Maintenance) \/ CommitTrash(Maintenance)

Next ==
    \/ \E t \in Tasks : Finish(t) \/ Retry(t)
    \/ \E p \in Threads : Request(p) \/ MediaStep(p) \/ DeletionStep(p)
    \/ MaintenanceStep
    \/ \E a \in Assets : RetentionEnds(a)
    \/ \E p \in Mortal : Crash(p)

Spec == Init /\ [][Next]_vars

\* The maintenance loop runs every five seconds for as long as the application does.  Nothing is
\* assumed of anybody else.
FairSpec == Spec /\ WF_vars(MaintenanceStep)

-----------------------------------------------------------------------------
(* Properties *)

PCs == {"idle", "place", "register", "insert", "trash", "trashed", "restore", "restored",
        "unlink", "unlinked", "stage", "undo", "discard"}

Rows == [state : {"unused", "active", "trash", "gone"}, slot : Slots \cup {Nothing},
         sum : Contents \cup {Nothing}, keep : {"none", "retained", "over"}]

Operations == [pc : PCs, on : Slots \cup Assets \cup {Nothing},
               saw : {"unused", "active", "trash", "gone"}, holds : Contents \cup {Nothing},
               batch : SUBSET Tasks, todo : SUBSET Sources]

OnSlot  == {"place", "register", "insert"}
OnAsset == {"trash", "trashed", "restore", "restored", "unlink", "unlinked"}
Locking == {"unlink", "unlinked", "stage"}

\* Every variable has its type; a row in use has a slot, an operation that works on a row has one,
\* and the lock is held by those who purge or stage a deletion.
TypeOK ==
    /\ task \in [Tasks -> {"working", "ended", "deleted"}]
    /\ row \in [Assets -> Rows]
    /\ disk \in [Locations -> Contents \cup {Nothing}]
    /\ incoming \in [UploadSlots -> Bytes \cup {Nothing}]
    /\ staged \subseteq [from : Locations, bytes : Contents, by : Threads \cup {Nothing}]
    /\ lock \in Everyone \cup {Nothing}
    /\ op \in [Everyone -> Operations]
    /\ sweep \in {"rest", "samples", "purge", "reconcile"}
    /\ due \subseteq Assets
    /\ \A a \in Assets : row[a].state # "unused" => row[a].slot \in Slots
    /\ \A a \in due : row[a].state # "unused"
    /\ \A p \in Everyone :
         /\ op[p].pc \in OnSlot => op[p].on \in Slots
         /\ op[p].pc \in OnAsset => op[p].on \in Assets /\ row[op[p].on].state # "unused"
         /\ lock = p <=> op[p].pc \in Locking

Copies(a) == {l \in {a, row[a].slot} : disk[l] = row[a].sum}

StagedFrom(a) == \E e \in staged : e.from \in {a, row[a].slot} /\ e.bytes = row[a].sum

\* What purge may leave behind when it dies between the file and the row.
Purged(a) == row[a].state = "trash" /\ row[a].keep = "over" /\ Empty(a)

\* No crash, refused deletion or race of two operations loses the file of a row: the bytes it was
\* registered with are at its slot, in its trash directory or aside in the staging directory of a
\* deletion.  Only the purge of an asset that is due has removed them.
NothingIsLost ==
    \A a \in Assets : Present(a) => (Copies(a) # {} \/ StagedFrom(a) \/ Purged(a))

\* A file is never in both places.  trash and restore refuse an asset of which there are two
\* copies, and purge passes it over: it would be unusable for ever.  (A handler that outlived its
\* lease can put its file at a slot whose earlier file has been trashed since.)
OneCopy == ~overlap => \A a \in Assets : Present(a) => (Empty(a) \/ Empty(row[a].slot))

\* purge removes a row only after its retention and while nothing works on its task, although
\* it reads the one and the other steps before it commits.
PurgeIsLawful ==
    [][\A a \in Assets :
        (Present(a) /\ row'[a].state = "gone" /\ task'[OwnerTask(a)] # "deleted")
            => (row[a].state = "trash" /\ row[a].keep = "over" /\ task[OwnerTask(a)] = "ended")]_vars

Quiet == \A p \in Threads : At(p, "idle")

\* Whatever handlers, users and crashes have left behind, once they are quiet an asset that is due
\* does not stay in the trash: it is purged, unless its task works again.
DueIsPurged == <>[]Quiet => \A a \in Assets : Due(a) ~> ~Due(a)

\* ... and the maintenance pass gets past the samples and the purge to the provider reconciler, over
\* and over.  A sample that can be neither trashed nor skipped would end every pass before it.
ReconcilerRuns == <>[]Quiet => []<>(sweep = "reconcile")

=============================================================================
