------------------------ MODULE RuntimeAssetsProofs ------------------------
(***************************************************************************)
(* Theorems about RuntimeAssets: its type invariant; that a purge is still *)
(* lawful when it commits; and, while no handler outlives its lease and no *)
(* directory move fails, that no file is lost or in two places.            *)
(***************************************************************************)
EXTENDS RuntimeAssets, TLAPS

-----------------------------------------------------------------------------
(* What the three ways to change op do *)

LEMMA GoOnSets ==
    ASSUME op \in [Everyone -> Operations], NEW p \in Everyone, NEW pc \in PCs,
           NEW a \in Slots \cup Assets \cup {Nothing},
           NEW saw \in {"unused", "active", "trash", "gone"},
           GoOn(p, pc, a, saw)
    PROVE  /\ op' \in [Everyone -> Operations]
           /\ op'[p].pc = pc /\ op'[p].on = a /\ op'[p].saw = saw
           /\ \A q \in Everyone \ {p} : op'[q] = op[q]
  BY DEF GoOn, Operations, Idle

LEMMA CarrySets ==
    ASSUME op \in [Everyone -> Operations], NEW p \in Everyone, NEW pc \in PCs,
           NEW s \in Slots, NEW bytes \in Contents \cup {Nothing},
           Carry(p, pc, s, bytes)
    PROVE  /\ op' \in [Everyone -> Operations]
           /\ op'[p].pc = pc /\ op'[p].on = s
           /\ \A q \in Everyone \ {p} : op'[q] = op[q]
  BY DEF Carry, Operations, Idle

LEMMA StepSets ==
    ASSUME op \in [Everyone -> Operations], NEW p \in Everyone, NEW pc \in PCs,
           Step(p, pc)
    PROVE  /\ op' \in [Everyone -> Operations]
           /\ op'[p].pc = pc /\ op'[p].on = op[p].on
           /\ \A q \in Everyone \ {p} : op'[q] = op[q]
  BY DEF Step, Operations

LEMMA ReserveSets ==
    ASSUME op \in [Everyone -> Operations], NEW p \in Everyone, NEW batch \in SUBSET Tasks,
           op' = [op EXCEPT ![p] = [Idle EXCEPT !.pc = "stage", !.batch = batch,
                                               !.todo = DirectoriesOf(batch)]]
    PROVE  /\ op' \in [Everyone -> Operations]
           /\ op'[p].pc = "stage"
           /\ \A q \in Everyone \ {p} : op'[q] = op[q]
<1>1. DirectoriesOf(batch) \in SUBSET Sources
  BY DEF DirectoriesOf, Sources
<1> QED
  BY <1>1 DEF Operations, Idle, PCs

LEMMA StageSets ==
    ASSUME op \in [Everyone -> Operations], NEW p \in Everyone, NEW source,
           op' = [q \in Everyone |->
                    IF q = p THEN [op[p] EXCEPT !.todo = op[p].todo \ {source}]
                    ELSE IF At(q, "place") /\ op[q].on \in FilesIn(source)
                         THEN [op[q] EXCEPT !.holds = Nothing]
                         ELSE op[q]]
    PROVE  /\ op' \in [Everyone -> Operations]
           /\ \A q \in Everyone : op'[q].pc = op[q].pc /\ op'[q].on = op[q].on
<1>1. ASSUME NEW q \in Everyone
      PROVE  op'[q] \in Operations /\ op'[q].pc = op[q].pc /\ op'[q].on = op[q].on
  <2>1. op[q] \in Operations
    OBVIOUS
  <2>2. CASE q = p
    <3>1. op'[q] = [op[p] EXCEPT !.todo = op[p].todo \ {source}]
      BY <2>2
    <3> QED
      BY <2>1, <2>2, <3>1 DEF Operations
  <2>3. CASE q # p
    <3>1. op'[q] = op[q] \/ op'[q] = [op[q] EXCEPT !.holds = Nothing]
      BY <2>3
    <3> QED
      BY <2>1, <3>1 DEF Operations
  <2> QED
    BY <2>2, <2>3
<1> QED
  BY <1>1

LEMMA AbandonTyped ==
    ASSUME staged \subseteq [from : Locations, bytes : Contents, by : Threads \cup {Nothing}],
           NEW entries, entries \subseteq staged
    PROVE  Abandon(entries) \subseteq [from : Locations, bytes : Contents, by : Threads \cup {Nothing}]
  BY DEF Abandon

LEMMA EndSets ==
    ASSUME op \in [Everyone -> Operations], NEW p \in Everyone, End(p)
    PROVE  /\ op' \in [Everyone -> Operations]
           /\ op'[p].pc = "idle" /\ op'[p].on = Nothing
           /\ \A q \in Everyone \ {p} : op'[q] = op[q]
  BY DEF End, Operations, Idle, PCs

-----------------------------------------------------------------------------
(* Types *)

LEMMA InitTyped == Init => TypeOK
  BY MediaAssumption
  DEF Init, TypeOK, MediaAssumption, Rows, NewRow, Operations, PCs, Idle, Everyone, Contents,
      Locations, OnSlot, OnAsset, Locking

\* What an action may do to op, row, lock and due without harm to the last conjuncts of TypeOK: rows in use
\* stay in use and keep their slots, and one operation goes on.
LEMMA OneOpTyped ==
    ASSUME TypeOK, NEW p \in Everyone,
           op' \in [Everyone -> Operations],
           \A q \in Everyone \ {p} : op'[q] = op[q],
           \A a \in Assets : row[a].state # "unused" =>
                                row'[a].state # "unused" /\ row'[a].slot = row[a].slot,
           op'[p].pc \in OnSlot => op'[p].on \in Slots,
           op'[p].pc \in OnAsset => op'[p].on \in Assets /\ row'[op'[p].on].state # "unused",
           \/ lock' = lock /\ (op'[p].pc \in Locking <=> op[p].pc \in Locking)
           \/ lock = Nothing /\ lock' = p /\ op'[p].pc \in Locking
           \/ op[p].pc \in Locking /\ lock' = Nothing /\ op'[p].pc \notin Locking
    PROVE  /\ lock' \in Everyone \cup {Nothing}
           /\ \A q \in Everyone :
                /\ op'[q].pc \in OnSlot => op'[q].on \in Slots
                /\ op'[q].pc \in OnAsset => op'[q].on \in Assets /\ row'[op'[q].on].state # "unused"
                /\ lock' = q <=> op'[q].pc \in Locking
  BY MediaAssumption DEF TypeOK, MediaAssumption, Everyone

LEMMA TaskStepTyped ==
    ASSUME TypeOK, NEW t \in Tasks, Finish(t) \/ Retry(t)
    PROVE  TypeOK'
  BY DEF TypeOK, Finish, Retry

LEMMA ProducingTyped ==
    ASSUME TypeOK, NEW p \in Threads,
           \/ \E s \in Slots \ UploadSlots : BeginConversion(p, s)
           \/ \E s \in UploadSlots : OwnUpload(p, s)
           \/ PlaceConversion(p) \/ MeasureFile(p) \/ InsertRow(p)
    PROVE  TypeOK'
<1> p \in Everyone
  BY DEF Everyone
<1> UploadSlots \subseteq Slots
  BY MediaAssumption DEF MediaAssumption
<1>1. ASSUME NEW s \in Slots, BeginConversion(p, s)
      PROVE  TypeOK'
  <2>1. /\ op' \in [Everyone -> Operations]
        /\ \A q \in Everyone \ {p} : op'[q] = op[q]
        /\ op'[p].pc \in OnSlot => op'[p].on \in Slots
        /\ op'[p].pc \in OnAsset => op'[p].on \in Assets /\ row[op'[p].on].state # "unused"
        /\ op'[p].pc \notin Locking
    <3>1. CASE \E a \in RowsAt(s) : StartRestore(p, a)
      <4>1. PICK a \in RowsAt(s) : StartRestore(p, a)
        BY <3>1
      <4>2. a \in Assets /\ row[a].state \in {"active", "trash"}
        BY <4>1 DEF RowsAt, Present
      <4>3. GoOn(p, "restore", a, row[a].state) \/ GoOn(p, "restored", a, row[a].state)
        BY <4>1 DEF StartRestore
      <4> QED
        BY <4>2, <4>3, GoOnSets DEF TypeOK, PCs, OnSlot, OnAsset, Locking
    <3>2. CASE GoOn(p, "register", s, "unused")
      BY <3>2, GoOnSets DEF TypeOK, PCs, OnSlot, OnAsset, Locking
    <3>3. CASE \E b \in Bytes : Carry(p, "place", s, b)
      BY <3>3, CarrySets DEF TypeOK, PCs, Contents, OnSlot, OnAsset, Locking
    <3> QED
      BY <1>1, <3>1, <3>2, <3>3 DEF BeginConversion
  <2>2. op[p].pc \notin Locking
    BY <1>1 DEF BeginConversion, At, Locking
  <2> QED
    BY <1>1, <2>1, <2>2, OneOpTyped DEF BeginConversion, TypeOK
<1>2. ASSUME NEW s \in UploadSlots, OwnUpload(p, s)
      PROVE  TypeOK'
  <2>1. /\ op' \in [Everyone -> Operations]
        /\ \A q \in Everyone \ {p} : op'[q] = op[q]
        /\ op'[p].pc = "register" /\ op'[p].on = s
    BY <1>2, GoOnSets DEF OwnUpload, TypeOK, PCs
  <2>2. op[p].pc = "idle"
    BY <1>2 DEF OwnUpload, At
  <2>3. /\ disk' \in [Locations -> Contents \cup {Nothing}]
        /\ incoming' \in [UploadSlots -> Bytes \cup {Nothing}]
    BY <1>2 DEF OwnUpload, TypeOK, Locations, Contents
  <2> QED
    BY <1>2, <2>1, <2>2, <2>3, OneOpTyped DEF OwnUpload, TypeOK, OnSlot, OnAsset, Locking
<1>3. CASE PlaceConversion(p)
  <2>1. op[p].pc = "place" /\ op[p].on \in Slots /\ op[p].holds \in Contents \cup {Nothing}
    BY <1>3 DEF PlaceConversion, At, TypeOK, OnSlot, Operations
  <2>2. /\ op' \in [Everyone -> Operations]
        /\ \A q \in Everyone \ {p} : op'[q] = op[q]
        /\ op'[p].pc \in {"register", "idle"}
        /\ op'[p].pc = "register" => op'[p].on \in Slots
    BY <1>3, <2>1, GoOnSets, EndSets DEF PlaceConversion, TypeOK, PCs
  <2>3. disk' \in [Locations -> Contents \cup {Nothing}]
    BY <1>3, <2>1 DEF PlaceConversion, TypeOK, Locations
  <2> QED
    BY <1>3, <2>1, <2>2, <2>3, OneOpTyped DEF PlaceConversion, TypeOK, OnSlot, OnAsset, Locking
<1>4. CASE MeasureFile(p)
  <2>1. op[p].pc = "register" /\ op[p].on \in Slots
    BY <1>4 DEF MeasureFile, At, TypeOK, OnSlot
  <2>2. disk[op[p].on] \in Contents \cup {Nothing}
    BY <2>1 DEF TypeOK, Locations
  <2>3. /\ op' \in [Everyone -> Operations]
        /\ \A q \in Everyone \ {p} : op'[q] = op[q]
        /\ op'[p].pc \in {"insert", "idle"}
        /\ op'[p].pc = "insert" => op'[p].on \in Slots
    <3>1. CASE End(p)
      BY <3>1, EndSets DEF TypeOK
    <3>2. CASE Carry(p, "insert", op[p].on, disk[op[p].on])
      BY <3>2, <2>1, <2>2, CarrySets DEF TypeOK, PCs
    <3> QED
      BY <1>4, <3>1, <3>2 DEF MeasureFile
  <2> QED
    BY <1>4, <2>1, <2>3, OneOpTyped DEF MeasureFile, TypeOK, OnSlot, OnAsset, Locking
<1>5. CASE InsertRow(p)
  <2>1. /\ op[p].pc = "insert" /\ op[p].on \in Slots /\ op[p].holds \in Contents \cup {Nothing}
    BY <1>5 DEF InsertRow, At, TypeOK, OnSlot, Operations
  <2>2. CASE End(p) /\ UNCHANGED row
    BY <1>5, <2>1, <2>2, EndSets, OneOpTyped DEF InsertRow, TypeOK, OnSlot, OnAsset, Locking
  <2>3. ASSUME NEW a \in Assets,
               row[a].state = "unused",
               row' = [row EXCEPT ![a] = [state |-> "active", slot |-> op[p].on,
                                          sum |-> op[p].holds, keep |-> "none"]],
               End(p) \/ GoOn(p, "trash", a, "active")
        PROVE  TypeOK'
    <3>1. /\ row' \in [Assets -> Rows]
          /\ row'[a].state = "active" /\ row'[a].slot \in Slots
          /\ \A b \in Assets \ {a} : row'[b] = row[b]
      BY <2>1, <2>3 DEF TypeOK, Rows
    <3>2. /\ op' \in [Everyone -> Operations]
          /\ \A q \in Everyone \ {p} : op'[q] = op[q]
          /\ op'[p].pc \in {"trash", "idle"}
          /\ op'[p].pc = "trash" => op'[p].on = a
      BY <2>3, GoOnSets, EndSets DEF TypeOK, PCs
    <3>3. \A b \in Assets : row[b].state # "unused" =>
                               row'[b].state # "unused" /\ row'[b].slot = row[b].slot
      BY <2>3, <3>1
    <3> QED
      BY <1>5, <2>1, <2>3, <3>1, <3>2, <3>3, OneOpTyped DEF InsertRow, TypeOK, OnSlot, OnAsset, Locking
  <2> QED
    BY <1>5, <2>2, <2>3 DEF InsertRow
<1> QED
  BY <1>1, <1>2, <1>3, <1>4, <1>5

LEMMA TrashingTyped ==
    ASSUME TypeOK, NEW p \in Everyone,
           \/ \E a \in Assets : BeginTrash(p, a) \/ BeginRestore(p, a)
           \/ MoveToTrash(p) \/ CommitTrash(p) \/ MoveBack(p) \/ CommitRestore(p)
    PROVE  TypeOK'
<1> USE DEF OnSlot, OnAsset, Locking
<1>1. ASSUME NEW a \in Assets, BeginTrash(p, a) \/ BeginRestore(p, a)
      PROVE  TypeOK'
  <2>1. row[a].state # "unused" /\ row[a].state \in {"unused", "active", "trash", "gone"}
    BY <1>1 DEF BeginTrash, BeginRestore, Present, TypeOK, Rows
  <2>2. \E pc \in {"trash", "trashed", "restore", "restored"} : GoOn(p, pc, a, row[a].state)
    BY <1>1 DEF BeginTrash, BeginRestore, StartTrash, StartRestore
  <2>3. /\ op' \in [Everyone -> Operations]
        /\ \A q \in Everyone \ {p} : op'[q] = op[q]
        /\ op'[p].pc \in {"trash", "trashed", "restore", "restored"}
        /\ op'[p].on = a
    BY <2>1, <2>2, GoOnSets DEF TypeOK, PCs
  <2> QED
    BY <1>1, <2>1, <2>3, OneOpTyped DEF BeginTrash, BeginRestore, At, TypeOK
<1>2. CASE MoveToTrash(p) \/ MoveBack(p)
  <2>1. /\ op[p].pc \in {"trash", "restore"}
        /\ op[p].on \in Assets
        /\ row[op[p].on].state # "unused"
        /\ row[op[p].on].slot \in Slots
    BY <1>2 DEF MoveToTrash, MoveBack, At, TypeOK
  <2>2. /\ op' \in [Everyone -> Operations]
        /\ \A q \in Everyone \ {p} : op'[q] = op[q]
        /\ op'[p].pc \in {"idle", "trashed", "restored"}
        /\ op'[p].pc # "idle" => op'[p].on = op[p].on
    BY <1>2, StepSets, EndSets DEF MoveToTrash, MoveBack, Raise, TypeOK, PCs
  <2>3. disk' \in [Locations -> Contents \cup {Nothing}]
    BY <1>2, <2>1 DEF MoveToTrash, MoveBack, Move, TypeOK, Locations
  <2>4. /\ sweep' \in {"rest", "samples", "purge", "reconcile"}
        /\ due' \in SUBSET due
    BY <1>2 DEF MoveToTrash, MoveBack, Raise, TypeOK
  <2> QED
    BY <1>2, <2>1, <2>2, <2>3, <2>4, OneOpTyped DEF MoveToTrash, MoveBack, TypeOK
<1>3. CASE CommitTrash(p) \/ CommitRestore(p)
  <2>1. /\ op[p].pc \in {"trashed", "restored"}
        /\ op[p].on \in Assets
    BY <1>3 DEF CommitTrash, CommitRestore, At, TypeOK
  <2>2. End(p)
    BY <1>3 DEF CommitTrash, CommitRestore, Raise
  <2>3. /\ op' \in [Everyone -> Operations]
        /\ \A q \in Everyone \ {p} : op'[q] = op[q]
        /\ op'[p].pc = "idle"
    BY <2>2, EndSets DEF TypeOK
  <2>4. /\ row' \in [Assets -> Rows]
        /\ \A a \in Assets : row[a].state # "unused" =>
                                 row'[a].state # "unused" /\ row'[a].slot = row[a].slot
        /\ \A a \in Assets : row'[a].state # "unused" => row[a].state # "unused"
    <3>1. row' \in {row, [row EXCEPT ![op[p].on].state = "trash", ![op[p].on].keep = "retained"],
                    [row EXCEPT ![op[p].on].state = "active", ![op[p].on].keep = "none"]}
      BY <1>3 DEF CommitTrash, CommitRestore
    <3>2. row' = row \/ row[op[p].on].state # "unused"
      BY <1>3 DEF CommitTrash, CommitRestore, Present
    <3>3. CASE row' = row
      BY <3>3 DEF TypeOK
    <3>4. CASE row' = [row EXCEPT ![op[p].on].state = "trash", ![op[p].on].keep = "retained"]
      BY <2>1, <3>2, <3>4 DEF TypeOK, Rows
    <3>5. CASE row' = [row EXCEPT ![op[p].on].state = "active", ![op[p].on].keep = "none"]
      BY <2>1, <3>2, <3>5 DEF TypeOK, Rows
    <3> QED
      BY <3>1, <3>3, <3>4, <3>5
  <2>5. /\ sweep' \in {"rest", "samples", "purge", "reconcile"}
        /\ due' \in SUBSET due
    BY <1>3 DEF CommitTrash, CommitRestore, Raise, TypeOK
  <2> QED
    BY <1>3, <2>1, <2>3, <2>4, <2>5, OneOpTyped DEF CommitTrash, CommitRestore, TypeOK
<1> QED
  BY <1>1, <1>2, <1>3

LEMMA MaintenanceTyped ==
    ASSUME TypeOK,
           \/ BeginPass \/ SelectDue \/ Unlink \/ CommitPurge \/ Reconcile \/ EndPass
           \/ \E a \in Assets : TrashSample(a) \/ ReservePurge(a) \/ RetentionEnds(a)
    PROVE  TypeOK'
<1> Maintenance \in Everyone
  BY DEF Everyone
<1> USE DEF OnSlot, OnAsset, Locking
<1>1. CASE BeginPass \/ SelectDue \/ Reconcile \/ EndPass
  BY <1>1 DEF BeginPass, SelectDue, Reconcile, EndPass, Abandoned, TypeOK
<1>2. CASE Unlink
  <2>1. /\ op[Maintenance].pc = "unlink"
        /\ op[Maintenance].on \in Assets
        /\ row[op[Maintenance].on].state # "unused"
    BY <1>2 DEF Unlink, At, TypeOK
  <2>2. /\ op' \in [Everyone -> Operations]
        /\ \A q \in Everyone \ {Maintenance} : op'[q] = op[q]
        /\ \/ op'[Maintenance].pc = "unlinked" /\ op'[Maintenance].on = op[Maintenance].on /\ lock' = lock
           \/ op'[Maintenance].pc = "idle" /\ lock' = Nothing
    BY <1>2, StepSets, EndSets DEF Unlink, TypeOK, PCs
  <2>3. disk' \in [Locations -> Contents \cup {Nothing}]
    BY <1>2, <2>1 DEF Unlink, TypeOK, Locations
  <2> QED
    BY <1>2, <2>1, <2>2, <2>3, OneOpTyped DEF Unlink, TypeOK
<1>3. CASE CommitPurge
  <2>1. op[Maintenance].pc = "unlinked" /\ op[Maintenance].on \in Assets
    BY <1>3 DEF CommitPurge, At, TypeOK
  <2>2. /\ op' \in [Everyone -> Operations]
        /\ \A q \in Everyone \ {Maintenance} : op'[q] = op[q]
        /\ op'[Maintenance].pc = "idle"
    BY <1>3, EndSets DEF CommitPurge, TypeOK
  <2>3. /\ row' \in [Assets -> Rows]
        /\ \A a \in Assets : row[a].state # "unused" =>
                                 row'[a].state # "unused" /\ row'[a].slot = row[a].slot
        /\ \A a \in Assets : row'[a].state # "unused" => row[a].state # "unused"
    <3>1. row[op[Maintenance].on].state # "unused"
      BY <2>1 DEF TypeOK
    <3> QED
      BY <1>3, <2>1, <3>1 DEF CommitPurge, TypeOK, Rows
  <2> QED
    BY <1>3, <2>1, <2>2, <2>3, OneOpTyped DEF CommitPurge, TypeOK
<1>4. ASSUME NEW a \in Assets, TrashSample(a)
      PROVE  TypeOK'
  <2>1. row[a].state # "unused" /\ row[a].state \in {"unused", "active", "trash", "gone"}
    BY <1>4 DEF TrashSample, TypeOK, Rows
  <2>2. /\ op' \in [Everyone -> Operations]
        /\ \A q \in Everyone \ {Maintenance} : op'[q] = op[q]
        /\ op'[Maintenance].pc \in {"idle", "trash", "trashed"}
        /\ op'[Maintenance].pc # "idle" => op'[Maintenance].on = a
    BY <1>4, <2>1, GoOnSets, EndSets DEF TrashSample, StartTrash, Raise, TypeOK, PCs
  <2>3. /\ sweep' \in {"rest", "samples", "purge", "reconcile"}
        /\ due' \in SUBSET due
    BY <1>4 DEF TrashSample, Raise, TypeOK
  <2> QED
    BY <1>4, <2>1, <2>2, <2>3, OneOpTyped DEF TrashSample, At, TypeOK
<1>5. ASSUME NEW a \in Assets, ReservePurge(a)
      PROVE  TypeOK'
  <2>1. op[Maintenance].pc = "idle" /\ lock = Nothing
    BY <1>5 DEF ReservePurge, At, Unlocked
  <2>2. CASE Due(a)
    <3>1. row[a].state # "unused"
      BY <2>2 DEF Due
    <3>2. /\ op' \in [Everyone -> Operations]
          /\ \A q \in Everyone \ {Maintenance} : op'[q] = op[q]
          /\ op'[Maintenance].pc = "unlink" /\ op'[Maintenance].on = a
          /\ lock' = Maintenance
      BY <1>5, <2>2, GoOnSets DEF ReservePurge, TypeOK, PCs
    <3> QED
      BY <1>5, <2>1, <3>1, <3>2, OneOpTyped DEF ReservePurge, TypeOK
  <2>3. CASE ~Due(a)
    BY <1>5, <2>3 DEF ReservePurge, TypeOK
  <2> QED
    BY <2>2, <2>3
<1>6. ASSUME NEW a \in Assets, RetentionEnds(a)
      PROVE  TypeOK'
  <2>1. /\ row' \in [Assets -> Rows]
        /\ \A b \in Assets : row'[b].state = row[b].state /\ row'[b].slot = row[b].slot
    BY <1>6 DEF RetentionEnds, TypeOK, Rows
  <2> QED
    BY <1>6, <2>1 DEF RetentionEnds, TypeOK
<1> QED
  BY <1>1, <1>2, <1>3, <1>4, <1>5, <1>6

LEMMA DeletionTyped ==
    ASSUME TypeOK, NEW p \in Threads,
           \/ \E batch \in SUBSET Tasks \ {{}} : ReserveDeletion(p, batch)
           \/ DeletionStep(p)
    PROVE  TypeOK'
<1> p \in Everyone
  BY DEF Everyone
<1> USE DEF OnSlot, OnAsset, Locking
<1>1. ASSUME NEW batch \in SUBSET Tasks, ReserveDeletion(p, batch)
      PROVE  TypeOK'
  <2>1. op[p].pc = "idle" /\ lock = Nothing
    BY <1>1 DEF ReserveDeletion, At, Unlocked
  <2>2. /\ op' \in [Everyone -> Operations]
        /\ \A q \in Everyone \ {p} : op'[q] = op[q]
        /\ op'[p].pc = "stage"
    BY <1>1, ReserveSets DEF ReserveDeletion, TypeOK
  <2> QED
    BY <1>1, <2>1, <2>2, OneOpTyped DEF ReserveDeletion, TypeOK
<1>2. CASE StageSource(p)
  <2>1. PICK source \in op[p].todo : StageOne(p, source)
    BY <1>2 DEF StageSource
  <2>2. op[p].pc = "stage" /\ source \in Sources
    BY <1>2, <2>1 DEF StageSource, At, TypeOK, Operations
  <2>3. FilesIn(source) \subseteq Locations
    BY <2>2 DEF FilesIn, Sources, Locations
  <2>4. disk' \in [Locations -> Contents \cup {Nothing}]
    BY <2>1, <2>3 DEF StageOne, TypeOK
  <2>5. staged' \subseteq [from : Locations, bytes : Contents, by : Threads \cup {Nothing}]
    BY <2>1, <2>3 DEF StageOne, TypeOK, Empty
  <2>6. /\ op' \in [Everyone -> Operations]
        /\ \A q \in Everyone : op'[q].pc = op[q].pc /\ op'[q].on = op[q].on
    BY <2>1, StageSets DEF StageOne, TypeOK
  <2> QED
    BY <1>2, <2>4, <2>5, <2>6 DEF StageSource, TypeOK
<1>3. CASE DeletionFails(p) \/ CommitDeletion(p)
  <2>1. op[p].pc = "stage" /\ lock' = Nothing
    BY <1>3 DEF DeletionFails, CommitDeletion, At
  <2>2. /\ op' \in [Everyone -> Operations]
        /\ \A q \in Everyone \ {p} : op'[q] = op[q]
        /\ op'[p].pc \in {"undo", "discard"}
    BY <1>3, StepSets DEF DeletionFails, CommitDeletion, TypeOK, PCs
  <2>3. task' \in [Tasks -> {"working", "ended", "deleted"}]
    BY <1>3 DEF DeletionFails, CommitDeletion, TypeOK
  <2>4. /\ row' \in [Assets -> Rows]
        /\ \A a \in Assets : row'[a].slot = row[a].slot
        /\ \A a \in Assets : (row'[a].state = "unused") <=> (row[a].state = "unused")
    <3>1. CASE DeletionFails(p)
      BY <3>1 DEF DeletionFails, TypeOK
    <3>2. CASE CommitDeletion(p)
      <4>1. ASSUME NEW a \in Assets
            PROVE  /\ row'[a] \in Rows
                   /\ row'[a].slot = row[a].slot
                   /\ (row'[a].state = "unused") <=> (row[a].state = "unused")
        <5>1. row[a] \in Rows
          BY DEF TypeOK
        <5>2. \/ row'[a] = row[a]
              \/ row[a].state # "unused" /\ row'[a] = [row[a] EXCEPT !.state = "gone"]
          BY <3>2 DEF CommitDeletion, Present
        <5> QED
          BY <5>1, <5>2 DEF Rows
      <4>2. row' = [a \in Assets |-> row'[a]]
        BY <3>2 DEF CommitDeletion
      <4> QED
        BY <4>1, <4>2
    <3> QED
      BY <1>3, <3>1, <3>2
  <2>5. UNCHANGED <<disk, incoming, staged, sweep, due>>
    BY <1>3 DEF DeletionFails, CommitDeletion
  <2> QED
    BY <2>1, <2>2, <2>3, <2>4, <2>5, OneOpTyped DEF TypeOK
<1>4. CASE DiscardStaging(p) \/ UndoEnds(p)
  <2>1. /\ op[p].pc \in {"discard", "undo"}
        /\ op' \in [Everyone -> Operations]
        /\ \A q \in Everyone \ {p} : op'[q] = op[q]
        /\ op'[p].pc = "idle"
    BY <1>4, EndSets DEF DiscardStaging, UndoEnds, At, TypeOK
  <2>2. staged' \subseteq staged
    BY <1>4 DEF DiscardStaging, UndoEnds
  <2> QED
    BY <1>4, <2>1, <2>2, OneOpTyped DEF DiscardStaging, UndoEnds, TypeOK
<1>5. CASE UndoSource(p)
  <2>1. PICK source \in Sources : UndoOne(p, source)
    BY <1>5 DEF UndoSource
  <2>2. EntriesOf(p, source) \subseteq staged
    BY DEF EntriesOf, StagedBy
  <2>3. staged' \subseteq [from : Locations, bytes : Contents, by : Threads \cup {Nothing}]
    BY <2>1, <2>2, AbandonTyped DEF UndoOne, TypeOK
  <2>4. disk' \in [Locations -> Contents \cup {Nothing}]
    <3>1. \A e \in EntriesOf(p, source) : e.bytes \in Contents
      BY <2>2 DEF TypeOK
    <3>2. ASSUME NEW l \in Locations, \E e \in EntriesOf(p, source) : e.from = l
          PROVE  (CHOOSE e \in EntriesOf(p, source) : e.from = l).bytes \in Contents
      BY <3>1, <3>2
    <3> QED
      BY <2>1, <3>2 DEF UndoOne, TypeOK
  <2> QED
    BY <1>5, <2>3, <2>4 DEF UndoSource, TypeOK
<1> QED
  BY <1>1, <1>2, <1>3, <1>4, <1>5 DEF DeletionStep

LEMMA CrashTyped ==
    ASSUME TypeOK, NEW p \in Mortal, Crash(p)
    PROVE  TypeOK'
<1> p \in Everyone
  BY MediaAssumption DEF MediaAssumption, Everyone
<1> USE DEF OnSlot, OnAsset, Locking
<1>1. /\ op' \in [Everyone -> Operations]
      /\ \A q \in Everyone \ {p} : op'[q] = op[q]
      /\ op'[p].pc = "idle"
  BY EndSets DEF Crash, TypeOK
<1>2. staged' \subseteq [from : Locations, bytes : Contents, by : Threads \cup {Nothing}]
  BY AbandonTyped DEF Crash, StagedBy, TypeOK
<1>3. due' \in SUBSET due /\ sweep' \in {"rest", "samples", "purge", "reconcile"}
  BY DEF Crash, TypeOK
<1> QED
  BY <1>1, <1>2, <1>3, OneOpTyped DEF Crash, TypeOK

\* Every reachable state of every instance has its types: a row in use has a slot, whoever works
\* on a row or a slot has one, and SQLite's write lock belongs to the one thread that purges or
\* stages a deletion (runtime_assets.py, task_deletion.py).
THEOREM TypeCorrect == Spec => []TypeOK
<1>1. TypeOK /\ [Next]_vars => TypeOK'
  <2> SUFFICES ASSUME TypeOK, Next PROVE TypeOK'
    BY DEF vars, TypeOK, OnSlot, OnAsset, Locking
  <2>1. CASE \E t \in Tasks : Finish(t) \/ Retry(t)
    BY <2>1, TaskStepTyped
  <2>2. ASSUME NEW p \in Threads, Request(p) \/ MediaStep(p) \/ DeletionStep(p)
        PROVE  TypeOK'
    <3> p \in Everyone
      BY DEF Everyone
    <3> QED
      BY <2>2, ProducingTyped, TrashingTyped, DeletionTyped DEF Request, MediaStep
  <2>3. CASE MaintenanceStep
    <3> Maintenance \in Everyone
      BY DEF Everyone
    <3> QED
      BY <2>3, MaintenanceTyped, TrashingTyped DEF MaintenanceStep
  <2>4. CASE \E a \in Assets : RetentionEnds(a)
    BY <2>4, MaintenanceTyped
  <2>5. CASE \E p \in Mortal : Crash(p)
    BY <2>5, CrashTyped
  <2> QED
    BY <2>1, <2>2, <2>3, <2>4, <2>5 DEF Next
<1> QED
  BY InitTyped, <1>1, PTL DEF Spec

-----------------------------------------------------------------------------
(* Purges are lawful *)

\* What purge has read stays true until it commits.
PurgeHolds ==
    op[Maintenance].pc \in {"unlink", "unlinked"} =>
        LET a == op[Maintenance].on
        IN  row[a].state = "trash" /\ row[a].keep = "over" /\ task[OwnerTask(a)] = "ended"

\* Who holds the write lock is alone in changing rows and tasks.
LEMMA ThreadsWait ==
    ASSUME TypeOK, NEW p \in Threads, Request(p) \/ MediaStep(p) \/ DeletionStep(p)
    PROVE  /\ op'[Maintenance].pc = op[Maintenance].pc
           /\ op'[Maintenance].on = op[Maintenance].on
           /\ lock = Maintenance => UNCHANGED <<task, row>>
<1>1. p \in Everyone /\ Maintenance \in Everyone \ {p} /\ Nothing # Maintenance
  BY MediaAssumption DEF MediaAssumption, Everyone
<1>2. op[p].pc = "stage" => lock # Maintenance
  BY <1>1 DEF TypeOK, Locking
<1>3. CASE Request(p)
  <2>1. UNCHANGED <<task, row>>
    BY <1>3 DEF Request, BeginConversion, OwnUpload, BeginTrash, BeginRestore, ReserveDeletion
  <2>2. op'[Maintenance] = op[Maintenance]
    BY <1>1, <1>3
    DEF Request, BeginConversion, OwnUpload, BeginTrash, BeginRestore, ReserveDeletion,
        StartTrash, StartRestore, GoOn, Carry, TypeOK
  <2> QED
    BY <2>1, <2>2
<1>4. CASE MediaStep(p)
  <2>1. op'[Maintenance] = op[Maintenance]
    BY <1>1, <1>4
    DEF MediaStep, PlaceConversion, MeasureFile, InsertRow, MoveToTrash, CommitTrash, MoveBack,
        CommitRestore, Raise, GoOn, Carry, Step, End, TypeOK
  <2>2. lock = Maintenance => UNCHANGED <<task, row>>
    BY <1>1, <1>4
    DEF MediaStep, PlaceConversion, MeasureFile, InsertRow, MoveToTrash, CommitTrash, MoveBack,
        CommitRestore, Unlocked
  <2> QED
    BY <2>1, <2>2
<1>5. CASE DeletionStep(p)
  <2>1. CASE StageSource(p)
    <3>1. PICK source \in op[p].todo : StageOne(p, source)
      BY <2>1 DEF StageSource
    <3>2. \A q \in Everyone : op'[q].pc = op[q].pc /\ op'[q].on = op[q].on
      BY <1>1, <3>1, StageSets DEF StageOne, TypeOK
    <3> QED
      BY <1>1, <2>1, <3>2 DEF StageSource
  <2>2. CASE ~StageSource(p)
    <3>1. op'[Maintenance] = op[Maintenance]
      BY <1>1, <1>5, <2>2
      DEF DeletionStep, DeletionFails, CommitDeletion, DiscardStaging, UndoSource, UndoEnds,
          Step, End, TypeOK
    <3>2. lock = Maintenance => UNCHANGED <<task, row>>
      BY <1>2, <1>5, <2>2
      DEF DeletionStep, DeletionFails, CommitDeletion, DiscardStaging, UndoSource, UndoEnds, At
    <3> QED
      BY <3>1, <3>2
  <2> QED
    BY <2>1, <2>2
<1> QED
  BY <1>3, <1>4, <1>5

LEMMA MaintenanceKeepsPromise ==
    ASSUME TypeOK, PurgeHolds, MaintenanceStep
    PROVE  PurgeHolds'
<1> Maintenance \in Everyone
  BY DEF Everyone
<1>1. CASE BeginPass \/ SelectDue \/ Reconcile \/ EndPass
  BY <1>1 DEF BeginPass, SelectDue, Reconcile, EndPass, PurgeHolds, OwnerTask
<1>2. CASE Unlink
  <2>1. \/ op'[Maintenance].pc = "unlinked" /\ op'[Maintenance].on = op[Maintenance].on
        \/ op'[Maintenance].pc = "idle"
    BY <1>2, StepSets, EndSets DEF Unlink, TypeOK, PCs
  <2> QED
    BY <1>2, <2>1 DEF Unlink, At, PurgeHolds, OwnerTask
<1>3. CASE CommitPurge
  BY <1>3, EndSets DEF CommitPurge, PurgeHolds, TypeOK
<1>4. CASE \E a \in Assets : TrashSample(a)
  <2>1. op'[Maintenance].pc \in {"idle", "trash", "trashed"}
    <3>1. PICK a \in Assets : TrashSample(a)
      BY <1>4
    <3>2. row[a].state \in {"unused", "active", "trash", "gone"}
      BY DEF TypeOK, Rows
    <3> QED
      BY <3>1, <3>2, GoOnSets, EndSets DEF TrashSample, StartTrash, Raise, TypeOK, PCs
  <2> QED
    BY <2>1 DEF PurgeHolds
<1>5. ASSUME NEW a \in Assets, ReservePurge(a)
      PROVE  PurgeHolds'
  <2>1. CASE Due(a)
    <3>1. op'[Maintenance].on = a
      BY <1>5, <2>1, GoOnSets DEF ReservePurge, TypeOK, PCs
    <3> QED
      BY <1>5, <2>1, <3>1 DEF ReservePurge, Due, PurgeHolds, OwnerTask
  <2>2. CASE ~Due(a)
    BY <1>5, <2>2 DEF ReservePurge, PurgeHolds, OwnerTask
  <2> QED
    BY <2>1, <2>2
<1>6. CASE MoveToTrash(Maintenance) \/ CommitTrash(Maintenance)
  <2>1. op'[Maintenance].pc \in {"idle", "trashed"}
    BY <1>6, StepSets, EndSets DEF MoveToTrash, CommitTrash, Raise, TypeOK, PCs
  <2> QED
    BY <2>1 DEF PurgeHolds
<1> QED
  BY <1>1, <1>2, <1>3, <1>4, <1>5, <1>6 DEF MaintenanceStep

LEMMA PromiseKept == TypeOK /\ PurgeHolds /\ [Next]_vars => PurgeHolds'
<1> SUFFICES ASSUME TypeOK, PurgeHolds, [Next]_vars PROVE PurgeHolds'
  OBVIOUS
<1> Maintenance \in Everyone
  BY DEF Everyone
<1>0. op[Maintenance].pc \in {"unlink", "unlinked"} =>
          lock = Maintenance /\ op[Maintenance].on \in Assets
  BY DEF TypeOK, Locking, OnAsset
<1>1. CASE \E t \in Tasks : Finish(t) \/ Retry(t)
  BY <1>0, <1>1, MediaAssumption
  DEF Finish, Retry, Unlocked, PurgeHolds, MediaAssumption
<1>2. ASSUME NEW p \in Threads, Request(p) \/ MediaStep(p) \/ DeletionStep(p)
      PROVE  PurgeHolds'
  BY <1>0, <1>2, ThreadsWait DEF PurgeHolds, OwnerTask
<1>3. CASE MaintenanceStep
  BY <1>3, MaintenanceKeepsPromise
<1>4. ASSUME NEW a \in Assets, RetentionEnds(a)
      PROVE  PurgeHolds'
  <2>1. \A b \in Assets : /\ row'[b].state = row[b].state /\ row'[b].slot = row[b].slot
                          /\ row[b].keep = "over" => row'[b].keep = "over"
    BY <1>4 DEF RetentionEnds, TypeOK, Rows
  <2> QED
    BY <1>0, <1>4, <2>1 DEF RetentionEnds, PurgeHolds, OwnerTask
<1>5. ASSUME NEW p \in Mortal, Crash(p)
      PROVE  PurgeHolds'
  <2>1. p \in Everyone
    BY MediaAssumption DEF MediaAssumption, Everyone
  <2>2. op'[Maintenance].pc = "idle" \/ op'[Maintenance] = op[Maintenance]
    BY <1>5, <2>1, EndSets DEF Crash, TypeOK
  <2> QED
    BY <1>5, <2>2 DEF Crash, PurgeHolds, OwnerTask
<1>6. CASE UNCHANGED vars
  BY <1>6 DEF vars, PurgeHolds, OwnerTask
<1> QED
  BY <1>1, <1>2, <1>3, <1>4, <1>5, <1>6 DEF Next

Lawful(a) ==
    (Present(a) /\ row'[a].state = "gone" /\ task'[OwnerTask(a)] # "deleted")
        => (row[a].state = "trash" /\ row[a].keep = "over" /\ task[OwnerTask(a)] = "ended")

LEMMA StepsAreLawful ==
    ASSUME TypeOK, PurgeHolds, Next, NEW a \in Assets
    PROVE  Lawful(a)
<1> SUFFICES ASSUME Present(a), row'[a].state = "gone", task'[OwnerTask(a)] # "deleted"
             PROVE  row[a].state = "trash" /\ row[a].keep = "over" /\ task[OwnerTask(a)] = "ended"
  BY DEF Lawful
<1>1. row[a].state # "gone" /\ row[a] \in Rows /\ OwnerTask(a) \in Tasks
  BY MediaAssumption DEF Present, TypeOK, OwnerTask, MediaAssumption
<1>2. CASE CommitPurge
  <2>1. row'[a] # row[a]
    BY <1>1
  <2>2. op[Maintenance].pc = "unlinked" /\ a = op[Maintenance].on
    BY <1>2, <2>1 DEF CommitPurge, At, TypeOK
  <2> QED
    BY <2>2 DEF PurgeHolds
<1>3. ASSUME NEW p \in Threads, CommitDeletion(p)
      PROVE  FALSE
  <2>1. CASE OwnerTask(a) \in op[p].batch
    BY <1>1, <1>3, <2>1 DEF CommitDeletion
  <2>2. CASE OwnerTask(a) \notin op[p].batch
    BY <1>1, <1>3, <2>2 DEF CommitDeletion
  <2> QED
    BY <2>1, <2>2
<1>4. ASSUME NEW p \in Everyone, CommitTrash(p) \/ CommitRestore(p)
      PROVE  FALSE
  <2>1. op[p].on \in Assets
    BY <1>4 DEF CommitTrash, CommitRestore, At, TypeOK, OnAsset
  <2> QED
    BY <1>1, <1>4, <2>1 DEF CommitTrash, CommitRestore, TypeOK, Rows
<1>5. ASSUME NEW p \in Threads, InsertRow(p)
      PROVE  FALSE
  BY <1>1, <1>5 DEF InsertRow, TypeOK
<1>6. ASSUME NEW b \in Assets, RetentionEnds(b)
      PROVE  FALSE
  BY <1>1, <1>6 DEF RetentionEnds, TypeOK, Rows
<1>7. CASE UNCHANGED row
  BY <1>1, <1>7
<1>8. \/ CommitPurge
      \/ \E p \in Threads : CommitDeletion(p) \/ InsertRow(p)
      \/ \E p \in Everyone : CommitTrash(p) \/ CommitRestore(p)
      \/ \E b \in Assets : RetentionEnds(b)
      \/ UNCHANGED row
  BY DEF Next, Everyone, Finish, Retry, Request, BeginConversion, OwnUpload, BeginTrash, BeginRestore,
         ReserveDeletion, MediaStep, PlaceConversion, MeasureFile, MoveToTrash, MoveBack,
         DeletionStep, StageSource, DeletionFails, DiscardStaging, UndoSource, UndoEnds,
         MaintenanceStep, BeginPass, SelectDue, Unlink, Reconcile, EndPass, TrashSample, ReservePurge,
         Crash
<1> QED
  BY <1>2, <1>3, <1>4, <1>5, <1>6, <1>7, <1>8

\* Whatever else goes on, a row is purged only out of the trash, after its retention and while
\* nothing works on its task: what _purge_reserved reads under the write lock still holds when it
\* commits, since retries, restores, registrations and deletions wait for the same lock.
THEOREM PurgesAreLawful == Spec => PurgeIsLawful
<1>1. Init => PurgeHolds
  BY MediaAssumption DEF Init, Idle, PurgeHolds, Everyone
<1>2. TypeOK /\ PurgeHolds /\ [Next]_vars => [\A a \in Assets : Lawful(a)]_vars
  BY StepsAreLawful
<1> QED
  BY <1>1, <1>2, TypeCorrect, PromiseKept, PTL DEF Spec, PurgeIsLawful, Lawful

-----------------------------------------------------------------------------
(* No file is lost *)

Used(a) == row[a].state # "unused"

Deleted(s) == task[TaskOf[s]] = "deleted"

\* What a row and its two places look like.
FileOK(a) ==
    /\ ~Used(a) => Empty(a)
    /\ row[a].state = "gone" => Empty(a) \/ Deleted(row[a].slot)
    /\ Present(a) =>
         /\ row[a].sum \in Contents
         /\ ~Deleted(row[a].slot)
         /\ disk[a] \in {Nothing, row[a].sum}
         /\ disk[row[a].slot] \in {Nothing, row[a].sum}
         /\ Empty(a) \/ Empty(row[a].slot)
         /\ Empty(a) /\ Empty(row[a].slot) => StagedFrom(a) \/ Purged(a)
    /\ row[a].state = "active" => row[a].keep = "none"

FileInv == \A a \in Assets : FileOK(a)

\* A media path has one row at most.
UniqueInv == \A a, b \in Assets : Present(a) /\ Present(b) /\ row[a].slot = row[b].slot => a = b

\* An uploaded file has no row before it is owned.
IncomingInv == \A s \in UploadSlots : incoming[s] # Nothing => \A a \in Assets : row[a].slot # s

\* A row that is being trashed is not due, and only the deletion of its task removes it.
Safe(a) == row[a].keep # "over" /\ (Present(a) \/ Deleted(row[a].slot))

DueInv == sweep = "samples" => \A a \in due : Safe(a)

TrashInv == \A p \in Everyone : op[p].pc \in {"trash", "trashed"} => Safe(op[p].on)

\* The retention of a row that is being restored may have ended, but then its file is back.
RestoreOK(p, a) ==
    op[p].pc = "restored" /\ op[p].on = a /\ Present(a) /\ row[a].keep = "over"
        => ~Empty(row[a].slot) \/ StagedFrom(a)

RestoreInv == \A p \in Everyone : \A a \in Assets : RestoreOK(p, a)

UnlinkInv == op[Maintenance].pc = "unlinked" => Empty(op[Maintenance].on)

\* The file a handler has measured is there, or a deletion has moved it aside.
Held(s, bytes) ==
    /\ bytes \in Contents
    /\ disk[s] = bytes \/ (Empty(s) /\ \E e \in staged : e.from = s /\ e.bytes = bytes)

\* Who makes the file of a slot without a row is alone, but for the uploads.
MakeOK(p, s) ==
    op[p].pc \in OnSlot /\ op[p].on = s =>
        /\ s \in UploadSlots => op[p].pc # "place" /\ incoming[s] = Nothing
        /\ s \notin UploadSlots => RowsAt(s) = {} /\ \A q \in Threads \ {p} : ~Producing(q, s)
        /\ op[p].pc = "insert" => \A a \in RowsAt(s) : row[a].keep # "over"
        /\ op[p].pc = "insert" /\ ~Deleted(s) /\ RowsAt(s) = {} => Held(s, op[p].holds)

MakeInv == \A p \in Threads : \A s \in Slots : MakeOK(p, s)

\* A deletion moves aside what belongs to its tasks.
Within(batch, l) ==
    /\ l \in Slots => TaskOf[l] \in batch
    /\ l \in Assets => Used(l) /\ OwnerTask(l) \in batch

StageInv ==
    \A p \in Threads :
        /\ op[p].pc # "undo"
        /\ op[p].pc = "stage" => \A x \in op[p].todo : \A l \in FilesIn(x) : Within(op[p].batch, l)
        /\ op[p].pc = "discard" => \A t \in op[p].batch : task[t] = "deleted"

StagedInv ==
    \A e \in staged : e.by # Nothing =>
        op[e.by].pc \in {"stage", "discard"} /\ Within(op[e.by].batch, e.from)

\* All of it, while no handler of a slot overlaps with another.
MediaInv ==
    /\ FileInv /\ UniqueInv /\ IncomingInv /\ DueInv /\ TrashInv /\ RestoreInv /\ UnlinkInv
    /\ MakeInv /\ StageInv /\ StagedInv

\* What is known of the state before a step.
Before == TypeOK /\ PurgeHolds /\ ~overlap /\ MediaInv

-----------------------------------------------------------------------------
(* Which actions change what *)

LEMMA RowSteps ==
    ASSUME Next
    PROVE  \/ UNCHANGED <<row, task>>
           \/ \E t \in Tasks : Finish(t) \/ Retry(t)
           \/ CommitPurge
           \/ \E p \in Threads : CommitDeletion(p) \/ InsertRow(p)
           \/ \E p \in Everyone : CommitTrash(p) \/ CommitRestore(p)
           \/ \E b \in Assets : RetentionEnds(b)
  BY DEF Next, Everyone, Request, BeginConversion, OwnUpload, BeginTrash, BeginRestore,
         ReserveDeletion, MediaStep, PlaceConversion, MeasureFile, MoveToTrash, MoveBack,
         DeletionStep, StageSource, DeletionFails, DiscardStaging, UndoSource, UndoEnds,
         MaintenanceStep, BeginPass, SelectDue, Unlink, Reconcile, EndPass, TrashSample, ReservePurge,
         Crash

LEMMA DiskSteps ==
    ASSUME Next, StageInv
    PROVE  \/ UNCHANGED disk
           \/ \E p \in Threads : PlaceConversion(p) \/ StageSource(p)
           \/ \E p \in Threads, s \in UploadSlots : OwnUpload(p, s)
           \/ \E p \in Everyone : MoveToTrash(p) \/ MoveBack(p)
           \/ Unlink
  BY DEF Next, Everyone, Finish, Retry, Request, BeginConversion, BeginTrash, BeginRestore,
         ReserveDeletion, MediaStep, MeasureFile, InsertRow, CommitTrash, CommitRestore,
         DeletionStep, DeletionFails, CommitDeletion, DiscardStaging, UndoSource, UndoEnds, StageInv, At,
         MaintenanceStep, BeginPass, SelectDue, CommitPurge, Reconcile, EndPass, TrashSample, ReservePurge,
         RetentionEnds, Crash

LEMMA StagedSteps ==
    ASSUME Next, StageInv
    PROVE  \/ UNCHANGED staged
           \/ \E p \in Threads : StageSource(p) \/ DiscardStaging(p)
           \/ \E p \in Mortal : Crash(p)
  BY DEF Next, Everyone, Finish, Retry, Request, BeginConversion, BeginTrash, BeginRestore, OwnUpload,
         ReserveDeletion, MediaStep, MeasureFile, InsertRow, CommitTrash, CommitRestore, PlaceConversion,
         MoveToTrash, MoveBack,
         DeletionStep, DeletionFails, CommitDeletion, UndoSource, UndoEnds, StageInv, At,
         MaintenanceStep, BeginPass, SelectDue, CommitPurge, Reconcile, EndPass, TrashSample, ReservePurge,
         Unlink, RetentionEnds

LEMMA IncomingSteps ==
    ASSUME Next
    PROVE  \/ UNCHANGED incoming
           \/ \E p \in Threads, s \in UploadSlots : OwnUpload(p, s)
  BY DEF Next, Everyone, Finish, Retry, Request, BeginConversion, BeginTrash, BeginRestore,
         ReserveDeletion, MediaStep, MeasureFile, InsertRow, CommitTrash, CommitRestore, PlaceConversion,
         MoveToTrash, MoveBack, StageSource, DiscardStaging,
         DeletionStep, DeletionFails, CommitDeletion, UndoSource, UndoEnds,
         MaintenanceStep, BeginPass, SelectDue, CommitPurge, Reconcile, EndPass, TrashSample, ReservePurge,
         Unlink, RetentionEnds, Crash

-----------------------------------------------------------------------------
(* Rows and tasks *)

LEMMA RowTyped ==
    ASSUME TypeOK, NEW a \in Assets
    PROVE  /\ row[a] \in Rows
           /\ Used(a) => row[a].slot \in Slots /\ TaskOf[row[a].slot] \in Tasks
  BY MediaAssumption DEF TypeOK, Used, MediaAssumption

\* What the commits do to a row.
LEMMA InsertEffect ==
    ASSUME TypeOK, NEW p \in Threads, InsertRow(p), ~UNCHANGED row
    PROVE  /\ op[p].pc = "insert" /\ op[p].on \in Slots /\ ~Deleted(op[p].on) /\ RowsAt(op[p].on) = {}
           /\ \E a \in Assets :
                /\ row[a].state = "unused"
                /\ row'[a] = [state |-> "active", slot |-> op[p].on, sum |-> op[p].holds, keep |-> "none"]
                /\ \A b \in Assets \ {a} : row'[b] = row[b]
                /\ op'[p].pc = "idle" \/ (op'[p].pc = "trash" /\ op'[p].on = a)
<1> p \in Everyone
  BY DEF Everyone
<1>1. op[p].pc = "insert" /\ op[p].on \in Slots
  BY DEF InsertRow, At, TypeOK, OnSlot
<1>2. task[TaskOf[op[p].on]] # "deleted" /\ RowsAt(op[p].on) = {}
  BY DEF InsertRow
<1>3. PICK a \in Assets :
        /\ row[a].state = "unused"
        /\ row' = [row EXCEPT ![a] = [state |-> "active", slot |-> op[p].on,
                                      sum |-> op[p].holds, keep |-> "none"]]
        /\ End(p) \/ GoOn(p, "trash", a, "active")
  BY <1>2 DEF InsertRow
<1>4. op'[p].pc = "idle" \/ (op'[p].pc = "trash" /\ op'[p].on = a)
  BY <1>3, EndSets, GoOnSets DEF TypeOK, PCs
<1> QED
  BY <1>1, <1>2, <1>3, <1>4 DEF Deleted, TypeOK

LEMMA TrashEffect ==
    ASSUME TypeOK, NEW p \in Everyone, CommitTrash(p), ~UNCHANGED row
    PROVE  LET a == op[p].on
           IN  /\ op[p].pc = "trashed" /\ a \in Assets /\ Present(a)
               /\ row'[a] = [row[a] EXCEPT !.state = "trash", !.keep = "retained"]
               /\ \A b \in Assets \ {a} : row'[b] = row[b]
  BY DEF CommitTrash, At, TypeOK, OnAsset, Rows

LEMMA RestoreEffect ==
    ASSUME TypeOK, NEW p \in Everyone, CommitRestore(p), ~UNCHANGED row
    PROVE  LET a == op[p].on
           IN  /\ op[p].pc = "restored" /\ a \in Assets /\ Present(a)
               /\ row'[a] = [row[a] EXCEPT !.state = "active", !.keep = "none"]
               /\ \A b \in Assets \ {a} : row'[b] = row[b]
  BY DEF CommitRestore, At, TypeOK, OnAsset, Rows

LEMMA PurgeEffect ==
    ASSUME TypeOK, PurgeHolds, CommitPurge
    PROVE  LET a == op[Maintenance].on
           IN  /\ op[Maintenance].pc = "unlinked" /\ a \in Assets
               /\ row[a].state = "trash" /\ row[a].keep = "over"
               /\ row'[a] = [row[a] EXCEPT !.state = "gone"]
               /\ \A b \in Assets \ {a} : row'[b] = row[b]
               /\ UNCHANGED task
  BY DEF CommitPurge, At, TypeOK, OnAsset, Rows, PurgeHolds, Everyone

LEMMA DeletionEffect ==
    ASSUME TypeOK, NEW p \in Threads, CommitDeletion(p), NEW a \in Assets
    PROVE  /\ Present(a) /\ OwnerTask(a) \in op[p].batch =>
                row'[a] = [row[a] EXCEPT !.state = "gone"] /\ (Used(a) => Deleted(row[a].slot)')
           /\ ~(Present(a) /\ OwnerTask(a) \in op[p].batch) => row'[a] = row[a]
<1>1. CASE Present(a) /\ OwnerTask(a) \in op[p].batch
  <2>1. row'[a] = [row[a] EXCEPT !.state = "gone"]
    BY <1>1 DEF CommitDeletion
  <2>2. Used(a) => TaskOf[row[a].slot] \in Tasks
    BY RowTyped
  <2>3. row'[a].slot = row[a].slot
    BY <2>1, RowTyped DEF Rows
  <2> QED
    BY <1>1, <2>1, <2>2, <2>3 DEF CommitDeletion, Deleted, OwnerTask
<1>2. CASE ~(Present(a) /\ OwnerTask(a) \in op[p].batch)
  BY <1>2 DEF CommitDeletion
<1> QED
  BY <1>1, <1>2

LEMMA RetentionEffect ==
    ASSUME TypeOK, NEW b \in Assets, RetentionEnds(b)
    PROVE  /\ row[b].keep = "retained"
           /\ row'[b] = [row[b] EXCEPT !.keep = "over"]
           /\ \A a \in Assets \ {b} : row'[a] = row[a]
           /\ b \notin due
           /\ \A p \in Everyone : op[p].on # b /\ op[p].on # row[b].slot
           /\ UNCHANGED <<task, disk, incoming, staged, op, sweep, due>>
  BY DEF RetentionEnds, TypeOK, Rows

\* What a step may do to a row.
RowChange(a) ==
    \/ row'[a] = row[a]
    \/ RetentionEnds(a) /\ row[a].keep = "retained" /\ row'[a] = [row[a] EXCEPT !.keep = "over"]
    \/ \E p \in Threads :
         /\ InsertRow(p)
         /\ op[p].pc = "insert" /\ op[p].on \in Slots /\ ~Deleted(op[p].on) /\ RowsAt(op[p].on) = {}
         /\ row[a].state = "unused"
         /\ row'[a] = [state |-> "active", slot |-> op[p].on, sum |-> op[p].holds, keep |-> "none"]
         /\ op'[p].pc = "idle" \/ (op'[p].pc = "trash" /\ op'[p].on = a)
    \/ \E p \in Everyone :
         /\ CommitTrash(p) /\ op[p].pc = "trashed" /\ op[p].on = a /\ Present(a)
         /\ row'[a] = [row[a] EXCEPT !.state = "trash", !.keep = "retained"]
    \/ \E p \in Everyone :
         /\ CommitRestore(p) /\ op[p].pc = "restored" /\ op[p].on = a /\ Present(a)
         /\ row'[a] = [row[a] EXCEPT !.state = "active", !.keep = "none"]
    \/ /\ CommitPurge /\ op[Maintenance].pc = "unlinked" /\ op[Maintenance].on = a
       /\ row[a].state = "trash" /\ row[a].keep = "over"
       /\ row'[a] = [row[a] EXCEPT !.state = "gone"]
    \/ \E p \in Threads :
         /\ CommitDeletion(p) /\ Present(a) /\ OwnerTask(a) \in op[p].batch
         /\ row'[a] = [row[a] EXCEPT !.state = "gone"]
         /\ Deleted(row[a].slot)'

LEMMA RowChanges ==
    ASSUME TypeOK, PurgeHolds, Next, NEW a \in Assets
    PROVE  RowChange(a)
<1>1. CASE UNCHANGED row
  BY <1>1 DEF RowChange
<1>2. CASE \E t \in Tasks : Finish(t) \/ Retry(t)
  BY <1>2 DEF RowChange, Finish, Retry
<1>3. CASE CommitPurge
  BY <1>3, PurgeEffect DEF RowChange
<1>4. ASSUME NEW p \in Threads, CommitDeletion(p)
      PROVE  RowChange(a)
  BY <1>4, DeletionEffect DEF RowChange, Present, Used
<1>5. ASSUME NEW p \in Threads, InsertRow(p), ~UNCHANGED row
      PROVE  RowChange(a)
  <2>1. PICK b \in Assets :
           /\ row[b].state = "unused"
           /\ row'[b] = [state |-> "active", slot |-> op[p].on, sum |-> op[p].holds, keep |-> "none"]
           /\ \A c \in Assets \ {b} : row'[c] = row[c]
           /\ op'[p].pc = "idle" \/ (op'[p].pc = "trash" /\ op'[p].on = b)
    BY <1>5, InsertEffect
  <2>2. op[p].pc = "insert" /\ op[p].on \in Slots /\ ~Deleted(op[p].on) /\ RowsAt(op[p].on) = {}
    BY <1>5, InsertEffect
  <2>3. CASE a = b
    BY <1>5, <2>1, <2>2, <2>3 DEF RowChange
  <2>4. CASE a # b
    BY <2>1, <2>4 DEF RowChange
  <2> QED
    BY <2>3, <2>4
<1>6. ASSUME NEW p \in Everyone, CommitTrash(p), ~UNCHANGED row
      PROVE  RowChange(a)
  BY <1>6, TrashEffect DEF RowChange
<1>7. ASSUME NEW p \in Everyone, CommitRestore(p), ~UNCHANGED row
      PROVE  RowChange(a)
  BY <1>7, RestoreEffect DEF RowChange
<1>8. ASSUME NEW b \in Assets, RetentionEnds(b)
      PROVE  RowChange(a)
  BY <1>8, RetentionEffect DEF RowChange
<1> QED
  BY <1>1, <1>2, <1>3, <1>4, <1>5, <1>6, <1>7, <1>8, RowSteps

\* The same, without who does it.
LEMMA RowShapes ==
    ASSUME TypeOK, NEW a \in Assets, RowChange(a)
    PROVE  \/ row'[a] = row[a]
           \/ row[a].keep = "retained" /\ row'[a] = [row[a] EXCEPT !.keep = "over"]
           \/ /\ row[a].state = "unused" /\ row'[a].state = "active" /\ row'[a].keep = "none"
              /\ \E p \in Threads : op[p].pc = "insert" /\ op[p].on = row'[a].slot
           \/ /\ Present(a)
              /\ \/ row'[a] = [row[a] EXCEPT !.state = "trash", !.keep = "retained"]
                 \/ row'[a] = [row[a] EXCEPT !.state = "active", !.keep = "none"]
                 \/ row'[a] = [row[a] EXCEPT !.state = "gone"]
<1>1. ASSUME NEW p \in Threads, op[p].pc = "insert", row[a].state = "unused",
             row'[a] = [state |-> "active", slot |-> op[p].on, sum |-> op[p].holds, keep |-> "none"]
      PROVE  /\ row'[a].state = "active" /\ row'[a].keep = "none"
             /\ op[p].on = row'[a].slot
  BY <1>1
<1>2. row[a].state = "trash" => Present(a)
  BY DEF Present
<1> QED
  BY <1>1, <1>2 DEF RowChange

LEMMA RowsGoOn ==
    ASSUME TypeOK, PurgeHolds, Next, NEW a \in Assets, Used(a)
    PROVE  /\ Used(a)' /\ row'[a].slot = row[a].slot /\ row'[a].sum = row[a].sum
           /\ row[a].slot \in Slots
<1>1. row[a] \in Rows /\ row[a].slot \in Slots
  BY RowTyped
<1>2. RowChange(a)
  BY RowChanges
<1>3. row[a].state # "unused"
  BY DEF Used
<1>4. row'[a].state # "unused" /\ row'[a].slot = row[a].slot /\ row'[a].sum = row[a].sum
  BY <1>1, <1>2, <1>3 DEF RowChange, Rows
<1> QED
  BY <1>1, <1>4 DEF Used

LEMMA DeletedTask ==
    ASSUME TypeOK, Next, NEW t \in Tasks, task[t] = "deleted"
    PROVE  task'[t] = "deleted"
  BY RowSteps
  DEF Finish, Retry, CommitPurge, CommitDeletion, InsertRow, CommitTrash, CommitRestore,
      RetentionEnds, TypeOK

LEMMA DeletedStays ==
    ASSUME TypeOK, Next, NEW s \in Slots, Deleted(s)
    PROVE  Deleted(s)'
<1>1. TaskOf[s] \in Tasks
  BY MediaAssumption DEF MediaAssumption
<1> QED
  BY <1>1, DeletedTask DEF Deleted

LEMMA KeepOver ==
    ASSUME TypeOK, PurgeHolds, Next, NEW a \in Assets, row'[a].keep = "over", row[a].keep # "over"
    PROVE  /\ \A p \in Everyone : op[p].on # a /\ op[p].on # row[a].slot
           /\ a \notin due
           /\ row'[a].state = row[a].state
           /\ UNCHANGED <<task, disk, incoming, staged, op, sweep, due>>
<1>1. row[a] \in Rows
  BY RowTyped
<1>2. RowChange(a)
  BY RowChanges
<1>3. RetentionEnds(a) /\ row'[a] = [row[a] EXCEPT !.keep = "over"]
  <2>1. ASSUME NEW s, NEW sum
        PROVE  row'[a] # [state |-> "active", slot |-> s, sum |-> sum, keep |-> "none"]
    OBVIOUS
  <2>2. /\ row'[a] # [row[a] EXCEPT !.state = "trash", !.keep = "retained"]
        /\ row'[a] # [row[a] EXCEPT !.state = "active", !.keep = "none"]
        /\ row'[a] # [row[a] EXCEPT !.state = "gone"]
        /\ row'[a] # row[a]
    BY <1>1 DEF Rows
  <2> QED
    BY <1>2, <2>1, <2>2 DEF RowChange
<1>4. row'[a].state = row[a].state
  BY <1>1, <1>3 DEF Rows
<1> QED
  BY <1>3, <1>4, RetentionEffect

LEMMA PresentLost ==
    ASSUME TypeOK, PurgeHolds, Next, NEW a \in Assets, Present(a), ~Present(a)'
    PROVE  row[a].keep = "over" \/ Deleted(row[a].slot)'
  BY RowTyped, RowChanges DEF RowChange, Rows, Present

LEMMA PresentGained ==
    ASSUME TypeOK, PurgeHolds, Next, NEW a \in Assets, ~Present(a), Present(a)'
    PROVE  /\ row[a].state = "unused"
           /\ \E p \in Threads :
                /\ InsertRow(p)
                /\ op[p].pc = "insert" /\ op[p].on \in Slots /\ ~Deleted(op[p].on)
                /\ RowsAt(op[p].on) = {}
                /\ row'[a] = [state |-> "active", slot |-> op[p].on, sum |-> op[p].holds,
                              keep |-> "none"]
                /\ op'[p].pc = "idle" \/ (op'[p].pc = "trash" /\ op'[p].on = a)
  BY RowTyped, RowChanges DEF RowChange, Rows, Present

LEMMA PresentDeleted ==
    ASSUME TypeOK, PurgeHolds, Next, NEW a \in Assets, Present(a), Present(a)',
           ~Deleted(row[a].slot)
    PROVE  ~Deleted(row[a].slot)'
<1>1. row[a].slot \in Slots /\ TaskOf[row[a].slot] \in Tasks /\ row'[a].slot = row[a].slot
  BY RowTyped, RowsGoOn DEF Used, Present
<1>2. ASSUME NEW p \in Threads, CommitDeletion(p)
      PROVE  ~Deleted(row[a].slot)'
  <2>1. OwnerTask(a) \notin op[p].batch
    BY <1>2, DeletionEffect, RowTyped DEF Present, Rows
  <2> QED
    BY <1>1, <1>2, <2>1 DEF CommitDeletion, OwnerTask, Deleted
<1> QED
  BY <1>1, <1>2, RowSteps
  DEF Deleted, Finish, Retry, CommitPurge, InsertRow, CommitTrash, CommitRestore,
      RetentionEnds, TypeOK

-----------------------------------------------------------------------------
(* Files *)

Filled(l, bytes) ==
    /\ Empty(l) /\ bytes # Nothing /\ disk'[l] = bytes
    /\ \A k \in Locations \ {l} : disk'[k] = disk[k]

Moved(from, to) ==
    /\ ~Empty(from) /\ disk'[from] = Nothing /\ disk'[to] = disk[from]
    /\ \A k \in Locations \ {from, to} : disk'[k] = disk[k]

Emptied(places) ==
    /\ \A l \in places : disk'[l] = Nothing
    /\ \A l \in Locations \ places : disk'[l] = disk[l]

\* What a step may do to the files.
DiskChange ==
    \/ UNCHANGED disk
    \/ /\ UNCHANGED <<task, row, staged>>
       /\ \/ \E p \in Threads, s \in Slots :
               op[p].pc = "place" /\ op[p].on = s /\ Filled(s, op[p].holds)
          \/ \E s \in UploadSlots : incoming[s] # Nothing /\ Filled(s, incoming[s])
          \/ \E p \in Everyone, a \in Assets :
               op[p].pc = "trash" /\ op[p].on = a /\ Used(a) /\ Moved(row[a].slot, a)
          \/ \E p \in Everyone, a \in Assets :
               op[p].pc = "restore" /\ op[p].on = a /\ Used(a) /\ Moved(a, row[a].slot)
          \/ \E a \in Assets :
               /\ op[Maintenance].pc = "unlink" /\ op[Maintenance].on = a
               /\ row[a].state = "trash" /\ row[a].keep = "over"
               /\ Emptied({a})
    \/ /\ UNCHANGED <<task, row>>
       /\ \E p \in Threads : \E source \in op[p].todo :
            /\ op[p].pc = "stage" /\ source \in Sources
            /\ Emptied(FilesIn(source))
            /\ staged \subseteq staged'
            /\ \A l \in FilesIn(source) :
                  ~Empty(l) => \E e \in staged' : e.from = l /\ e.bytes = disk[l]

LEMMA Places ==
    /\ Slots \subseteq Locations /\ Assets \subseteq Locations
    /\ \A a \in Assets, s \in Slots : a # s
    /\ UploadSlots \subseteq Slots
    /\ Nothing \notin Contents /\ Nothing \notin Slots /\ Nothing \notin Assets
    /\ Threads \subseteq Everyone /\ Maintenance \in Everyone /\ Maintenance \notin Threads
    /\ Nothing \notin Everyone
  BY MediaAssumption, PlacesAssumption
  DEF MediaAssumption, PlacesAssumption, Locations, Contents, Everyone

LEMMA StageEffect ==
    ASSUME TypeOK, NEW p \in Threads, StageSource(p)
    PROVE  /\ op[p].pc = "stage" /\ UNCHANGED <<task, row, incoming, lock, sweep, due>>
           /\ \E source \in op[p].todo :
                /\ source \in Sources
                /\ Emptied(FilesIn(source))
                /\ staged' = staged \cup {[from |-> l, bytes |-> disk[l], by |-> p] :
                                             l \in {k \in FilesIn(source) : ~Empty(k)}}
                /\ op' = [q \in Everyone |->
                            IF q = p THEN [op[p] EXCEPT !.todo = op[p].todo \ {source}]
                            ELSE IF At(q, "place") /\ op[q].on \in FilesIn(source)
                                 THEN [op[q] EXCEPT !.holds = Nothing]
                                 ELSE op[q]]
<1>1. PICK source \in op[p].todo : StageOne(p, source)
  BY DEF StageSource
<1>2. source \in Sources
  BY <1>1, Places DEF TypeOK, Operations
<1>3. FilesIn(source) \subseteq Locations
  BY <1>2 DEF FilesIn, Sources, Locations
<1> QED
  BY <1>1, <1>2, <1>3 DEF StageOne, StageSource, At, Emptied

LEMMA DiskChanges ==
    ASSUME TypeOK, PurgeHolds, StageInv, Next
    PROVE  DiskChange
<1> USE Places
<1>1. ASSUME NEW p \in Threads, PlaceConversion(p), ~UNCHANGED disk
      PROVE  DiskChange
  <2>1. op[p].pc = "place" /\ op[p].on \in Slots
    BY <1>1 DEF PlaceConversion, At, TypeOK, OnSlot
  <2>2. Filled(op[p].on, op[p].holds)
    BY <1>1, <2>1 DEF PlaceConversion, Filled, TypeOK
  <2> QED
    BY <1>1, <2>1, <2>2 DEF PlaceConversion, DiskChange
<1>2. ASSUME NEW p \in Threads, StageSource(p)
      PROVE  DiskChange
  <2>1. PICK source \in op[p].todo :
           /\ source \in Sources
           /\ Emptied(FilesIn(source))
           /\ staged' = staged \cup {[from |-> l, bytes |-> disk[l], by |-> p] :
                                        l \in {k \in FilesIn(source) : ~Empty(k)}}
    BY <1>2, StageEffect
  <2>2. ASSUME NEW l \in FilesIn(source), ~Empty(l)
        PROVE  \E e \in staged' : e.from = l /\ e.bytes = disk[l]
    <3>1. [from |-> l, bytes |-> disk[l], by |-> p] \in staged'
      BY <2>1, <2>2
    <3> QED
      BY <3>1
  <2>3. UNCHANGED <<task, row>> /\ op[p].pc = "stage" /\ staged \subseteq staged'
    BY <1>2, <2>1, StageEffect
  <2> QED
    BY <2>1, <2>2, <2>3 DEF DiskChange
<1>3. ASSUME NEW p \in Threads, NEW s \in UploadSlots, OwnUpload(p, s), ~UNCHANGED disk
      PROVE  DiskChange
  <2>1. incoming[s] # Nothing /\ Filled(s, incoming[s]) /\ UNCHANGED <<task, row, staged>>
    BY <1>3 DEF OwnUpload, Filled, TypeOK
  <2> QED
    BY <2>1 DEF DiskChange
<1>4. ASSUME NEW p \in Everyone, MoveToTrash(p), ~UNCHANGED disk
      PROVE  DiskChange
  <2>1. op[p].pc = "trash" /\ op[p].on \in Assets /\ Used(op[p].on)
    BY <1>4 DEF MoveToTrash, At, TypeOK, OnAsset, Used
  <2>2. row[op[p].on].slot \in Slots
    BY <2>1, RowTyped
  <2>3. Moved(row[op[p].on].slot, op[p].on)
    BY <1>4, <2>1, <2>2 DEF MoveToTrash, Move, Moved, TypeOK, Empty
  <2> QED
    BY <1>4, <2>1, <2>3 DEF MoveToTrash, DiskChange
<1>5. ASSUME NEW p \in Everyone, MoveBack(p), ~UNCHANGED disk
      PROVE  DiskChange
  <2>1. op[p].pc = "restore" /\ op[p].on \in Assets /\ Used(op[p].on)
    BY <1>5 DEF MoveBack, At, TypeOK, OnAsset, Used
  <2>2. row[op[p].on].slot \in Slots
    BY <2>1, RowTyped
  <2>3. Moved(op[p].on, row[op[p].on].slot)
    BY <1>5, <2>1, <2>2 DEF MoveBack, Move, Moved, TypeOK, Empty
  <2> QED
    BY <1>5, <2>1, <2>3 DEF MoveBack, DiskChange
<1>6. ASSUME Unlink, ~UNCHANGED disk
      PROVE  DiskChange
  <2>1. op[Maintenance].pc = "unlink" /\ op[Maintenance].on \in Assets
    BY <1>6 DEF Unlink, At, TypeOK, OnAsset
  <2>2. row[op[Maintenance].on].state = "trash" /\ row[op[Maintenance].on].keep = "over"
    BY <2>1 DEF PurgeHolds
  <2>3. Emptied({op[Maintenance].on})
    BY <1>6, <2>1 DEF Unlink, Emptied, TypeOK
  <2> QED
    BY <1>6, <2>1, <2>2, <2>3 DEF Unlink, DiskChange
<1> QED
  BY <1>1, <1>2, <1>3, <1>4, <1>5, <1>6, DiskSteps DEF DiskChange

\* What lies aside stays so for as long as its task is not deleted.
LEMMA AsideStays ==
    ASSUME Before, Next, NEW e \in staged,
           \/ e.from \in Slots /\ ~Deleted(e.from)
           \/ e.from \in Assets /\ ~Deleted(row[e.from].slot)
    PROVE  \E f \in staged' : f.from = e.from /\ f.bytes = e.bytes
<1> USE Places DEF Before, MediaInv
<1>1. CASE staged \subseteq staged'
  BY <1>1
<1>2. ASSUME NEW p \in Threads, StageSource(p)
      PROVE  staged \subseteq staged'
  BY <1>2, StageEffect
<1>3. ASSUME NEW p \in Threads, DiscardStaging(p)
      PROVE  e \in staged'
  <2>1. CASE e.by = p
    <3>1. op[p].pc = "discard" /\ Within(op[p].batch, e.from)
      BY <1>3, <2>1 DEF DiscardStaging, At, StagedInv
    <3>2. \A t \in op[p].batch : task[t] = "deleted"
      BY <3>1 DEF StageInv
    <3> QED
      BY <3>1, <3>2 DEF Within, Deleted, OwnerTask
  <2>2. CASE e.by # p
    BY <1>3, <2>2 DEF DiscardStaging, StagedBy
  <2> QED
    BY <2>1, <2>2
<1>4. ASSUME NEW p \in Mortal, Crash(p)
      PROVE  \E f \in staged' : f.from = e.from /\ f.bytes = e.bytes
  <2>1. CASE e.by = p
    <3>1. [e EXCEPT !.by = Nothing] \in staged'
      BY <1>4, <2>1 DEF Crash, Abandon, StagedBy
    <3>2. e \in [from : Locations, bytes : Contents, by : Threads \cup {Nothing}]
      BY DEF TypeOK
    <3> DEFINE f == [e EXCEPT !.by = Nothing]
    <3>3. f.from = e.from /\ f.bytes = e.bytes
      BY <3>2
    <3> QED
      BY <3>1, <3>3
  <2>2. CASE e.by # p
    BY <1>4, <2>2 DEF Crash, Abandon, StagedBy
  <2> QED
    BY <2>1, <2>2
<1> QED
  BY <1>1, <1>2, <1>3, <1>4, StagedSteps

LEMMA CopyAsideStays ==
    ASSUME Before, Next, NEW a \in Assets, Present(a), Present(a)', StagedFrom(a)
    PROVE  StagedFrom(a)'
<1>1. PICK e \in staged : e.from \in {a, row[a].slot} /\ e.bytes = row[a].sum
  BY DEF StagedFrom
<1>2. /\ row[a].slot \in Slots /\ row'[a].slot = row[a].slot /\ row'[a].sum = row[a].sum
      /\ ~Deleted(row[a].slot)
  BY RowsGoOn DEF Before, MediaInv, FileInv, FileOK, Used, Present
<1>3. PICK f \in staged' : f.from = e.from /\ f.bytes = e.bytes
  BY <1>1, <1>2, AsideStays
<1> QED
  BY <1>1, <1>2, <1>3 DEF StagedFrom

\* Nobody moves the files of a row but those who work on it.
LEMMA OwnMoves ==
    ASSUME Before, NEW a \in Assets, Present(a), NEW b \in Assets, NEW p \in Everyone,
           row[b].slot = row[a].slot, Used(b), op[p].on = b,
           op[p].pc = "trash" \/ (op[p].pc = "restore" /\ ~Empty(b))
    PROVE  b = a
<1>1. ~Deleted(row[a].slot)
  BY DEF Before, MediaInv, FileInv, FileOK
<1>2. Present(b)
  <2>1. CASE op[p].pc = "trash"
    BY <1>1, <2>1 DEF Before, MediaInv, TrashInv, Safe
  <2>2. CASE ~Empty(b)
    <3>1. row[b] \in Rows
      BY RowTyped DEF Before
    <3> QED
      BY <1>1, <2>2, <3>1 DEF Before, MediaInv, FileInv, FileOK, Present, Used, Rows
  <2> QED
    BY <2>1, <2>2
<1> QED
  BY <1>2 DEF Before, MediaInv, UniqueInv

\* The copies of a row that is there before and after a step.
LEMMA CopiesKept ==
    ASSUME Before, Next, NEW a \in Assets, Present(a), Present(a)'
    PROVE  LET s == row[a].slot
               sum == row[a].sum
           IN  /\ disk'[a] \in {Nothing, sum} /\ disk'[s] \in {Nothing, sum}
               /\ disk'[a] = Nothing \/ disk'[s] = Nothing
               /\ disk'[a] = Nothing /\ disk'[s] = Nothing =>
                     \/ Empty(a) /\ Empty(s)
                     \/ \E e \in staged' : e.from \in {a, s} /\ e.bytes = sum
                     \/ UNCHANGED row /\ Purged(a)'
<1> USE Places
<1> DEFINE s == row[a].slot
           sum == row[a].sum
           Goal == /\ disk'[a] \in {Nothing, sum} /\ disk'[s] \in {Nothing, sum}
                   /\ disk'[a] = Nothing \/ disk'[s] = Nothing
                   /\ disk'[a] = Nothing /\ disk'[s] = Nothing =>
                         \/ Empty(a) /\ Empty(s)
                         \/ \E e \in staged' : e.from \in {a, s} /\ e.bytes = sum
                         \/ UNCHANGED row /\ Purged(a)'
<1>1. /\ s \in Slots /\ a # s /\ sum # Nothing /\ ~Deleted(s)
      /\ disk[a] \in {Nothing, sum} /\ disk[s] \in {Nothing, sum}
      /\ Empty(a) \/ Empty(s)
  BY RowTyped DEF Before, MediaInv, FileInv, FileOK, Present, Used
<1>2. DiskChange
  BY DiskChanges DEF Before, MediaInv
<1>3. CASE UNCHANGED disk
  BY <1>1, <1>3 DEF Empty
<1>4. ASSUME NEW p \in Threads, NEW l \in Slots, op[p].pc = "place", op[p].on = l,
             Filled(l, op[p].holds)
      PROVE  Goal
  <2>1. RowsAt(l) = {}
    BY <1>4 DEF Before, MediaInv, MakeInv, MakeOK, OnSlot
  <2>2. l # s
    BY <2>1 DEF RowsAt
  <2> QED
    BY <1>1, <1>4, <2>2 DEF Filled, Empty
<1>5. ASSUME NEW l \in UploadSlots, incoming[l] # Nothing, Filled(l, incoming[l])
      PROVE  Goal
  <2>1. l # s
    BY <1>5 DEF Before, MediaInv, IncomingInv
  <2> QED
    BY <1>1, <1>5, <2>1 DEF Filled, Empty
<1>6. ASSUME NEW p \in Everyone, NEW b \in Assets, op[p].pc = "trash", op[p].on = b, Used(b),
             Moved(row[b].slot, b)
      PROVE  Goal
  <2>1. row[b].slot \in Slots
    BY <1>6, RowTyped DEF Before
  <2>2. CASE row[b].slot = s
    <3>1. b = a
      BY <1>6, <2>2, OwnMoves
    <3> QED
      BY <1>1, <1>6, <3>1 DEF Moved, Empty
  <2>3. CASE row[b].slot # s
    <3>1. b # a
      BY <2>3
    <3> QED
      BY <1>1, <1>6, <2>1, <2>3, <3>1 DEF Moved, Empty
  <2> QED
    BY <2>2, <2>3
<1>7. ASSUME NEW p \in Everyone, NEW b \in Assets, op[p].pc = "restore", op[p].on = b, Used(b),
             Moved(b, row[b].slot)
      PROVE  Goal
  <2>1. row[b].slot \in Slots
    BY <1>7, RowTyped DEF Before
  <2>2. CASE row[b].slot = s
    <3>1. b = a
      BY <1>7, <2>2, OwnMoves DEF Moved
    <3> QED
      BY <1>1, <1>7, <3>1 DEF Moved, Empty
  <2>3. CASE row[b].slot # s
    <3>1. b # a
      BY <2>3
    <3> QED
      BY <1>1, <1>7, <2>1, <2>3, <3>1 DEF Moved, Empty
  <2> QED
    BY <2>2, <2>3
<1>8. ASSUME NEW b \in Assets, UNCHANGED row, row[b].state = "trash", row[b].keep = "over", Emptied({b})
      PROVE  Goal
  <2>1. CASE b = a
    BY <1>1, <1>8, <2>1 DEF Emptied, Empty, Purged
  <2>2. CASE b # a
    BY <1>1, <1>8, <2>2 DEF Emptied, Empty
  <2> QED
    BY <2>1, <2>2
<1>9. ASSUME NEW p \in Threads, NEW source \in Sources, Emptied(FilesIn(source)),
             \A l \in FilesIn(source) :
                ~Empty(l) => \E e \in staged' : e.from = l /\ e.bytes = disk[l]
      PROVE  Goal
  <2>1. ASSUME NEW l \in {a, s}
        PROVE  \/ disk'[l] = disk[l]
               \/ /\ disk'[l] = Nothing
                  /\ disk[l] # Nothing => \E e \in staged' : e.from = l /\ e.bytes = disk[l]
    <3>1. l \in Locations
      BY <1>1
    <3>2. CASE l \in FilesIn(source)
      BY <1>9, <3>2 DEF Emptied, Empty
    <3>3. CASE l \notin FilesIn(source)
      BY <1>9, <3>1, <3>3 DEF Emptied
    <3> QED
      BY <3>2, <3>3
  <2>2. \/ disk'[a] = disk[a]
        \/ /\ disk'[a] = Nothing
           /\ disk[a] # Nothing => \E e \in staged' : e.from = a /\ e.bytes = disk[a]
    BY <2>1
  <2>3. \/ disk'[s] = disk[s]
        \/ /\ disk'[s] = Nothing
           /\ disk[s] # Nothing => \E e \in staged' : e.from = s /\ e.bytes = disk[s]
    BY <2>1
  <2> QED
    BY <1>1, <2>2, <2>3 DEF Empty
<1>10. Goal
  BY <1>2, <1>3, <1>4, <1>5, <1>6, <1>7, <1>8, <1>9 DEF DiskChange
<1> QED
  BY <1>10

\* Nothing of a row is lost, be it read, moved, staged, purged or restored.
LEMMA PresentKept ==
    ASSUME Before, Next, NEW a \in Assets, Present(a), Present(a)'
    PROVE  FileOK(a)'
<1>0. row[a].slot \in Slots /\ row[a].sum \in Contents
  BY RowTyped DEF Before, Used, Present, MediaInv, FileInv, FileOK
<1> PICK s \in Slots, sum \in Contents : s = row[a].slot /\ sum = row[a].sum
  BY <1>0
<1>1. /\ row[a] \in Rows /\ Used(a) /\ row[a].slot = s /\ row[a].sum = sum
      /\ row'[a].slot = s /\ row'[a].sum = sum /\ Used(a)'
  BY RowTyped, RowsGoOn DEF Before, Used, Present
<1>2. /\ ~Deleted(s)
      /\ Empty(a) /\ Empty(s) => StagedFrom(a) \/ Purged(a)
      /\ row[a].state = "active" => row[a].keep = "none"
  BY DEF Before, MediaInv, FileInv, FileOK
<1>3. ~Deleted(s)'
  BY <1>1, <1>2, PresentDeleted DEF Before, Deleted
<1>4. /\ disk'[a] \in {Nothing, sum} /\ disk'[s] \in {Nothing, sum}
      /\ disk'[a] = Nothing \/ disk'[s] = Nothing
      /\ disk'[a] = Nothing /\ disk'[s] = Nothing =>
            \/ Empty(a) /\ Empty(s)
            \/ \E e \in staged' : e.from \in {a, s} /\ e.bytes = sum
            \/ UNCHANGED row /\ Purged(a)'
  BY CopiesKept
<1>5. RowChange(a)
  BY RowChanges DEF Before
<1>6. row'[a].state = "active" => row'[a].keep = "none"
  <2>1. CASE row[a].keep = "retained" /\ row'[a] = [row[a] EXCEPT !.keep = "over"]
    BY <1>1, <1>2, <2>1 DEF Rows
  <2>2. CASE row'[a] = row[a] \/ row'[a] = [row[a] EXCEPT !.state = "active", !.keep = "none"]
    BY <1>1, <1>2, <2>2 DEF Rows
  <2>3. CASE \/ row'[a] = [row[a] EXCEPT !.state = "trash", !.keep = "retained"]
             \/ row'[a] = [row[a] EXCEPT !.state = "gone"]
    BY <1>1, <2>3 DEF Rows
  <2> QED
    BY <1>1, <1>5, <2>1, <2>2, <2>3 DEF RowChange, Used
<1>7. ASSUME disk'[a] = Nothing, disk'[s] = Nothing, Empty(a), Empty(s), Purged(a)
      PROVE  StagedFrom(a)' \/ Purged(a)'
  <2>1. CASE row'[a] = row[a]
    BY <1>7, <2>1 DEF Purged, Empty
  <2>2. ASSUME NEW p \in Everyone, op[p].pc = "trashed", op[p].on = a
        PROVE  FALSE
    BY <1>7, <2>2 DEF Before, MediaInv, TrashInv, Safe, Purged
  <2>3. ASSUME NEW p \in Everyone, op[p].pc = "restored", op[p].on = a
        PROVE  StagedFrom(a)'
    <3>1. StagedFrom(a)
      BY <1>7, <2>3 DEF Before, MediaInv, RestoreInv, RestoreOK, Purged
    <3> QED
      BY <3>1, CopyAsideStays
  <2> QED
    BY <1>1, <1>5, <1>7, <2>1, <2>2, <2>3 DEF RowChange, Purged, Present, Rows
<1>8. disk'[a] = Nothing /\ disk'[s] = Nothing => StagedFrom(a)' \/ Purged(a)'
  <2>1. (\E e \in staged' : e.from \in {a, s} /\ e.bytes = sum) => StagedFrom(a)'
    BY <1>1 DEF StagedFrom
  <2> QED
    BY <1>2, <1>4, <1>7, <2>1, CopyAsideStays
<1>9. (row[a].state # "gone")'
  BY DEF Present
<1> QED
  BY <1>1, <1>3, <1>4, <1>6, <1>8, <1>9 DEF FileOK, Empty, Deleted, Used

\* Only who trashes a row puts a file into its directory.
LEMMA EmptyStays ==
    ASSUME Before, Next, NEW a \in Assets, Empty(a),
           \A p \in Everyone : ~(op[p].pc = "trash" /\ op[p].on = a)
    PROVE  Empty(a)'
<1> USE Places DEF Empty
<1>1. DiskChange
  BY DiskChanges DEF Before, MediaInv
<1>2. ASSUME NEW s \in Slots, NEW bytes, Filled(s, bytes)
      PROVE  Empty(a)'
  BY <1>2 DEF Filled
<1>3. ASSUME NEW b \in Assets, Used(b), NEW p \in Everyone, op[p].pc = "trash", op[p].on = b,
             Moved(row[b].slot, b)
      PROVE  Empty(a)'
  BY <1>3, RowTyped DEF Moved, Before
<1>4. ASSUME NEW b \in Assets, Used(b), Moved(b, row[b].slot)
      PROVE  Empty(a)'
  BY <1>4, RowTyped DEF Moved, Before
<1>5. ASSUME NEW places, Emptied(places)
      PROVE  Empty(a)'
  BY <1>5 DEF Emptied
<1> QED
  BY <1>1, <1>2, <1>3, <1>4, <1>5 DEF DiskChange

LEMMA FilesKept ==
    ASSUME Before, Next
    PROVE  FileInv'
<1> SUFFICES ASSUME NEW a \in Assets PROVE FileOK(a)'
  BY DEF FileInv
<1> USE Places DEF Before, MediaInv
<1>1. row[a] \in Rows /\ RowChange(a) /\ FileOK(a)
  BY RowTyped, RowChanges DEF FileInv
<1>2. CASE Present(a) /\ Present(a)'
  BY <1>2, PresentKept
<1>3. CASE ~Present(a) /\ Present(a)'
  <2>1. PICK p \in Threads :
           /\ InsertRow(p)
           /\ op[p].pc = "insert" /\ op[p].on \in Slots /\ ~Deleted(op[p].on)
           /\ RowsAt(op[p].on) = {}
           /\ row'[a] = [state |-> "active", slot |-> op[p].on, sum |-> op[p].holds, keep |-> "none"]
    BY <1>3, PresentGained
  <2>2. PICK s \in Slots : s = op[p].on
    BY <2>1
  <2>3. PICK bytes : bytes = op[p].holds
    OBVIOUS
  <2>4. Held(s, bytes)
    BY <2>1, <2>2, <2>3 DEF MakeInv, MakeOK, OnSlot
  <2>5. UNCHANGED <<disk, task, staged>>
    BY <2>1 DEF InsertRow
  <2>6. row'[a].slot = s /\ row'[a].sum = bytes /\ row'[a].state = "active" /\ row'[a].keep = "none"
    BY <2>1, <2>2, <2>3
  <2>7. Empty(a)
    BY <1>1, <1>3, PresentGained DEF FileOK, Used
  <2>8. ~Deleted(s) /\ bytes \in Contents
    BY <2>1, <2>2, <2>4 DEF Held
  <2>9. disk[s] = bytes \/ (disk[s] = Nothing /\ StagedFrom(a)')
    BY <2>4, <2>5, <2>6 DEF Held, StagedFrom, Empty
  <2> QED
    BY <2>5, <2>6, <2>7, <2>8, <2>9 DEF FileOK, Used, Present, Empty, Deleted
<1>4. CASE ~Used(a)'
  <2>1. ~Used(a)
    BY <1>4, RowsGoOn
  <2>2. Empty(a)
    BY <1>1, <2>1 DEF FileOK
  <2>3. \A p \in Everyone : ~(op[p].pc = "trash" /\ op[p].on = a)
    BY <2>1 DEF TypeOK, OnAsset, Used
  <2>4. Empty(a)'
    BY <2>2, <2>3, EmptyStays
  <2> QED
    BY <1>4, <2>4 DEF FileOK, Used, Present
<1>5. CASE Used(a)' /\ ~Present(a)'
  <2>1. Empty(a)' \/ Deleted(row[a].slot)'
    <3>1. CASE row[a].state = "gone"
      <4>1. row[a].slot \in Slots
        BY <3>1, RowTyped DEF Used
      <4>2. CASE Deleted(row[a].slot)
        <5>1. PICK s \in Slots : s = row[a].slot
          BY <4>1
        <5>2. Deleted(s)'
          BY <4>2, <5>1, DeletedStays
        <5>3. row'[a].slot = s
          BY <3>1, <5>1, RowsGoOn DEF Used
        <5> QED
          BY <5>2, <5>3 DEF Deleted
      <4>3. CASE ~Deleted(row[a].slot)
        <5>1. Empty(a)
          BY <1>1, <3>1, <4>3 DEF FileOK
        <5>2. \A p \in Everyone : ~(op[p].pc = "trash" /\ op[p].on = a)
          BY <3>1, <4>3 DEF TrashInv, Safe, Present
        <5> QED
          BY <5>1, <5>2, EmptyStays
      <4> QED
        BY <4>2, <4>3
    <3>2. CASE Present(a)
      <4>1. CASE CommitPurge /\ op[Maintenance].pc = "unlinked" /\ op[Maintenance].on = a
        BY <4>1 DEF CommitPurge, UnlinkInv, Empty
      <4>2. CASE Deleted(row[a].slot)'
        BY <4>2
      <4> QED
        BY <1>1, <1>5, <3>2, <4>1, <4>2 DEF RowChange, Present, Rows
    <3>3. CASE ~Used(a)
      BY <1>1, <1>5, <3>3, RowShapes DEF Present, Rows, Used
    <3> QED
      BY <1>1, <3>1, <3>2, <3>3 DEF Rows, Used, Present
  <2>2. row'[a].state # "active"
    BY <1>5 DEF Present
  <2> QED
    BY <1>5, <2>1, <2>2 DEF FileOK, Present, Used
<1> QED
  BY <1>2, <1>3, <1>4, <1>5 DEF Present, Used

LEMMA UniqueKept ==
    ASSUME Before, Next
    PROVE  UniqueInv'
<1> SUFFICES ASSUME NEW a \in Assets, NEW b \in Assets, Present(a)', Present(b)',
                    row'[a].slot = row'[b].slot
             PROVE  a = b
  BY DEF UniqueInv
<1> USE DEF Before, MediaInv
<1>1. ASSUME NEW c \in Assets, NEW d \in Assets, ~Present(c), Present(c)', Present(d)',
             row'[c].slot = row'[d].slot, c # d
      PROVE  FALSE
  <2>1. PICK p \in Threads :
           /\ InsertRow(p)
           /\ op[p].pc = "insert" /\ op[p].on \in Slots /\ RowsAt(op[p].on) = {}
           /\ row'[c] = [state |-> "active", slot |-> op[p].on, sum |-> op[p].holds,
                         keep |-> "none"]
    BY <1>1, PresentGained
  <2>2. ~UNCHANGED row
    BY <1>1 DEF Present
  <2>3. PICK e \in Assets : \A f \in Assets \ {e} : row'[f] = row[f]
    BY <2>1, <2>2, InsertEffect
  <2>4. row'[d] = row[d]
    BY <1>1, <2>3 DEF Present
  <2>5. row'[c].slot = op[p].on
    BY <2>1
  <2> QED
    BY <1>1, <2>1, <2>4, <2>5 DEF RowsAt, Present
<1>2. CASE Present(a) /\ Present(b)
  BY <1>2, RowsGoOn DEF UniqueInv, Present, Used
<1> QED
  BY <1>1, <1>2

LEMMA IncomingKept ==
    ASSUME Before, Next
    PROVE  IncomingInv'
<1> SUFFICES ASSUME NEW s \in UploadSlots, incoming'[s] # Nothing, NEW a \in Assets,
                    row'[a].slot = s
             PROVE  FALSE
  BY DEF IncomingInv
<1> USE Places DEF Before, MediaInv
<1>1. incoming[s] # Nothing
  BY IncomingSteps DEF OwnUpload, TypeOK
<1>2. row[a].slot # s
  BY <1>1 DEF IncomingInv
<1>3. row[a] \in Rows /\ RowChange(a)
  BY RowTyped, RowChanges
<1>4. PICK p \in Threads : op[p].pc = "insert" /\ op[p].on = s
  <2>1. row'[a] # row[a]
    BY <1>2
  <2>2. /\ row'[a] # [row[a] EXCEPT !.keep = "over"]
        /\ row'[a] # [row[a] EXCEPT !.state = "trash", !.keep = "retained"]
        /\ row'[a] # [row[a] EXCEPT !.state = "active", !.keep = "none"]
        /\ row'[a] # [row[a] EXCEPT !.state = "gone"]
    BY <1>2, <1>3 DEF Rows
  <2> QED
    BY <1>3, <2>1, <2>2, RowShapes
<1> QED
  BY <1>1, <1>4 DEF MakeInv, MakeOK, OnSlot

-----------------------------------------------------------------------------
(* Operations *)

\* The operation of q takes no step of its own; a deletion may take its staging file away.
Waits(q) == op'[q] = op[q] \/ (op[q].pc = "place" /\ op'[q] = [op[q] EXCEPT !.holds = Nothing])

LEMMA OneActs ==
    ASSUME op \in [Everyone -> Operations], NEW p \in Everyone, NEW q \in Everyone, p # q,
           NEW pc, NEW x, NEW y,
           \/ GoOn(p, pc, x, y) \/ Carry(p, pc, x, y) \/ Step(p, pc) \/ End(p) \/ Raise(p)
    PROVE  op'[q] = op[q]
  BY DEF GoOn, Carry, Step, End, Raise

LEMMA OpSteps ==
    ASSUME TypeOK, Next, NEW q \in Everyone
    PROVE  \/ Waits(q)
           \/ q \in Threads /\ (Request(q) \/ MediaStep(q) \/ DeletionStep(q))
           \/ q = Maintenance /\ MaintenanceStep
           \/ Crash(q) /\ op'[q].pc = "idle"
<1> USE Places
<1>0. /\ op \in [Everyone -> Operations]
      /\ \A p \in Everyone : \A x : p # q /\ op' = [op EXCEPT ![p] = x] => op'[q] = op[q]
  BY DEF TypeOK
<1>1. ASSUME NEW p \in Threads, Request(p), p # q
      PROVE  op'[q] = op[q]
  <2>1. ASSUME NEW s \in Slots, BeginConversion(p, s)
        PROVE  op'[q] = op[q]
    BY OneActs, <1>0, <1>1, <2>1 DEF BeginConversion, StartRestore
  <2>2. ASSUME NEW s \in Slots, OwnUpload(p, s)
        PROVE  op'[q] = op[q]
    BY OneActs, <1>0, <1>1, <2>2 DEF OwnUpload
  <2>3. ASSUME NEW a \in Assets, BeginTrash(p, a) \/ BeginRestore(p, a)
        PROVE  op'[q] = op[q]
    BY OneActs, <1>0, <1>1, <2>3 DEF BeginTrash, BeginRestore, StartTrash, StartRestore
  <2>4. ASSUME NEW batch \in SUBSET Tasks, ReserveDeletion(p, batch)
        PROVE  op'[q] = op[q]
    BY <1>0, <1>1, <2>4 DEF ReserveDeletion
  <2> QED
    BY <1>1, <2>1, <2>2, <2>3, <2>4 DEF Request
<1>2. ASSUME NEW p \in Threads, MediaStep(p), p # q
      PROVE  op'[q] = op[q]
  <2>1. CASE PlaceConversion(p) \/ MeasureFile(p) \/ InsertRow(p)
    BY OneActs, <1>0, <1>2, <2>1 DEF PlaceConversion, MeasureFile, InsertRow
  <2>2. CASE MoveToTrash(p) \/ CommitTrash(p) \/ MoveBack(p) \/ CommitRestore(p)
    BY OneActs, <1>0, <1>2, <2>2 DEF MoveToTrash, CommitTrash, MoveBack, CommitRestore
  <2> QED
    BY <1>2, <2>1, <2>2 DEF MediaStep
<1>3. ASSUME NEW p \in Threads, DeletionStep(p), p # q
      PROVE  Waits(q)
  <2>1. CASE StageSource(p)
    <3>1. PICK source : op' = [r \in Everyone |->
                            IF r = p THEN [op[p] EXCEPT !.todo = op[p].todo \ {source}]
                            ELSE IF At(r, "place") /\ op[r].on \in FilesIn(source)
                                 THEN [op[r] EXCEPT !.holds = Nothing]
                                 ELSE op[r]]
      BY <2>1, StageEffect
    <3> QED
      BY <1>3, <3>1 DEF Waits, At
  <2>2. CASE ~StageSource(p)
    BY <1>3, <2>2
    DEF DeletionStep, DeletionFails, CommitDeletion, DiscardStaging, UndoSource, UndoEnds,
        Step, End, TypeOK, Waits
  <2> QED
    BY <2>1, <2>2
<1>4. ASSUME MaintenanceStep, Maintenance # q
      PROVE  op'[q] = op[q]
  <2>1. CASE BeginPass \/ SelectDue \/ Unlink \/ CommitPurge \/ Reconcile \/ EndPass
    BY OneActs, <1>0, <1>4, <2>1 DEF BeginPass, SelectDue, Unlink, CommitPurge, Reconcile, EndPass
  <2>2. ASSUME NEW a \in Assets, TrashSample(a) \/ ReservePurge(a)
        PROVE  op'[q] = op[q]
    BY OneActs, <1>0, <1>4, <2>2 DEF TrashSample, StartTrash, ReservePurge
  <2>3. CASE MoveToTrash(Maintenance) \/ CommitTrash(Maintenance)
    BY OneActs, <1>0, <1>4, <2>3 DEF MoveToTrash, CommitTrash
  <2> QED
    BY <1>4, <2>1, <2>2, <2>3 DEF MaintenanceStep
<1>5. ASSUME NEW p \in Everyone, Crash(p)
      PROVE  (Crash(q) /\ op'[q].pc = "idle") \/ op'[q] = op[q]
  BY <1>5, EndSets DEF Crash, TypeOK
<1>6. CASE \E t \in Tasks : Finish(t) \/ Retry(t)
  BY <1>6 DEF Finish, Retry, Waits
<1>7. CASE \E a \in Assets : RetentionEnds(a)
  BY <1>7 DEF RetentionEnds, Waits
<1>8. Mortal \subseteq Everyone
  BY MediaAssumption DEF MediaAssumption, Everyone
<1> QED
  BY <1>1, <1>2, <1>3, <1>4, <1>5, <1>6, <1>7, <1>8 DEF Next, Waits

\* How an operation comes to where it is after a step.
OpChange(q) ==
    \/ Waits(q)
    \/ op'[q].pc = "idle"
    \/ \E s \in Slots \ UploadSlots :
         /\ q \in Threads /\ BeginConversion(q, s)
         /\ op'[q].pc \in {"place", "register"} /\ op'[q].on = s /\ RowsAt(s) = {}
    \/ \E s \in UploadSlots :
         q \in Threads /\ OwnUpload(q, s) /\ op'[q].pc = "register" /\ op'[q].on = s
    \/ /\ q \in Threads /\ PlaceConversion(q)
       /\ op[q].pc = "place" /\ op'[q].pc = "register" /\ op'[q].on = op[q].on
    \/ /\ q \in Threads /\ MeasureFile(q)
       /\ op[q].pc = "register" /\ op'[q].pc = "insert" /\ op'[q].on = op[q].on
       /\ op'[q].holds = disk[op[q].on]
    \/ \E a \in Assets :
         /\ q \in Threads /\ InsertRow(q)
         /\ op'[q].pc = "trash" /\ op'[q].on = a
         /\ row'[a].state = "active" /\ row'[a].keep = "none"
    \/ \E a \in Assets :
         /\ UNCHANGED <<task, row, disk, staged>>
         /\ op'[q].pc \in {"trash", "trashed"} /\ op'[q].on = a
         /\ row[a].state = "active" \/ (sweep = "samples" /\ a \in due)
    \/ \E a \in Assets :
         /\ UNCHANGED <<task, row, disk, staged>>
         /\ op'[q].on = a
         /\ op'[q].pc = "restore" \/ (op'[q].pc = "restored" /\ AtSlot(a))
    \/ /\ MoveToTrash(q) /\ op[q].pc = "trash" /\ op'[q].pc = "trashed" /\ op'[q].on = op[q].on
    \/ \E a \in Assets :
         /\ MoveBack(q) /\ op[q].pc = "restore" /\ op'[q].pc = "restored"
         /\ op[q].on = a /\ op'[q].on = a /\ Used(a) /\ disk'[row[a].slot] # Nothing
    \/ q = Maintenance /\ op'[q].pc = "unlink"
    \/ /\ q = Maintenance /\ Unlink /\ op'[q].pc = "unlinked"
       /\ op'[q].on \in Assets /\ disk'[op'[q].on] = Nothing
    \/ \E batch \in SUBSET Tasks :
         /\ q \in Threads /\ UNCHANGED <<task, row>> /\ op[q].pc = "idle"
         /\ op'[q].pc = "stage" /\ op'[q].batch = batch /\ op'[q].todo = DirectoriesOf(batch)
    \/ /\ q \in Threads /\ StageSource(q) /\ op[q].pc = "stage" /\ op'[q].pc = "stage"
       /\ op'[q].batch = op[q].batch /\ op'[q].todo \subseteq op[q].todo
    \/ /\ q \in Threads /\ CommitDeletion(q) /\ op[q].pc = "stage" /\ op'[q].pc = "discard"
       /\ op'[q].batch = op[q].batch

LEMMA RequestChanges ==
    ASSUME TypeOK, NEW q \in Threads, Request(q)
    PROVE  OpChange(q)
<1> USE Places
<1>1. ASSUME NEW a \in Assets, NEW saw \in {"unused", "active", "trash", "gone"},
             UNCHANGED <<task, row, disk, staged>>,
             GoOn(q, "restore", a, saw) \/ (GoOn(q, "restored", a, saw) /\ AtSlot(a))
      PROVE  OpChange(q)
  <2>1. op'[q].on = a /\ (op'[q].pc = "restore" \/ (op'[q].pc = "restored" /\ AtSlot(a)))
    BY <1>1, GoOnSets DEF TypeOK, PCs
  <2> QED
    BY <1>1, <2>1 DEF OpChange
<1>2. \A a \in Assets : row[a].state \in {"unused", "active", "trash", "gone"}
  BY DEF TypeOK, Rows
<1>3. ASSUME NEW s \in Slots \ UploadSlots, BeginConversion(q, s)
      PROVE  OpChange(q)
  <2>1. CASE \E a \in RowsAt(s) : StartRestore(q, a)
    <3>1. PICK a \in Assets : StartRestore(q, a)
      BY <2>1 DEF RowsAt
    <3> QED
      BY <1>1, <1>2, <1>3, <3>1 DEF StartRestore, BeginConversion
  <2>2. CASE RowsAt(s) = {} /\ (GoOn(q, "register", s, "unused") \/ \E b \in Bytes : Carry(q, "place", s, b))
    <3>1. op'[q].pc \in {"place", "register"} /\ op'[q].on = s
      BY <2>2, GoOnSets, CarrySets DEF TypeOK, PCs, Contents
    <3> QED
      BY <1>3, <2>2, <3>1 DEF OpChange
  <2> QED
    BY <1>3, <2>1, <2>2 DEF BeginConversion
<1>4. ASSUME NEW s \in UploadSlots, OwnUpload(q, s)
      PROVE  OpChange(q)
  <2>1. op'[q].pc = "register" /\ op'[q].on = s
    BY <1>4, GoOnSets DEF OwnUpload, TypeOK, PCs
  <2> QED
    BY <1>4, <2>1 DEF OpChange
<1>5. ASSUME NEW a \in Assets, BeginTrash(q, a)
      PROVE  OpChange(q)
  <2>1. op'[q].pc \in {"trash", "trashed"} /\ op'[q].on = a
    BY <1>2, <1>5, GoOnSets DEF BeginTrash, StartTrash, TypeOK, PCs
  <2> QED
    BY <1>5, <2>1 DEF BeginTrash, OpChange
<1>6. ASSUME NEW a \in Assets, BeginRestore(q, a)
      PROVE  OpChange(q)
  BY <1>1, <1>2, <1>6 DEF BeginRestore, StartRestore
<1>7. ASSUME NEW batch \in SUBSET Tasks, ReserveDeletion(q, batch)
      PROVE  OpChange(q)
  <2>1. op'[q] = [Idle EXCEPT !.pc = "stage", !.batch = batch, !.todo = DirectoriesOf(batch)]
    BY <1>7 DEF ReserveDeletion, TypeOK
  <2>2. op'[q].pc = "stage" /\ op'[q].batch = batch /\ op'[q].todo = DirectoriesOf(batch)
    BY <2>1 DEF Idle
  <2> QED
    BY <1>7, <2>2 DEF ReserveDeletion, At, OpChange
<1> QED
  BY <1>3, <1>4, <1>5, <1>6, <1>7 DEF Request

LEMMA ThreadChanges ==
    ASSUME ~Faults, TypeOK, StageInv, NEW q \in Threads, MediaStep(q) \/ DeletionStep(q)
    PROVE  OpChange(q)
<1> USE Places
<1>1. CASE PlaceConversion(q)
  <2>1. op[q].pc = "place" /\ op[q].on \in Slots
    BY <1>1 DEF PlaceConversion, At, TypeOK, OnSlot
  <2>2. op'[q].pc = "idle" \/ (op'[q].pc = "register" /\ op'[q].on = op[q].on)
    BY <1>1, <2>1, GoOnSets, EndSets DEF PlaceConversion, TypeOK, PCs
  <2> QED
    BY <1>1, <2>1, <2>2 DEF OpChange
<1>2. CASE MeasureFile(q)
  <2>1. op[q].pc = "register" /\ op[q].on \in Slots
    BY <1>2 DEF MeasureFile, At, TypeOK, OnSlot
  <2>2. CASE End(q)
    BY <2>2, EndSets DEF TypeOK, OpChange
  <2>3. CASE Carry(q, "insert", op[q].on, disk[op[q].on])
    <3>1. op'[q] = [Idle EXCEPT !.pc = "insert", !.on = op[q].on, !.holds = disk[op[q].on]]
      BY <2>3 DEF Carry, TypeOK
    <3> QED
      BY <1>2, <2>1, <3>1 DEF OpChange, Idle
  <2> QED
    BY <1>2, <2>2, <2>3 DEF MeasureFile
<1>3. CASE InsertRow(q)
  <2>1. CASE UNCHANGED row
    BY <1>3, <2>1, EndSets DEF InsertRow, TypeOK, OpChange
  <2>2. CASE ~UNCHANGED row
    <3>1. PICK a \in Assets :
             /\ row'[a] = [state |-> "active", slot |-> op[q].on, sum |-> op[q].holds, keep |-> "none"]
             /\ op'[q].pc = "idle" \/ (op'[q].pc = "trash" /\ op'[q].on = a)
      BY <1>3, <2>2, InsertEffect
    <3>2. row'[a].state = "active" /\ row'[a].keep = "none"
      BY <3>1
    <3> QED
      BY <1>3, <3>1, <3>2 DEF OpChange
  <2> QED
    BY <2>1, <2>2
<1>4. CASE MoveToTrash(q)
  <2>1. op'[q].pc = "idle" \/ (op'[q].pc = "trashed" /\ op'[q].on = op[q].on)
    BY <1>4, StepSets, EndSets DEF MoveToTrash, Raise, TypeOK, PCs
  <2> QED
    BY <1>4, <2>1 DEF MoveToTrash, At, OpChange
<1>5. CASE MoveBack(q)
  <2>1. op[q].pc = "restore" /\ op[q].on \in Assets /\ Used(op[q].on)
    BY <1>5 DEF MoveBack, At, TypeOK, OnAsset, Used
  <2>2. row[op[q].on].slot \in Slots
    BY <2>1, RowTyped
  <2>3. \/ op'[q].pc = "idle"
        \/ /\ op'[q].pc = "restored" /\ op'[q].on = op[q].on
           /\ disk'[row[op[q].on].slot] # Nothing
    BY <1>5, <2>1, <2>2, StepSets, EndSets DEF MoveBack, Move, Empty, TypeOK, PCs
  <2> QED
    BY <1>5, <2>1, <2>3 DEF OpChange
<1>6. CASE CommitTrash(q) \/ CommitRestore(q)
  BY <1>6, EndSets DEF CommitTrash, CommitRestore, Raise, TypeOK, OpChange
<1>7. CASE StageSource(q)
  <2>1. PICK source : op' = [r \in Everyone |->
                            IF r = q THEN [op[q] EXCEPT !.todo = op[q].todo \ {source}]
                            ELSE IF At(r, "place") /\ op[r].on \in FilesIn(source)
                                 THEN [op[r] EXCEPT !.holds = Nothing]
                                 ELSE op[r]]
    BY <1>7, StageEffect
  <2>2. op'[q] = [op[q] EXCEPT !.todo = op[q].todo \ {source}] /\ op[q] \in Operations
    BY <2>1 DEF TypeOK
  <2>3. op'[q].pc = op[q].pc /\ op'[q].batch = op[q].batch /\ op'[q].todo \subseteq op[q].todo
    BY <2>2 DEF Operations
  <2> QED
    BY <1>7, <2>3, StageEffect DEF OpChange
<1>8. CASE CommitDeletion(q)
  <2>1. op[q].pc = "stage" /\ op'[q] = [op[q] EXCEPT !.pc = "discard"] /\ op[q] \in Operations
    BY <1>8 DEF CommitDeletion, At, Step, TypeOK
  <2>2. op'[q].pc = "discard" /\ op'[q].batch = op[q].batch
    BY <2>1 DEF Operations
  <2> QED
    BY <1>8, <2>1, <2>2 DEF OpChange
<1>9. CASE DiscardStaging(q)
  BY <1>9, EndSets DEF DiscardStaging, TypeOK, OpChange
<1> QED
  BY <1>1, <1>2, <1>3, <1>4, <1>5, <1>6, <1>7, <1>8, <1>9
  DEF MediaStep, DeletionStep, DeletionFails, UndoSource, UndoEnds, At, StageInv

LEMMA MaintenanceChanges ==
    ASSUME TypeOK, MaintenanceStep
    PROVE  OpChange(Maintenance)
<1> USE Places
<1>1. CASE BeginPass \/ SelectDue \/ Reconcile \/ EndPass
  BY <1>1 DEF BeginPass, SelectDue, Reconcile, EndPass, OpChange, Waits
<1>2. CASE Unlink
  <2>1. op[Maintenance].pc = "unlink" /\ op[Maintenance].on \in Assets
    BY <1>2 DEF Unlink, At, TypeOK, OnAsset
  <2>2. \/ op'[Maintenance].pc = "idle"
        \/ /\ op'[Maintenance].pc = "unlinked" /\ op'[Maintenance].on = op[Maintenance].on
           /\ disk'[op[Maintenance].on] = Nothing
    BY <1>2, <2>1, StepSets, EndSets DEF Unlink, TypeOK, PCs
  <2> QED
    BY <1>2, <2>1, <2>2 DEF OpChange
<1>3. CASE CommitPurge \/ CommitTrash(Maintenance)
  BY <1>3, EndSets DEF CommitPurge, CommitTrash, Raise, TypeOK, OpChange
<1>4. ASSUME NEW a \in Assets, TrashSample(a)
      PROVE  OpChange(Maintenance)
  <2>1. row[a].state \in {"unused", "active", "trash", "gone"}
    BY DEF TypeOK, Rows
  <2>2. \/ op'[Maintenance].pc = "idle"
        \/ op'[Maintenance].pc \in {"trash", "trashed"} /\ op'[Maintenance].on = a
    BY <1>4, <2>1, GoOnSets, EndSets DEF TrashSample, StartTrash, Raise, TypeOK, PCs
  <2> QED
    BY <1>4, <2>2 DEF TrashSample, OpChange
<1>5. ASSUME NEW a \in Assets, ReservePurge(a)
      PROVE  OpChange(Maintenance)
  <2>1. op'[Maintenance].pc = "unlink" \/ op' = op
    BY <1>5, GoOnSets DEF ReservePurge, TypeOK, PCs
  <2> QED
    BY <2>1 DEF OpChange, Waits
<1>6. CASE MoveToTrash(Maintenance)
  <2>1. \/ op'[Maintenance].pc = "idle"
        \/ op'[Maintenance].pc = "trashed" /\ op'[Maintenance].on = op[Maintenance].on
    BY <1>6, StepSets, EndSets DEF MoveToTrash, Raise, TypeOK, PCs
  <2> QED
    BY <1>6, <2>1 DEF MoveToTrash, At, OpChange
<1> QED
  BY <1>1, <1>2, <1>3, <1>4, <1>5, <1>6 DEF MaintenanceStep

LEMMA OpChanges ==
    ASSUME ~Faults, TypeOK, StageInv, Next, NEW q \in Everyone
    PROVE  OpChange(q)
<1>1. Waits(q) \/ op'[q].pc = "idle" => OpChange(q)
  BY DEF OpChange
<1> QED
  BY <1>1, OpSteps, RequestChanges, ThreadChanges, MaintenanceChanges

-----------------------------------------------------------------------------
(* The other parts *)

LEMMA SafeStays ==
    ASSUME Before, Next, NEW a \in Assets, Used(a), Safe(a),
           a \in due \/ \E p \in Everyone : op[p].on = a
    PROVE  Safe(a)'
<1> USE DEF Before
<1>1. row'[a].keep # "over"
  BY KeepOver DEF Safe
<1>2. PICK s \in Slots : s = row[a].slot
  BY RowsGoOn
<1>3. row'[a].slot = s
  BY <1>2, RowsGoOn
<1>4. Present(a)' \/ Deleted(s)'
  <2>1. CASE Deleted(s)
    BY <2>1, DeletedStays
  <2>2. CASE Present(a) /\ ~Present(a)'
    <3>1. Deleted(row[a].slot)'
      BY <2>2, PresentLost DEF Safe
    <3> QED
      BY <1>2, <1>3, <3>1, <2>2, RowsGoOn DEF Deleted, Used
  <2> QED
    BY <1>2, <2>1, <2>2 DEF Safe, Deleted
<1> QED
  BY <1>1, <1>3, <1>4 DEF Safe, Deleted

LEMMA DueSteps ==
    ASSUME Next
    PROVE  \/ due' \in SUBSET due /\ sweep' = sweep
           \/ BeginPass
           \/ sweep' # "samples"
  BY DEF Next, Everyone, Finish, Retry, Request, BeginConversion, BeginTrash, BeginRestore, OwnUpload,
         ReserveDeletion, MediaStep, MeasureFile, InsertRow, CommitTrash, CommitRestore, PlaceConversion,
         MoveToTrash, MoveBack, Raise,
         DeletionStep, DeletionFails, CommitDeletion, UndoSource, UndoEnds, StageSource, DiscardStaging,
         MaintenanceStep, SelectDue, CommitPurge, Reconcile, EndPass, TrashSample, ReservePurge,
         Unlink, RetentionEnds, Crash

LEMMA ActiveIsSafe ==
    ASSUME Before, NEW a \in Assets, row[a].state = "active"
    PROVE  Safe(a)
  BY DEF Before, MediaInv, FileInv, FileOK, Safe, Present

LEMMA SafeUnchanged ==
    ASSUME NEW a \in Assets, Safe(a), UNCHANGED <<row, task>>
    PROVE  Safe(a)'
  BY DEF Safe, Present, Deleted

LEMMA DueKept ==
    ASSUME Before, Next
    PROVE  DueInv'
<1> SUFFICES ASSUME sweep' = "samples", NEW a \in due' PROVE Safe(a)'
  BY DEF DueInv
<1>1. CASE BeginPass
  <2>1. a \in Assets /\ row[a].state = "active" /\ UNCHANGED <<row, task>>
    BY <1>1 DEF BeginPass, Abandoned
  <2> QED
    BY <2>1, ActiveIsSafe, SafeUnchanged
<1>2. CASE due' \in SUBSET due /\ sweep' = sweep
  <2>1. a \in due /\ a \in Assets /\ Used(a) /\ Safe(a)
    BY <1>2 DEF Before, TypeOK, MediaInv, DueInv, Used
  <2> QED
    BY <2>1, SafeStays
<1> QED
  BY <1>1, <1>2, DueSteps

LEMMA TrashKept ==
    ASSUME ~Faults, Before, Next
    PROVE  TrashInv'
<1> SUFFICES ASSUME NEW q \in Everyone, op'[q].pc \in {"trash", "trashed"}
             PROVE  Safe(op[q].on)'
  BY DEF TrashInv
<1> USE Places DEF Before, MediaInv
<1>0. PICK x : x = op'[q].on
  OBVIOUS
<1>1. CASE op[q].pc \in {"trash", "trashed"} /\ op'[q].on = op[q].on
  <2>1. x \in Assets /\ Used(x) /\ Safe(x)
    BY <1>0, <1>1 DEF TypeOK, OnAsset, TrashInv, Used
  <2> QED
    BY <1>0, <1>1, <2>1, SafeStays DEF Safe, Present, Deleted
<1>2. ASSUME NEW a \in Assets, op'[q].on = a, UNCHANGED <<row, task>>,
             row[a].state = "active" \/ (sweep = "samples" /\ a \in due)
      PROVE  Safe(op[q].on)'
  <2>1. Safe(a)
    BY <1>2, ActiveIsSafe DEF DueInv
  <2> QED
    BY <1>2, <2>1, SafeUnchanged DEF Safe, Present, Deleted
<1>3. ASSUME NEW a \in Assets, op'[q].on = a, row'[a].state = "active", row'[a].keep = "none"
      PROVE  Safe(op[q].on)'
  BY <1>3 DEF Safe, Present
<1>4. OpChange(q)
  BY OpChanges
<1>5. CASE Waits(q)
  <2>1. op[q] \in Operations
    BY DEF TypeOK
  <2>2. op'[q] = op[q]
    BY <1>5, <2>1 DEF Waits, Operations
  <2> QED
    BY <1>1, <2>2
<1> QED
  BY <1>1, <1>2, <1>3, <1>4, <1>5 DEF OpChange

LEMMA RestoreKept ==
    ASSUME ~Faults, Before, Next
    PROVE  RestoreInv'
<1> SUFFICES ASSUME NEW q \in Everyone, NEW a \in Assets,
                    op'[q].pc = "restored", op'[q].on = a, Present(a)', row'[a].keep = "over"
             PROVE  (~Empty(row[a].slot) \/ StagedFrom(a))'
  BY DEF RestoreInv, RestoreOK
<1> USE Places DEF Before, MediaInv
<1>1. CASE op'[q] = op[q]
  <2>1. Used(a)
    BY <1>1 DEF TypeOK, OnAsset, Used
  <2>2. Present(a)
    BY <2>1, PresentGained DEF Used
  <2>3. row[a].keep = "over"
    BY <1>1, KeepOver
  <2>4. ~Empty(row[a].slot) \/ StagedFrom(a)
    BY <1>1, <2>2, <2>3 DEF RestoreInv, RestoreOK
  <2>5. CASE StagedFrom(a)
    BY <2>2, <2>5, CopyAsideStays
  <2>6. ASSUME ~Empty(row[a].slot), disk'[row[a].slot] = Nothing
        PROVE  StagedFrom(a)'
    <3>1. PICK s \in Slots : s = row[a].slot
      BY <2>1, RowsGoOn
    <3>2. row'[a].slot = s /\ row'[a].sum = row[a].sum
      BY <2>1, <3>1, RowsGoOn
    <3>3. disk[s] = row[a].sum /\ disk[s] # Nothing /\ disk'[s] = Nothing
      BY <2>2, <2>6, <3>1 DEF FileInv, FileOK, Empty
    <3>4. DiskChange
      BY DiskChanges
    <3>5. ASSUME NEW p \in Everyone, NEW b \in Assets, op[p].pc = "trash", op[p].on = b, Used(b),
                 Moved(row[b].slot, b)
          PROVE  FALSE
      <4>1. row[b].slot = s
        BY <3>3, <3>5, RowTyped DEF Moved
      <4>2. b = a
        BY <2>2, <3>1, <3>5, <4>1, OwnMoves
      <4> QED
        BY <2>3, <3>5, <4>2 DEF TrashInv, Safe
    <3>6. ASSUME NEW p \in Everyone, NEW b \in Assets, Used(b), Moved(b, row[b].slot)
          PROVE  FALSE
      BY <3>3, <3>6, RowTyped DEF Moved, Empty
    <3>7. ASSUME NEW l \in Slots, NEW bytes, Filled(l, bytes)
          PROVE  FALSE
      BY <3>3, <3>7 DEF Filled, Empty
    <3>8. ASSUME NEW b \in Assets, Emptied({b})
          PROVE  FALSE
      BY <3>3, <3>8 DEF Emptied
    <3>9. ASSUME NEW source, Emptied(FilesIn(source)),
                 \A l \in FilesIn(source) :
                    ~Empty(l) => \E e \in staged' : e.from = l /\ e.bytes = disk[l]
          PROVE  StagedFrom(a)'
      <4>1. s \in FilesIn(source)
        BY <3>3, <3>9 DEF Emptied
      <4>2. PICK e \in staged' : e.from = s /\ e.bytes = disk[s]
        BY <3>3, <3>9, <4>1 DEF Empty
      <4> QED
        BY <3>2, <3>3, <4>2 DEF StagedFrom
    <3> QED
      BY <3>3, <3>4, <3>5, <3>6, <3>7, <3>8, <3>9 DEF DiskChange
  <2>7. row'[a].slot = row[a].slot
    BY <2>1, RowsGoOn
  <2> QED
    BY <2>4, <2>5, <2>6, <2>7 DEF Empty
<1>2. CASE UNCHANGED <<row, disk, staged>> /\ AtSlot(a)
  <2>1. Present(a)
    BY <1>2 DEF Present
  <2>2. row[a].sum # Nothing
    BY <2>1 DEF FileInv, FileOK
  <2> QED
    BY <1>2, <2>2 DEF AtSlot, Empty
<1>3. CASE MoveBack(q) /\ disk'[row[a].slot] # Nothing
  BY <1>3 DEF MoveBack, Empty
<1>4. OpChange(q)
  BY OpChanges
<1>5. CASE Waits(q)
  <2>1. op[q] \in Operations
    BY DEF TypeOK
  <2>2. op'[q] = op[q]
    BY <1>5, <2>1 DEF Waits, Operations
  <2> QED
    BY <1>1, <2>2
<1> QED
  BY <1>1, <1>2, <1>3, <1>4, <1>5 DEF OpChange

LEMMA UnlinkKept ==
    ASSUME ~Faults, Before, Next
    PROVE  UnlinkInv'
<1> SUFFICES ASSUME op'[Maintenance].pc = "unlinked" PROVE Empty(op[Maintenance].on)'
  BY DEF UnlinkInv
<1> USE Places DEF Before, MediaInv
<1>1. OpChange(Maintenance)
  BY OpChanges
<1>2. CASE op'[Maintenance] = op[Maintenance]
  <2>1. PICK a \in Assets : a = op[Maintenance].on
    BY <1>2 DEF TypeOK, OnAsset
  <2>2. row[a].keep = "over" /\ Empty(a)
    BY <1>2, <2>1 DEF PurgeHolds, UnlinkInv
  <2>3. \A p \in Everyone : ~(op[p].pc = "trash" /\ op[p].on = a)
    BY <2>2 DEF TrashInv, Safe
  <2>4. Empty(a)'
    BY <2>2, <2>3, EmptyStays
  <2> QED
    BY <1>2, <2>1, <2>4 DEF Empty
<1>3. CASE Waits(Maintenance)
  <2>1. op[Maintenance] \in Operations
    BY DEF TypeOK
  <2>2. op'[Maintenance] = op[Maintenance]
    BY <1>3, <2>1 DEF Waits, Operations
  <2> QED
    BY <1>2, <2>2
<1> QED
  BY <1>1, <1>3 DEF OpChange, Empty

LEMMA WaitsKeeps ==
    ASSUME TypeOK, NEW q \in Everyone, Waits(q)
    PROVE  /\ op'[q].pc = op[q].pc /\ op'[q].on = op[q].on
           /\ op'[q].batch = op[q].batch /\ op'[q].todo = op[q].todo
           /\ op[q].pc # "place" => op'[q] = op[q]
<1>1. op[q] \in Operations
  BY DEF TypeOK
<1> QED
  BY <1>1 DEF Waits, Operations

\* Who makes the file of a slot stays alone with it.
LEMMA MakeAlone ==
    ASSUME ~Faults, Before, Next, NEW p \in Threads, NEW s \in Slots \ UploadSlots,
           op[p].pc \in OnSlot, op[p].on = s, op'[p].pc \in OnSlot, op'[p].on = s
    PROVE  RowsAt(s)' = {} /\ \A q \in Threads \ {p} : ~Producing(q, s)'
<1> USE Places DEF Before, MediaInv
<1>1. RowsAt(s) = {} /\ \A q \in Threads \ {p} : ~Producing(q, s)
  BY DEF MakeInv, MakeOK
<1>2. ASSUME NEW a \in Assets, Present(a)', row'[a].slot = s
      PROVE  FALSE
  <2>1. CASE Present(a)
    BY <1>1, <1>2, <2>1, RowsGoOn DEF RowsAt, Present, Used
  <2>2. CASE ~Present(a)
    <3>1. PICK r \in Threads :
             /\ op[r].pc = "insert"
             /\ row'[a] = [state |-> "active", slot |-> op[r].on, sum |-> op[r].holds,
                           keep |-> "none"]
             /\ op'[r].pc = "idle" \/ op'[r].pc = "trash"
      BY <1>2, <2>2, PresentGained
    <3>2. op[r].on = s
      BY <1>2, <3>1
    <3>3. r = p
      BY <1>1, <3>1, <3>2 DEF Producing
    <3> QED
      BY <3>1, <3>3 DEF OnSlot
  <2> QED
    BY <2>1, <2>2
<1>3. ASSUME NEW q \in Threads \ {p}, Producing(q, s)'
      PROVE  FALSE
  <2>1. op'[q].on = s /\ op'[q].pc \in {"place", "register", "insert"}
    BY <1>3 DEF Producing
  <2>2. ~(op[q].on = s /\ op[q].pc \in {"place", "register", "insert"})
    BY <1>1 DEF Producing
  <2>3. OpChange(q)
    BY OpChanges
  <2>4. CASE Waits(q)
    BY <2>1, <2>2, <2>4, WaitsKeeps
  <2>5. ASSUME NEW l \in Slots, BeginConversion(q, l), op'[q].on = l
        PROVE  FALSE
    BY <2>1, <2>5 DEF BeginConversion, Producing, OnSlot
  <2> QED
    BY <2>1, <2>2, <2>3, <2>4, <2>5 DEF OpChange
<1> QED
  BY <1>2, <1>3 DEF RowsAt

\* What has been measured stays there, or goes aside.
LEMMA HeldStays ==
    ASSUME Before, Next, NEW p \in Threads, NEW s \in Slots, NEW bytes,
           op[p].pc = "insert", op[p].on = s, ~Deleted(s), RowsAt(s) = {}, Held(s, bytes)
    PROVE  Held(s, bytes)'
<1> USE Places DEF Before, MediaInv
<1>1. bytes \in Contents /\ bytes # Nothing
  BY DEF Held
<1>2. ASSUME NEW e \in staged, e.from = s, e.bytes = bytes
      PROVE  \E f \in staged' : f.from = s /\ f.bytes = bytes
  <2>1. PICK f \in staged' : f.from = e.from /\ f.bytes = e.bytes
    BY <1>2, AsideStays
  <2> QED
    BY <1>2, <2>1
<1>3. CASE disk'[s] = disk[s]
  BY <1>2, <1>3 DEF Held, Empty
<1>4. DiskChange
  BY DiskChanges
<1>5. ASSUME NEW r \in Threads, NEW l \in Slots, op[r].pc = "place", op[r].on = l,
             Filled(l, op[r].holds)
      PROVE  disk'[s] = disk[s]
  <2>1. CASE l = s
    <3>1. s \notin UploadSlots /\ r # p
      BY <1>5, <2>1 DEF MakeInv, MakeOK, OnSlot
    <3>2. ~Producing(p, s)
      BY <1>5, <2>1, <3>1 DEF MakeInv, MakeOK, OnSlot
    <3> QED
      BY <3>2 DEF Producing
  <2>2. CASE l # s
    BY <1>5, <2>2 DEF Filled
  <2> QED
    BY <2>1, <2>2
<1>6. ASSUME NEW l \in UploadSlots, incoming[l] # Nothing, Filled(l, incoming[l])
      PROVE  disk'[s] = disk[s]
  <2>1. l # s
    BY <1>6 DEF MakeInv, MakeOK, OnSlot
  <2> QED
    BY <1>6, <2>1 DEF Filled
<1>7. ASSUME NEW r \in Everyone, NEW b \in Assets, op[r].pc = "trash", op[r].on = b, Used(b),
             Moved(row[b].slot, b)
      PROVE  disk'[s] = disk[s]
  <2>1. CASE row[b].slot = s
    <3>1. Present(b)
      BY <1>7, <2>1 DEF TrashInv, Safe
    <3> QED
      BY <2>1, <3>1 DEF RowsAt
  <2>2. CASE row[b].slot # s
    BY <1>7, <2>2 DEF Moved
  <2> QED
    BY <2>1, <2>2
<1>8. ASSUME NEW b \in Assets, Used(b), Moved(b, row[b].slot)
      PROVE  disk'[s] = disk[s]
  <2>1. CASE row[b].slot = s
    <3>1. ~Present(b)
      BY <2>1 DEF RowsAt
    <3>2. row[b].state = "gone"
      BY <1>8, <3>1, RowTyped DEF Used, Present, Rows
    <3>3. Empty(b)
      BY <2>1, <3>2 DEF FileInv, FileOK
    <3> QED
      BY <1>8, <3>3 DEF Moved
  <2>2. CASE row[b].slot # s
    BY <1>8, <2>2 DEF Moved
  <2> QED
    BY <2>1, <2>2
<1>9. ASSUME NEW b \in Assets, Emptied({b})
      PROVE  disk'[s] = disk[s]
  BY <1>9 DEF Emptied
<1>10. ASSUME NEW source, Emptied(FilesIn(source)), staged \subseteq staged',
              \A l \in FilesIn(source) :
                 ~Empty(l) => \E e \in staged' : e.from = l /\ e.bytes = disk[l]
       PROVE  disk'[s] = disk[s] \/ Held(s, bytes)'
  <2>1. CASE s \in FilesIn(source)
    <3>1. disk'[s] = Nothing
      BY <1>10, <2>1 DEF Emptied
    <3>2. CASE disk[s] = bytes
      <4>1. \E e \in staged' : e.from = s /\ e.bytes = bytes
        BY <1>1, <1>10, <2>1, <3>2 DEF Empty
      <4> QED
        BY <1>1, <3>1, <4>1 DEF Held, Empty
    <3>3. CASE Empty(s)
      BY <3>1, <3>3 DEF Empty
    <3> QED
      BY <3>2, <3>3 DEF Held
  <2>2. CASE s \notin FilesIn(source)
    BY <1>10, <2>2 DEF Emptied
  <2> QED
    BY <2>1, <2>2
<1> QED
  BY <1>3, <1>4, <1>5, <1>6, <1>7, <1>8, <1>9, <1>10 DEF DiskChange

\* A measured file: the rows of its slot stay young, and while there is none it is kept.
LEMMA InsertStays ==
    ASSUME ~Faults, Before, Next, NEW p \in Threads, NEW s \in Slots,
           op[p].pc = "insert", op[p].on = s, op'[p] = op[p]
    PROVE  /\ \A a \in Assets : Present(a)' /\ row'[a].slot = s => row'[a].keep # "over"
           /\ ~Deleted(s)' /\ RowsAt(s)' = {} => Held(s, op[p].holds)'
<1> USE Places DEF Before, MediaInv
<1>1. /\ \A a \in RowsAt(s) : row[a].keep # "over"
      /\ ~Deleted(s) /\ RowsAt(s) = {} => Held(s, op[p].holds)
  BY DEF MakeInv, MakeOK, OnSlot
<1>2. ASSUME NEW a \in Assets, Present(a)', row'[a].slot = s, row'[a].keep = "over"
      PROVE  FALSE
  <2>1. CASE Present(a)
    <3>1. row[a].slot = s /\ row[a].keep # "over"
      BY <1>1, <1>2, <2>1, RowsGoOn DEF RowsAt, Present, Used
    <3> QED
      BY <1>2, <3>1, KeepOver
  <2>2. CASE ~Present(a)
    <3>1. PICK r \in Threads :
             row'[a] = [state |-> "active", slot |-> op[r].on, sum |-> op[r].holds, keep |-> "none"]
      BY <1>2, <2>2, PresentGained
    <3>2. row'[a].keep = "none"
      BY <3>1
    <3> QED
      BY <1>2, <3>2
  <2> QED
    BY <2>1, <2>2
<1>3. ASSUME ~Deleted(s)', RowsAt(s)' = {}
      PROVE  Held(s, op[p].holds)'
  <2>1. ~Deleted(s)
    BY <1>3, DeletedStays
  <2>2. ASSUME NEW a \in RowsAt(s)
        PROVE  FALSE
    <3>1. Present(a) /\ row[a].slot = s /\ row'[a].slot = s
      BY <2>2, RowsGoOn DEF RowsAt, Present, Used
    <3>2. ~Present(a)'
      BY <1>3, <2>2, <3>1 DEF RowsAt
    <3>3. Deleted(row[a].slot)'
      BY <1>1, <2>2, <3>1, <3>2, PresentLost DEF RowsAt
    <3> QED
      BY <1>3, <3>1, <3>3 DEF Deleted
  <2>3. PICK bytes : bytes = op[p].holds
    OBVIOUS
  <2>4. Held(s, bytes)'
    BY <1>1, <2>1, <2>2, <2>3, HeldStays
  <2> QED
    BY <2>3, <2>4 DEF Held
<1> QED
  BY <1>2, <1>3

LEMMA MakeKept ==
    ASSUME ~Faults, Before, Next
    PROVE  MakeInv'
<1> SUFFICES ASSUME NEW p \in Threads, NEW s \in Slots, op'[p].pc \in OnSlot, op'[p].on = s
             PROVE  /\ s \in UploadSlots => op'[p].pc # "place" /\ incoming'[s] = Nothing
                    /\ s \notin UploadSlots =>
                          RowsAt(s)' = {} /\ \A q \in Threads \ {p} : ~Producing(q, s)'
                    /\ op'[p].pc = "insert" =>
                          \A a \in Assets : Present(a)' /\ row'[a].slot = s => row'[a].keep # "over"
                    /\ op'[p].pc = "insert" /\ ~Deleted(s)' /\ RowsAt(s)' = {} =>
                          Held(s, op[p].holds)'
  BY DEF MakeInv, MakeOK, RowsAt
<1> USE Places DEF Before, MediaInv
<1>1. incoming[s] = Nothing /\ s \in UploadSlots => incoming'[s] = Nothing
  BY IncomingSteps DEF OwnUpload, TypeOK
<1>2. CASE op[p].pc \in OnSlot /\ op[p].on = s
  <2>1. s \notin UploadSlots => RowsAt(s)' = {} /\ \A q \in Threads \ {p} : ~Producing(q, s)'
    BY <1>2, MakeAlone
  <2>2. s \in UploadSlots => op[p].pc # "place" /\ incoming[s] = Nothing
    BY <1>2 DEF MakeInv, MakeOK
  <2>3. CASE op'[p] = op[p]
    BY <1>1, <1>2, <2>1, <2>2, <2>3, InsertStays
  <2>4. CASE Waits(p) /\ op[p].pc = "place"
    BY <1>1, <2>1, <2>2, <2>4, WaitsKeeps
  <2>5. CASE op'[p].pc = "register"
    BY <1>1, <2>1, <2>2, <2>5
  <2>6. CASE MeasureFile(p) /\ op'[p].pc = "insert" /\ op'[p].holds = disk[s]
    <3>1. UNCHANGED <<row, disk, staged>> /\ RowsAt(s) = {} /\ ~Empty(s)
      <4>1. op[p].pc = "register"
        BY <2>6 DEF MeasureFile, At
      <4>2. ~End(p)
        BY <2>6, EndSets DEF TypeOK
      <4> QED
        BY <1>2, <2>6, <4>2 DEF MeasureFile
    <3>2. disk[s] \in Contents
      BY <3>1 DEF TypeOK, Empty
    <3>3. \A a \in Assets : ~(Present(a)' /\ row'[a].slot = s)
      BY <3>1 DEF RowsAt, Present
    <3>4. Held(s, op[p].holds)'
      BY <2>6, <3>1, <3>2 DEF Held
    <3> QED
      BY <1>1, <2>1, <2>2, <2>6, <3>3, <3>4
  <2>7. OpChange(p)
    BY OpChanges
  <2>8. Waits(p) => (op'[p] = op[p] \/ op[p].pc = "place")
    BY WaitsKeeps
  <2>9. \A l \in Slots : ~BeginConversion(p, l)
    BY <1>2 DEF BeginConversion, At, OnSlot
  <2> QED
    BY <1>2, <2>3, <2>4, <2>5, <2>6, <2>7, <2>8, <2>9 DEF OpChange, OnSlot
<1>3. CASE ~(op[p].pc \in OnSlot /\ op[p].on = s)
  <2>1. ASSUME s \notin UploadSlots, BeginConversion(p, s), RowsAt(s) = {},
               op'[p].pc \in {"place", "register"}
        PROVE  RowsAt(s)' = {} /\ \A q \in Threads \ {p} : ~Producing(q, s)'
    <3>1. UNCHANGED row /\ \A q \in Threads : ~Producing(q, s)
      BY <2>1 DEF BeginConversion
    <3>2. RowsAt(s)' = {}
      BY <2>1, <3>1 DEF RowsAt, Present
    <3>3. ASSUME NEW q \in Threads \ {p}
          PROVE  op'[q] = op[q]
      BY <2>1, <3>3, OneActs DEF BeginConversion, StartRestore, TypeOK
    <3> QED
      BY <3>1, <3>2, <3>3 DEF Producing
  <2>2. ASSUME s \in UploadSlots, OwnUpload(p, s)
        PROVE  incoming'[s] = Nothing
    BY <2>2 DEF OwnUpload, TypeOK
  <2>3. OpChange(p)
    BY OpChanges
  <2>4. ~Waits(p)
    BY <1>3, WaitsKeeps
  <2> QED
    BY <1>3, <2>1, <2>2, <2>3, <2>4 DEF OpChange, OnSlot
<1> QED
  BY <1>2, <1>3

LEMMA WithinStays ==
    ASSUME TypeOK, PurgeHolds, Next, NEW batch, NEW l, Within(batch, l)
    PROVE  Within(batch, l)'
  BY RowsGoOn DEF Within, OwnerTask, Used

LEMMA StageKept ==
    ASSUME ~Faults, Before, Next
    PROVE  StageInv'
<1> SUFFICES ASSUME NEW p \in Threads
             PROVE  /\ op'[p].pc # "undo"
                    /\ op'[p].pc = "stage" =>
                         \A x \in op'[p].todo : \A l \in FilesIn(x) : Within(op[p].batch, l)'
                    /\ op'[p].pc = "discard" => \A t \in op'[p].batch : task'[t] = "deleted"
  BY DEF StageInv, FilesIn
<1> USE Places DEF Before, MediaInv
<1>1. OpChange(p)
  BY OpChanges
<1>2. PICK batch : batch = op'[p].batch
  OBVIOUS
<1>3. CASE op'[p].pc = op[p].pc /\ op[p].batch = batch /\ op'[p].todo \subseteq op[p].todo
  <2>1. op[p].pc # "undo"
    BY DEF StageInv
  <2>2. ASSUME op'[p].pc = "stage", NEW x \in op'[p].todo, NEW l \in FilesIn(x)
        PROVE  Within(op[p].batch, l)'
    <3>1. Within(batch, l)'
      BY <1>3, <2>2, WithinStays DEF StageInv
    <3> QED
      BY <1>2, <3>1 DEF Within
  <2>3. ASSUME op'[p].pc = "discard", NEW t \in op'[p].batch
        PROVE  task'[t] = "deleted"
    <3>1. task[t] = "deleted" /\ t \in Tasks
      BY <1>2, <1>3, <2>3 DEF StageInv, TypeOK, Operations
    <3> QED
      BY <3>1, DeletedTask
  <2> QED
    BY <1>3, <2>1, <2>2, <2>3
<1>4. CASE /\ UNCHANGED <<task, row>> /\ batch \in SUBSET Tasks
           /\ op'[p].pc = "stage" /\ op'[p].todo = DirectoriesOf(batch)
  <2>1. ASSUME NEW x \in DirectoriesOf(batch), NEW l \in FilesIn(x)
        PROVE  Within(batch, l)
    <3>1. CASE x.kind = "cache"
      BY <2>1, <3>1, Places DEF DirectoriesOf, FilesIn, Within
    <3>2. CASE x.kind = "data"
      <4>1. l \in batch
        BY <2>1, <3>2 DEF DirectoriesOf, FilesIn
      <4>2. batch \subseteq Tasks
        BY <1>4
      <4> QED
        BY <4>1, <4>2, PlacesAssumption DEF Within, PlacesAssumption
    <3>3. CASE x.kind = "bin"
      BY <2>1, <3>3, Places DEF DirectoriesOf, FilesIn, Within, Used
    <3> QED
      BY <2>1, <3>1, <3>2, <3>3 DEF DirectoriesOf
  <2>2. ASSUME NEW x \in op'[p].todo, NEW l \in FilesIn(x)
        PROVE  Within(op[p].batch, l)'
    BY <1>2, <1>4, <2>1, <2>2 DEF Within, OwnerTask, Used
  <2> QED
    BY <1>4, <2>2
<1>5. CASE CommitDeletion(p) /\ op'[p].pc = "discard" /\ op[p].batch = batch
  <2>1. batch \in SUBSET Tasks
    BY <1>5 DEF TypeOK, Operations
  <2> QED
    BY <1>2, <1>5, <2>1 DEF CommitDeletion
<1> QED
  BY <1>1, <1>2, <1>3, <1>4, <1>5, WaitsKeeps DEF OpChange

\* A deletion ends only with what it has moved aside discarded, or left to nobody.
LEMMA LeavesStage ==
    ASSUME ~Faults, Before, Next, NEW p \in Threads,
           op[p].pc \in {"stage", "discard"}, op'[p].pc \notin {"stage", "discard"}
    PROVE  DiscardStaging(p) \/ Crash(p)
<1> USE Places DEF Before, MediaInv
<1>1. ~Waits(p)
  BY WaitsKeeps
<1>2. ~Request(p)
  BY DEF Request, BeginConversion, OwnUpload, BeginTrash, BeginRestore, ReserveDeletion, At
<1>3. ~MediaStep(p)
  BY DEF MediaStep, PlaceConversion, MeasureFile, InsertRow, MoveToTrash, CommitTrash, MoveBack,
         CommitRestore, At
<1>4. CASE DeletionStep(p)
  <2>1. ~DeletionFails(p) /\ ~UndoSource(p) /\ ~UndoEnds(p)
    BY DEF DeletionFails, UndoSource, UndoEnds, At
  <2>2. ~CommitDeletion(p)
    BY StepSets DEF CommitDeletion, TypeOK, PCs
  <2>3. ~StageSource(p)
    <3> SUFFICES ASSUME StageSource(p) PROVE FALSE
      OBVIOUS
    <3>1. PICK source : op' = [r \in Everyone |->
                            IF r = p THEN [op[p] EXCEPT !.todo = op[p].todo \ {source}]
                            ELSE IF At(r, "place") /\ op[r].on \in FilesIn(source)
                                 THEN [op[r] EXCEPT !.holds = Nothing]
                                 ELSE op[r]]
      BY StageEffect
    <3>2. op'[p] = [op[p] EXCEPT !.todo = op[p].todo \ {source}] /\ op[p] \in Operations
      BY <3>1 DEF TypeOK
    <3> QED
      BY <3>2 DEF Operations
  <2> QED
    BY <1>4, <2>1, <2>2, <2>3 DEF DeletionStep
<1> QED
  BY <1>1, <1>2, <1>3, <1>4, OpSteps

LEMMA StagedKept ==
    ASSUME ~Faults, Before, Next
    PROVE  StagedInv'
<1> SUFFICES ASSUME NEW e \in staged', e.by # Nothing
             PROVE  op'[e.by].pc \in {"stage", "discard"} /\ Within(op[e.by].batch, e.from)'
  BY DEF StagedInv
<1> USE Places DEF Before, MediaInv
<1>1. CASE e \in staged
  <2>1. PICK p \in Threads : p = e.by
    BY <1>1 DEF TypeOK
  <2>2. op[p].pc \in {"stage", "discard"} /\ Within(op[p].batch, e.from)
    BY <1>1, <2>1 DEF StagedInv
  <2>3. op'[p].pc \in {"stage", "discard"}
    <3>1. ASSUME DiscardStaging(p)
          PROVE  FALSE
      BY <1>1, <2>1, <3>1 DEF DiscardStaging, StagedBy
    <3>2. ASSUME Crash(p)
          PROVE  FALSE
      <4>1. \A f \in StagedBy(p) : [f EXCEPT !.by = Nothing].by = Nothing
        BY DEF StagedBy, TypeOK
      <4>2. e \notin Abandon(StagedBy(p))
        BY <1>1, <2>1, <4>1 DEF Abandon, StagedBy
      <4> QED
        BY <3>2, <4>2 DEF Crash
    <3> QED
      BY <2>2, <3>1, <3>2, LeavesStage
  <2>4. op'[p].batch = op[p].batch
    <3>1. OpChange(p)
      BY OpChanges
    <3> QED
      BY <2>2, <2>3, <3>1, WaitsKeeps DEF OpChange
  <2>5. PICK batch, l : batch = op[p].batch /\ l = e.from
    OBVIOUS
  <2>6. Within(batch, l)'
    BY <2>2, <2>5, WithinStays
  <2> QED
    BY <2>1, <2>3, <2>4, <2>5, <2>6 DEF Within
<1>2. CASE e \notin staged
  <2>1. ASSUME NEW p \in Threads, DiscardStaging(p)
        PROVE  FALSE
    BY <1>2, <2>1 DEF DiscardStaging
  <2>2. ASSUME NEW p \in Everyone, Crash(p)
        PROVE  FALSE
    <3>1. \A f \in StagedBy(p) : [f EXCEPT !.by = Nothing].by = Nothing
      BY DEF StagedBy, TypeOK
    <3> QED
      BY <1>2, <2>2, <3>1 DEF Crash, Abandon
  <2>3. PICK p \in Threads : StageSource(p)
    BY <1>2, <2>1, <2>2, StagedSteps, MediaAssumption DEF MediaAssumption, Everyone
  <2>4. PICK source \in op[p].todo :
           /\ staged' = staged \cup {[from |-> l, bytes |-> disk[l], by |-> p] :
                                        l \in {k \in FilesIn(source) : ~Empty(k)}}
           /\ op' = [q \in Everyone |->
                       IF q = p THEN [op[p] EXCEPT !.todo = op[p].todo \ {source}]
                       ELSE IF At(q, "place") /\ op[q].on \in FilesIn(source)
                            THEN [op[q] EXCEPT !.holds = Nothing]
                            ELSE op[q]]
    BY <2>3, StageEffect
  <2>5. PICK l \in FilesIn(source) : e = [from |-> l, bytes |-> disk[l], by |-> p]
    BY <1>2, <2>4
  <2>6. op[p].pc = "stage" /\ UNCHANGED row
    BY <2>3, StageEffect
  <2>7. op'[p] = [op[p] EXCEPT !.todo = op[p].todo \ {source}] /\ op[p] \in Operations
    BY <2>4 DEF TypeOK
  <2>8. op'[p].pc = "stage" /\ op'[p].batch = op[p].batch
    BY <2>6, <2>7 DEF Operations
  <2>9. Within(op[p].batch, l)
    BY <2>6 DEF StageInv
  <2>10. e.by = p /\ e.from = l
    BY <2>5
  <2> QED
    BY <2>6, <2>8, <2>9, <2>10 DEF Within, OwnerTask, Used
<1> QED
  BY <1>1, <1>2

-----------------------------------------------------------------------------
LEMMA MediaInit == Init => MediaInv
<1> SUFFICES ASSUME Init PROVE MediaInv
  OBVIOUS
<1> USE Places
<1>1. \A a \in Assets : row[a] = NewRow /\ disk[a] = Nothing
  BY PlacesAssumption DEF Init, PlacesAssumption
<1>2. FileInv
  BY <1>1 DEF FileInv, FileOK, Used, Present, Empty, NewRow
<1>3. UniqueInv /\ IncomingInv
  BY <1>1 DEF UniqueInv, IncomingInv, Present, NewRow
<1>4. \A p \in Everyone : op[p].pc = "idle"
  BY DEF Init, Idle
<1>5. TrashInv /\ RestoreInv /\ UnlinkInv /\ StageInv
  BY <1>4 DEF TrashInv, RestoreInv, RestoreOK, UnlinkInv, StageInv
<1>6. MakeInv
  BY <1>4 DEF MakeInv, MakeOK, OnSlot
<1>7. DueInv /\ StagedInv
  BY DEF Init, DueInv, StagedInv
<1> QED
  BY <1>2, <1>3, <1>5, <1>6, <1>7 DEF MediaInv

LEMMA MediaStays ==
    ASSUME TypeOK, PurgeHolds, MediaInv, UNCHANGED vars
    PROVE  MediaInv'
<1> USE DEF vars
<1>1. FileInv' /\ UniqueInv' /\ IncomingInv'
  BY DEF MediaInv, FileInv, FileOK, UniqueInv, IncomingInv, Used, Present, Empty, Deleted, StagedFrom, Purged
<1>2. DueInv' /\ TrashInv' /\ RestoreInv' /\ UnlinkInv'
  BY DEF MediaInv, DueInv, TrashInv, RestoreInv, RestoreOK, UnlinkInv, Safe, Present, Empty, Deleted,
         StagedFrom
<1>3. MakeInv'
  BY DEF MediaInv, MakeInv, MakeOK, RowsAt, Present, Deleted, Empty, Held, Producing
<1>4. StageInv' /\ StagedInv'
  BY DEF MediaInv, StageInv, StagedInv, Within, Used, OwnerTask
<1> QED
  BY <1>1, <1>2, <1>3, <1>4 DEF MediaInv

LEMMA OverlapFixed == [Next]_vars => overlap' = overlap
  BY DEF vars, Next, Everyone, Finish, Retry, Request, BeginConversion, BeginTrash, BeginRestore, OwnUpload,
         ReserveDeletion, MediaStep, MeasureFile, InsertRow, CommitTrash, CommitRestore, PlaceConversion,
         MoveToTrash, MoveBack,
         DeletionStep, DeletionFails, CommitDeletion, UndoSource, UndoEnds, StageSource, DiscardStaging,
         MaintenanceStep, BeginPass, SelectDue, CommitPurge, Reconcile, EndPass, TrashSample, ReservePurge,
         Unlink, RetentionEnds, Crash

\* Where no handler outlives its lease and no directory move fails.
LEMMA MediaHolds == ASSUME ~Faults PROVE Spec => [](~overlap => MediaInv)
<1> DEFINE Kept == ~overlap => MediaInv
<1>1. Init => Kept
  BY MediaInit
<1>2. TypeOK /\ PurgeHolds /\ Kept /\ [Next]_vars => Kept'
  <2> SUFFICES ASSUME TypeOK, PurgeHolds, Kept, [Next]_vars, ~overlap' PROVE MediaInv'
    OBVIOUS
  <2>1. ~overlap /\ MediaInv
    BY OverlapFixed
  <2>2. CASE Next
    <3>1. Before
      BY <2>1 DEF Before
    <3> QED
      BY <2>2, <3>1, FilesKept, UniqueKept, IncomingKept, DueKept, TrashKept, RestoreKept, UnlinkKept,
         MakeKept, StageKept, StagedKept DEF MediaInv
  <2>3. CASE UNCHANGED vars
    BY <2>1, <2>3, MediaStays
  <2> QED
    BY <2>2, <2>3
<1>3. Init => PurgeHolds
  BY MediaAssumption DEF Init, Idle, PurgeHolds, Everyone
<1> QED
  BY <1>1, <1>2, <1>3, TypeCorrect, PromiseKept, PTL DEF Spec

\* Whatever is trashed, restored, purged, deleted or retried at the same time and whoever dies in
\* between, the bytes a row was registered with are at its slot, in its trash directory or aside
\* with a deletion, or the purge of a row that was due has removed them: as long as no handler
\* outlives its lease and no directory move fails.
THEOREM NothingIsLostCorrect == ASSUME ~Faults PROVE Spec => [](~overlap => NothingIsLost)
<1>1. (~overlap => MediaInv) => (~overlap => NothingIsLost)
  <2> SUFFICES ASSUME MediaInv, NEW a \in Assets, Present(a)
               PROVE  Copies(a) # {} \/ StagedFrom(a) \/ Purged(a)
    BY DEF NothingIsLost
  <2>1. FileOK(a)
    BY DEF MediaInv, FileInv
  <2>2. disk[a] = row[a].sum \/ disk[row[a].slot] = row[a].sum => Copies(a) # {}
    BY DEF Copies
  <2> QED
    BY <2>1, <2>2 DEF FileOK, Empty
<1> QED
  BY <1>1, MediaHolds, PTL

\* Under the same conditions a file is never in two places, where trash, restore and purge would
\* all refuse it.
THEOREM OneCopyCorrect == ASSUME ~Faults PROVE Spec => []OneCopy
<1>1. (~overlap => MediaInv) => OneCopy
  BY DEF OneCopy, MediaInv, FileInv, FileOK
<1> QED
  BY <1>1, MediaHolds, PTL
=============================================================================
