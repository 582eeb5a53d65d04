-------------------------- MODULE StageQueueProofs --------------------------
(***************************************************************************)
(* Theorems about StageQueue, for every set of tasks, items, workers and   *)
(* leases: types, the leases on the resources, the invariants of the rows, *)
(* and that the queue implements FencedLease.                              *)
(***************************************************************************)
EXTENDS StageQueue, TLAPS

\* The aggregate of an item is one of the statuses of items, whatever its runs are.
LEMMA ItemAggregateType ==
    ASSUME NEW i, NEW st, NEW warn
    PROVE  ItemAggregate(i, st, warn) \in ContainerStatuses
  BY DEF ItemAggregate, AggregateItemStatus, ContainerStatuses

LEMMA TaskAggregateType ==
    ASSUME NEW statuses
    PROVE  AggregateTaskStatus(statuses) \in ContainerStatuses
  BY DEF AggregateTaskStatus, ContainerStatuses

\* _recalculate_item_and_task keeps items and tasks typed.
LEMMA RecalculateType ==
    ASSUME TypeOK, NEW affected, Recalculate(affected)
    PROVE  /\ itemStatus' \in [Items -> ContainerStatuses \cup {"absent"}]
           /\ taskStatus' \in [Tasks -> ContainerStatuses \cup {"absent"}]
  <1>1. itemStatus' \in [Items -> ContainerStatuses \cup {"absent"}]
    BY ItemAggregateType DEF Recalculate, TypeOK
  <1>2. taskStatus' \in [Tasks -> ContainerStatuses \cup {"absent"}]
    BY TaskAggregateType DEF Recalculate, TypeOK
  <1>3. QED BY <1>1, <1>2

LEMMA ClearLeaseType ==
    ASSUME TypeOK, NEW rs, ClearLease(rs)
    PROVE  /\ owner' \in [Runs -> Workers \cup {NoWorker}]
           /\ left' \in [Runs -> 0..StageLease]
  BY LeaseAssumption DEF ClearLease, TypeOK

LEMMA ReleaseResourcesType ==
    ASSUME TypeOK, NEW tokens, ReleaseResources(tokens)
    PROVE  /\ resOwner' \in [Resources -> Tokens \cup {NoToken}]
           /\ resLeft' \in [Resources -> 0..ResourceLease]
  BY LeaseAssumption DEF ReleaseResources, TypeOK

LEMMA DropClaimType ==
    ASSUME TypeOK, NEW w \in Workers, DropClaim(w)
    PROVE  /\ pc' \in [Workers -> Handling \cup {"unborn", "idle", "dead"}]
           /\ claim' \in [Workers -> Claims \cup {NoClaim}]
           /\ uses' \in [Workers -> SUBSET Resources]
           /\ \A v \in Workers : pc'[v] \in Handling => claim'[v] \in Claims
  BY DEF DropClaim, TypeOK, Handling

\* A worker in a handler has a claim on a run.
LEMMA HandlerHasRun ==
    ASSUME TypeOK, NEW w \in Workers, pc[w] \in Handling
    PROVE  HeldRun(w) \in Runs /\ TokenOf(w) \in Tokens
  BY DEF TypeOK, HeldRun, TokenOf, Claims, Tokens

\* What the end of a run writes keeps its type.
LEMMA EndRunType ==
    ASSUME TypeOK, NEW w \in Workers, pc[w] \in Handling,
           NEW s \in RunStatuses, NEW warn \in BOOLEAN, EndRun(w, s, warn)
    PROVE  /\ taskStatus' \in [Tasks -> ContainerStatuses \cup {"absent"}]
           /\ itemStatus' \in [Items -> ContainerStatuses \cup {"absent"}]
           /\ status' \in [Runs -> RunStatuses]
           /\ owner' \in [Runs -> Workers \cup {NoWorker}]
           /\ left' \in [Runs -> 0..StageLease]
           /\ gen' \in [Runs -> Nat]
           /\ warning' \in [Runs -> BOOLEAN]
           /\ external' \in [Runs -> {"none", "submitted", "ended"}]
           /\ resOwner' \in [Resources -> Tokens \cup {NoToken}]
           /\ resLeft' \in [Resources -> 0..ResourceLease]
  <1>1. /\ Recalculate({ItemOf(HeldRun(w))})
        /\ ClearLease({HeldRun(w)})
        /\ ReleaseResources({TokenOf(w)})
    BY DEF EndRun
  <1>2. status' \in [Runs -> RunStatuses] /\ warning' \in [Runs -> BOOLEAN]
    BY DEF EndRun, TypeOK
  <1>3. external' \in [Runs -> {"none", "submitted", "ended"}]
    BY DEF EndRun, TypeOK
  <1>4. gen' \in [Runs -> Nat]
    BY DEF EndRun, TypeOK
  <1>5. QED
    BY <1>1, <1>2, <1>3, <1>4, RecalculateType, ClearLeaseType, ReleaseResourcesType

LEMMA InitType == Init => TypeOK
  BY LeaseAssumption DEF Init, TypeOK, RunStatuses, Handling

LEMMA CreateTaskType ==
    ASSUME TypeOK, NEW t \in Tasks, CreateTask(t)
    PROVE  TypeOK'
  BY DEF TypeOK, CreateTask, RunStatuses, StageStatuses, ContainerStatuses, rowVars, resourceVars,
         workerVars

LEMMA UploadType ==
    ASSUME TypeOK, NEW i \in Items,
           CompleteUpload(i) \/ BindFailedUpload(i) \/ RecordUploadFailure(i)
    PROVE  TypeOK'
  <1>1. CASE CompleteUpload(i)
    BY <1>1 DEF TypeOK, CompleteUpload, containerVars, rowVars, resourceVars, workerVars
  <1>2. CASE BindFailedUpload(i)
    BY <1>2 DEF TypeOK, BindFailedUpload, containerVars, rowVars, resourceVars, workerVars
  <1>3. CASE RecordUploadFailure(i)
    <2>1. status' \in [Runs -> RunStatuses]
      BY <1>3 DEF TypeOK, RecordUploadFailure, RunStatuses, StageStatuses
    <2>2. /\ itemStatus' \in [Items -> ContainerStatuses \cup {"absent"}]
          /\ taskStatus' \in [Tasks -> ContainerStatuses \cup {"absent"}]
      BY <1>3 DEF TypeOK, RecordUploadFailure, ContainerStatuses
    <2>3. QED
      BY <1>3, <2>1, <2>2 DEF TypeOK, RecordUploadFailure, resourceVars, workerVars
  <1>4. QED BY <1>1, <1>2, <1>3

LEMMA CancelType ==
    ASSUME TypeOK, NEW t \in Tasks, CancelReads(t) \/ CancelConflicts(t) \/ CancelWrites(t)
    PROVE  TypeOK'
  <1>1. CASE CancelReads(t)
    BY <1>1 DEF TypeOK, CancelReads, containerVars, uploadVars, rowVars, resourceVars, workerVars
  <1>2. CASE CancelConflicts(t)
    BY <1>2 DEF TypeOK, CancelConflicts, containerVars, uploadVars, rowVars, resourceVars, workerVars
  <1>3. CASE CancelWrites(t)
    <2> DEFINE target  == IF cancelRead[t].running THEN "cancel_requested" ELSE "canceled"
               waiting == {r \in RunsOf(t) : status[r] = "waiting_external"}
    <2>1. /\ taskStatus' \in [Tasks -> ContainerStatuses \cup {"absent"}]
          /\ itemStatus' \in [Items -> ContainerStatuses \cup {"absent"}]
      BY <1>3 DEF TypeOK, CancelWrites, ContainerStatuses
    <2>2. status' \in [Runs -> RunStatuses]
      BY <1>3 DEF TypeOK, CancelWrites, RunStatuses, StageStatuses
    <2>3. ClearLease(waiting)
      BY <1>3 DEF CancelWrites
    <2>4. owner' \in [Runs -> Workers \cup {NoWorker}] /\ left' \in [Runs -> 0..StageLease]
      BY <2>3, ClearLeaseType
    <2>5. QED
      BY <1>3, <2>1, <2>2, <2>4 DEF TypeOK, CancelWrites, uploadVars, resourceVars, workerVars
  <1>4. QED BY <1>1, <1>2, <1>3

LEMMA RetryStageType ==
    ASSUME TypeOK, NEW r \in Runs, RetryStage(r)
    PROVE  TypeOK'
  BY DEF TypeOK, RetryStage, RunStatuses, StageStatuses, ContainerStatuses, uploadVars,
         resourceVars, workerVars

LEMMA WakeTranscribeType ==
    ASSUME TypeOK, NEW r \in Runs, WakeTranscribe(r)
    PROVE  TypeOK'
  BY DEF TypeOK, WakeTranscribe, RunStatuses, StageStatuses, containerVars, uploadVars,
         resourceVars, workerVars

LEMMA StartWorkerType ==
    ASSUME TypeOK, NEW w \in Workers, StartWorker(w)
    PROVE  TypeOK'
  <1> DEFINE expired == {r \in Runs : status[r] \in Leased /\ owner[r] # NoWorker /\ left[r] = 0}
  <1>1. /\ ClearLease(expired)
        /\ ReleaseResources({RowToken(r) : r \in expired})
        /\ Recalculate({ItemOf(r) : r \in expired})
    BY DEF StartWorker
  <1>2. status' \in [Runs -> RunStatuses] /\ gen' \in [Runs -> Nat]
    BY DEF StartWorker, TypeOK, RunStatuses, StageStatuses
  <1>3. /\ pc' \in [Workers -> Handling \cup {"unborn", "idle", "dead"}]
        /\ \A v \in Workers : pc'[v] \in Handling => claim[v] \in Claims
    BY DEF StartWorker, TypeOK, Handling
  <1>4. UNCHANGED <<warning, external, named, upload, claim, uses>>
    BY DEF StartWorker, uploadVars
  <1>5. QED
    BY <1>1, <1>2, <1>3, <1>4, RecalculateType, ClearLeaseType, ReleaseResourcesType DEF TypeOK

LEMMA ClaimNextType ==
    ASSUME TypeOK, NEW w \in Workers, ClaimNext(w)
    PROVE  TypeOK'
  <1>1. PICK r \in Claimable :
          /\ status' = [status EXCEPT ![r] = "running"]
          /\ owner' = [owner EXCEPT ![r] = w]
          /\ left' = [left EXCEPT ![r] = StageLease]
          /\ claim' = [claim EXCEPT ![w] = [run |-> r, gen |-> gen[r]]]
          /\ UNCHANGED <<gen, warning, external>>
          /\ Recalculate({ItemOf(r)})
    BY DEF ClaimNext
  <1>2. r \in Runs
    BY DEF Claimable
  <1>3. /\ status' \in [Runs -> RunStatuses]
        /\ owner' \in [Runs -> Workers \cup {NoWorker}]
    BY <1>1, <1>2 DEF TypeOK, RunStatuses, StageStatuses
  <1>4. left' \in [Runs -> 0..StageLease]
    BY <1>1, <1>2, LeaseAssumption DEF TypeOK
  <1>5. [run |-> r, gen |-> gen[r]] \in Claims
    BY <1>2 DEF TypeOK, Claims
  <1>6. claim' \in [Workers -> Claims \cup {NoClaim}]
    BY <1>1, <1>5 DEF TypeOK
  <1>7. /\ pc' \in [Workers -> Handling \cup {"unborn", "idle", "dead"}]
        /\ \A v \in Workers : pc'[v] \in Handling => claim'[v] \in Claims
    BY <1>1, <1>5 DEF ClaimNext, TypeOK, Handling
  <1>8. UNCHANGED <<named, upload, resOwner, resLeft, uses>>
    BY DEF ClaimNext, uploadVars, resourceVars
  <1>9. QED
    BY <1>1, <1>3, <1>4, <1>6, <1>7, <1>8, RecalculateType DEF TypeOK

LEMMA CancelIfRequestedType ==
    ASSUME TypeOK, NEW w \in Workers, CancelIfRequested(w)
    PROVE  TypeOK'
  <1>1. pc[w] \in Handling /\ UNCHANGED <<named, upload>>
    BY DEF CancelIfRequested, Handling, uploadVars
  <1>2. CASE CancelSeen(w)
    <2>1. EndRun(w, "canceled", warning[HeldRun(w)]) /\ DropClaim(w)
      BY <1>2 DEF CancelIfRequested
    <2>2. "canceled" \in RunStatuses /\ warning[HeldRun(w)] \in BOOLEAN
      BY <1>1, HandlerHasRun DEF RunStatuses, StageStatuses, TypeOK
    <2>3. QED
      BY <1>1, <2>1, <2>2, EndRunType, DropClaimType DEF TypeOK
  <1>3. CASE ~CancelSeen(w)
    BY <1>1, <1>3 DEF CancelIfRequested, TypeOK, Handling, containerVars, rowVars, resourceVars
  <1>4. QED BY <1>2, <1>3

LEMMA HeartbeatType ==
    ASSUME TypeOK, NEW w \in Workers, Heartbeat(w)
    PROVE  TypeOK'
  <1>1. UNCHANGED <<taskStatus, itemStatus, named, upload, status, owner, gen, warning, external,
                    resOwner>>
    BY DEF Heartbeat, containerVars, uploadVars
  <1>2. CASE ClaimMatches(w)
    <2>1. /\ left' \in [Runs -> 0..StageLease]
          /\ resLeft' \in [Resources -> 0..ResourceLease]
      BY <1>2, LeaseAssumption DEF Heartbeat, TypeOK
    <2>2. QED
      BY <1>1, <1>2, <2>1 DEF Heartbeat, TypeOK, Handling
  <1>3. CASE ~ClaimMatches(w)
    BY <1>1, <1>3, DropClaimType DEF Heartbeat, TypeOK
  <1>4. QED BY <1>2, <1>3

LEMMA AcquireResourceType ==
    ASSUME TypeOK, NEW w \in Workers, NEW k \in Resources, AcquireResource(w, k)
    PROVE  TypeOK'
  <1>1. pc[w] \in Handling
    BY DEF AcquireResource, Handling
  <1>2. UNCHANGED <<taskStatus, itemStatus, named, upload, status, owner, left, gen, warning,
                    external, claim>>
    BY DEF AcquireResource, containerVars, uploadVars, rowVars
  <1>3. /\ resOwner' \in [Resources -> Tokens \cup {NoToken}]
        /\ resLeft' \in [Resources -> 0..ResourceLease]
    BY <1>1, HandlerHasRun, LeaseAssumption DEF AcquireResource, TypeOK, resourceVars
  <1>4. /\ pc' \in [Workers -> Handling \cup {"unborn", "idle", "dead"}]
        /\ uses' \in [Workers -> SUBSET Resources]
        /\ \A v \in Workers : pc'[v] \in Handling => claim'[v] \in Claims
    BY <1>1, <1>2 DEF AcquireResource, TypeOK, Handling
  <1>5. QED
    BY <1>2, <1>3, <1>4 DEF TypeOK

LEMMA ConcludeType ==
    ASSUME TypeOK, NEW w \in Workers, NEW from \in Handling, NEW s \in RunStatuses,
           NEW warn, warn \in BOOLEAN \/ warn = warning[HeldRun(w)], Conclude(w, from, s, warn)
    PROVE  TypeOK'
  <1>1. pc[w] \in Handling /\ DropClaim(w) /\ UNCHANGED <<named, upload>>
    BY DEF Conclude, uploadVars
  <1>2. CASE ClaimMatches(w)
    <2>1. EndRun(w, s, warn)
      BY <1>2 DEF Conclude
    <2>2. warn \in BOOLEAN
      BY <1>1, HandlerHasRun DEF TypeOK
    <2>3. QED
      BY <1>1, <2>1, <2>2, EndRunType, DropClaimType DEF TypeOK
  <1>3. CASE ~ClaimMatches(w)
    BY <1>1, <1>3, DropClaimType DEF Conclude, TypeOK, containerVars, rowVars, resourceVars
  <1>4. QED BY <1>2, <1>3

LEMMA SkippingType ==
    ASSUME TypeOK, NEW w \in Workers, NEW warn \in BOOLEAN, CompleteSkippingTranscribe(w, warn)
    PROVE  TypeOK'
  <1> DEFINE r == HeldRun(w)
             transcribe == {q \in LatestRuns(status, ItemOf(r)) :
                              StageOf(q) = "transcribe" /\ status[q] = "queued"}
  <1>1. DropClaim(w) /\ UNCHANGED <<named, upload>>
    BY DEF CompleteSkippingTranscribe, uploadVars
  <1>2. CASE ClaimMatches(w) /\ transcribe # {}
    <2>1. /\ ClearLease({r})
          /\ ReleaseResources({TokenOf(w)})
          /\ Recalculate({ItemOf(r)})
          /\ UNCHANGED <<gen, external>>
      BY <1>2 DEF CompleteSkippingTranscribe
    <2>2. status' \in [Runs -> RunStatuses] /\ warning' \in [Runs -> BOOLEAN]
      BY <1>2 DEF CompleteSkippingTranscribe, TypeOK, RunStatuses, StageStatuses
    <2>3. QED
      BY <1>1, <2>1, <2>2, DropClaimType, RecalculateType, ClearLeaseType, ReleaseResourcesType
      DEF TypeOK
  <1>3. CASE ~(ClaimMatches(w) /\ transcribe # {})
    <2>1. UNCHANGED <<containerVars, rowVars, resourceVars>>
      BY <1>3 DEF CompleteSkippingTranscribe
    <2>2. QED
      BY <1>1, <2>1, DropClaimType DEF TypeOK, containerVars, rowVars, resourceVars
  <1>4. QED BY <1>2, <1>3

LEMMA ReturnType ==
    ASSUME TypeOK, NEW w \in Workers, Return(w)
    PROVE  TypeOK'
  <1>1. /\ "handling" \in Handling /\ "requeueing" \in Handling
        /\ SuccessfulStageStatuses \subseteq RunStatuses
        /\ {"failed", "waiting_external", "queued"} \subseteq RunStatuses
    BY DEF Handling, RunStatuses, StageStatuses, SuccessfulStageStatuses
  <1>2. CASE Requeue(w)
    BY <1>1, <1>2, ConcludeType DEF Requeue
  <1>3. ASSUME NEW warn \in WarningValues,
               \/ \E s \in SuccessfulStageStatuses : Complete(w, s, warn)
               \/ Fail(w, warn) \/ DeferExternal(w, warn)
        PROVE  TypeOK'
    BY <1>1, <1>3, ConcludeType, RowsAssumption DEF Complete, Fail, DeferExternal
  <1>4. ASSUME NEW warn \in WarningValues, CompleteSkippingTranscribe(w, warn)
        PROVE  TypeOK'
    BY <1>4, SkippingType, RowsAssumption
  <1>5. QED BY <1>2, <1>3, <1>4 DEF Return

LEMMA CrashWorkerType ==
    ASSUME TypeOK, NEW w \in Workers, CrashWorker(w)
    PROVE  TypeOK'
  BY DEF TypeOK, CrashWorker, Handling, containerVars, uploadVars, rowVars, resourceVars

LEMMA TickType ==
    ASSUME TypeOK, Tick
    PROVE  TypeOK'
  <1>1. left' \in [Runs -> 0..StageLease] /\ resLeft' \in [Resources -> 0..ResourceLease]
    BY LeaseAssumption DEF TypeOK, Tick
  <1>2. QED
    BY <1>1 DEF TypeOK, Tick, containerVars, uploadVars, workerVars

LEMMA TypeStep ==
    ASSUME TypeOK, [Next]_vars
    PROVE  TypeOK'
  <1>1. CASE ApiNext
    BY <1>1, CreateTaskType, CancelType, UploadType, RetryStageType, WakeTranscribeType DEF ApiNext
  <1>2. CASE Tick
    BY <1>2, TickType
  <1>3. ASSUME NEW w \in Workers, WorkerNext(w)
        PROVE  TypeOK'
    BY <1>3, StartWorkerType, ClaimNextType, CancelIfRequestedType, HeartbeatType, ReturnType,
       CrashWorkerType, AcquireResourceType DEF WorkerNext, Checkpoint
  <1>4. CASE UNCHANGED vars
    BY <1>4 DEF TypeOK, vars, containerVars, uploadVars, rowVars, resourceVars, workerVars
  <1>5. QED BY <1>1, <1>2, <1>3, <1>4 DEF Next

\* Every row, lease and worker of the queue keeps its type, and no handler is without a claim: the
\* rows of worker_store.py and tasks.py stay within their declared statuses.
THEOREM TypeCorrect == Spec => []TypeOK
  <1>1. Init => TypeOK
    BY InitType
  <1>2. TypeOK /\ [Next]_vars => TypeOK'
    BY TypeStep
  <1>3. QED
    BY <1>1, <1>2, PTL DEF Spec
-----------------------------------------------------------------------------
(***************************************************************************)
(* The GPU.  A handler's stage lease is backed by the resource rows it     *)
(* uses: they carry its token and run out no sooner.  With that, whoever   *)
(* finds a resource row expired finds the stage lease of its user expired, *)
(* and two users of one row have the same token, so are the same worker.   *)
(***************************************************************************)
LeaseBacked(w) ==
    pc[w] \in Handling /\ OwnsLease(w) =>
        \A k \in uses[w] : resOwner[k] = TokenOf(w) /\ left[HeldRun(w)] <= resLeft[k]

ResourceInv ==
    /\ TypeOK
    /\ \A w \in Workers : uses[w] # {} => pc[w] \in Handling
    /\ \A w \in Workers : LeaseBacked(w)

\* A step that leaves the workers, the leases and the resource rows alone.
LEMMA BackedUnchanged ==
    ASSUME ResourceInv, TypeOK', UNCHANGED <<owner, left, gen, resourceVars, workerVars>>
    PROVE  ResourceInv'
  BY DEF ResourceInv, LeaseBacked, OwnsLease, TokenOf, HeldRun, resourceVars, workerVars

\* A worker that clears the leases of some runs and takes none.
LEMMA BackedWhenCleared ==
    ASSUME ResourceInv, NEW rs, ClearLease(rs), NEW w \in Workers,
           pc[w] \in Handling, claim'[w] = claim[w], uses'[w] = uses[w], OwnsLease(w)',
           \A r \in Runs \ rs : gen'[r] = gen[r]
    PROVE  /\ HeldRun(w) \in Runs \ rs
           /\ OwnsLease(w)
           /\ left'[HeldRun(w)] = left[HeldRun(w)]
  <1>1. HeldRun(w) \in Runs /\ HeldRun(w)' = HeldRun(w)
    BY HandlerHasRun DEF ResourceInv, HeldRun
  <1>2. HeldRun(w) \notin rs
    BY <1>1, NullAssumption DEF OwnsLease, ClearLease
  <1>3. QED
    BY <1>1, <1>2 DEF OwnsLease, ClearLease

LEMMA EndRunBacked ==
    ASSUME ResourceInv, TypeOK', NEW v \in Workers, pc[v] \in Handling,
           ClearLease({HeldRun(v)}), ReleaseResources({TokenOf(v)}), UNCHANGED gen, DropClaim(v)
    PROVE  ResourceInv'
  <1>1. ASSUME NEW w \in Workers, uses'[w] # {}
        PROVE  pc'[w] \in Handling
    BY <1>1 DEF ResourceInv, TypeOK, DropClaim
  <1>2. ASSUME NEW w \in Workers, pc'[w] \in Handling, OwnsLease(w)', NEW k \in uses'[w]
        PROVE  resOwner'[k] = TokenOf(w)' /\ left'[HeldRun(w)'] <= resLeft'[k]
    <2>1. w # v
      BY <1>2 DEF DropClaim, ResourceInv, TypeOK, Handling
    <2>2. pc[w] \in Handling /\ claim'[w] = claim[w] /\ uses'[w] = uses[w]
      BY <1>2, <2>1 DEF DropClaim, ResourceInv, TypeOK
    <2>3. OwnsLease(w) /\ left'[HeldRun(w)] = left[HeldRun(w)]
      BY <1>2, <2>2, BackedWhenCleared
    <2>4. resOwner[k] = TokenOf(w) /\ left[HeldRun(w)] <= resLeft[k]
      BY <1>2, <2>2, <2>3 DEF ResourceInv, LeaseBacked
    <2>5. TokenOf(w) # TokenOf(v)
      BY <2>1 DEF TokenOf
    <2>6. k \in Resources
      BY <1>2, <2>2 DEF ResourceInv, TypeOK
    <2>7. resOwner'[k] = resOwner[k] /\ resLeft'[k] = resLeft[k]
      BY <2>4, <2>5, <2>6 DEF ReleaseResources
    <2>8. TokenOf(w)' = TokenOf(w) /\ HeldRun(w)' = HeldRun(w)
      BY <2>2 DEF TokenOf, HeldRun
    <2>9. QED BY <2>3, <2>4, <2>7, <2>8
  <1>3. QED BY <1>1, <1>2 DEF ResourceInv, LeaseBacked

\* A worker that gives up its claim and writes nothing.
LEMMA DropBacked ==
    ASSUME ResourceInv, TypeOK', NEW v \in Workers, DropClaim(v),
           UNCHANGED <<owner, left, gen, resourceVars>>
    PROVE  ResourceInv'
  <1>1. ASSUME NEW w \in Workers, w # v
        PROVE  pc'[w] = pc[w] /\ claim'[w] = claim[w] /\ uses'[w] = uses[w]
    BY <1>1 DEF DropClaim, ResourceInv, TypeOK
  <1>2. pc'[v] \notin Handling /\ uses'[v] = {}
    BY DEF DropClaim, ResourceInv, TypeOK, Handling
  <1>3. QED
    BY <1>1, <1>2 DEF ResourceInv, LeaseBacked, OwnsLease, TokenOf, HeldRun, resourceVars

LEMMA CancelWritesBacked ==
    ASSUME ResourceInv, TypeOK', NEW t \in Tasks, CancelWrites(t)
    PROVE  ResourceInv'
  <1>1. PICK rs : ClearLease(rs)
    BY DEF CancelWrites
  <1>2. UNCHANGED <<gen, resOwner, resLeft, pc, claim, uses>>
    BY DEF CancelWrites, resourceVars, workerVars
  <1>3. ASSUME NEW w \in Workers, pc'[w] \in Handling, OwnsLease(w)', NEW k \in uses'[w]
        PROVE  resOwner'[k] = TokenOf(w)' /\ left'[HeldRun(w)'] <= resLeft'[k]
    <2>1. OwnsLease(w) /\ left'[HeldRun(w)] = left[HeldRun(w)]
      BY <1>1, <1>2, <1>3, BackedWhenCleared
    <2>2. QED
      BY <1>2, <1>3, <2>1 DEF ResourceInv, LeaseBacked, TokenOf, HeldRun
  <1>4. QED BY <1>2, <1>3 DEF ResourceInv, LeaseBacked

LEMMA StartWorkerBacked ==
    ASSUME ResourceInv, TypeOK', NEW v \in Workers, StartWorker(v)
    PROVE  ResourceInv'
  <1> DEFINE expired == {r \in Runs : status[r] \in Leased /\ owner[r] # NoWorker /\ left[r] = 0}
  <1>1. /\ ClearLease(expired)
        /\ ReleaseResources({RowToken(r) : r \in expired})
        /\ UNCHANGED <<claim, uses>>
    BY DEF StartWorker
  <1>2. \A r \in Runs \ expired : gen'[r] = gen[r]
    BY DEF StartWorker
  <1>3. \A w \in Workers : pc'[w] \in Handling <=> pc[w] \in Handling
    BY DEF StartWorker, ResourceInv, TypeOK, Handling
  <1>4. ASSUME NEW w \in Workers, pc'[w] \in Handling, OwnsLease(w)', NEW k \in uses'[w]
        PROVE  resOwner'[k] = TokenOf(w)' /\ left'[HeldRun(w)'] <= resLeft'[k]
    <2>1. /\ HeldRun(w) \in Runs \ expired
          /\ OwnsLease(w)
          /\ left'[HeldRun(w)] = left[HeldRun(w)]
      BY <1>1, <1>2, <1>3, <1>4, BackedWhenCleared
    <2>2. resOwner[k] = TokenOf(w) /\ left[HeldRun(w)] <= resLeft[k]
      BY <1>1, <1>3, <1>4, <2>1 DEF ResourceInv, LeaseBacked
    <2>3. k \in Resources
      BY <1>1, <1>4 DEF ResourceInv, TypeOK
    <2>4. resOwner[k] \notin {RowToken(r) : r \in expired}
      <3>1. ASSUME NEW r \in expired
            PROVE  RowToken(r) # TokenOf(w)
        <4>1. r # HeldRun(w)
          BY <2>1
        <4>2. RowToken(r).run = r /\ TokenOf(w).run = HeldRun(w)
          BY DEF RowToken, TokenOf, HeldRun
        <4>3. QED BY <4>1, <4>2
      <3>2. QED BY <2>2, <3>1
    <2>5. resOwner'[k] = resOwner[k] /\ resLeft'[k] = resLeft[k]
      BY <1>1, <2>3, <2>4 DEF ReleaseResources
    <2>6. QED BY <1>1, <2>1, <2>2, <2>5 DEF TokenOf, HeldRun
  <1>5. QED BY <1>1, <1>3, <1>4 DEF ResourceInv, LeaseBacked

LEMMA ClaimNextBacked ==
    ASSUME ResourceInv, TypeOK', NEW v \in Workers, ClaimNext(v)
    PROVE  ResourceInv'
  <1>1. PICK r \in Claimable :
          /\ owner' = [owner EXCEPT ![r] = v]
          /\ left' = [left EXCEPT ![r] = StageLease]
          /\ claim' = [claim EXCEPT ![v] = [run |-> r, gen |-> gen[r]]]
          /\ UNCHANGED gen
    BY DEF ClaimNext
  <1>2. UNCHANGED <<resOwner, resLeft, uses>>
    BY DEF ClaimNext, resourceVars
  <1>3. r \in Runs
    BY DEF Claimable
  <1>4. uses[v] = {}
    BY DEF ClaimNext, ResourceInv, Handling
  <1>5. ASSUME NEW w \in Workers, w # v
        PROVE  pc'[w] = pc[w] /\ claim'[w] = claim[w]
    BY <1>1, <1>5 DEF ClaimNext, ResourceInv, TypeOK
  <1>6. ASSUME NEW w \in Workers, pc'[w] \in Handling, OwnsLease(w)', NEW k \in uses'[w]
        PROVE  resOwner'[k] = TokenOf(w)' /\ left'[HeldRun(w)'] <= resLeft'[k]
    <2>1. w # v
      BY <1>2, <1>4, <1>6
    <2>2. pc[w] \in Handling /\ claim'[w] = claim[w]
      BY <1>5, <1>6, <2>1
    <2>3. HeldRun(w) # r
      BY <1>1, <1>3, <1>6, <2>1, <2>2 DEF OwnsLease, HeldRun, ResourceInv, TypeOK
    <2>4. OwnsLease(w) /\ left'[HeldRun(w)] = left[HeldRun(w)]
      BY <1>1, <1>6, <2>2, <2>3 DEF OwnsLease, HeldRun, ResourceInv, TypeOK
    <2>5. QED
      BY <1>2, <1>6, <2>2, <2>4 DEF ResourceInv, LeaseBacked, TokenOf, HeldRun
  <1>7. \A w \in Workers : uses'[w] # {} => pc'[w] \in Handling
    BY <1>2, <1>4, <1>5 DEF ResourceInv
  <1>8. QED BY <1>6, <1>7 DEF ResourceInv, LeaseBacked
LEMMA HeartbeatBacked ==
    ASSUME ResourceInv, TypeOK', NEW v \in Workers, Heartbeat(v)
    PROVE  ResourceInv'
  <1>1. UNCHANGED <<owner, gen, resOwner>> /\ pc[v] \in Handling
    BY DEF Heartbeat, Handling
  <1>2. CASE ~ClaimMatches(v)
    BY <1>1, <1>2, DropBacked DEF Heartbeat, resourceVars
  <1>3. CASE ClaimMatches(v)
    <2>1. /\ left' = [left EXCEPT ![HeldRun(v)] = StageLease]
          /\ resLeft' = [k \in Resources |->
                IF resOwner[k] = TokenOf(v) /\ resLeft[k] > 0 THEN ResourceLease ELSE resLeft[k]]
          /\ UNCHANGED <<claim, uses>>
      BY <1>3 DEF Heartbeat
    <2>2. \A w \in Workers : pc'[w] \in Handling <=> pc[w] \in Handling
      BY <1>3 DEF Heartbeat, ResourceInv, TypeOK, Handling
    <2>3. OwnsLease(v) /\ HeldRun(v) \in Runs
      BY <1>1, <1>3, HandlerHasRun DEF ClaimMatches, ResourceInv
    <2>4. ASSUME NEW w \in Workers, pc'[w] \in Handling, OwnsLease(w)', NEW k \in uses'[w]
          PROVE  resOwner'[k] = TokenOf(w)' /\ left'[HeldRun(w)'] <= resLeft'[k]
      <3>1. TokenOf(w)' = TokenOf(w) /\ HeldRun(w)' = HeldRun(w) /\ k \in Resources
        BY <2>1, <2>4 DEF TokenOf, HeldRun, ResourceInv, TypeOK
      <3>2. CASE w = v
        <4>1. resOwner[k] = TokenOf(v) /\ left[HeldRun(v)] <= resLeft[k]
          BY <1>1, <2>1, <2>3, <2>4, <3>2 DEF ResourceInv, LeaseBacked
        <4>2. left[HeldRun(v)] > 0 /\ left[HeldRun(v)] \in Nat /\ resLeft[k] \in Nat
          BY <2>3, <3>1 DEF OwnsLease, ResourceInv, TypeOK
        <4>3. resLeft'[k] = ResourceLease
          BY <2>1, <3>1, <4>1, <4>2
        <4>4. left'[HeldRun(v)] = StageLease
          BY <2>1, <2>3 DEF ResourceInv, TypeOK
        <4>5. QED
          BY <1>1, <3>1, <3>2, <4>1, <4>3, <4>4, LeaseAssumption
      <3>3. CASE w # v
        <4>1. HeldRun(w) # HeldRun(v)
          BY <1>1, <2>3, <2>4, <3>1, <3>3 DEF OwnsLease
        <4>2. HeldRun(w) \in Runs
          BY <2>2, <2>4, HandlerHasRun DEF ResourceInv
        <4>3. OwnsLease(w) /\ left'[HeldRun(w)] = left[HeldRun(w)]
          BY <1>1, <2>1, <2>4, <3>1, <4>1, <4>2 DEF OwnsLease, ResourceInv, TypeOK
        <4>4. resOwner[k] = TokenOf(w) /\ left[HeldRun(w)] <= resLeft[k]
          BY <2>1, <2>2, <2>4, <4>3 DEF ResourceInv, LeaseBacked
        <4>5. TokenOf(w) # TokenOf(v)
          BY <3>3 DEF TokenOf
        <4>6. QED
          BY <1>1, <2>1, <3>1, <4>3, <4>4, <4>5
      <3>4. QED BY <3>2, <3>3
    <2>5. QED
      BY <2>1, <2>2, <2>4 DEF ResourceInv, LeaseBacked
  <1>4. QED BY <1>2, <1>3

\* Taking a resource from another worker needs its row expired, so its user has no live lease.
LEMMA AcquireBacked ==
    ASSUME ResourceInv, TypeOK', NEW v \in Workers, NEW k \in Resources, AcquireResource(v, k)
    PROVE  ResourceInv'
  <1>1. UNCHANGED <<owner, left, gen, claim>> /\ pc[v] \in Handling
    BY DEF AcquireResource, rowVars, Handling
  <1>2. \A w \in Workers : pc'[w] \in Handling <=> pc[w] \in Handling
    BY DEF AcquireResource, ResourceInv, TypeOK, Handling
  <1>3. \A w \in Workers : /\ OwnsLease(w)' <=> OwnsLease(w)
                           /\ TokenOf(w)' = TokenOf(w)
                           /\ HeldRun(w)' = HeldRun(w)
    BY <1>1 DEF OwnsLease, TokenOf, HeldRun
  <1>4. CASE UNCHANGED <<resourceVars, uses>>
    BY <1>1, <1>2, <1>3, <1>4 DEF ResourceInv, LeaseBacked, resourceVars
  <1>5. CASE ~UNCHANGED <<resourceVars, uses>>
    <2>1. /\ ClaimMatches(v)
          /\ resOwner[k] \in {NoToken, TokenOf(v)} \/ resLeft[k] = 0
          /\ resOwner' = [resOwner EXCEPT ![k] = TokenOf(v)]
          /\ resLeft' = [resLeft EXCEPT ![k] = ResourceLease]
          /\ uses' = [uses EXCEPT ![v] = @ \cup {k}]
      BY <1>5 DEF AcquireResource
    <2>2. ASSUME NEW w \in Workers, pc'[w] \in Handling, OwnsLease(w)', NEW j \in uses'[w]
          PROVE  resOwner'[j] = TokenOf(w)' /\ left'[HeldRun(w)'] <= resLeft'[j]
      <3>1. pc[w] \in Handling /\ OwnsLease(w) /\ HeldRun(w) \in Runs /\ TokenOf(w) \in Tokens
        BY <1>2, <1>3, <2>2, HandlerHasRun DEF ResourceInv
      <3>2. left[HeldRun(w)] > 0 /\ left[HeldRun(w)] \in 0..StageLease /\ j \in Resources
        BY <2>2, <3>1 DEF OwnsLease, ResourceInv, TypeOK
      <3>3. CASE w = v /\ j = k
        BY <1>1, <1>3, <2>1, <3>2, <3>3, LeaseAssumption DEF ResourceInv, TypeOK
      <3>4. CASE ~(w = v /\ j = k)
        <4>1. j \in uses[w]
          BY <2>1, <2>2, <3>4 DEF ResourceInv, TypeOK
        <4>2. resOwner[j] = TokenOf(w) /\ left[HeldRun(w)] <= resLeft[j] /\ resLeft[j] \in Nat
          BY <3>1, <3>2, <4>1 DEF ResourceInv, LeaseBacked, TypeOK
        <4>3. j # k
          <5>1. CASE w = v
            BY <3>4, <5>1
          <5>2. CASE w # v
            <6>1. TokenOf(w) # TokenOf(v) /\ TokenOf(w) # NoToken
              BY <3>1, <5>2, NullAssumption DEF TokenOf
            <6>2. resLeft[j] # 0
              BY <3>2, <4>2
            <6>3. QED BY <2>1, <4>2, <6>1, <6>2
          <5>3. QED BY <5>1, <5>2
        <4>4. QED
          BY <1>1, <1>3, <2>1, <3>2, <4>2, <4>3 DEF ResourceInv, TypeOK
      <3>5. QED BY <3>3, <3>4
    <2>3. \A w \in Workers : uses'[w] # {} => pc'[w] \in Handling
      BY <1>1, <1>2, <2>1 DEF ResourceInv, TypeOK
    <2>4. QED BY <2>2, <2>3 DEF ResourceInv, LeaseBacked
  <1>6. QED BY <1>4, <1>5
LEMMA CrashBacked ==
    ASSUME ResourceInv, TypeOK', NEW v \in Workers, CrashWorker(v)
    PROVE  ResourceInv'
  <1>1. /\ pc' = [pc EXCEPT ![v] = "dead"]
        /\ uses' = [uses EXCEPT ![v] = {}]
        /\ UNCHANGED <<owner, left, gen, resOwner, resLeft>>
    BY DEF CrashWorker, rowVars, resourceVars
  <1>2. ASSUME NEW w \in Workers, w # v
        PROVE  pc'[w] = pc[w] /\ claim'[w] = claim[w] /\ uses'[w] = uses[w]
    BY <1>2 DEF CrashWorker, ResourceInv, TypeOK
  <1>3. pc'[v] \notin Handling /\ uses'[v] = {}
    BY <1>1 DEF ResourceInv, TypeOK, Handling
  <1>4. QED
    BY <1>1, <1>2, <1>3 DEF ResourceInv, LeaseBacked, OwnsLease, TokenOf, HeldRun

\* Every lease loses the same time, so a row that outlasts another still does.
LEMMA TickBacked ==
    ASSUME ResourceInv, TypeOK', Tick
    PROVE  ResourceInv'
  <1>1. /\ left' = [r \in Runs |-> IF left[r] > 0 THEN left[r] - 1 ELSE 0]
        /\ resLeft' = [k \in Resources |-> IF resLeft[k] > 0 THEN resLeft[k] - 1 ELSE 0]
        /\ UNCHANGED <<owner, gen, resOwner, pc, claim, uses>>
    BY DEF Tick, workerVars
  <1>2. ASSUME NEW w \in Workers, pc'[w] \in Handling, OwnsLease(w)', NEW k \in uses'[w]
        PROVE  resOwner'[k] = TokenOf(w)' /\ left'[HeldRun(w)'] <= resLeft'[k]
    <2>1. HeldRun(w) \in Runs /\ HeldRun(w)' = HeldRun(w) /\ TokenOf(w)' = TokenOf(w)
      BY <1>1, <1>2, HandlerHasRun DEF ResourceInv, HeldRun, TokenOf
    <2>2. left[HeldRun(w)] \in Nat /\ resLeft[k] \in Nat /\ k \in Resources
      BY <1>1, <1>2, <2>1 DEF ResourceInv, TypeOK
    <2>3. OwnsLease(w) /\ left'[HeldRun(w)] = left[HeldRun(w)] - 1
      BY <1>1, <1>2, <2>1, <2>2 DEF OwnsLease
    <2>4. resOwner[k] = TokenOf(w) /\ left[HeldRun(w)] <= resLeft[k]
      BY <1>1, <1>2, <2>3 DEF ResourceInv, LeaseBacked
    <2>5. QED
      BY <1>1, <2>1, <2>2, <2>3, <2>4 DEF OwnsLease
  <1>3. QED BY <1>1, <1>2 DEF ResourceInv, LeaseBacked

LEMMA ConcludeBacked ==
    ASSUME ResourceInv, TypeOK', NEW v \in Workers, NEW from \in Handling, NEW s, NEW warn,
           Conclude(v, from, s, warn)
    PROVE  ResourceInv'
  <1>1. pc[v] \in Handling /\ DropClaim(v)
    BY DEF Conclude
  <1>2. CASE ClaimMatches(v)
    BY <1>1, <1>2, EndRunBacked DEF Conclude, EndRun
  <1>3. CASE ~ClaimMatches(v)
    BY <1>1, <1>3, DropBacked DEF Conclude, rowVars
  <1>4. QED BY <1>2, <1>3

LEMMA ReturnBacked ==
    ASSUME ResourceInv, TypeOK', NEW v \in Workers, Return(v)
    PROVE  ResourceInv'
  <1>1. "handling" \in Handling /\ "requeueing" \in Handling
    BY DEF Handling
  <1>2. CASE Requeue(v)
    BY <1>1, <1>2, ConcludeBacked DEF Requeue
  <1>3. ASSUME NEW warn \in WarningValues,
               \/ \E s \in SuccessfulStageStatuses : Complete(v, s, warn)
               \/ Fail(v, warn) \/ DeferExternal(v, warn)
        PROVE  ResourceInv'
    BY <1>1, <1>3, ConcludeBacked DEF Complete, Fail, DeferExternal
  <1>4. ASSUME NEW warn \in WarningValues, CompleteSkippingTranscribe(v, warn)
        PROVE  ResourceInv'
    <2>1. pc[v] \in Handling /\ DropClaim(v)
      BY <1>1, <1>4 DEF CompleteSkippingTranscribe
    <2>2. CASE UNCHANGED <<containerVars, rowVars, resourceVars>>
      BY <2>1, <2>2, DropBacked DEF rowVars
    <2>3. CASE ~UNCHANGED <<containerVars, rowVars, resourceVars>>
      <3>1. ClearLease({HeldRun(v)}) /\ ReleaseResources({TokenOf(v)}) /\ UNCHANGED gen
        BY <1>4, <2>3 DEF CompleteSkippingTranscribe
      <3>2. QED BY <2>1, <3>1, EndRunBacked
    <2>4. QED BY <2>2, <2>3
  <1>5. QED BY <1>2, <1>3, <1>4 DEF Return

LEMMA CancelIfRequestedBacked ==
    ASSUME ResourceInv, TypeOK', NEW v \in Workers, CancelIfRequested(v)
    PROVE  ResourceInv'
  <1>1. pc[v] \in Handling
    BY DEF CancelIfRequested, Handling
  <1>2. CASE CancelSeen(v)
    BY <1>1, <1>2, EndRunBacked DEF CancelIfRequested, EndRun
  <1>3. CASE ~CancelSeen(v)
    <2>1. /\ pc' = [pc EXCEPT ![v] = "checked"]
          /\ UNCHANGED <<owner, left, gen, resOwner, resLeft, claim, uses>>
      BY <1>3 DEF CancelIfRequested, rowVars, resourceVars
    <2>2. \A w \in Workers : pc'[w] \in Handling <=> pc[w] \in Handling
      BY <1>1, <2>1 DEF ResourceInv, TypeOK, Handling
    <2>3. QED
      BY <2>1, <2>2 DEF ResourceInv, LeaseBacked, OwnsLease, TokenOf, HeldRun
  <1>4. QED BY <1>2, <1>3

LEMMA ApiBacked ==
    ASSUME ResourceInv, TypeOK', ApiNext
    PROVE  ResourceInv'
  <1>1. ASSUME NEW t \in Tasks, CancelWrites(t)
        PROVE  ResourceInv'
    BY <1>1, CancelWritesBacked
  <1>2. CASE UNCHANGED <<owner, left, gen, resourceVars, workerVars>>
    BY <1>2, BackedUnchanged
  <1>3. QED
    BY <1>1, <1>2 DEF ApiNext, CreateTask, CancelReads, CancelConflicts, CompleteUpload,
       BindFailedUpload, RecordUploadFailure, RetryStage, WakeTranscribe, rowVars

LEMMA ResourceStep ==
    ASSUME ResourceInv, [Next]_vars
    PROVE  ResourceInv'
  <1>1. TypeOK'
    BY TypeStep DEF ResourceInv
  <1>2. CASE ApiNext
    BY <1>1, <1>2, ApiBacked
  <1>3. CASE Tick
    BY <1>1, <1>3, TickBacked
  <1>4. ASSUME NEW w \in Workers, WorkerNext(w)
        PROVE  ResourceInv'
    BY <1>1, <1>4, StartWorkerBacked, ClaimNextBacked, CancelIfRequestedBacked, HeartbeatBacked,
       ReturnBacked, CrashBacked, AcquireBacked DEF WorkerNext, Checkpoint
  <1>5. CASE UNCHANGED vars
    BY <1>1, <1>5, BackedUnchanged DEF vars, rowVars
  <1>6. QED BY <1>2, <1>3, <1>4, <1>5 DEF Next

LEMMA InitBacked == Init => ResourceInv
  BY InitType DEF Init, ResourceInv, LeaseBacked, Handling

\* Two handlers that both hold a live stage lease and both use one resource are one handler: the
\* acquire_resource, heartbeat, recover_expired and _release_resources of worker_store.py keep
\* every user's resource row alive for as long as its stage lease.
THEOREM ExclusiveResources == Spec => []ResourceExclusion
  <1>1. ASSUME ResourceInv, NEW w \in Workers, NEW v \in Workers, NEW k \in Resources,
               HoldsLease(w), HoldsLease(v), k \in uses[w], k \in uses[v]
        PROVE  w = v
    <2>1. resOwner[k] = TokenOf(w) /\ resOwner[k] = TokenOf(v)
      BY <1>1 DEF ResourceInv, LeaseBacked, HoldsLease
    <2>2. TokenOf(w).worker = w /\ TokenOf(v).worker = v
      BY DEF TokenOf
    <2>3. QED BY <2>1, <2>2
  <1>2. ResourceInv => ResourceExclusion
    BY <1>1 DEF ResourceExclusion
  <1>3. QED
    BY <1>2, InitBacked, ResourceStep, PTL DEF Spec

-----------------------------------------------------------------------------
(* The rows.  Each action of the queue moves the row of a run in one of    *)
(* six ways, or leaves it; StepMoves says so of every step, and the        *)
(* invariants and the refinement are proved from the moves.                *)

Opened(r) ==
    status[r] = "absent" /\ status'[r] = "queued" /\ owner'[r] = owner[r]

Claimed(r) ==
    r \in Claimable /\ status[r] = "queued" /\ status'[r] = "running" /\ owner'[r] \in Workers

CancelAsked(r) ==
    status[r] = "running" /\ status'[r] = "cancel_requested" /\ owner'[r] = owner[r]

Settled(r) ==
    /\ status[r] \in Leased
    /\ status'[r] \in EndedStageStatuses \cup {"queued", "waiting_external"}
    /\ owner'[r] = NoWorker

\* Nothing waits at the provider unless it has been deferred by its holder.
Withdrawn(r) ==
    /\ status[r] \in {"queued", "waiting_external"}
    /\ status'[r] \in {"queued", "canceled", "skipped"}
    /\ owner'[r] \in {owner[r], NoWorker}

UploadFailed(r) ==
    /\ status[r] # "absent"
    /\ status'[r] \in {"failed", "canceled"}
    /\ owner'[r] = owner[r]
    /\ upload'[ItemOf(r)] = "failed"

RowKept(r) == status'[r] = status[r] /\ owner'[r] = owner[r]

RowMove(r) ==
    \/ RowKept(r) \/ Opened(r) \/ Claimed(r) \/ CancelAsked(r)
    \/ Settled(r) \/ Withdrawn(r) \/ UploadFailed(r)

\* A run that is opened has no newer attempt, and its older ones are over.
OpensLatest ==
    \A r \in Runs : Opened(r) =>
        \A q \in Runs \ {r} :
            ItemOf(q) = ItemOf(r) /\ StageOf(q) = StageOf(r) =>
                /\ AttemptOf(q) > AttemptOf(r) => status[q] = "absent" /\ status'[q] = "absent"
                /\ AttemptOf(q) <= AttemptOf(r) =>
                      status'[q] \in EndedStageStatuses \cup {"absent"}

\* A run or an upload belongs to a task that was created.
Born ==
    /\ \A r \in Runs : status[r] # "absent" => taskStatus[TaskOf[ItemOf(r)]] # "absent"
    /\ \A i \in Items : upload[i] # "none" => taskStatus[TaskOf[i]] # "absent" /\ i \in UploadItems

RowsInv == TypeOK /\ Born /\ LeaseIffRunning /\ OneOpenAttempt

-----------------------------------------------------------------------------
(* How the rows move *)

LEMMA RunFields ==
    ASSUME NEW r \in Runs
    PROVE  /\ ItemOf(r) \in Items /\ TaskOf[ItemOf(r)] \in Tasks
           /\ StageOf(r) \in Stages
           /\ AttemptOf(r) \in 1..MaxAttempt
           /\ r = <<ItemOf(r), StageOf(r), AttemptOf(r)>>
  BY RowsAssumption DEF Runs, ItemOf, StageOf, AttemptOf

\* Another attempt of a run's stage is a run.
LEMMA OtherAttempt ==
    ASSUME NEW r \in Runs, NEW a \in 1..MaxAttempt
    PROVE  /\ <<ItemOf(r), StageOf(r), a>> \in Runs
           /\ ItemOf(<<ItemOf(r), StageOf(r), a>>) = ItemOf(r)
           /\ StageOf(<<ItemOf(r), StageOf(r), a>>) = StageOf(r)
           /\ AttemptOf(<<ItemOf(r), StageOf(r), a>>) = a
  BY RunFields DEF Runs, ItemOf, StageOf, AttemptOf

\* A run is the newest of its stage when no run of a later attempt was opened.
LEMMA LatestIff ==
    ASSUME NEW st, NEW r \in Runs
    PROVE  IsLatest(st, r) <=>
              /\ st[r] # "absent"
              /\ \A q \in Runs : /\ ItemOf(q) = ItemOf(r)
                                 /\ StageOf(q) = StageOf(r)
                                 /\ AttemptOf(q) > AttemptOf(r)
                                 => st[q] = "absent"
  <1>1. ASSUME IsLatest(st, r), NEW q \in Runs, ItemOf(q) = ItemOf(r), StageOf(q) = StageOf(r),
               AttemptOf(q) > AttemptOf(r)
        PROVE  st[q] = "absent"
    <2>1. AttemptOf(q) \in (AttemptOf(r) + 1)..MaxAttempt
      BY <1>1, RunFields, RowsAssumption
    <2>2. q = <<ItemOf(r), StageOf(r), AttemptOf(q)>>
      BY <1>1, RunFields
    <2>3. QED BY <1>1, <2>1, <2>2 DEF IsLatest
  <1>2. ASSUME st[r] # "absent",
               \A q \in Runs : /\ ItemOf(q) = ItemOf(r)
                               /\ StageOf(q) = StageOf(r)
                               /\ AttemptOf(q) > AttemptOf(r)
                               => st[q] = "absent"
        PROVE  IsLatest(st, r)
    <2>1. ASSUME NEW a \in (AttemptOf(r) + 1)..MaxAttempt
          PROVE  st[<<ItemOf(r), StageOf(r), a>>] = "absent"
      <3>1. a \in 1..MaxAttempt /\ a > AttemptOf(r)
        BY RunFields, RowsAssumption
      <3>2. QED BY <1>2, <3>1, OtherAttempt
    <2>2. QED BY <1>2, <2>1 DEF IsLatest
  <1>3. QED BY <1>1, <1>2 DEF IsLatest

LEMMA CreateTaskMoves ==
    ASSUME RowsInv, NEW t \in Tasks, CreateTask(t)
    PROVE  (\A r \in Runs : RowMove(r)) /\ OpensLatest
  <1>1. \A r \in Runs : TaskOf[ItemOf(r)] = t => status[r] = "absent"
    BY DEF CreateTask, RowsInv, Born
  <1>2. /\ \A r \in Runs : status'[r] = IF TaskOf[ItemOf(r)] = t /\ AttemptOf(r) = 1
                                        THEN "queued" ELSE status[r]
        /\ owner' = owner
    BY DEF CreateTask
  <1>3. \A r \in Runs : RowMove(r)
    BY <1>1, <1>2 DEF RowMove, RowKept, Opened
  <1>4. ASSUME NEW r \in Runs, Opened(r), NEW q \in Runs \ {r},
               ItemOf(q) = ItemOf(r), StageOf(q) = StageOf(r)
        PROVE  status[q] = "absent" /\ status'[q] = "absent"
    <2>1. TaskOf[ItemOf(r)] = t /\ AttemptOf(r) = 1
      BY <1>2, <1>4 DEF Opened
    <2>2. AttemptOf(q) # 1
      BY <1>4, <2>1, RunFields
    <2>3. QED BY <1>1, <1>2, <1>4, <2>1, <2>2
  <1>5. QED BY <1>3, <1>4 DEF OpensLatest

LEMMA UploadMoves ==
    ASSUME RowsInv, NEW i \in Items,
           CompleteUpload(i) \/ BindFailedUpload(i) \/ RecordUploadFailure(i)
    PROVE  \A r \in Runs : RowMove(r) /\ ~Opened(r)
  <1>1. CASE CompleteUpload(i) \/ BindFailedUpload(i)
    BY <1>1 DEF CompleteUpload, BindFailedUpload, rowVars, RowMove, RowKept, Opened
  <1>2. CASE RecordUploadFailure(i)
    <2>1. /\ \A r \in Runs : status'[r] =
                IF ItemOf(r) # i THEN status[r]
                ELSE IF StageOf(r) = "source" /\ IsLatest(status, r) THEN "failed"
                ELSE IF status[r] = "queued" THEN "canceled"
                ELSE status[r]
          /\ owner' = owner
          /\ upload'[i] = "failed"
      BY <1>2 DEF RecordUploadFailure, RowsInv, TypeOK
    <2>2. QED
      BY <2>1 DEF RowMove, RowKept, Opened, UploadFailed, IsLatest
  <1>3. QED BY <1>1, <1>2

LEMMA CancelMoves ==
    ASSUME RowsInv, NEW t \in Tasks, CancelReads(t) \/ CancelConflicts(t) \/ CancelWrites(t)
    PROVE  \A r \in Runs : RowMove(r) /\ ~Opened(r)
  <1>1. CASE CancelReads(t) \/ CancelConflicts(t)
    BY <1>1 DEF CancelReads, CancelConflicts, rowVars, RowMove, RowKept, Opened
  <1>2. CASE CancelWrites(t)
    <2>1. /\ \A r \in Runs : status'[r] =
                IF r \notin RunsOf(t) THEN status[r]
                ELSE IF status[r] = "running" THEN "cancel_requested"
                ELSE IF status[r] \in {"queued", "waiting_external"} THEN "canceled"
                ELSE status[r]
          /\ \A r \in Runs : owner'[r] =
                IF r \in RunsOf(t) /\ status[r] = "waiting_external" THEN NoWorker ELSE owner[r]
      BY <1>2 DEF CancelWrites, ClearLease
    <2>2. QED
      BY <2>1 DEF RowMove, RowKept, Opened, CancelAsked, Withdrawn
  <1>3. QED BY <1>1, <1>2

\* The row a retry opens is the next attempt of one that is over and the newest.
LEMMA RetryOpensNext ==
    ASSUME RowsInv, NEW r \in Runs, RetryStage(r)
    PROVE  /\ RetryRow(r) \in Runs /\ status[RetryRow(r)] = "absent"
           /\ ItemOf(RetryRow(r)) = ItemOf(r) /\ StageOf(RetryRow(r)) = StageOf(r)
           /\ AttemptOf(RetryRow(r)) = AttemptOf(r) + 1
           /\ status[r] \in EndedStageStatuses /\ IsLatest(status, r)
           /\ owner' = owner
           /\ \A q \in Runs : status'[q] = IF q = RetryRow(r) THEN "queued" ELSE status[q]
  <1>1. /\ IsLatest(status, r) /\ AttemptOf(r) < MaxAttempt
        /\ status[r] \in EndedStageStatuses
    BY DEF RetryStage, CanRetry, EndedStageStatuses, SuccessfulStageStatuses
  <1>2. AttemptOf(r) + 1 \in 1..MaxAttempt /\ AttemptOf(r) + 1 > AttemptOf(r)
    BY <1>1, RunFields, RowsAssumption
  <1>3. /\ RetryRow(r) \in Runs
        /\ ItemOf(RetryRow(r)) = ItemOf(r) /\ StageOf(RetryRow(r)) = StageOf(r)
        /\ AttemptOf(RetryRow(r)) = AttemptOf(r) + 1
    BY <1>2, OtherAttempt DEF RetryRow, NextAttempt
  <1>4. status[RetryRow(r)] = "absent"
    BY <1>1, <1>2, <1>3, LatestIff
  <1>5. status' = [status EXCEPT ![RetryRow(r)] = "queued"] /\ owner' = owner
    BY DEF RetryStage
  <1>6. QED BY <1>1, <1>3, <1>4, <1>5 DEF RowsInv, TypeOK

LEMMA RetryMoves ==
    ASSUME RowsInv, NEW r \in Runs, RetryStage(r)
    PROVE  (\A q \in Runs : RowMove(q)) /\ OpensLatest
  <1>1. \A q \in Runs : RowMove(q)
    BY RetryOpensNext DEF RowMove, RowKept, Opened
  <1>2. ASSUME NEW n \in Runs, Opened(n), NEW q \in Runs \ {n},
               ItemOf(q) = ItemOf(n), StageOf(q) = StageOf(n)
        PROVE  /\ AttemptOf(q) > AttemptOf(n) => status[q] = "absent" /\ status'[q] = "absent"
               /\ AttemptOf(q) <= AttemptOf(n) =>
                     status'[q] \in EndedStageStatuses \cup {"absent"}
    <2>1. n = RetryRow(r) /\ status'[q] = status[q]
      BY <1>2, RetryOpensNext DEF Opened
    <2>2. CASE AttemptOf(q) > AttemptOf(n)
      <3>1. AttemptOf(q) > AttemptOf(r)
        BY <2>1, <2>2, RetryOpensNext, RunFields
      <3>2. QED
        BY <1>2, <2>1, <2>2, <3>1, RetryOpensNext, LatestIff, RunFields
    <2>3. CASE AttemptOf(q) <= AttemptOf(n)
      <3>1. AttemptOf(q) # AttemptOf(n)
        BY <1>2, RunFields
      <3>2. AttemptOf(q) <= AttemptOf(r)
        BY <2>1, <2>3, <3>1, RetryOpensNext, RunFields
      <3>3. CASE q = r
        BY <2>1, <2>3, <3>3, RetryOpensNext, RunFields
      <3>4. CASE q # r
        <4>1. AttemptOf(q) < AttemptOf(r)
          BY <1>2, <2>1, <3>2, <3>4, RetryOpensNext, RunFields
        <4>2. ~IsLatest(status, q)
          BY <1>2, <2>1, <4>1, RetryOpensNext, LatestIff
        <4>3. status[q] \in EndedStageStatuses \cup {"absent"}
          BY <4>2 DEF RowsInv, OneOpenAttempt
        <4>4. QED BY <2>1, <2>3, <4>1, <4>3, RetryOpensNext, RunFields
      <3>5. QED BY <3>3, <3>4
    <2>4. QED BY <2>2, <2>3, RunFields
  <1>3. QED BY <1>1, <1>2 DEF OpensLatest

LEMMA WakeMoves ==
    ASSUME RowsInv, NEW r \in Runs, WakeTranscribe(r)
    PROVE  \A q \in Runs : RowMove(q) /\ ~Opened(q)
  BY DEF WakeTranscribe, RowsInv, TypeOK, RowMove, RowKept, Opened, Withdrawn

LEMMA StartMoves ==
    ASSUME RowsInv, NEW w \in Workers, StartWorker(w)
    PROVE  \A r \in Runs : RowMove(r) /\ ~Opened(r)
  <1> DEFINE expired == {r \in Runs : status[r] \in Leased /\ owner[r] # NoWorker /\ left[r] = 0}
  <1>1. /\ \A r \in Runs : status'[r] =
              IF r \notin expired THEN status[r]
              ELSE IF status[r] = "cancel_requested" \/ ContainersCanceled(r)
              THEN "canceled" ELSE "queued"
        /\ \A r \in Runs : owner'[r] = IF r \in expired THEN NoWorker ELSE owner[r]
    BY DEF StartWorker, ClearLease
  <1>2. ASSUME NEW r \in Runs, r \in expired
        PROVE  Settled(r) /\ ~Opened(r)
    BY <1>1, <1>2 DEF Settled, Opened, Leased, EndedStageStatuses, RetryableStageStatuses
  <1>3. ASSUME NEW r \in Runs, r \notin expired
        PROVE  RowKept(r) /\ ~Opened(r)
    BY <1>1, <1>3 DEF RowKept, Opened
  <1>4. QED BY <1>2, <1>3 DEF RowMove

LEMMA ClaimMoves ==
    ASSUME RowsInv, NEW w \in Workers, ClaimNext(w)
    PROVE  \A r \in Runs : RowMove(r) /\ ~Opened(r)
  <1>1. PICK r \in Claimable :
          status' = [status EXCEPT ![r] = "running"] /\ owner' = [owner EXCEPT ![r] = w]
    BY DEF ClaimNext
  <1>2. r \in Runs /\ status[r] = "queued"
    BY DEF Claimable
  <1>3. QED
    BY <1>1, <1>2 DEF RowsInv, TypeOK, RowMove, RowKept, Opened, Claimed

\* A run that its holder ends or hands back.
LEMMA EndMoves ==
    ASSUME RowsInv, NEW w \in Workers, pc[w] \in Handling, NEW warn,
           NEW s \in EndedStageStatuses \cup {"queued", "waiting_external"},
           status[HeldRun(w)] \in Leased, EndRun(w, s, warn)
    PROVE  \A r \in Runs : RowMove(r) /\ ~Opened(r)
  <1>1. HeldRun(w) \in Runs
    BY HandlerHasRun DEF RowsInv
  <1>2. /\ \A r \in Runs : status'[r] = IF r = HeldRun(w) THEN s ELSE status[r]
        /\ \A r \in Runs : owner'[r] = IF r = HeldRun(w) THEN NoWorker ELSE owner[r]
    BY <1>1 DEF EndRun, ClearLease, RowsInv, TypeOK
  <1>3. QED
    BY <1>2 DEF RowMove, RowKept, Opened, Settled, Leased

LEMMA ConcludeMoves ==
    ASSUME RowsInv, NEW w \in Workers, NEW from \in Handling, NEW warn,
           NEW s \in EndedStageStatuses \cup {"queued", "waiting_external"},
           Conclude(w, from, s, warn)
    PROVE  \A r \in Runs : RowMove(r) /\ ~Opened(r)
  <1>1. CASE ClaimMatches(w)
    <2>1. pc[w] \in Handling /\ status[HeldRun(w)] \in Leased /\ EndRun(w, s, warn)
      BY <1>1 DEF Conclude, ClaimMatches, Leased
    <2>2. QED BY <2>1, EndMoves
  <1>2. CASE ~ClaimMatches(w)
    BY <1>2 DEF Conclude, rowVars, RowMove, RowKept, Opened
  <1>3. QED BY <1>1, <1>2

LEMMA SkippingMoves ==
    ASSUME RowsInv, NEW w \in Workers, NEW warn, CompleteSkippingTranscribe(w, warn)
    PROVE  \A r \in Runs : RowMove(r) /\ ~Opened(r)
  <1> DEFINE h == HeldRun(w)
             transcribe == {q \in LatestRuns(status, ItemOf(h)) :
                              StageOf(q) = "transcribe" /\ status[q] = "queued"}
  <1>1. CASE ClaimMatches(w) /\ transcribe # {}
    <2>1. status[h] = "running"
      BY <1>1 DEF ClaimMatches
    <2>2. /\ \A q \in Runs : status'[q] = IF q = h THEN "completed"
                                          ELSE IF q \in transcribe THEN "skipped" ELSE status[q]
          /\ \A q \in Runs : owner'[q] = IF q = h THEN NoWorker ELSE owner[q]
      BY <1>1 DEF CompleteSkippingTranscribe, ClearLease
    <2>3. \A q \in transcribe : status[q] = "queued"
      OBVIOUS
    <2>4. QED
      BY <2>1, <2>2, <2>3 DEF RowMove, RowKept, Opened, Settled, Withdrawn, Leased,
         EndedStageStatuses, SuccessfulStageStatuses
  <1>2. CASE ~(ClaimMatches(w) /\ transcribe # {})
    BY <1>2 DEF CompleteSkippingTranscribe, rowVars, RowMove, RowKept, Opened
  <1>3. QED BY <1>1, <1>2

LEMMA ReturnMoves ==
    ASSUME RowsInv, NEW w \in Workers, Return(w)
    PROVE  \A r \in Runs : RowMove(r) /\ ~Opened(r)
  <1>1. /\ "handling" \in Handling /\ "requeueing" \in Handling
        /\ SuccessfulStageStatuses \subseteq EndedStageStatuses /\ "failed" \in EndedStageStatuses
    BY DEF Handling, EndedStageStatuses, RetryableStageStatuses
  <1>2. CASE Requeue(w)
    BY <1>1, <1>2, ConcludeMoves DEF Requeue
  <1>3. ASSUME NEW warn \in WarningValues,
               \/ \E s \in SuccessfulStageStatuses : Complete(w, s, warn)
               \/ Fail(w, warn) \/ DeferExternal(w, warn)
        PROVE  \A r \in Runs : RowMove(r) /\ ~Opened(r)
    BY <1>1, <1>3, ConcludeMoves DEF Complete, Fail, DeferExternal
  <1>4. ASSUME NEW warn \in WarningValues, CompleteSkippingTranscribe(w, warn)
        PROVE  \A r \in Runs : RowMove(r) /\ ~Opened(r)
    BY <1>4, SkippingMoves
  <1>5. QED BY <1>2, <1>3, <1>4 DEF Return

LEMMA CheckpointMoves ==
    ASSUME RowsInv, NEW w \in Workers, Checkpoint(w)
    PROVE  \A r \in Runs : RowMove(r) /\ ~Opened(r)
  <1>1. CASE Heartbeat(w)
    BY <1>1 DEF Heartbeat, RowMove, RowKept, Opened
  <1>2. CASE CancelIfRequested(w) /\ CancelSeen(w)
    <2>1. /\ pc[w] \in Handling /\ status[HeldRun(w)] \in Leased
          /\ EndRun(w, "canceled", warning[HeldRun(w)])
      BY <1>2 DEF CancelIfRequested, CancelSeen, Handling
    <2>2. "canceled" \in EndedStageStatuses
      BY DEF EndedStageStatuses, RetryableStageStatuses
    <2>3. QED BY <2>1, <2>2, EndMoves
  <1>3. CASE CancelIfRequested(w) /\ ~CancelSeen(w)
    BY <1>3 DEF CancelIfRequested, rowVars, RowMove, RowKept, Opened
  <1>4. QED BY <1>1, <1>2, <1>3 DEF Checkpoint

LEMMA StepMoves ==
    ASSUME RowsInv, [Next]_vars
    PROVE  (\A r \in Runs : RowMove(r)) /\ OpensLatest
  <1>1. CASE ApiNext
    BY <1>1, CreateTaskMoves, UploadMoves, CancelMoves, RetryMoves, WakeMoves
    DEF ApiNext, OpensLatest
  <1>2. CASE Tick
    BY <1>2 DEF Tick, RowMove, RowKept, Opened, OpensLatest
  <1>3. ASSUME NEW w \in Workers, WorkerNext(w)
        PROVE  (\A r \in Runs : RowMove(r)) /\ OpensLatest
    <2>1. ASSUME CrashWorker(w) \/ \E k \in Resources : AcquireResource(w, k)
          PROVE  \A r \in Runs : RowMove(r) /\ ~Opened(r)
      BY <2>1 DEF CrashWorker, AcquireResource, rowVars, RowMove, RowKept, Opened
    <2>2. QED
      BY <1>3, <2>1, StartMoves, ClaimMoves, CheckpointMoves, ReturnMoves
      DEF WorkerNext, OpensLatest
  <1>4. CASE UNCHANGED vars
    BY <1>4 DEF vars, rowVars, RowMove, RowKept, Opened, OpensLatest
  <1>5. QED BY <1>1, <1>2, <1>3, <1>4 DEF Next

-----------------------------------------------------------------------------
(* Rows belong to created tasks; leases and attempts *)

LEMMA RecalculateBorn ==
    ASSUME RowsInv, NEW affected, Recalculate(affected)
    PROVE  \A t \in Tasks : taskStatus[t] # "absent" => taskStatus'[t] # "absent"
  <1>1. ASSUME NEW t \in Tasks
        PROVE  taskStatus'[t] \in ContainerStatuses \/ taskStatus'[t] = taskStatus[t]
    BY TaskAggregateType DEF Recalculate
  <1>2. "absent" \notin ContainerStatuses
    BY DEF ContainerStatuses
  <1>3. QED BY <1>1, <1>2

\* No step forgets that a task was created.
LEMMA TasksStay ==
    ASSUME RowsInv, [Next]_vars
    PROVE  \A t \in Tasks : taskStatus[t] # "absent" => taskStatus'[t] # "absent"
  <1>1. CASE ApiNext
    <2>1. ASSUME NEW t \in Tasks, CreateTask(t) \/ CancelWrites(t)
          PROVE  \A u \in Tasks : taskStatus[u] # "absent" => taskStatus'[u] # "absent"
      BY <2>1 DEF CreateTask, CancelWrites, RowsInv, TypeOK
    <2>2. ASSUME NEW i \in Items, RecordUploadFailure(i)
          PROVE  \A u \in Tasks : taskStatus[u] # "absent" => taskStatus'[u] # "absent"
      BY <2>2 DEF RecordUploadFailure, RowsInv, TypeOK
    <2>3. ASSUME NEW r \in Runs, RetryStage(r)
          PROVE  \A u \in Tasks : taskStatus[u] # "absent" => taskStatus'[u] # "absent"
      <3>1. taskStatus' = [taskStatus EXCEPT ![TaskOf[ItemOf(r)]] =
                IF {q \in RunsOf(TaskOf[ItemOf(r)]) : status[q] \in ActiveStageStatuses} # {}
                THEN "running" ELSE "queued"]
        BY <2>3 DEF RetryStage
      <3>2. QED BY <3>1 DEF RowsInv, TypeOK
    <2>4. CASE UNCHANGED containerVars
      BY <2>4 DEF containerVars
    <2>5. QED
      BY <1>1, <2>1, <2>2, <2>3, <2>4
      DEF ApiNext, CancelReads, CancelConflicts, CompleteUpload, BindFailedUpload, WakeTranscribe
  <1>2. CASE UNCHANGED containerVars
    BY <1>2 DEF containerVars
  <1>3. ASSUME NEW w \in Workers, WorkerNext(w)
        PROVE  (\E affected : Recalculate(affected)) \/ UNCHANGED containerVars
    <2>1. ASSUME StartWorker(w) \/ ClaimNext(w)
          PROVE  \E affected : Recalculate(affected)
      BY <2>1 DEF StartWorker, ClaimNext
    <2>2. ASSUME Checkpoint(w)
          PROVE  (\E affected : Recalculate(affected)) \/ UNCHANGED containerVars
      BY <2>2 DEF Checkpoint, Heartbeat, CancelIfRequested, EndRun
    <2>3. ASSUME Return(w)
          PROVE  (\E affected : Recalculate(affected)) \/ UNCHANGED containerVars
      BY <2>3 DEF Return, Requeue, Complete, Fail, DeferExternal, CompleteSkippingTranscribe,
         Conclude, EndRun
    <2>4. QED
      BY <1>3, <2>1, <2>2, <2>3 DEF WorkerNext, CrashWorker, AcquireResource
  <1>4. QED
    BY <1>1, <1>2, <1>3, RecalculateBorn DEF Next, Tick, vars

LEMMA BornStep ==
    ASSUME RowsInv, [Next]_vars
    PROVE  Born'
  <1>1. ASSUME NEW r \in Runs, status'[r] # "absent"
        PROVE  taskStatus'[TaskOf[ItemOf(r)]] # "absent"
    <2>1. CASE status[r] # "absent"
      BY <2>1, TasksStay, RunFields DEF RowsInv, Born
    <2>2. CASE status[r] = "absent"
      <3>1. Opened(r)
        BY <1>1, <2>2, StepMoves
        DEF RowMove, RowKept, Claimed, CancelAsked, Settled, Withdrawn, UploadFailed, Leased
      <3>2. ASSUME NEW t \in Tasks, CreateTask(t)
            PROVE  taskStatus'[TaskOf[ItemOf(r)]] # "absent"
        <4>1. TaskOf[ItemOf(r)] = t
          BY <3>1, <3>2 DEF CreateTask, Opened
        <4>2. QED BY <3>2, <4>1 DEF CreateTask, RowsInv, TypeOK
      <3>3. ASSUME NEW q \in Runs, RetryStage(q)
            PROVE  taskStatus'[TaskOf[ItemOf(r)]] # "absent"
        <4>1. ItemOf(r) = ItemOf(q) /\ status[q] # "absent"
          BY <3>1, <3>3, RetryOpensNext DEF Opened, IsLatest
        <4>2. QED BY <4>1, TasksStay, RunFields DEF RowsInv, Born
      <3>4. QED
        BY <3>1, <3>2, <3>3, UploadMoves, CancelMoves, WakeMoves, StartMoves, ClaimMoves,
           CheckpointMoves, ReturnMoves
        DEF Next, ApiNext, WorkerNext, Tick, CrashWorker, AcquireResource, rowVars, vars, Opened
    <2>3. QED BY <2>1, <2>2
  <1>2. ASSUME NEW i \in Items, upload'[i] # "none"
        PROVE  taskStatus'[TaskOf[i]] # "absent" /\ i \in UploadItems
    <2>1. CASE upload[i] # "none"
      BY <2>1, TasksStay, RowsAssumption DEF RowsInv, Born
    <2>2. ASSUME NEW t \in Tasks, CreateTask(t), upload[i] = "none"
          PROVE  taskStatus'[TaskOf[i]] # "absent" /\ i \in UploadItems
      BY <1>2, <2>2 DEF CreateTask, RowsInv, TypeOK
    <2>3. ASSUME NEW j \in Items, CompleteUpload(j) \/ BindFailedUpload(j) \/ RecordUploadFailure(j)
          PROVE  upload[i] # "none"
      BY <1>2, <2>3 DEF CompleteUpload, BindFailedUpload, RecordUploadFailure, RowsInv, TypeOK
    <2>4. CASE UNCHANGED upload
      BY <1>2, <2>1, <2>4
    <2>5. ASSUME NEW w \in Workers, WorkerNext(w)
          PROVE  UNCHANGED upload
      BY <2>5 DEF WorkerNext, StartWorker, ClaimNext, Checkpoint, Heartbeat, CancelIfRequested,
         Return, Requeue, Complete, Fail, DeferExternal, CompleteSkippingTranscribe, Conclude,
         CrashWorker, AcquireResource, uploadVars
    <2>6. QED
      BY <2>1, <2>2, <2>3, <2>4, <2>5
      DEF Next, ApiNext, Tick, CancelReads, CancelConflicts, CancelWrites, RetryStage,
          WakeTranscribe, uploadVars, vars
  <1>3. QED BY <1>1, <1>2 DEF Born

\* A failed upload stays failed.
LEMMA UploadStays ==
    ASSUME RowsInv, [Next]_vars, NEW i \in Items, upload[i] = "failed"
    PROVE  upload'[i] = "failed"
  <1>1. ASSUME NEW t \in Tasks, CreateTask(t)
        PROVE  upload'[i] = "failed"
    BY <1>1, RowsAssumption DEF CreateTask, RowsInv, Born, TypeOK
  <1>2. ASSUME NEW j \in Items, CompleteUpload(j) \/ BindFailedUpload(j) \/ RecordUploadFailure(j)
        PROVE  upload'[i] = "failed"
    BY <1>2 DEF CompleteUpload, BindFailedUpload, RecordUploadFailure, RowsInv, TypeOK
  <1>3. ASSUME NEW w \in Workers, WorkerNext(w)
        PROVE  UNCHANGED upload
    BY <1>3 DEF WorkerNext, StartWorker, ClaimNext, Checkpoint, Heartbeat, CancelIfRequested,
       Return, Requeue, Complete, Fail, DeferExternal, CompleteSkippingTranscribe, Conclude,
       CrashWorker, AcquireResource, uploadVars
  <1>4. QED
    BY <1>1, <1>2, <1>3
    DEF Next, ApiNext, Tick, CancelReads, CancelConflicts, CancelWrites, RetryStage,
        WakeTranscribe, uploadVars, vars

LEMMA LeaseStep ==
    ASSUME RowsInv, [Next]_vars
    PROVE  LeaseIffRunning'
  <1>1. ASSUME NEW r \in Runs, upload'[ItemOf(r)] # "failed"
        PROVE  owner'[r] # NoWorker <=> status'[r] \in Leased
    <2>1. upload[ItemOf(r)] # "failed"
      BY <1>1, UploadStays, RunFields
    <2>2. owner[r] # NoWorker <=> status[r] \in Leased
      BY <2>1 DEF RowsInv, LeaseIffRunning
    <2>3. RowMove(r)
      BY StepMoves
    <2>4. NoWorker \notin Workers
      BY NullAssumption
    <2>5. QED
      BY <1>1, <2>2, <2>3, <2>4
      DEF RowMove, RowKept, Opened, Claimed, CancelAsked, Settled, Withdrawn, UploadFailed,
          Leased, EndedStageStatuses, SuccessfulStageStatuses, RetryableStageStatuses
  <1>2. QED BY <1>1 DEF LeaseIffRunning

LEMMA AttemptStep ==
    ASSUME RowsInv, [Next]_vars
    PROVE  OneOpenAttempt'
  <1> DEFINE Over(s) == s \in EndedStageStatuses \cup {"absent"}
  <1>1. /\ \A s \in {"failed", "canceled", "skipped", "completed"} : Over(s)
        /\ \A s \in {"queued", "running", "waiting_external", "cancel_requested"} : ~Over(s)
    BY DEF EndedStageStatuses, SuccessfulStageStatuses, RetryableStageStatuses
  <1>2. ASSUME NEW r \in Runs, ~Opened(r), ~Over(status'[r])
        PROVE  ~Over(status[r])
    <2>1. RowMove(r)
      BY StepMoves
    <2>2. QED
      BY <1>1, <1>2, <2>1
      DEF RowMove, RowKept, Claimed, CancelAsked, Settled, Withdrawn, UploadFailed, Leased
  <1>3. ASSUME NEW r \in Runs, ~Opened(r), status[r] = "absent"
        PROVE  status'[r] = "absent"
    <2>1. RowMove(r)
      BY StepMoves
    <2>2. QED
      BY <1>3, <2>1
      DEF RowMove, RowKept, Claimed, CancelAsked, Settled, Withdrawn, UploadFailed, Leased
  <1>4. ASSUME NEW r \in Runs, ~Over(status'[r])
        PROVE  IsLatest(status', r)
    <2>1. ASSUME NEW q \in Runs, ItemOf(q) = ItemOf(r), StageOf(q) = StageOf(r),
                 AttemptOf(q) > AttemptOf(r)
          PROVE  status'[q] = "absent"
      <3>1. q # r
        BY <2>1, RunFields
      <3>2. CASE Opened(r)
        BY <2>1, <3>1, <3>2, StepMoves DEF OpensLatest
      <3>3. CASE ~Opened(r)
        <4>1. IsLatest(status, r)
          BY <1>2, <1>4, <3>3 DEF RowsInv, OneOpenAttempt
        <4>2. status[q] = "absent"
          BY <2>1, <4>1, LatestIff
        <4>3. ~Opened(q)
          BY <1>4, <2>1, <3>1, StepMoves, RunFields DEF OpensLatest
        <4>4. QED BY <1>3, <4>2, <4>3
      <3>4. QED BY <3>2, <3>3
    <2>2. status'[r] # "absent"
      BY <1>4
    <2>3. QED BY <2>1, <2>2, LatestIff
  <1>5. QED BY <1>4 DEF OneOpenAttempt

LEMMA InitRows == Init => RowsInv
  BY InitType DEF Init, RowsInv, Born, LeaseIffRunning, OneOpenAttempt, Leased

LEMMA RowsStep ==
    ASSUME RowsInv, [Next]_vars
    PROVE  RowsInv'
  BY TypeStep, BornStep, LeaseStep, AttemptStep DEF RowsInv

LEMMA RowsAlways == Spec => []RowsInv
  BY InitRows, RowsStep, PTL DEF Spec

\* A row carries a lease owner exactly while it is running or being canceled: every path of
\* worker_store.py and tasks.py that ends, defers, requeues or recovers a run clears the lease.
THEOREM LeasesFollowStatus == Spec => []LeaseIffRunning
  BY RowsAlways, PTL DEF RowsInv

\* Only the newest attempt of a stage is open, whatever retries, wake-ups and recoveries did.
THEOREM AttemptsAreSerial == Spec => []OneOpenAttempt
  BY RowsAlways, PTL DEF RowsInv

-----------------------------------------------------------------------------
(* Inputs of active stages *)

\* When a source or transcribe stage is opened nothing of its item is active.
LEMMA CoreOpensAlone ==
    ASSUME RowsInv, [Next]_vars, NEW n \in Runs, Opened(n), StageOf(n) \in CoreStages,
           NEW r \in Runs, ItemOf(r) = ItemOf(n)
    PROVE  status'[r] \notin ActiveStageStatuses
  <1>1. "queued" \notin ActiveStageStatuses /\ "absent" \notin ActiveStageStatuses
    BY DEF ActiveStageStatuses
  <1>2. ASSUME NEW t \in Tasks, CreateTask(t)
        PROVE  status'[r] \notin ActiveStageStatuses
    <2>1. TaskOf[ItemOf(n)] = t
      BY <1>2 DEF CreateTask, Opened
    <2>2. status[r] = "absent"
      BY <1>2, <2>1 DEF CreateTask, RowsInv, Born
    <2>3. status'[r] \in {"absent", "queued"}
      BY <1>2, <2>2 DEF CreateTask
    <2>4. QED BY <1>1, <2>3
  <1>3. ASSUME NEW q \in Runs, RetryStage(q)
        PROVE  status'[r] \notin ActiveStageStatuses
    <2>1. n = RetryRow(q) /\ ItemOf(r) = ItemOf(q) /\ StageOf(q) \in CoreStages
      BY <1>3, RetryOpensNext DEF Opened
    <2>2. StageOf(r) \in RetryActiveConflicts[StageOf(q)]
      BY <2>1, RunFields DEF CoreStages, RetryActiveConflicts, Stages
    <2>3. status[r] \notin ActiveStageStatuses
      BY <1>3, <2>1, <2>2 DEF RetryStage, CanRetry
    <2>4. QED BY <1>1, <1>3, <2>3, RetryOpensNext
  <1>4. QED
    BY <1>2, <1>3, UploadMoves, CancelMoves, WakeMoves, StartMoves, ClaimMoves, CheckpointMoves,
       ReturnMoves
    DEF Next, ApiNext, WorkerNext, Tick, CrashWorker, AcquireResource, rowVars, vars, Opened

\* The stages a run reads from stay successful while none of them is opened again.
LEMMA InputsStay ==
    ASSUME RowsInv, [Next]_vars, NEW r \in Runs, DependenciesDone(status, r),
           upload'[ItemOf(r)] # "failed",
           \A n \in Runs : ItemOf(n) = ItemOf(r) /\ Opened(n) => StageOf(n) \notin CoreStages
    PROVE  DependenciesDone(status', r)
  <1>1. ASSUME NEW s \in StageDependencies[StageOf(r)]
        PROVE  \E d \in LatestRuns(status', ItemOf(r)) :
                  StageOf(d) = s /\ status'[d] \in SuccessfulStageStatuses
    <2>1. PICK d \in Runs : /\ ItemOf(d) = ItemOf(r) /\ IsLatest(status, d)
                            /\ StageOf(d) = s /\ status[d] \in SuccessfulStageStatuses
      BY DEF DependenciesDone, LatestRuns
    <2>2. s \in CoreStages
      BY RunFields DEF StageDependencies, CoreStages, Stages
    <2>3. status'[d] = status[d]
      BY <2>1, StepMoves
      DEF RowMove, RowKept, Opened, Claimed, CancelAsked, Settled, Withdrawn, UploadFailed, Leased,
          SuccessfulStageStatuses
    <2>4. ASSUME NEW q \in Runs, ItemOf(q) = ItemOf(d), StageOf(q) = StageOf(d),
                 AttemptOf(q) > AttemptOf(d)
          PROVE  status'[q] = "absent"
      <3>1. status[q] = "absent"
        BY <2>1, <2>4, LatestIff
      <3>2. ~Opened(q)
        BY <2>1, <2>2, <2>4
      <3>3. QED
        BY <3>1, <3>2, StepMoves
        DEF RowMove, RowKept, Claimed, CancelAsked, Settled, Withdrawn, UploadFailed, Leased
    <2>5. IsLatest(status', d)
      BY <2>1, <2>3, <2>4, LatestIff DEF SuccessfulStageStatuses
    <2>6. QED BY <2>1, <2>3, <2>5 DEF LatestRuns
  <1>2. QED BY <1>1 DEF DependenciesDone

LEMMA InputsStep ==
    ASSUME RowsInv, ActiveHasInputs, [Next]_vars
    PROVE  ActiveHasInputs'
  <1>1. ASSUME NEW r \in Runs, status'[r] \in ActiveStageStatuses, upload'[ItemOf(r)] # "failed"
        PROVE  DependenciesDone(status', r)
    <2>1. upload[ItemOf(r)] # "failed"
      BY <1>1, UploadStays, RunFields
    <2>2. status[r] \in ActiveStageStatuses \/ r \in Claimable
      BY <1>1, StepMoves
      DEF RowMove, RowKept, Opened, Claimed, CancelAsked, Settled, Withdrawn, UploadFailed, Leased,
          ActiveStageStatuses
    <2>3. DependenciesDone(status, r)
      BY <2>1, <2>2 DEF ActiveHasInputs, Claimable
    <2>4. QED
      BY <1>1, <2>3, CoreOpensAlone, InputsStay
  <1>2. QED BY <1>1 DEF ActiveHasInputs

\* While a stage is in flight its inputs stay successful: claim_next starts it only then, and
\* retry_stage refuses to reopen a source or a transcription under active stages.
THEOREM InputsAreDone == Spec => []ActiveHasInputs
  <1>1. Init => ActiveHasInputs
    BY DEF Init, ActiveHasInputs, ActiveStageStatuses
  <1>2. RowsInv /\ ActiveHasInputs /\ [Next]_vars => ActiveHasInputs'
    BY InputsStep
  <1>3. QED BY <1>1, <1>2, RowsAlways, PTL DEF Spec

-----------------------------------------------------------------------------
(* Resource rows *)

\* The run of a resource row still carries the lease the row was taken under.
Backs(tok) ==
    /\ status[tok.run] \in Leased
    /\ owner[tok.run] = tok.worker
    /\ gen[tok.run] = tok.gen

\* A step that takes no resource frees at least those of the runs it settles.
LEMMA RowsFreed ==
    ASSUME RowsInv, ResourceFollowsRun, [Next]_vars,
           \A k \in Resources : resOwner'[k] \in {resOwner[k], NoToken},
           \A k \in Resources :
              resOwner'[k] # NoToken /\ Backs(resOwner[k]) =>
                 /\ gen'[resOwner[k].run] = gen[resOwner[k].run]
                 /\ ~Settled(resOwner[k].run)
    PROVE  ResourceFollowsRun'
  <1>1. ASSUME NEW k \in Resources, resOwner'[k] # NoToken,
               upload'[ItemOf(resOwner'[k].run)] # "failed"
        PROVE  Backs(resOwner[k])' /\ resOwner'[k] = resOwner[k]
    <2>1. resOwner'[k] = resOwner[k] /\ resOwner[k] # NoToken
      BY <1>1
    <2>2. resOwner[k].run \in Runs
      BY <2>1 DEF RowsInv, TypeOK, Tokens
    <2>3. upload[ItemOf(resOwner[k].run)] # "failed"
      BY <1>1, <2>1, <2>2, UploadStays, RunFields
    <2>4. Backs(resOwner[k])
      BY <2>1, <2>3 DEF ResourceFollowsRun, Backs
    <2>5. /\ gen'[resOwner[k].run] = gen[resOwner[k].run]
          /\ ~Settled(resOwner[k].run)
      BY <1>1, <2>4
    <2>6. RowMove(resOwner[k].run)
      BY <2>2, StepMoves
    <2>7. /\ status'[resOwner[k].run] \in Leased
          /\ owner'[resOwner[k].run] = owner[resOwner[k].run]
      BY <1>1, <2>1, <2>4, <2>5, <2>6
      DEF RowMove, RowKept, Opened, Claimed, CancelAsked, Withdrawn, UploadFailed, Leased, Backs
    <2>8. QED BY <2>1, <2>4, <2>5, <2>7 DEF Backs
  <1>2. QED BY <1>1 DEF ResourceFollowsRun, Backs

\* The end of a run, when its worker still owns the lease, frees what the run's row backs.
LEMMA EndFrees ==
    ASSUME RowsInv, ResourceFollowsRun, [Next]_vars, NEW w \in Workers, pc[w] \in Handling,
           OwnsLease(w), ReleaseResources({TokenOf(w)}), UNCHANGED gen,
           \A r \in Runs \ {HeldRun(w)} : ~Settled(r)
    PROVE  ResourceFollowsRun'
  <1>1. \A k \in Resources : resOwner'[k] = IF resOwner[k] = TokenOf(w) THEN NoToken ELSE resOwner[k]
    BY DEF ReleaseResources
  <1>2. ASSUME NEW k \in Resources, resOwner'[k] # NoToken, Backs(resOwner[k])
        PROVE  /\ gen'[resOwner[k].run] = gen[resOwner[k].run]
               /\ ~Settled(resOwner[k].run)
    <2>1. resOwner[k] \in Tokens /\ resOwner[k] # TokenOf(w)
      BY <1>1, <1>2 DEF RowsInv, TypeOK
    <2>2. resOwner[k].run # HeldRun(w)
      BY <1>2, <2>1, HandlerHasRun DEF RowsInv, Backs, OwnsLease, TokenOf, HeldRun, Tokens
    <2>3. QED BY <2>1, <2>2 DEF Tokens
  <1>3. QED BY <1>1, <1>2, RowsFreed

LEMMA ConcludeFrees ==
    ASSUME RowsInv, ResourceFollowsRun, [Next]_vars, NEW w \in Workers, NEW from \in Handling,
           NEW s, NEW warn, Conclude(w, from, s, warn)
    PROVE  ResourceFollowsRun'
  <1>1. CASE ClaimMatches(w)
    <2>1. /\ pc[w] \in Handling /\ OwnsLease(w) /\ UNCHANGED gen
          /\ ReleaseResources({TokenOf(w)}) /\ status' = [status EXCEPT ![HeldRun(w)] = s]
      BY <1>1 DEF Conclude, ClaimMatches, EndRun
    <2>2. \A r \in Runs \ {HeldRun(w)} : ~Settled(r)
      BY <2>1 DEF Settled, Leased, EndedStageStatuses, SuccessfulStageStatuses,
         RetryableStageStatuses, RowsInv, TypeOK
    <2>3. QED BY <2>1, <2>2, EndFrees
  <1>2. CASE ~ClaimMatches(w)
    <2>1. UNCHANGED <<status, gen, resOwner>>
      BY <1>2 DEF Conclude, rowVars, resourceVars
    <2>2. QED
      BY <2>1, RowsFreed DEF Settled, Leased, EndedStageStatuses, SuccessfulStageStatuses,
         RetryableStageStatuses
  <1>3. QED BY <1>1, <1>2

LEMMA ReturnFrees ==
    ASSUME RowsInv, ResourceFollowsRun, [Next]_vars, NEW w \in Workers, Return(w)
    PROVE  ResourceFollowsRun'
  <1>1. "handling" \in Handling /\ "requeueing" \in Handling
    BY DEF Handling
  <1>2. CASE Requeue(w)
    BY <1>1, <1>2, ConcludeFrees DEF Requeue
  <1>3. ASSUME NEW warn \in WarningValues,
               \/ \E s \in SuccessfulStageStatuses : Complete(w, s, warn)
               \/ Fail(w, warn) \/ DeferExternal(w, warn)
        PROVE  ResourceFollowsRun'
    BY <1>1, <1>3, ConcludeFrees DEF Complete, Fail, DeferExternal
  <1>4. ASSUME NEW warn \in WarningValues, CompleteSkippingTranscribe(w, warn)
        PROVE  ResourceFollowsRun'
    <2> DEFINE h == HeldRun(w)
               transcribe == {q \in LatestRuns(status, ItemOf(h)) :
                                StageOf(q) = "transcribe" /\ status[q] = "queued"}
    <2>1. CASE ClaimMatches(w) /\ transcribe # {}
      <3>1. /\ pc[w] \in Handling /\ OwnsLease(w) /\ UNCHANGED gen
            /\ ReleaseResources({TokenOf(w)})
            /\ \A q \in Runs : status'[q] = IF q = h THEN "completed"
                                            ELSE IF q \in transcribe THEN "skipped" ELSE status[q]
        BY <1>1, <1>4, <2>1 DEF CompleteSkippingTranscribe, ClaimMatches
      <3>2. ASSUME NEW r \in Runs \ {h}
            PROVE  ~Settled(r)
        <4>1. status'[r] = status[r] \/ status[r] = "queued"
          BY <3>1
        <4>2. QED
          BY <4>1 DEF Settled, Leased, EndedStageStatuses, SuccessfulStageStatuses,
             RetryableStageStatuses
      <3>3. QED BY <3>1, <3>2, EndFrees
    <2>2. CASE ~(ClaimMatches(w) /\ transcribe # {})
      <3>1. UNCHANGED <<status, gen, resOwner>>
        BY <1>4, <2>2 DEF CompleteSkippingTranscribe, rowVars, resourceVars
      <3>2. QED
        BY <3>1, RowsFreed DEF Settled, Leased, EndedStageStatuses, SuccessfulStageStatuses,
           RetryableStageStatuses
    <2>3. QED BY <2>1, <2>2
  <1>5. QED BY <1>2, <1>3, <1>4 DEF Return

LEMMA CheckpointFrees ==
    ASSUME RowsInv, ResourceFollowsRun, [Next]_vars, NEW w \in Workers, Checkpoint(w)
    PROVE  ResourceFollowsRun'
  <1>1. CASE CancelIfRequested(w) /\ CancelSeen(w)
    <2>1. /\ pc[w] \in Handling /\ OwnsLease(w) /\ UNCHANGED gen
          /\ ReleaseResources({TokenOf(w)}) /\ status' = [status EXCEPT ![HeldRun(w)] = "canceled"]
      BY <1>1 DEF CancelIfRequested, CancelSeen, EndRun, Handling
    <2>2. \A r \in Runs \ {HeldRun(w)} : ~Settled(r)
      BY <2>1 DEF Settled, Leased, EndedStageStatuses, SuccessfulStageStatuses,
         RetryableStageStatuses, RowsInv, TypeOK
    <2>3. QED BY <2>1, <2>2, EndFrees
  <1>2. CASE ~(CancelIfRequested(w) /\ CancelSeen(w))
    <2>1. UNCHANGED <<status, gen, resOwner>>
      BY <1>2 DEF Checkpoint, CancelIfRequested, Heartbeat, rowVars, resourceVars
    <2>2. QED
      BY <2>1, RowsFreed DEF Settled, Leased, EndedStageStatuses, SuccessfulStageStatuses,
         RetryableStageStatuses
  <1>3. QED BY <1>1, <1>2

\* Recovery releases the resources of exactly the claims it makes stale.
LEMMA StartFrees ==
    ASSUME RowsInv, ResourceFollowsRun, [Next]_vars, NEW w \in Workers, StartWorker(w)
    PROVE  ResourceFollowsRun'
  <1> DEFINE expired == {r \in Runs : status[r] \in Leased /\ owner[r] # NoWorker /\ left[r] = 0}
  <1>1. /\ \A r \in Runs : r \notin expired => status'[r] = status[r] /\ gen'[r] = gen[r]
        /\ \A k \in Resources :
              resOwner'[k] = IF resOwner[k] \in {RowToken(r) : r \in expired} THEN NoToken
                             ELSE resOwner[k]
    BY DEF StartWorker, ReleaseResources
  <1>2. ASSUME NEW k \in Resources, resOwner'[k] # NoToken, Backs(resOwner[k])
        PROVE  /\ gen'[resOwner[k].run] = gen[resOwner[k].run]
               /\ ~Settled(resOwner[k].run)
    <2>1. resOwner[k] \in Tokens /\ resOwner[k] \notin {RowToken(r) : r \in expired}
      BY <1>1, <1>2 DEF RowsInv, TypeOK
    <2>2. resOwner[k] = RowToken(resOwner[k].run)
      BY <1>2, <2>1 DEF RowToken, Backs, Tokens
    <2>3. resOwner[k].run \notin expired /\ resOwner[k].run \in Runs
      BY <2>1, <2>2 DEF Tokens
    <2>4. QED
      BY <1>1, <2>3 DEF Settled, Leased, EndedStageStatuses, SuccessfulStageStatuses,
         RetryableStageStatuses
  <1>3. QED BY <1>1, <1>2, RowsFreed

LEMMA AcquireFollows ==
    ASSUME RowsInv, ResourceFollowsRun, [Next]_vars, NEW w \in Workers, NEW j \in Resources,
           AcquireResource(w, j)
    PROVE  ResourceFollowsRun'
  <1>1. UNCHANGED <<status, owner, gen, upload>> /\ pc[w] \in Handling
    BY DEF AcquireResource, rowVars, uploadVars, Handling
  <1>2. CASE UNCHANGED resOwner
    BY <1>1, <1>2 DEF ResourceFollowsRun
  <1>3. CASE ~UNCHANGED resOwner
    <2>1. ClaimMatches(w) /\ resOwner' = [resOwner EXCEPT ![j] = TokenOf(w)]
      BY <1>3 DEF AcquireResource, resourceVars
    <2>2. Backs(TokenOf(w))
      BY <2>1 DEF Backs, TokenOf, HeldRun, ClaimMatches, OwnsLease, Leased
    <2>3. \A k \in Resources : resOwner'[k] = IF k = j THEN TokenOf(w) ELSE resOwner[k]
      BY <2>1 DEF RowsInv, TypeOK
    <2>4. QED BY <1>1, <2>2, <2>3 DEF ResourceFollowsRun, Backs
  <1>4. QED BY <1>2, <1>3

LEMMA FollowStep ==
    ASSUME RowsInv, ResourceFollowsRun, [Next]_vars
    PROVE  ResourceFollowsRun'
  <1>1. ASSUME UNCHANGED <<gen, resOwner>>, \A r \in Runs : ~Settled(r)
        PROVE  ResourceFollowsRun'
    <2>1. ASSUME NEW k \in Resources, resOwner'[k] # NoToken
          PROVE  resOwner[k].run \in Runs
      BY <1>1, <2>1 DEF RowsInv, TypeOK, Tokens
    <2>2. QED BY <1>1, <2>1, RowsFreed
  <1>2. CASE ApiNext
    <2>1. UNCHANGED <<gen, resOwner>>
      BY <1>2 DEF ApiNext, CreateTask, CancelReads, CancelConflicts, CancelWrites, CompleteUpload,
         BindFailedUpload, RecordUploadFailure, RetryStage, WakeTranscribe, rowVars, resourceVars
    <2>2. ASSUME NEW t \in Tasks, CancelWrites(t), NEW r \in Runs
          PROVE  ~Settled(r)
      <3>1. status[r] \in Leased => status'[r] \in Leased
        BY <2>2 DEF CancelWrites, Leased
      <3>2. QED
        BY <3>1 DEF Settled, Leased, EndedStageStatuses, SuccessfulStageStatuses,
           RetryableStageStatuses
    <2>3. ASSUME NEW r \in Runs, NEW q \in Runs, RetryStage(q)
          PROVE  ~Settled(r)
      BY <2>3, RetryOpensNext DEF Settled, Leased, EndedStageStatuses, SuccessfulStageStatuses,
         RetryableStageStatuses
    <2>4. ASSUME NEW r \in Runs, NEW q \in Runs, WakeTranscribe(q)
          PROVE  ~Settled(r)
      BY <2>4 DEF WakeTranscribe, Settled, Leased, EndedStageStatuses, SuccessfulStageStatuses,
         RetryableStageStatuses, RowsInv, TypeOK
    <2>5. ASSUME NEW t \in Tasks, CreateTask(t), NEW r \in Runs
          PROVE  ~Settled(r)
      BY <2>5, CreateTaskMoves DEF CreateTask, RowsInv, Born, Settled, Leased, EndedStageStatuses,
         SuccessfulStageStatuses, RetryableStageStatuses
    <2>6. CASE UNCHANGED status
      BY <1>1, <2>1, <2>6 DEF Settled, Leased, EndedStageStatuses, SuccessfulStageStatuses,
         RetryableStageStatuses
    <2>7. ASSUME NEW i \in Items, RecordUploadFailure(i)
          PROVE  ResourceFollowsRun'
      <3>1. /\ upload'[i] = "failed" /\ UNCHANGED <<owner, gen, resOwner>>
            /\ \A r \in Runs : ItemOf(r) # i => status'[r] = status[r]
            /\ \A j \in Items \ {i} : upload'[j] = upload[j]
        BY <2>7 DEF RecordUploadFailure, resourceVars, RowsInv, TypeOK
      <3>2. ASSUME NEW k \in Resources, resOwner[k] # NoToken
            PROVE  resOwner[k].run \in Runs /\ ItemOf(resOwner[k].run) \in Items
        BY <3>2, RunFields DEF RowsInv, TypeOK, Tokens
      <3>3. QED BY <3>1, <3>2 DEF ResourceFollowsRun
    <2>8. QED
      BY <1>1, <1>2, <2>1, <2>2, <2>3, <2>4, <2>5, <2>6, <2>7
      DEF ApiNext, CancelReads, CancelConflicts, CompleteUpload, BindFailedUpload, rowVars
  <1>3. CASE UNCHANGED <<status, gen, resOwner>>
    BY <1>1, <1>3 DEF Settled, Leased, EndedStageStatuses, SuccessfulStageStatuses,
       RetryableStageStatuses
  <1>4. ASSUME NEW w \in Workers, ClaimNext(w)
        PROVE  ResourceFollowsRun'
    <2>1. \A r \in Runs : ~Settled(r)
      BY <1>4 DEF ClaimNext, Claimable, Settled, Leased, EndedStageStatuses,
         SuccessfulStageStatuses, RetryableStageStatuses, RowsInv, TypeOK
    <2>2. QED BY <1>1, <1>4, <2>1 DEF ClaimNext, resourceVars
  <1>5. ASSUME NEW w \in Workers, WorkerNext(w)
        PROVE  ResourceFollowsRun'
    BY <1>3, <1>4, <1>5, StartFrees, CheckpointFrees, ReturnFrees, AcquireFollows
    DEF WorkerNext, CrashWorker, rowVars, resourceVars
  <1>6. QED
    BY <1>2, <1>3, <1>5 DEF Next, Tick, vars, rowVars, resourceVars

\* No path leaves a resource row behind for a run that no longer leases it.
THEOREM ResourcesAreFreed == Spec => []ResourceFollowsRun
  <1>1. Init => ResourceFollowsRun
    BY DEF Init, ResourceFollowsRun
  <1>2. RowsInv /\ ResourceFollowsRun /\ [Next]_vars => ResourceFollowsRun'
    BY FollowStep
  <1>3. QED BY <1>1, <1>2, RowsAlways, PTL DEF Spec

-----------------------------------------------------------------------------
(* The statuses of items and tasks *)

InFlight == {"running", "waiting_external"}
Live == {"running", "cancel_requested"}

\* An item shows that one of its stages is in flight.
ItemsLive ==
    \A r \in Runs :
        status[r] \in InFlight /\ upload[ItemOf(r)] # "failed" => itemStatus[ItemOf(r)] \in Live

QuietInv == RowsInv /\ ItemsLive /\ ClosedTaskIsQuiet

\* A stage has one newest attempt, and LatestStatus reads it.
LEMMA LatestStatusReads ==
    ASSUME NEW st, NEW i, NEW r \in Runs, ItemOf(r) = i, IsLatest(st, r)
    PROVE  StageOf(r) \in DOMAIN LatestStatus(st, i) /\ LatestStatus(st, i)[StageOf(r)] = st[r]
  <1>1. r \in LatestRuns(st, i)
    BY DEF LatestRuns
  <1>2. ASSUME NEW q \in LatestRuns(st, i), StageOf(q) = StageOf(r)
        PROVE  q = r
    <2>1. q \in Runs /\ ItemOf(q) = ItemOf(r) /\ IsLatest(st, q)
      BY DEF LatestRuns
    <2>2. st[q] # "absent" /\ st[r] # "absent"
      BY <2>1 DEF IsLatest
    <2>3. ~(AttemptOf(q) > AttemptOf(r)) /\ ~(AttemptOf(r) > AttemptOf(q))
      BY <1>2, <2>1, <2>2, LatestIff
    <2>4. AttemptOf(q) = AttemptOf(r)
      BY <2>1, <2>3, RunFields
    <2>5. QED BY <1>2, <2>1, <2>4, RunFields
  <1>3. (CHOOSE q \in LatestRuns(st, i) : StageOf(q) = StageOf(r)) = r
    BY <1>1, <1>2
  <1>4. QED BY <1>1, <1>3 DEF LatestStatus

\* The aggregate of an item with a stage in flight says so.
LEMMA ItemAggregateLive ==
    ASSUME NEW st, NEW warn, NEW r \in Runs, IsLatest(st, r), st[r] \in InFlight
    PROVE  ItemAggregate(ItemOf(r), st, warn) \in Live
  <1> DEFINE latest == LatestStatus(st, ItemOf(r))
             full   == WithAudioDefault(latest, TaskOf[ItemOf(r)])
  <1>1. StageOf(r) \in DOMAIN latest /\ latest[StageOf(r)] \in InFlight
    BY LatestStatusReads
  <1>2. StageOf(r) \in DOMAIN full /\ full[StageOf(r)] \in InFlight
    BY <1>1 DEF WithAudioDefault
  <1>3. InFlight \cap {full[s] : s \in DOMAIN full} # {}
    BY <1>2
  <1>4. QED BY <1>3 DEF ItemAggregate, AggregateItemStatus, InFlight, Live

LEMMA TaskAggregateLive ==
    ASSUME NEW statuses, statuses \cap Live # {}
    PROVE  AggregateTaskStatus(statuses) \notin TerminalStatuses
  BY DEF AggregateTaskStatus, Live, TerminalStatuses

\* _recalculate_item_and_task, over every item whose rows a step changed.
LEMMA RecalculateQuiet ==
    ASSUME QuietInv, OneOpenAttempt', NEW affected, Recalculate(affected), UNCHANGED upload,
           \A r \in Runs : ItemOf(r) \notin affected => status'[r] = status[r]
    PROVE  ItemsLive' /\ ClosedTaskIsQuiet'
  <1>1. ASSUME NEW r \in Runs, status'[r] \in InFlight, upload[ItemOf(r)] # "failed"
        PROVE  itemStatus'[ItemOf(r)] \in Live
    <2>1. CASE ItemOf(r) \in affected
      <3>1. IsLatest(status', r)
        BY <1>1 DEF OneOpenAttempt, InFlight, EndedStageStatuses, SuccessfulStageStatuses,
           RetryableStageStatuses
      <3>2. itemStatus'[ItemOf(r)] = ItemAggregate(ItemOf(r), status', warning')
        BY <2>1, RunFields DEF Recalculate
      <3>3. QED BY <1>1, <3>1, <3>2, ItemAggregateLive
    <2>2. CASE ItemOf(r) \notin affected
      BY <1>1, <2>2, RunFields DEF Recalculate, QuietInv, ItemsLive
    <2>3. QED BY <2>1, <2>2
  <1>2. ASSUME NEW r \in Runs, status'[r] \in InFlight, upload[ItemOf(r)] # "failed"
        PROVE  taskStatus'[TaskOf[ItemOf(r)]] \notin TerminalStatuses
    <2> DEFINE t == TaskOf[ItemOf(r)]
    <2>1. CASE \E i \in affected : TaskOf[i] = t
      <3>1. taskStatus'[t] = AggregateTaskStatus({itemStatus'[i] : i \in ItemsOf(t)})
        BY <2>1, RunFields DEF Recalculate
      <3>2. itemStatus'[ItemOf(r)] \in {itemStatus'[i] : i \in ItemsOf(t)}
        BY RunFields DEF ItemsOf
      <3>3. {itemStatus'[i] : i \in ItemsOf(t)} \cap Live # {}
        BY <1>1, <1>2, <3>2
      <3>4. QED BY <3>1, <3>3, TaskAggregateLive
    <2>2. CASE ~\E i \in affected : TaskOf[i] = t
      <3>1. status'[r] = status[r] /\ taskStatus'[t] = taskStatus[t]
        BY <2>2, RunFields DEF Recalculate
      <3>2. QED BY <1>2, <3>1 DEF QuietInv, ClosedTaskIsQuiet, InFlight
    <2>3. QED BY <2>1, <2>2
  <1>3. QED BY <1>1, <1>2 DEF ItemsLive, ClosedTaskIsQuiet, InFlight

\* A row that was in flight, in an item and a task that keep their status.
LEMMA KeptQuiet ==
    ASSUME QuietInv, NEW r \in Runs, status[r] \in InFlight, upload[ItemOf(r)] # "failed",
           itemStatus'[ItemOf(r)] = itemStatus[ItemOf(r)],
           taskStatus'[TaskOf[ItemOf(r)]] = taskStatus[TaskOf[ItemOf(r)]]
    PROVE  /\ itemStatus'[ItemOf(r)] \in Live
           /\ taskStatus'[TaskOf[ItemOf(r)]] \notin TerminalStatuses
  BY DEF QuietInv, ItemsLive, ClosedTaskIsQuiet, InFlight

LEMMA ApiQuiet ==
    ASSUME QuietInv, [Next]_vars, ApiNext, NEW r \in Runs, status'[r] \in InFlight,
           upload'[ItemOf(r)] # "failed"
    PROVE  /\ itemStatus'[ItemOf(r)] \in Live
           /\ taskStatus'[TaskOf[ItemOf(r)]] \notin TerminalStatuses
  <1> DEFINE i == ItemOf(r)
             t == TaskOf[i]
  <1>1. upload[i] # "failed"
    BY UploadStays, RunFields DEF QuietInv
  <1>2. i \in Items /\ t \in Tasks
    BY RunFields
  <1>3. ASSUME NEW u \in Tasks, CreateTask(u)
        PROVE  itemStatus'[i] \in Live /\ taskStatus'[t] \notin TerminalStatuses
    <2>1. status[r] \in InFlight
      BY <1>3 DEF CreateTask, InFlight
    <2>2. u # t
      BY <1>3, <2>1 DEF CreateTask, QuietInv, RowsInv, Born, InFlight
    <2>3. itemStatus'[i] = itemStatus[i] /\ taskStatus'[t] = taskStatus[t]
      BY <1>2, <1>3, <2>2 DEF CreateTask, QuietInv, RowsInv, TypeOK
    <2>4. QED BY <1>1, <2>1, <2>3, KeptQuiet
  <1>4. ASSUME NEW j \in Items, RecordUploadFailure(j)
        PROVE  itemStatus'[i] \in Live /\ taskStatus'[t] \notin TerminalStatuses
    <2>1. i # j
      BY <1>2, <1>4 DEF RecordUploadFailure, QuietInv, RowsInv, TypeOK
    <2>2. j \in UploadItems
      BY <1>4 DEF RecordUploadFailure, QuietInv, RowsInv, Born
    <2>3. TaskOf[j] # t
      BY <1>2, <2>1, <2>2, RowsAssumption
    <2>4. itemStatus'[i] = itemStatus[i] /\ taskStatus'[t] = taskStatus[t]
      BY <1>2, <1>4, <2>1, <2>3 DEF RecordUploadFailure, QuietInv, RowsInv, TypeOK
    <2>5. status[r] \in InFlight
      BY <1>4, <2>1 DEF RecordUploadFailure
    <2>6. QED BY <1>1, <2>4, <2>5, KeptQuiet
  <1>5. ASSUME NEW u \in Tasks, CancelWrites(u)
        PROVE  itemStatus'[i] \in Live /\ taskStatus'[t] \notin TerminalStatuses
    <2>1. status[r] \in InFlight /\ r \notin RunsOf(u)
      BY <1>5 DEF CancelWrites, InFlight
    <2>2. u # t
      BY <2>1 DEF RunsOf
    <2>3. itemStatus'[i] = itemStatus[i] /\ taskStatus'[t] = taskStatus[t]
      BY <1>2, <1>5, <2>2 DEF CancelWrites, QuietInv, RowsInv, TypeOK
    <2>4. QED BY <1>1, <2>1, <2>3, KeptQuiet
  <1>6. ASSUME NEW q \in Runs, RetryStage(q)
        PROVE  itemStatus'[i] \in Live /\ taskStatus'[t] \notin TerminalStatuses
    <2> DEFINE active == {p \in RunsOf(TaskOf[ItemOf(q)]) : status[p] \in ActiveStageStatuses}
    <2>1. status[r] \in InFlight
      BY <1>6, RetryOpensNext DEF QuietInv, InFlight
    <2>2. /\ itemStatus' = [itemStatus EXCEPT ![ItemOf(q)] =
                IF \E p \in active : ItemOf(p) = ItemOf(q) THEN "running" ELSE "queued"]
          /\ taskStatus' = [taskStatus EXCEPT ![TaskOf[ItemOf(q)]] =
                IF active # {} THEN "running" ELSE "queued"]
      BY <1>6 DEF RetryStage
    <2>3. TaskOf[ItemOf(q)] = t => r \in active
      BY <2>1 DEF RunsOf, InFlight, ActiveStageStatuses
    <2>4. itemStatus'[i] \in Live
      <3>1. CASE ItemOf(q) = i
        BY <1>2, <2>2, <2>3, <3>1 DEF QuietInv, RowsInv, TypeOK, Live
      <3>2. CASE ItemOf(q) # i
        BY <1>1, <1>2, <2>1, <2>2, <3>2 DEF QuietInv, RowsInv, TypeOK, ItemsLive
      <3>3. QED BY <3>1, <3>2
    <2>5. taskStatus'[t] \notin TerminalStatuses
      <3>1. CASE TaskOf[ItemOf(q)] = t
        BY <1>2, <2>2, <3>1 DEF QuietInv, RowsInv, TypeOK, TerminalStatuses
      <3>2. CASE TaskOf[ItemOf(q)] # t
        BY <1>1, <1>2, <2>1, <2>2, <3>2
        DEF QuietInv, RowsInv, TypeOK, ClosedTaskIsQuiet, InFlight
      <3>3. QED BY <3>1, <3>2
    <2>6. QED BY <2>4, <2>5
  <1>7. ASSUME NEW q \in Runs, WakeTranscribe(q)
        PROVE  itemStatus'[i] \in Live /\ taskStatus'[t] \notin TerminalStatuses
    <2>1. status[r] \in InFlight /\ UNCHANGED containerVars
      BY <1>7 DEF WakeTranscribe, QuietInv, RowsInv, TypeOK, InFlight
    <2>2. QED BY <1>1, <2>1, KeptQuiet DEF containerVars
  <1>8. CASE UNCHANGED <<containerVars, status>>
    BY <1>1, <1>8, KeptQuiet DEF containerVars
  <1>9. QED
    BY <1>3, <1>4, <1>5, <1>6, <1>7, <1>8
    DEF ApiNext, CancelReads, CancelConflicts, CompleteUpload, BindFailedUpload, rowVars

\* A worker's transaction recalculates every item it changed, or changes nothing shown.
LEMMA WorkerRecalculates ==
    ASSUME RowsInv, NEW w \in Workers, WorkerNext(w)
    PROVE  /\ UNCHANGED upload
           /\ \/ UNCHANGED <<containerVars, status>>
              \/ \E affected :
                   /\ Recalculate(affected)
                   /\ \A r \in Runs : ItemOf(r) \notin affected => status'[r] = status[r]
  <1> DEFINE Shown == \/ UNCHANGED <<containerVars, status>>
                      \/ \E affected :
                           /\ Recalculate(affected)
                           /\ \A r \in Runs : ItemOf(r) \notin affected => status'[r] = status[r]
  <1>1. ASSUME NEW s, NEW warn, EndRun(w, s, warn)
        PROVE  Shown
    <2>1. /\ Recalculate({ItemOf(HeldRun(w))})
          /\ status' = [status EXCEPT ![HeldRun(w)] = s]
      BY <1>1 DEF EndRun
    <2>2. \A r \in Runs : ItemOf(r) \notin {ItemOf(HeldRun(w))} => status'[r] = status[r]
      BY <2>1 DEF RowsInv, TypeOK
    <2>3. QED BY <2>1, <2>2
  <1>2. CASE StartWorker(w)
    <2> DEFINE expired == {r \in Runs : status[r] \in Leased /\ owner[r] # NoWorker /\ left[r] = 0}
    <2>1. /\ Recalculate({ItemOf(r) : r \in expired})
          /\ \A r \in Runs : r \notin expired => status'[r] = status[r]
      BY <1>2 DEF StartWorker
    <2>2. \A r \in Runs : ItemOf(r) \notin {ItemOf(q) : q \in expired} => status'[r] = status[r]
      BY <2>1
    <2>3. QED BY <1>2, <2>1, <2>2 DEF StartWorker, uploadVars
  <1>3. CASE ClaimNext(w)
    <2>1. PICK q \in Claimable : status' = [status EXCEPT ![q] = "running"]
                                 /\ Recalculate({ItemOf(q)})
      BY <1>3 DEF ClaimNext
    <2>2. \A r \in Runs : ItemOf(r) \notin {ItemOf(q)} => status'[r] = status[r]
      BY <2>1 DEF RowsInv, TypeOK
    <2>3. QED BY <1>3, <2>1, <2>2 DEF ClaimNext, uploadVars
  <1>4. CASE Checkpoint(w)
    BY <1>1, <1>4 DEF Checkpoint, CancelIfRequested, Heartbeat, uploadVars, rowVars
  <1>5. ASSUME NEW warn, CompleteSkippingTranscribe(w, warn)
        PROVE  Shown /\ UNCHANGED upload
    <2> DEFINE h == HeldRun(w)
               transcribe == {q \in LatestRuns(status, ItemOf(h)) :
                                StageOf(q) = "transcribe" /\ status[q] = "queued"}
    <2>1. CASE ClaimMatches(w) /\ transcribe # {}
      <3>1. /\ Recalculate({ItemOf(h)})
            /\ \A q \in Runs : status'[q] = IF q = h THEN "completed"
                                            ELSE IF q \in transcribe THEN "skipped" ELSE status[q]
        BY <1>5, <2>1 DEF CompleteSkippingTranscribe
      <3>2. \A r \in Runs : ItemOf(r) \notin {ItemOf(h)} => status'[r] = status[r]
        BY <3>1 DEF LatestRuns
      <3>3. QED BY <1>5, <3>1, <3>2 DEF CompleteSkippingTranscribe, uploadVars
    <2>2. CASE ~(ClaimMatches(w) /\ transcribe # {})
      BY <1>5, <2>2 DEF CompleteSkippingTranscribe, uploadVars, rowVars
    <2>3. QED BY <2>1, <2>2
  <1>6. ASSUME NEW from, NEW s, NEW warn, Conclude(w, from, s, warn)
        PROVE  Shown /\ UNCHANGED upload
    BY <1>1, <1>6 DEF Conclude, uploadVars, rowVars
  <1>7. CASE Return(w)
    BY <1>5, <1>6, <1>7 DEF Return, Requeue, Complete, Fail, DeferExternal
  <1>8. QED
    BY <1>2, <1>3, <1>4, <1>7 DEF WorkerNext, CrashWorker, AcquireResource, uploadVars, rowVars

LEMMA QuietStep ==
    ASSUME QuietInv, [Next]_vars
    PROVE  QuietInv'
  <1>1. RowsInv'
    BY RowsStep DEF QuietInv
  <1>2. CASE ApiNext
    BY <1>1, <1>2, ApiQuiet DEF QuietInv, ItemsLive, ClosedTaskIsQuiet, InFlight
  <1>3. CASE UNCHANGED <<containerVars, status, upload>>
    BY <1>1, <1>3 DEF QuietInv, ItemsLive, ClosedTaskIsQuiet, containerVars
  <1>4. ASSUME NEW w \in Workers, WorkerNext(w)
        PROVE  QuietInv'
    <2>1. CASE UNCHANGED <<containerVars, status>>
      BY <1>3, <1>4, <2>1, WorkerRecalculates DEF QuietInv
    <2>2. CASE ~UNCHANGED <<containerVars, status>>
      BY <1>1, <1>4, <2>2, WorkerRecalculates, RecalculateQuiet DEF QuietInv, RowsInv
    <2>3. QED BY <2>1, <2>2
  <1>5. QED
    BY <1>2, <1>3, <1>4 DEF Next, Tick, vars, uploadVars, rowVars

\* A task shown as over has nothing running and nothing at the provider: the aggregation of
\* pipeline.py sees the newest attempts, cancel_task closes what is in flight, and retry_stage
\* writes the statuses of an open item.
THEOREM ClosedTasksAreQuiet == Spec => []ClosedTaskIsQuiet
  <1>1. Init => QuietInv
    BY InitRows DEF Init, QuietInv, ItemsLive, ClosedTaskIsQuiet, InFlight
  <1>2. QuietInv /\ [Next]_vars => QuietInv'
    BY QuietStep
  <1>3. QuietInv => ClosedTaskIsQuiet
    BY DEF QuietInv
  <1>4. QED BY <1>1, <1>2, <1>3, PTL DEF Spec

-----------------------------------------------------------------------------
(* The queue implements the fenced lease *)

IdleHasNoClaim == \A w \in Workers : pc[w] \in Handling \/ claim[w] = NoClaim

FenceInv == RowsInv /\ IdleHasNoClaim

LEMMA IdleStep ==
    ASSUME FenceInv, [Next]_vars
    PROVE  IdleHasNoClaim'
  <1>1. ASSUME NEW w \in Workers, DropClaim(w)
        PROVE  IdleHasNoClaim'
    BY <1>1 DEF DropClaim, FenceInv, RowsInv, TypeOK, IdleHasNoClaim
  <1>2. CASE UNCHANGED workerVars
    BY <1>2 DEF workerVars, FenceInv, IdleHasNoClaim
  <1>3. ASSUME NEW w \in Workers, NEW to, claim' = claim, pc' = [pc EXCEPT ![w] = to],
               pc[w] \in Handling => to \in Handling
        PROVE  IdleHasNoClaim'
    BY <1>3 DEF FenceInv, RowsInv, TypeOK, IdleHasNoClaim
  <1>4. ASSUME NEW w \in Workers, ClaimNext(w) \/ CrashWorker(w)
        PROVE  IdleHasNoClaim'
    <2>1. CASE ClaimNext(w)
      <3>1. PICK g : claim' = [claim EXCEPT ![w] = g]
        BY <2>1 DEF ClaimNext
      <3>2. pc' = [pc EXCEPT ![w] = "handling"]
        BY <2>1 DEF ClaimNext
      <3>3. QED BY <3>1, <3>2 DEF FenceInv, RowsInv, TypeOK, IdleHasNoClaim, Handling
    <2>2. CASE CrashWorker(w)
      BY <2>2 DEF CrashWorker, FenceInv, RowsInv, TypeOK, IdleHasNoClaim
    <2>3. QED BY <1>4, <2>1, <2>2
  <1>5. ASSUME NEW w \in Workers, StartWorker(w) \/ Checkpoint(w) \/ Return(w)
                                  \/ \E k \in Resources : AcquireResource(w, k)
        PROVE  IdleHasNoClaim'
    <2>1. CASE StartWorker(w)
      <3>1. pc' = [pc EXCEPT ![w] = "idle"] /\ claim' = claim /\ pc[w] \notin Handling
        BY <2>1 DEF StartWorker, Handling
      <3>2. QED BY <1>3, <3>1
    <2>2. CASE Checkpoint(w)
      BY <1>1, <1>3, <2>2 DEF Checkpoint, CancelIfRequested, Heartbeat, Handling
    <2>3. CASE Return(w)
      BY <1>1, <2>3 DEF Return, Requeue, Complete, Fail, DeferExternal, CompleteSkippingTranscribe,
         Conclude
    <2>4. ASSUME NEW k \in Resources, AcquireResource(w, k)
          PROVE  IdleHasNoClaim'
      BY <1>2, <1>3, <2>4 DEF AcquireResource, Handling, FenceInv, IdleHasNoClaim
    <2>5. QED BY <1>5, <2>1, <2>2, <2>3, <2>4
  <1>6. QED
    BY <1>2, <1>4, <1>5
    DEF Next, ApiNext, WorkerNext, CreateTask, CancelReads, CancelConflicts, CancelWrites,
        CompleteUpload, BindFailedUpload, RecordUploadFailure, RetryStage, WakeTranscribe, Tick, vars

LEMMA PhaseOf ==
    /\ Phase("absent") = "unborn"
    /\ \A s \in {"queued", "waiting_external"} : Phase(s) = "open"
    /\ \A s \in Leased : Phase(s) = "held"
    /\ \A s \in EndedStageStatuses : Phase(s) = "closed"
  BY DEF Phase, Leased, EndedStageStatuses, SuccessfulStageStatuses, RetryableStageStatuses

\* The first two sorts of step: runs are opened, or open ones are withdrawn.
LEMMA OpenOrWithdraw ==
    ASSUME UNCHANGED <<owner, gen, claim>>
    PROVE  /\ (\A r \in Runs : Phase(status'[r]) = Phase(status[r]) \/ Opened(r)) => Fenced!Open
           /\ (\A r \in Runs : Phase(status'[r]) = Phase(status[r]) \/ Withdrawn(r))
                => Fenced!Withdraw
  <1>1. ASSUME NEW r \in Runs, Opened(r)
        PROVE  Phase(status[r]) = "unborn" /\ Phase(status'[r]) = "open"
    BY <1>1, PhaseOf DEF Opened
  <1>2. ASSUME NEW r \in Runs, Withdrawn(r)
        PROVE  Phase(status[r]) = "open" /\ Phase(status'[r]) \in {"open", "closed"}
    BY <1>2, PhaseOf DEF Withdrawn, EndedStageStatuses, SuccessfulStageStatuses,
       RetryableStageStatuses
  <1>3. QED BY <1>1, <1>2 DEF Fenced!Open, Fenced!Withdraw, Fenced!PhaseMoves

LEMMA ApiFenced ==
    ASSUME UploadItems = {}, FenceInv, ApiNext
    PROVE  [Fenced!Next]_Fenced!vars
  <1>1. ASSUME NEW i \in Items
        PROVE  upload[i] = "none"
    BY DEF FenceInv, RowsInv, Born
  <1>2. ASSUME NEW t \in Tasks, CreateTask(t)
        PROVE  Fenced!Open
    <2>1. \A r \in Runs : status'[r] = status[r] \/ Opened(r)
      BY <1>2 DEF CreateTask, Opened, FenceInv, RowsInv, Born
    <2>2. QED BY <1>2, <2>1, OpenOrWithdraw DEF CreateTask, workerVars
  <1>3. ASSUME NEW t \in Tasks, CancelWrites(t)
        PROVE  Fenced!Withdraw
    <2>1. \A r \in Runs : status[r] \notin Leased => owner[r] = NoWorker
      BY <1>1, RunFields DEF FenceInv, RowsInv, LeaseIffRunning
    <2>2. /\ \A r \in Runs : owner'[r] = owner[r]
          /\ owner' = [r \in Runs |-> owner'[r]]
      BY <1>3, <2>1 DEF CancelWrites, ClearLease, Leased
    <2>3. owner' = owner
      BY <2>2 DEF FenceInv, RowsInv, TypeOK
    <2>4. ASSUME NEW r \in Runs
          PROVE  Phase(status'[r]) = Phase(status[r]) \/ Withdrawn(r)
      <3>1. \/ status'[r] = status[r]
            \/ status[r] = "running" /\ status'[r] = "cancel_requested"
            \/ status[r] \in {"queued", "waiting_external"} /\ status'[r] = "canceled"
        BY <1>3 DEF CancelWrites
      <3>2. QED BY <2>3, <3>1, PhaseOf DEF Withdrawn, Leased
    <2>5. QED BY <1>3, <2>3, <2>4, OpenOrWithdraw DEF CancelWrites, workerVars
  <1>4. ASSUME NEW r \in Runs, RetryStage(r)
        PROVE  Fenced!Open
    <2>1. \A q \in Runs : status'[q] = status[q] \/ Opened(q)
      BY <1>4, RetryOpensNext DEF Opened, FenceInv
    <2>2. QED BY <1>4, <2>1, OpenOrWithdraw DEF RetryStage, workerVars
  <1>5. ASSUME NEW r \in Runs, WakeTranscribe(r)
        PROVE  Fenced!Withdraw
    <2>1. \A q \in Runs : status'[q] = status[q] \/ Withdrawn(q)
      BY <1>5 DEF WakeTranscribe, Withdrawn, FenceInv, RowsInv, TypeOK
    <2>2. QED BY <1>5, <2>1, OpenOrWithdraw DEF WakeTranscribe, workerVars
  <1>6. ASSUME NEW t \in Tasks, CancelReads(t) \/ CancelConflicts(t)
        PROVE  UNCHANGED Fenced!vars
    BY <1>6 DEF CancelReads, CancelConflicts, rowVars, workerVars, Fenced!vars
  <1>7. \A i \in Items : ~CompleteUpload(i) /\ ~BindFailedUpload(i) /\ ~RecordUploadFailure(i)
    BY <1>1 DEF CompleteUpload, BindFailedUpload, RecordUploadFailure
  <1>8. QED
    BY <1>2, <1>3, <1>4, <1>5, <1>6, <1>7 DEF ApiNext, Fenced!Next

\* A worker that owns its lease settles its run.
LEMMA SettleFenced ==
    ASSUME FenceInv, NEW w \in Workers, pc[w] \in Handling, OwnsLease(w),
           status[HeldRun(w)] \in Leased, ClearLease({HeldRun(w)}), DropClaim(w), UNCHANGED gen,
           Settled(HeldRun(w)),
           \A r \in Runs \ {HeldRun(w)} : status'[r] = status[r] \/ Withdrawn(r)
    PROVE  Fenced!Settle(w)
  <1> DEFINE h == HeldRun(w)
  <1>1. h \in Runs /\ h = claim[w].run /\ claim[w] # NoClaim
    BY HandlerHasRun, NullAssumption DEF FenceInv, RowsInv, TypeOK, HeldRun
  <1>2. /\ Phase(status[h]) = "held"
        /\ Phase(status'[h]) \in {"open", "closed"}
    BY PhaseOf DEF Settled
  <1>3. Fenced!Current(w)
    BY <1>1, <1>2 DEF Fenced!Current, OwnsLease
  <1>4. \A r \in Runs \ {h} :
           Phase(status'[r]) # Phase(status[r]) =>
              Phase(status[r]) \in {"open"} /\ Phase(status'[r]) \in {"closed"}
    BY PhaseOf DEF Withdrawn, EndedStageStatuses, SuccessfulStageStatuses, RetryableStageStatuses
  <1>5. owner' = [owner EXCEPT ![h] = NoWorker]
    BY <1>1 DEF ClearLease, FenceInv, RowsInv, TypeOK
  <1>6. claim' = [claim EXCEPT ![w] = NoClaim]
    BY DEF DropClaim
  <1>7. QED
    BY <1>1, <1>2, <1>3, <1>4, <1>5, <1>6 DEF Fenced!Settle, Fenced!PhaseMoves

LEMMA ForgetFenced ==
    ASSUME NEW w \in Workers, claim' = [claim EXCEPT ![w] = NoClaim],
           UNCHANGED <<status, owner, gen>>
    PROVE  Fenced!Forget(w)
  BY DEF Fenced!Forget

LEMMA ConcludeFenced ==
    ASSUME FenceInv, NEW w \in Workers, NEW from \in Handling, NEW warn,
           NEW s \in EndedStageStatuses \cup {"queued", "waiting_external"},
           Conclude(w, from, s, warn)
    PROVE  Fenced!Settle(w) \/ Fenced!Forget(w)
  <1>1. pc[w] \in Handling /\ DropClaim(w) /\ HeldRun(w) \in Runs
    BY HandlerHasRun DEF Conclude, FenceInv, RowsInv
  <1>2. CASE ClaimMatches(w)
    <2>1. /\ OwnsLease(w) /\ status[HeldRun(w)] = "running"
          /\ ClearLease({HeldRun(w)}) /\ UNCHANGED gen
          /\ status' = [status EXCEPT ![HeldRun(w)] = s]
      BY <1>2 DEF Conclude, ClaimMatches, EndRun
    <2>2. /\ Settled(HeldRun(w))
          /\ \A r \in Runs \ {HeldRun(w)} : status'[r] = status[r]
      BY <1>1, <2>1 DEF Settled, Leased, ClearLease, FenceInv, RowsInv, TypeOK
    <2>3. QED BY <1>1, <2>1, <2>2, SettleFenced DEF Leased
  <1>3. CASE ~ClaimMatches(w)
    BY <1>1, <1>3, ForgetFenced DEF Conclude, DropClaim, rowVars
  <1>4. QED BY <1>2, <1>3

LEMMA ReturnFenced ==
    ASSUME FenceInv, NEW w \in Workers, Return(w)
    PROVE  Fenced!Settle(w) \/ Fenced!Forget(w)
  <1>1. /\ "handling" \in Handling /\ "requeueing" \in Handling
        /\ SuccessfulStageStatuses \subseteq EndedStageStatuses /\ "failed" \in EndedStageStatuses
    BY DEF Handling, EndedStageStatuses, RetryableStageStatuses
  <1>2. CASE Requeue(w)
    BY <1>1, <1>2, ConcludeFenced DEF Requeue
  <1>3. ASSUME NEW warn \in WarningValues,
               \/ \E s \in SuccessfulStageStatuses : Complete(w, s, warn)
               \/ Fail(w, warn) \/ DeferExternal(w, warn)
        PROVE  Fenced!Settle(w) \/ Fenced!Forget(w)
    BY <1>1, <1>3, ConcludeFenced DEF Complete, Fail, DeferExternal
  <1>4. ASSUME NEW warn \in WarningValues, CompleteSkippingTranscribe(w, warn)
        PROVE  Fenced!Settle(w) \/ Fenced!Forget(w)
    <2> DEFINE h == HeldRun(w)
               transcribe == {q \in LatestRuns(status, ItemOf(h)) :
                                StageOf(q) = "transcribe" /\ status[q] = "queued"}
    <2>1. pc[w] \in Handling /\ DropClaim(w) /\ h \in Runs
      BY <1>1, <1>4, HandlerHasRun DEF CompleteSkippingTranscribe, FenceInv, RowsInv
    <2>2. CASE ClaimMatches(w) /\ transcribe # {}
      <3>1. /\ OwnsLease(w) /\ status[h] = "running" /\ ClearLease({h}) /\ UNCHANGED gen
            /\ \A q \in Runs : status'[q] = IF q = h THEN "completed"
                                            ELSE IF q \in transcribe THEN "skipped" ELSE status[q]
        BY <1>4, <2>2 DEF CompleteSkippingTranscribe, ClaimMatches
      <3>2. Settled(h)
        BY <2>1, <3>1 DEF Settled, Leased, ClearLease, EndedStageStatuses, SuccessfulStageStatuses
      <3>3. \A r \in Runs \ {h} : owner'[r] = owner[r]
        BY <3>1 DEF ClearLease
      <3>4. \A r \in Runs \ {h} : status'[r] = status[r] \/ Withdrawn(r)
        BY <3>1, <3>3 DEF Withdrawn
      <3>5. QED BY <2>1, <3>1, <3>2, <3>4, SettleFenced DEF Leased
    <2>3. CASE ~(ClaimMatches(w) /\ transcribe # {})
      BY <1>4, <2>1, <2>3, ForgetFenced DEF CompleteSkippingTranscribe, DropClaim, rowVars
    <2>4. QED BY <2>2, <2>3
  <1>5. QED BY <1>2, <1>3, <1>4 DEF Return

LEMMA CheckpointFenced ==
    ASSUME FenceInv, NEW w \in Workers, Checkpoint(w)
    PROVE  Fenced!Settle(w) \/ Fenced!Forget(w) \/ UNCHANGED Fenced!vars
  <1>1. CASE CancelIfRequested(w) /\ CancelSeen(w)
    <2>1. /\ pc[w] \in Handling /\ OwnsLease(w) /\ status[HeldRun(w)] \in Leased
          /\ ClearLease({HeldRun(w)}) /\ UNCHANGED gen /\ DropClaim(w)
          /\ status' = [status EXCEPT ![HeldRun(w)] = "canceled"]
      BY <1>1 DEF CancelIfRequested, CancelSeen, EndRun, Handling
    <2>2. HeldRun(w) \in Runs
      BY <2>1, HandlerHasRun DEF FenceInv, RowsInv
    <2>3. /\ Settled(HeldRun(w))
          /\ \A r \in Runs \ {HeldRun(w)} : status'[r] = status[r]
      BY <2>1, <2>2 DEF Settled, ClearLease, EndedStageStatuses, RetryableStageStatuses,
         FenceInv, RowsInv, TypeOK
    <2>4. QED BY <2>1, <2>3, SettleFenced
  <1>2. CASE CancelIfRequested(w) /\ ~CancelSeen(w)
    BY <1>2 DEF CancelIfRequested, rowVars, Fenced!vars
  <1>3. CASE Heartbeat(w) /\ ClaimMatches(w)
    BY <1>3 DEF Heartbeat, Fenced!vars
  <1>4. CASE Heartbeat(w) /\ ~ClaimMatches(w)
    BY <1>4, ForgetFenced DEF Heartbeat, DropClaim
  <1>5. QED BY <1>1, <1>2, <1>3, <1>4 DEF Checkpoint

LEMMA StartFenced ==
    ASSUME FenceInv, NEW w \in Workers, StartWorker(w)
    PROVE  Fenced!Revoke
  <1> DEFINE expired == {r \in Runs : status[r] \in Leased /\ owner[r] # NoWorker /\ left[r] = 0}
  <1>1. /\ \A r \in Runs : status'[r] =
              IF r \notin expired THEN status[r]
              ELSE IF status[r] = "cancel_requested" \/ ContainersCanceled(r)
              THEN "canceled" ELSE "queued"
        /\ \A r \in Runs : owner'[r] = IF r \in expired THEN NoWorker ELSE owner[r]
        /\ \A r \in Runs : gen'[r] = IF r \in expired THEN gen[r] + 1 ELSE gen[r]
        /\ UNCHANGED claim
    BY DEF StartWorker, ClearLease
  <1>2. ASSUME NEW r \in expired
        PROVE  Phase(status[r]) = "held" /\ Phase(status'[r]) \in {"open", "closed"}
    BY <1>1, PhaseOf DEF EndedStageStatuses, RetryableStageStatuses
  <1>3. \A r \in Runs \ expired : Phase(status'[r]) = Phase(status[r])
    BY <1>1
  <1>4. QED BY <1>1, <1>2, <1>3 DEF Fenced!Revoke, Fenced!PhaseMoves

LEMMA ClaimFenced ==
    ASSUME FenceInv, NEW w \in Workers, ClaimNext(w)
    PROVE  \E r \in Runs : Fenced!Grant(w, r)
  <1>1. PICK r \in Claimable :
          /\ status' = [status EXCEPT ![r] = "running"]
          /\ owner' = [owner EXCEPT ![r] = w]
          /\ claim' = [claim EXCEPT ![w] = [run |-> r, gen |-> gen[r]]]
          /\ UNCHANGED gen
    BY DEF ClaimNext
  <1>2. r \in Runs /\ status[r] = "queued"
    BY DEF Claimable
  <1>3. claim[w] = NoClaim
    BY DEF ClaimNext, FenceInv, IdleHasNoClaim, Handling
  <1>4. [q \in Runs |-> Phase(status'[q])] = [[q \in Runs |-> Phase(status[q])] EXCEPT ![r] = "held"]
    BY <1>1, <1>2, PhaseOf DEF FenceInv, RowsInv, TypeOK, Leased
  <1>5. Fenced!Grant(w, r)
    BY <1>1, <1>2, <1>3, <1>4, PhaseOf DEF Fenced!Grant
  <1>6. QED BY <1>2, <1>5

LEMMA FencedStep ==
    ASSUME UploadItems = {}, FenceInv, [Next]_vars
    PROVE  [Fenced!Next]_Fenced!vars
  <1>1. CASE ApiNext
    BY <1>1, ApiFenced
  <1>2. CASE Tick
    BY <1>2 DEF Tick, workerVars, Fenced!vars
  <1>3. ASSUME NEW w \in Workers, WorkerNext(w)
        PROVE  [Fenced!Next]_Fenced!vars
    <2>1. ASSUME NEW k \in Resources, AcquireResource(w, k)
          PROVE  UNCHANGED Fenced!vars
      BY <2>1 DEF AcquireResource, rowVars, Fenced!vars
    <2>2. ASSUME CrashWorker(w)
          PROVE  Fenced!Forget(w)
      BY <2>2, ForgetFenced DEF CrashWorker, rowVars
    <2>3. QED
      BY <1>3, <2>1, <2>2, StartFenced, ClaimFenced, CheckpointFenced, ReturnFenced
      DEF WorkerNext, Fenced!Next
  <1>4. CASE UNCHANGED vars
    BY <1>4 DEF vars, rowVars, workerVars, Fenced!vars
  <1>5. QED BY <1>1, <1>2, <1>3, <1>4 DEF Next

\* Without uploads, every behaviour of the queue is one of FencedLease: an attempt is settled only
\* by the worker whose lease and recovery generation are current.  (record_upload_failure writes
\* over a source that a worker may hold.)
THEOREM ImplementsFencedLease ==
    ASSUME UploadItems = {}
    PROVE  Spec => FencedSpec
  <1>1. Init => FenceInv
    BY InitRows DEF Init, FenceInv, IdleHasNoClaim
  <1>2. FenceInv /\ [Next]_vars => FenceInv'
    BY RowsStep, IdleStep DEF FenceInv
  <1>3. Init => Fenced!Init
    BY PhaseOf DEF Init, Fenced!Init
  <1>4. FenceInv /\ [Next]_vars => [Fenced!Next]_Fenced!vars
    BY FencedStep
  <1>5. QED BY <1>1, <1>2, <1>3, <1>4, PTL DEF Spec, FencedSpec, Fenced!Spec
=============================================================================
