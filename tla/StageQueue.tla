----------------------------- MODULE StageQueue -----------------------------
(***************************************************************************)
(* The durable stage queue of VtNote: the task, item, stage_run and        *)
(* resource_lease rows of the SQLite database, the worker processes that   *)
(* claim stage runs under a lease (worker_store.py, worker.py), and the    *)
(* API requests that create, cancel and retry work on the same rows        *)
(* (tasks.py).                                                             *)
(*                                                                         *)
(* A step is one database transaction.  cancel_task is the exception the   *)
(* code makes: it reads the task outside the transaction that writes, so   *)
(* it is two steps here.  The wall clock appears only as the time left on  *)
(* each lease, which Tick takes away from all leases at once.              *)
(***************************************************************************)
EXTENDS Pipeline, FiniteSets

CONSTANTS
    Tasks, Items,      \* rows the API may create
    Workers,           \* worker processes; each starts at most once, as each has a fresh uuid
    Resources,         \* keys of exclusive resources ("local-asr:gpu:0")
    TaskOf,            \* the task of each item
    PlannedStages,     \* the stages each task's output type asks for
    QueueOrder,        \* items by created_at of their task, then by id
    UploadItems,       \* items whose source is an uploaded file, each alone in its task
    WarningValues,     \* whether a handler's result may carry a warning
    MaxAttempt,        \* bound: attempts of one stage
    StageLease,        \* lease duration of a stage run, in ticks
    ResourceLease,     \* lease duration of a resource, in ticks
    CancelableTasks,   \* tasks a user may ask to cancel
    Outages,           \* whether worker processes die and time passes on leases
    NoWorker, NoClaim, NoToken, NoRead

ASSUME RowsAssumption ==
    /\ TaskOf \in [Items -> Tasks]
    /\ PlannedStages \in [Tasks -> SUBSET Stages]
    /\ QueueOrder \in [Items -> Nat]
    /\ UploadItems \subseteq Items
    /\ \A i \in UploadItems, j \in Items : TaskOf[j] = TaskOf[i] => j = i
    /\ WarningValues \subseteq BOOLEAN
    /\ MaxAttempt \in Nat
    /\ CancelableTasks \subseteq Tasks
    /\ Outages \in BOOLEAN

\* Two minutes for a stage (launcher.py) and ten for the GPU (transcribe_stage.py).
ASSUME LeaseAssumption ==
    /\ StageLease \in Nat \ {0}
    /\ ResourceLease \in Nat
    /\ StageLease <= ResourceLease

ItemOf(r)    == r[1]
StageOf(r)   == r[2]
AttemptOf(r) == r[3]

\* The stage_runs rows there may be: a retry adds an attempt, never a stage.
Runs == {r \in Items \X Stages \X (1..MaxAttempt) : StageOf(r) \in PlannedStages[TaskOf[ItemOf(r)]]}

Claims == [run : Runs, gen : Nat]
Tokens == [run : Runs, gen : Nat, worker : Workers]

ASSUME NullAssumption ==
    /\ NoWorker \notin Workers
    /\ NoToken \notin Tokens
    /\ NoClaim \notin Claims

EligibleContainer == {"queued", "running"}

RunStatuses == StageStatuses \cup {"absent"}
Leased == {"running", "cancel_requested"}
Handling == {"handling", "checked", "requeueing"}

VARIABLES
    taskStatus,      \* tasks.status, "absent" before the task is created
    itemStatus,      \* items.status
    named,           \* source_display_name of an upload is set
    upload,          \* progress of an upload request: "none", "receiving", "failing", "bound", "failed"
    status,          \* stage_runs.status, "absent" before the row is inserted
    owner,           \* stage_runs.lease_owner
    left,            \* time left until stage_runs.lease_expires_at
    gen,             \* stage_runs.recovered_count
    warning,         \* stage_runs.warning is not null
    external,        \* stage_runs.external_submission_state: "none", "submitted" or "ended"
    resOwner,        \* resource_leases.lease_owner, NoToken without a row
    resLeft,         \* time left until resource_leases.lease_expires_at
    pc,              \* what each worker process is doing
    claim,           \* the StageClaim a worker's handler runs under
    uses,            \* resources a worker's handler believes it holds
    cancelRead       \* what a cancel request has read and not yet written

containerVars == <<taskStatus, itemStatus>>
uploadVars    == <<named, upload>>
rowVars       == <<status, owner, left, gen, warning, external>>
resourceVars  == <<resOwner, resLeft>>
workerVars    == <<pc, claim, uses>>
vars == <<containerVars, uploadVars, rowVars, resourceVars, workerVars, cancelRead>>
-----------------------------------------------------------------------------
(* Rows *)

ItemsOf(t) == {i \in Items : TaskOf[i] = t}

\* The newest attempt of its stage, given the statuses st.
IsLatest(st, r) ==
    /\ st[r] # "absent"
    /\ \A a \in (AttemptOf(r) + 1)..MaxAttempt :
         st[<<ItemOf(r), StageOf(r), a>>] = "absent"

LatestRuns(st, i) == {r \in Runs : ItemOf(r) = i /\ IsLatest(st, r)}

LatestStatus(st, i) ==
    [s \in {StageOf(r) : r \in LatestRuns(st, i)} |->
        st[CHOOSE r \in LatestRuns(st, i) : StageOf(r) = s]]

\* An audio task has no transcribe stage; the aggregate takes it as skipped.
WithAudioDefault(latest, t) ==
    IF PlannedStages[t] = {"source"} /\ "transcribe" \notin DOMAIN latest
    THEN [s \in DOMAIN latest \cup {"transcribe"} |->
            IF s = "transcribe" THEN "skipped" ELSE latest[s]]
    ELSE latest

ItemAggregate(i, st, warn) ==
    AggregateItemStatus(WithAudioDefault(LatestStatus(st, i), TaskOf[i]),
                        \E r \in LatestRuns(st, i) : warn[r])

\* _recalculate_item_and_task, for the items of one transaction.
Recalculate(affected) ==
    /\ itemStatus' = [i \in Items |->
          IF i \in affected THEN ItemAggregate(i, status', warning') ELSE itemStatus[i]]
    /\ taskStatus' = [t \in Tasks |->
          IF \E i \in affected : TaskOf[i] = t
          THEN AggregateTaskStatus({itemStatus'[i] : i \in ItemsOf(t)})
          ELSE taskStatus[t]]

DependenciesDone(st, r) ==
    \A s \in StageDependencies[StageOf(r)] :
        \E d \in LatestRuns(st, ItemOf(r)) :
            StageOf(d) = s /\ st[d] \in SuccessfulStageStatuses

ContainersEligible(r) ==
    /\ itemStatus[ItemOf(r)] \in EligibleContainer
    /\ taskStatus[TaskOf[ItemOf(r)]] \in EligibleContainer

ContainersCanceled(r) ==
    \/ itemStatus[ItemOf(r)] \in {"cancel_requested", "canceled"}
    \/ taskStatus[TaskOf[ItemOf(r)]] \in {"cancel_requested", "canceled"}

SourceInputReady(r) ==
    StageOf(r) = "source" /\ ItemOf(r) \in UploadItems => named[ItemOf(r)]

(* Claims *)

HeldRun(w) == claim[w].run
TokenOf(w) == [run |-> claim[w].run, gen |-> claim[w].gen, worker |-> w]

\* The row still carries this claim's owner and recovery generation.
OwnsLease(w) ==
    /\ owner[HeldRun(w)] = w
    /\ gen[HeldRun(w)] = claim[w].gen
    /\ left[HeldRun(w)] > 0

\* _claim_matches with its default arguments.
ClaimMatches(w) ==
    /\ OwnsLease(w)
    /\ status[HeldRun(w)] = "running"
    /\ ContainersEligible(HeldRun(w))

\* Faulty variant: the owner stays on the row.
ClearExpiryOnly(rs) ==
    /\ owner' = owner
    /\ left' = [r \in Runs |-> IF r \in rs THEN 0 ELSE left[r]]

ClearLease(rs) ==
    /\ owner' = [r \in Runs |-> IF r \in rs THEN NoWorker ELSE owner[r]]
    /\ left'  = [r \in Runs |-> IF r \in rs THEN 0 ELSE left[r]]

\* Faulty variant: the resource rows are left to expire.
ReleaseNothing(tokens) == UNCHANGED resourceVars

\* _release_resources.
ReleaseResources(tokens) ==
    /\ resOwner' = [k \in Resources |->
          IF resOwner[k] \in tokens THEN NoToken ELSE resOwner[k]]
    /\ resLeft' = [k \in Resources |->
          IF resOwner[k] \in tokens THEN 0 ELSE resLeft[k]]

\* The handler is over; the worker forgets its claim.
DropClaim(w) ==
    /\ pc' = [pc EXCEPT ![w] = "idle"]
    /\ claim' = [claim EXCEPT ![w] = NoClaim]
    /\ uses' = [uses EXCEPT ![w] = {}]
-----------------------------------------------------------------------------
Init ==
    /\ taskStatus = [t \in Tasks |-> "absent"]
    /\ itemStatus = [i \in Items |-> "absent"]
    /\ named = [i \in Items |-> FALSE]
    /\ upload = [i \in Items |-> "none"]
    /\ status = [r \in Runs |-> "absent"]
    /\ owner = [r \in Runs |-> NoWorker]
    /\ left = [r \in Runs |-> 0]
    /\ gen = [r \in Runs |-> 0]
    /\ warning = [r \in Runs |-> FALSE]
    /\ external = [r \in Runs |-> "none"]
    /\ resOwner = [k \in Resources |-> NoToken]
    /\ resLeft = [k \in Resources |-> 0]
    /\ pc = [w \in Workers |-> "unborn"]
    /\ claim = [w \in Workers |-> NoClaim]
    /\ uses = [w \in Workers |-> {}]
    /\ cancelRead = [t \in Tasks |-> NoRead]

(* The API: creating, uploading, canceling and retrying *)

\* create_task, create_batch_tasks, create_upload_task.
CreateTask(t) ==
    /\ taskStatus[t] = "absent"
    /\ taskStatus' = [taskStatus EXCEPT ![t] = "queued"]
    /\ itemStatus' = [i \in Items |-> IF TaskOf[i] = t THEN "queued" ELSE itemStatus[i]]
    /\ status' = [r \in Runs |->
          IF TaskOf[ItemOf(r)] = t /\ AttemptOf(r) = 1
          THEN "queued" ELSE status[r]]
    /\ upload' = [i \in Items |->
          IF TaskOf[i] = t /\ i \in UploadItems THEN "receiving" ELSE upload[i]]
    /\ UNCHANGED <<named, owner, left, gen, warning, external, resourceVars, workerVars, cancelRead>>

\* UploadService.complete ends in bind_uploaded_asset.
CompleteUpload(i) ==
    /\ upload[i] = "receiving"
    /\ upload' = [upload EXCEPT ![i] = "bound"]
    /\ named' = [named EXCEPT ![i] = TRUE]
    /\ UNCHANGED <<containerVars, rowVars, resourceVars, workerVars, cancelRead>>

\* UploadService.fail binds a file it owns before it trashes it.
BindFailedUpload(i) ==
    /\ upload[i] = "receiving"
    /\ upload' = [upload EXCEPT ![i] = "failing"]
    /\ named' = [named EXCEPT ![i] = TRUE]
    /\ UNCHANGED <<containerVars, rowVars, resourceVars, workerVars, cancelRead>>

\* record_upload_failure, the last step of UploadService.fail.
RecordUploadFailure(i) ==
    /\ upload[i] \in {"receiving", "failing"}
    /\ upload' = [upload EXCEPT ![i] = "failed"]
    /\ status' = [r \in Runs |->
          IF ItemOf(r) # i THEN status[r]
          ELSE IF StageOf(r) = "source" /\ IsLatest(status, r) THEN "failed"
          ELSE IF status[r] = "queued" THEN "canceled"
          ELSE status[r]]
    /\ itemStatus' = [itemStatus EXCEPT ![i] = "failed"]
    /\ taskStatus' = [taskStatus EXCEPT ![TaskOf[i]] = "failed"]
    /\ UNCHANGED <<named, owner, left, gen, warning, external, resourceVars, workerVars, cancelRead>>

RunsOf(t) == {r \in Runs : TaskOf[ItemOf(r)] = t}

\* cancel_task up to its first UPDATE: the reads, outside a transaction.
CancelReads(t) ==
    /\ t \in CancelableTasks
    /\ cancelRead[t] = NoRead
    /\ taskStatus[t] \in {"queued", "running"}
    /\ cancelRead' = [cancelRead EXCEPT ![t] =
          [running  |-> \E r \in RunsOf(t) : status[r] = "running",
           expected |-> taskStatus[t]]]
    /\ UNCHANGED <<containerVars, uploadVars, rowVars, resourceVars, workerVars>>

\* The compare-and-set on tasks.status found another status: nothing is written.
CancelConflicts(t) ==
    /\ cancelRead[t] # NoRead
    /\ taskStatus[t] # cancelRead[t].expected
    /\ cancelRead' = [cancelRead EXCEPT ![t] = NoRead]
    /\ UNCHANGED <<containerVars, uploadVars, rowVars, resourceVars, workerVars>>

\* Faulty variant: stages waiting at the cloud provider are overlooked.
CancelWritesHereOnly(t) ==
    /\ cancelRead[t] # NoRead
    /\ taskStatus[t] = cancelRead[t].expected
    /\ LET target == IF cancelRead[t].running THEN "cancel_requested" ELSE "canceled"
       IN  /\ taskStatus' = [taskStatus EXCEPT ![t] = target]
           /\ itemStatus' = [i \in Items |->
                 IF TaskOf[i] = t /\ itemStatus[i] \notin TerminalStatuses
                 THEN target ELSE itemStatus[i]]
           /\ status' = [r \in Runs |->
                 IF r \notin RunsOf(t) THEN status[r]
                 ELSE IF status[r] = "running" THEN "cancel_requested"
                 ELSE IF status[r] = "queued" THEN "canceled"
                 ELSE status[r]]
    /\ cancelRead' = [cancelRead EXCEPT ![t] = NoRead]
    /\ UNCHANGED <<uploadVars, owner, left, gen, warning, external, resourceVars, workerVars>>

\* The five UPDATEs of cancel_task and their commit.
CancelWrites(t) ==
    /\ cancelRead[t] # NoRead
    /\ taskStatus[t] = cancelRead[t].expected
    /\ LET target  == IF cancelRead[t].running THEN "cancel_requested" ELSE "canceled"
           waiting == {r \in RunsOf(t) : status[r] = "waiting_external"}
       IN  /\ taskStatus' = [taskStatus EXCEPT ![t] = target]
           /\ itemStatus' = [i \in Items |->
                 IF TaskOf[i] = t /\ itemStatus[i] \notin TerminalStatuses
                 THEN target ELSE itemStatus[i]]
           /\ status' = [r \in Runs |->
                 IF r \notin RunsOf(t) THEN status[r]
                 ELSE IF status[r] = "running" THEN "cancel_requested"
                 ELSE IF status[r] \in {"queued", "waiting_external"} THEN "canceled"
                 ELSE status[r]]
           /\ ClearLease(waiting)
    /\ cancelRead' = [cancelRead EXCEPT ![t] = NoRead]
    /\ UNCHANGED <<uploadVars, gen, warning, external, resourceVars, workerVars>>

\* Faulty variant: the status of the attempt is not looked at.
CanRetryAnyStatus(r) ==
    /\ IsLatest(status, r)
    /\ AttemptOf(r) < MaxAttempt
    /\ itemStatus[ItemOf(r)] # "cancel_requested"
    /\ taskStatus[TaskOf[ItemOf(r)]] # "cancel_requested"
    /\ DependenciesDone(status, r)

CanRetry(r) ==
    /\ IsLatest(status, r)
    /\ AttemptOf(r) < MaxAttempt
    /\ itemStatus[ItemOf(r)] # "cancel_requested"
    /\ taskStatus[TaskOf[ItemOf(r)]] # "cancel_requested"
    /\ \A q \in Runs :
         ItemOf(q) = ItemOf(r) /\ status[q] \in ActiveStageStatuses
            => StageOf(q) \notin RetryActiveConflicts[StageOf(r)]
    /\ \/ status[r] \in RetryableStageStatuses
       \/ StageOf(r) = "notes" /\ status[r] = "completed"
    /\ DependenciesDone(status, r)

NextAttempt(r) == <<ItemOf(r), StageOf(r), AttemptOf(r) + 1>>

\* Faulty variant: the attempt is opened again in place.
SameAttempt(r) == r

\* The stage_runs row a retry of r opens.
RetryRow(r) == NextAttempt(r)

\* retry_stage of the attempt r the user has seen (its expected_attempt).
RetryStage(r) ==
    /\ CanRetry(r)
    /\ LET i      == ItemOf(r)
           t      == TaskOf[i]
           active == {q \in RunsOf(t) : status[q] \in ActiveStageStatuses}
       IN  /\ status' = [status EXCEPT ![RetryRow(r)] = "queued"]
           /\ itemStatus' = [itemStatus EXCEPT ![i] =
                 IF \E q \in active : ItemOf(q) = i THEN "running" ELSE "queued"]
           /\ taskStatus' = [taskStatus EXCEPT ![t] =
                 IF active # {} THEN "running" ELSE "queued"]
    /\ UNCHANGED <<uploadVars, owner, left, gen, warning, external, resourceVars, workerVars, cancelRead>>

\* _wake_transcribe_stage, called by the cloud reconciler.  Item and task keep their status.
WakeTranscribe(r) ==
    /\ status[r] = "waiting_external"
    /\ status' = [status EXCEPT ![r] =
          IF ContainersCanceled(r) THEN "canceled" ELSE "queued"]
    /\ external' = [external EXCEPT ![r] = "ended"]
    /\ UNCHANGED <<containerVars, uploadVars, owner, left, gen, warning, resourceVars, workerVars, cancelRead>>
-----------------------------------------------------------------------------
(* The worker process: Worker.run *)

\* Faulty variant: the old claim is built after recovered_count is incremented.
RowTokenAfterBump(r) == [run |-> r, gen |-> gen[r] + 1, worker |-> owner[r]]

\* The resource token of the claim a row's lease stands for.
RowToken(r) == [run |-> r, gen |-> gen[r], worker |-> owner[r]]

\* A new process first runs recover_expired.  Nothing else calls it.
StartWorker(w) ==
    /\ pc[w] = "unborn"
    /\ pc' = [pc EXCEPT ![w] = "idle"]
    /\ LET expired == {r \in Runs : /\ status[r] \in Leased
                                    /\ owner[r] # NoWorker
                                    /\ left[r] = 0}
       IN  /\ status' = [r \in Runs |->
                 IF r \notin expired THEN status[r]
                 ELSE IF status[r] = "cancel_requested" \/ ContainersCanceled(r)
                 THEN "canceled" ELSE "queued"]
           /\ gen' = [r \in Runs |-> IF r \in expired THEN gen[r] + 1 ELSE gen[r]]
           /\ ClearLease(expired)
           /\ ReleaseResources({RowToken(r) : r \in expired})
           /\ UNCHANGED <<warning, external>>
           /\ Recalculate({ItemOf(r) : r \in expired})
    /\ UNCHANGED <<uploadVars, claim, uses, cancelRead>>

\* Faulty variant: a stage does not wait for the stages it reads from.
ClaimableAnyOrder ==
    {r \in Runs : /\ IsLatest(status, r)
                  /\ status[r] = "queued"
                  /\ ContainersEligible(r)
                  /\ SourceInputReady(r)}

\* The runs claim_next may take.
Claimable ==
    {r \in Runs : /\ IsLatest(status, r)
                  /\ status[r] = "queued"
                  /\ ContainersEligible(r)
                  /\ SourceInputReady(r)
                  /\ DependenciesDone(status, r)}

\* claim_next orders by task age, then stage, then item.
Precedes(q, r) ==
    LET older == QueueOrder[ItemOf(q)] < QueueOrder[ItemOf(r)]
    IN  IF TaskOf[ItemOf(q)] # TaskOf[ItemOf(r)] THEN older
        ELSE \/ StageOrder[StageOf(q)] < StageOrder[StageOf(r)]
             \/ StageOf(q) = StageOf(r) /\ older

ClaimNext(w) ==
    /\ pc[w] = "idle"
    /\ \E r \in Claimable :
         /\ \A q \in Claimable : ~Precedes(q, r)
         /\ status' = [status EXCEPT ![r] = "running"]
         /\ owner' = [owner EXCEPT ![r] = w]
         /\ left' = [left EXCEPT ![r] = StageLease]
         /\ claim' = [claim EXCEPT ![w] = [run |-> r, gen |-> gen[r]]]
         /\ UNCHANGED <<gen, warning, external>>
         /\ Recalculate({ItemOf(r)})
    /\ pc' = [pc EXCEPT ![w] = "handling"]
    /\ UNCHANGED <<uploadVars, resourceVars, uses, cancelRead>>

CancelSeen(w) ==
    /\ OwnsLease(w)
    /\ status[HeldRun(w)] \in Leased
    /\ status[HeldRun(w)] = "cancel_requested" \/ ContainersCanceled(HeldRun(w))

\* The worker's row ends, or leaves the worker, with status s and warning flag warn.
EndRun(w, s, warn) ==
    LET r == HeldRun(w)
    IN  /\ status' = [status EXCEPT ![r] = s]
        /\ warning' = [warning EXCEPT ![r] = warn]
        /\ ClearLease({r})
        /\ ReleaseResources({TokenOf(w)})
        /\ external' = [external EXCEPT ![r] =
              CASE s = "waiting_external" -> "submitted"
                [] s = "failed" -> "none"
                [] OTHER -> @]
        /\ Recalculate({ItemOf(r)})
        /\ UNCHANGED gen

\* checkpoint, first transaction: cancel_if_requested.
CancelIfRequested(w) ==
    /\ pc[w] = "handling"
    /\ IF CancelSeen(w)
       THEN EndRun(w, "canceled", warning[HeldRun(w)]) /\ DropClaim(w)
       ELSE /\ pc' = [pc EXCEPT ![w] = "checked"]
            /\ UNCHANGED <<containerVars, rowVars, resourceVars, claim, uses>>
    /\ UNCHANGED <<uploadVars, cancelRead>>

\* Faulty variant: the leases of the resources are not extended.
HeartbeatStageOnly(w) ==
    /\ pc[w] = "checked"
    /\ IF ClaimMatches(w)
       THEN /\ pc' = [pc EXCEPT ![w] = "handling"]
            /\ left' = [left EXCEPT ![HeldRun(w)] = StageLease]
            /\ UNCHANGED <<claim, uses>>
       ELSE DropClaim(w) /\ UNCHANGED left
    /\ UNCHANGED <<containerVars, uploadVars, status, owner, gen, warning, external, resourceVars, cancelRead>>

\* checkpoint, second transaction: heartbeat.
Heartbeat(w) ==
    /\ pc[w] = "checked"
    /\ IF ClaimMatches(w)
       THEN /\ pc' = [pc EXCEPT ![w] = "handling"]
            /\ left' = [left EXCEPT ![HeldRun(w)] = StageLease]
            /\ resLeft' = [k \in Resources |->
                  IF resOwner[k] = TokenOf(w) /\ resLeft[k] > 0
                  THEN ResourceLease ELSE resLeft[k]]
            /\ UNCHANGED <<claim, uses>>
       ELSE DropClaim(w) /\ UNCHANGED <<left, resLeft>>
    /\ UNCHANGED <<containerVars, uploadVars, status, owner, gen, warning, external, resOwner, cancelRead>>

\* acquire_resource.  A transcription that finds the GPU busy raises StageRequeue.
AcquireResource(w, k) ==
    /\ pc[w] = "handling"
    /\ StageOf(HeldRun(w)) = "transcribe"
    /\ IF ClaimMatches(w)
            /\ (resOwner[k] \in {NoToken, TokenOf(w)} \/ resLeft[k] = 0)
       THEN /\ resOwner' = [resOwner EXCEPT ![k] = TokenOf(w)]
            /\ resLeft' = [resLeft EXCEPT ![k] = ResourceLease]
            /\ uses' = [uses EXCEPT ![w] = @ \cup {k}]
            /\ UNCHANGED pc
       ELSE /\ pc' = [pc EXCEPT ![w] = "requeueing"]
            /\ UNCHANGED <<resourceVars, uses>>
    /\ UNCHANGED <<containerVars, uploadVars, rowVars, claim, cancelRead>>

\* What a handler's outcome writes, if the claim still matches; the worker moves on either way.
Conclude(w, from, s, warn) ==
    /\ pc[w] = from
    /\ IF ClaimMatches(w) THEN EndRun(w, s, warn)
       ELSE UNCHANGED <<containerVars, rowVars, resourceVars>>
    /\ DropClaim(w)
    /\ UNCHANGED <<uploadVars, cancelRead>>

\* complete, with StageResult.status s.
Complete(w, s, warn) == Conclude(w, "handling", s, warn)

\* complete of a source that found subtitles: transcribe is skipped in the same transaction.
CompleteSkippingTranscribe(w, warn) ==
    LET r == HeldRun(w)
        transcribe == {q \in LatestRuns(status, ItemOf(r)) :
                         StageOf(q) = "transcribe" /\ status[q] = "queued"}
    IN  /\ pc[w] = "handling"
        /\ StageOf(r) = "source"
        /\ IF ClaimMatches(w) /\ transcribe # {}
           THEN /\ status' = [q \in Runs |->
                      IF q = r THEN "completed"
                      ELSE IF q \in transcribe THEN "skipped"
                      ELSE status[q]]
                /\ warning' = [warning EXCEPT ![r] = warn]
                /\ ClearLease({r})
                /\ ReleaseResources({TokenOf(w)})
                /\ Recalculate({ItemOf(r)})
                /\ UNCHANGED <<gen, external>>
           ELSE UNCHANGED <<containerVars, rowVars, resourceVars>>
        /\ DropClaim(w)
        /\ UNCHANGED <<uploadVars, cancelRead>>

Fail(w, warn) == Conclude(w, "handling", "failed", warn)

\* defer_external: the cloud provider has the audio.  A handler that finds its submission ended
\* publishes or fails instead.
DeferExternal(w, warn) ==
    /\ pc[w] = "handling"
    /\ StageOf(HeldRun(w)) = "transcribe"
    /\ external[HeldRun(w)] # "ended"
    /\ Conclude(w, "handling", "waiting_external", warn)

Requeue(w) == Conclude(w, "requeueing", "queued", warning[HeldRun(w)])

\* The process exits, is killed or is stopped by the launcher.
CrashWorker(w) ==
    /\ Outages
    /\ pc[w] \in Handling \cup {"idle"}
    /\ pc' = [pc EXCEPT ![w] = "dead"]
    /\ claim' = [claim EXCEPT ![w] = NoClaim]
    /\ uses' = [uses EXCEPT ![w] = {}]
    /\ UNCHANGED <<containerVars, uploadVars, rowVars, resourceVars, cancelRead>>

\* Time passes for every lease.
Tick ==
    /\ Outages
    /\ \/ \E r \in Runs : left[r] > 0
       \/ \E k \in Resources : resLeft[k] > 0
    /\ left' = [r \in Runs |-> IF left[r] > 0 THEN left[r] - 1 ELSE 0]
    /\ resLeft' = [k \in Resources |-> IF resLeft[k] > 0 THEN resLeft[k] - 1 ELSE 0]
    /\ UNCHANGED <<containerVars, uploadVars, status, owner, gen, warning, external, resOwner,
                   workerVars, cancelRead>>

Return(w) ==
    \/ \E warn \in WarningValues :
         \/ \E s \in SuccessfulStageStatuses : Complete(w, s, warn)
         \/ CompleteSkippingTranscribe(w, warn)
         \/ Fail(w, warn)
         \/ DeferExternal(w, warn)
    \/ Requeue(w)

Checkpoint(w) == CancelIfRequested(w) \/ Heartbeat(w)

ApiNext ==
    \/ \E t \in Tasks :
         CreateTask(t) \/ CancelReads(t) \/ CancelConflicts(t) \/ CancelWrites(t)
    \/ \E i \in Items : CompleteUpload(i) \/ BindFailedUpload(i) \/ RecordUploadFailure(i)
    \/ \E r \in Runs : RetryStage(r) \/ WakeTranscribe(r)

WorkerNext(w) ==
    \/ StartWorker(w) \/ ClaimNext(w) \/ Checkpoint(w) \/ Return(w) \/ CrashWorker(w)
    \/ \E k \in Resources : AcquireResource(w, k)

Next == ApiNext \/ Tick \/ \E w \in Workers : WorkerNext(w)

Spec == Init /\ [][Next]_vars
-----------------------------------------------------------------------------
(***************************************************************************)
(* Fairness.  The launcher starts the workers; a worker polls, checkpoints *)
(* and, since a handler is a finite program, returns after finitely many   *)
(* checkpoints (strong fairness: a checkpoint leaves "handling" and comes  *)
(* back).  An API request that has begun finishes.  The reconciler polls a *)
(* submission until it ends or its 24 hours are over.  Nothing makes a     *)
(* user cancel or retry, and time need not pass.                           *)
(***************************************************************************)
Fairness ==
    /\ \A w \in Workers :
         /\ WF_vars(StartWorker(w))
         /\ WF_vars(ClaimNext(w))
         /\ WF_vars(Checkpoint(w))
         /\ SF_vars(Return(w))
    /\ \A t \in Tasks : WF_vars(CancelConflicts(t) \/ CancelWrites(t))
    /\ \A i \in Items : WF_vars(CompleteUpload(i) \/ RecordUploadFailure(i))
    /\ \A r \in Runs : WF_vars(WakeTranscribe(r))

FairSpec == Spec /\ Fairness
-----------------------------------------------------------------------------
(* Properties *)

\* Every row and every worker's memory has its type; a worker in a handler has a claim.
TypeOK ==
    /\ taskStatus \in [Tasks -> ContainerStatuses \cup {"absent"}]
    /\ itemStatus \in [Items -> ContainerStatuses \cup {"absent"}]
    /\ named \in [Items -> BOOLEAN]
    /\ upload \in [Items -> {"none", "receiving", "failing", "bound", "failed"}]
    /\ status \in [Runs -> RunStatuses]
    /\ owner \in [Runs -> Workers \cup {NoWorker}]
    /\ left \in [Runs -> 0..StageLease]
    /\ gen \in [Runs -> Nat]
    /\ warning \in [Runs -> BOOLEAN]
    /\ external \in [Runs -> {"none", "submitted", "ended"}]
    /\ resOwner \in [Resources -> Tokens \cup {NoToken}]
    /\ resLeft \in [Resources -> 0..ResourceLease]
    /\ pc \in [Workers -> Handling \cup {"unborn", "idle", "dead"}]
    /\ claim \in [Workers -> Claims \cup {NoClaim}]
    /\ uses \in [Workers -> SUBSET Resources]
    /\ \A w \in Workers : pc[w] \in Handling => claim[w] \in Claims

\* A worker in a handler whose row still carries its claim, unexpired.
HoldsLease(w) ==
    /\ pc[w] \in Handling
    /\ OwnsLease(w)
    /\ status[HeldRun(w)] \in Leased

\* No two handlers with a live stage lease both believe they hold the GPU: acquire_resource,
\* heartbeat, recovery and release keep the resource lease at least as long as the stage lease.
ResourceExclusion ==
    \A w, v \in Workers, k \in Resources :
        HoldsLease(w) /\ HoldsLease(v) /\ k \in uses[w] /\ k \in uses[v] => w = v

\* A resource row names the run, worker and recovery generation that still lease it: no path that
\* ends, requeues, defers or recovers a run leaves its GPU lease behind for others to wait on.
ResourceFollowsRun ==
    \A k \in Resources :
        resOwner[k] # NoToken =>
            LET tok == resOwner[k] IN
            \/ upload[ItemOf(tok.run)] = "failed"
            \/ /\ status[tok.run] \in Leased
               /\ owner[tok.run] = tok.worker
               /\ gen[tok.run] = tok.gen

\* A row carries a lease owner exactly while it is running or being canceled, so recovery finds
\* every lease and task deletion finds none on ended work (except after a failed upload).
LeaseIffRunning ==
    \A r \in Runs :
        upload[ItemOf(r)] # "failed" => (owner[r] # NoWorker <=> status[r] \in Leased)

\* Only the newest attempt of a stage is ever open: retry_stage adds one only when nothing is in
\* flight, and no recovery or wake-up reopens an older one.
OneOpenAttempt ==
    \A r \in Runs :
        status[r] \notin EndedStageStatuses \cup {"absent"} => IsLatest(status, r)

\* While a stage is in flight the stages it reads from stay successful: no cancel, retry or
\* recovery of an input happens under it (except after a failed upload).
ActiveHasInputs ==
    \A r \in Runs :
        status[r] \in ActiveStageStatuses /\ upload[ItemOf(r)] # "failed"
            => DependenciesDone(status, r)

\* A task shown as over has nothing running and nothing at the cloud provider, whatever order
\* cancels, wake-ups, recoveries and retries of its items took.
ClosedTaskIsQuiet ==
    \A r \in Runs :
        /\ taskStatus[TaskOf[ItemOf(r)]] \in TerminalStatuses
        /\ upload[ItemOf(r)] # "failed"
        => status[r] \notin {"running", "waiting_external"}

\* The promise of FencedLease, with a run's phase read off its status.
Phase(s) ==
    IF s = "absent" THEN "unborn"
    ELSE IF s \in Leased THEN "held"
    ELSE IF s \in EndedStageStatuses THEN "closed"
    ELSE "open"

Fenced == INSTANCE FencedLease
            WITH phase <- [r \in Runs |-> Phase(status[r])],
                 holder <- owner, epoch <- gen, hand <- claim

\* Every step of the queue is a step, or a stutter, of the fenced lease.
FencedSpec == Fenced!Spec

\* Without outages and cancellations, and when no source is retried and no upload fails, every
\* queued item is eventually worked off: no queued stage starves behind a busy GPU, an older task,
\* an upload or a cloud request.
Undisturbed ==
    [](/\ \A i \in Items : upload[i] # "failed"
       /\ \A r \in Runs : StageOf(r) = "source" /\ AttemptOf(r) > 1 => status[r] = "absent")

QueueDrains ==
    Undisturbed => \A i \in Items :
        itemStatus[i] = "queued" ~> itemStatus[i] \notin EligibleContainer

=============================================================================
