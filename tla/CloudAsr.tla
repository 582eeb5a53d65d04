------------------------------- MODULE CloudAsr -------------------------------
(***************************************************************************)
(* The paid cloud transcription of one item: the cloud_submissions row of  *)
(* each attempt of its transcribe stage (cloud_submissions.py), the worker *)
(* that submits audio and publishes results (_submit_cloud of              *)
(* transcribe_stage.py), the reconciler that polls, expires and cleans up  *)
(* submissions (tencent_asr.py), and the retries a user may ask for        *)
(* (retry_stage of tasks.py).                                              *)
(*                                                                         *)
(* StageQueue models leases, aggregation and the other stages; here a      *)
(* claim is held or lost, and a lease is live or not.  A step is one       *)
(* database transaction or one remote call.  mark_sending reads, checks    *)
(* and writes without a transaction around them and is two steps.  The     *)
(* provider, the COS bucket and local transcription are choices.           *)
(***************************************************************************)
EXTENDS Naturals, FiniteSets

CONSTANTS
    Workers,        \* worker processes; each starts at most once
    MaxAttempt,     \* bound: attempts of the transcribe stage
    Mode,           \* asr mode of the task's snapshot: "auto" or "cloud"
    Cos,            \* the audio goes through a COS object, not inline
    Overlap,        \* whether a worker may start while another lives
    NoWorker

ASSUME SettingAssumption ==
    /\ MaxAttempt \in Nat \ {0}
    /\ Mode \in {"auto", "cloud"}
    /\ Cos \in BOOLEAN
    /\ Overlap \in BOOLEAN
    /\ NoWorker \notin Workers

Attempts == 1..MaxAttempt
NoAttempt == 0

Strategies == {"same", "local", "cloud_confirmed"}
TerminalSubmissions == {"succeeded", "failed", "submission_unknown"}
SubmissionStates ==
    {"none", "prepared", "sending", "submitted", "canceled"} \cup TerminalSubmissions

\* Where a handler may be; every point but "idle" works on an attempt.
HandlerPoints ==
    {"begin", "decide", "convert", "prepare", "prepared", "put", "staged", "mark", "markWrite",
     "create", "refused", "markUnknown", "abort", "created", "schedule", "defer",
     "terminal", "local", "publish", "complete", "error", "requeue"}

VARIABLES
    stage,      \* stage_runs.status of each attempt
    ext,        \* stage_runs.external_submission_state
    strategy,   \* the retry override of each attempt
    holder,     \* stage_runs.lease_owner
    live,       \* stage_runs.lease_expires_at is in the future
    state,      \* cloud_submissions.state, "none" without a row
    task,       \* provider_task_id is known
    poll,       \* next_poll_at is set
    key,        \* cos_object_key is set
    signed,     \* signed_url_expires_at is set
    cleanup,    \* cleanup_due_at is set
    object,     \* the COS object of this audio exists; its key names task and audio, not attempt
    paid,       \* how many create requests of each attempt the provider accepted
    pc,         \* what each worker process is doing
    run,        \* the attempt its handler works on
    seen,       \* the submission state its handler decides on
    rec         \* the reconciler's claim: an attempt and an action

stageVars      == <<stage, ext, strategy, holder, live>>
submissionVars == <<state, task, poll, key, signed, cleanup>>
remoteVars     == <<object, paid>>
handlerVars    == <<pc, run, seen>>
vars == <<stageVars, submissionVars, remoteVars, handlerVars, rec>>

NoClaim == [attempt |-> NoAttempt, action |-> "none"]

Init ==
    /\ stage = [a \in Attempts |-> IF a = 1 THEN "queued" ELSE "absent"]
    /\ ext = [a \in Attempts |-> "none"]
    /\ strategy = [a \in Attempts |-> "same"]
    /\ holder = [a \in Attempts |-> NoWorker]
    /\ live = [a \in Attempts |-> FALSE]
    /\ state = [a \in Attempts |-> "none"]
    /\ task = [a \in Attempts |-> FALSE]
    /\ poll = [a \in Attempts |-> FALSE]
    /\ key = [a \in Attempts |-> FALSE]
    /\ signed = [a \in Attempts |-> FALSE]
    /\ cleanup = [a \in Attempts |-> FALSE]
    /\ object = FALSE
    /\ paid = [a \in Attempts |-> 0]
    /\ pc = [w \in Workers |-> "unborn"]
    /\ run = [w \in Workers |-> NoAttempt]
    /\ seen = [w \in Workers |-> "none"]
    /\ rec = NoClaim
-----------------------------------------------------------------------------
(* The user *)

IsLatest(a) == stage[a] # "absent" /\ \A b \in (a + 1)..MaxAttempt : stage[b] = "absent"

\* cancel_task on the transcribe stage.
Cancel(a) ==
    /\ stage[a] \in {"queued", "running", "waiting_external"}
    /\ stage' = [stage EXCEPT ![a] = IF @ = "running" THEN "cancel_requested" ELSE "canceled"]
    /\ UNCHANGED <<ext, strategy, holder, live, submissionVars, remoteVars, handlerVars, rec>>

\* The strategies retry_stage accepts after attempt a.
StrategiesAfter(a) ==
    IF ext[a] = "submission_unknown" THEN {"local", "cloud_confirmed"} ELSE {"same", "local"}

Retry(a, s) ==
    /\ IsLatest(a)
    /\ a < MaxAttempt
    /\ stage[a] \in {"failed", "canceled"}
    /\ s \in StrategiesAfter(a)
    /\ stage' = [stage EXCEPT ![a + 1] = "queued"]
    /\ strategy' = [strategy EXCEPT ![a + 1] = s]
    /\ UNCHANGED <<ext, holder, live, submissionVars, remoteVars, handlerVars, rec>>
-----------------------------------------------------------------------------
(* What a request to the provider comes to *)

\* No connection, or a response that is lost, too large or not JSON.
TransportFailures == {"unsent", "lost"}

\* 400, 401, 403 or 404; 429; 500, 502, 503 or 504; any other but 200.
BadStatuses == {"denied", "throttled", "server error", "odd status"}

\* An error code that a query may try again after, and any other.
ErrorAnswers == {"overloaded", "error"}

CreateAnswers == TransportFailures \cup BadStatuses \cup ErrorAnswers \cup {"malformed", "task"}

QueryAnswers == TransportFailures \cup BadStatuses \cup ErrorAnswers \cup
    {"malformed", "pending", "failed", "no timestamps", "succeeded"}

\* External: what may be answered to a request the provider has taken.
AnswersWhenTaken == {"lost", "server error", "odd status", "malformed", "task"}

\* Faulty variant: any bad status counts as a refusal.
RefusalsByStatus == {"unsent"} \cup BadStatuses \cup ErrorAnswers

\* The answers that say the request was not taken.
Refusals == {"unsent", "denied", "throttled"} \cup ErrorAnswers

CreateOutcome(r) ==
    IF r = "task" THEN "created" ELSE IF r \in Refusals THEN "refused" ELSE "markUnknown"

\* Outcomes marked retryable.
Repeatable == TransportFailures \cup {"throttled", "server error", "overloaded", "pending"}

QueryOutcome(r) == IF r = "succeeded" THEN "succeeded" ELSE "failed"
-----------------------------------------------------------------------------
(* The worker process *)

Alive(w) == pc[w] \notin {"unborn", "dead"}

Goto(w, p) ==
    /\ pc' = [pc EXCEPT ![w] = p]
    /\ UNCHANGED <<run, seen>>

\* The handler goes on with the outcome of submission state s.
Handle(w, s) ==
    /\ pc' = [pc EXCEPT ![w] = "terminal"]
    /\ seen' = [seen EXCEPT ![w] = s]
    /\ UNCHANGED run

Drop(w) ==
    /\ pc' = [pc EXCEPT ![w] = "idle"]
    /\ run' = [run EXCEPT ![w] = NoAttempt]
    /\ seen' = [seen EXCEPT ![w] = "none"]

Owns(w) == holder[run[w]] = w /\ live[run[w]]
ClaimMatches(w) == Owns(w) /\ stage[run[w]] = "running"

\* The row of attempt a leaves its holder with status s.
EndRun(a, s, e) ==
    /\ stage' = [stage EXCEPT ![a] = s]
    /\ ext' = [ext EXCEPT ![a] = e]
    /\ holder' = [holder EXCEPT ![a] = NoWorker]
    /\ live' = [live EXCEPT ![a] = FALSE]
    /\ UNCHANGED strategy

\* recover_expired, then the claim loop.
StartWorker(w) ==
    /\ pc[w] = "unborn"
    /\ Overlap \/ \A v \in Workers : ~Alive(v)
    /\ LET expired == {a \in Attempts : holder[a] # NoWorker /\ ~live[a]}
       IN  /\ stage' = [a \in Attempts |->
                 IF a \notin expired THEN stage[a]
                 ELSE IF stage[a] = "cancel_requested" THEN "canceled" ELSE "queued"]
           /\ holder' = [a \in Attempts |-> IF a \in expired THEN NoWorker ELSE holder[a]]
    /\ Goto(w, "idle")
    /\ UNCHANGED <<ext, strategy, live, submissionVars, remoteVars, rec>>

ClaimNext(w) ==
    /\ pc[w] = "idle"
    /\ \E a \in Attempts :
         /\ IsLatest(a)
         /\ stage[a] = "queued"
         /\ stage' = [stage EXCEPT ![a] = "running"]
         /\ holder' = [holder EXCEPT ![a] = w]
         /\ live' = [live EXCEPT ![a] = TRUE]
         /\ run' = [run EXCEPT ![w] = a]
    /\ pc' = [pc EXCEPT ![w] = "begin"]
    /\ UNCHANGED <<ext, strategy, seen, submissionVars, remoteVars, rec>>

AfterCheckpoint ==
    [begin    |-> "decide",
     convert  |-> "prepare",
     prepared |-> IF Cos THEN "put" ELSE "mark",
     staged   |-> "mark",
     publish  |-> "complete"]

\* The point where a handler catches StageCancelled: a staged object is scheduled for deletion.
CancelCleanup(w) ==
    LET a == run[w]
    IN  IF pc[w] = "staged" /\ state[a] = "prepared" /\ key[a]
        THEN /\ state' = [state EXCEPT ![a] = "canceled"]
             /\ cleanup' = [cleanup EXCEPT ![a] = TRUE]
             /\ poll' = [poll EXCEPT ![a] = FALSE]
             /\ UNCHANGED <<task, key, signed>>
        ELSE UNCHANGED submissionVars

\* checkpoint: cancel_if_requested, then heartbeat.  The second disjunct is also a cancel that
\* arrives between the two.
Checkpoint(w) ==
    /\ pc[w] \in DOMAIN AfterCheckpoint
    /\ \/ /\ ClaimMatches(w)
          /\ Goto(w, AfterCheckpoint[pc[w]])
          /\ UNCHANGED <<stageVars, submissionVars>>
       \/ /\ ~ClaimMatches(w)
          /\ Drop(w)
          /\ CancelCleanup(w)
          /\ UNCHANGED stageVars
       \/ /\ Owns(w)
          /\ stage[run[w]] = "cancel_requested"
          /\ EndRun(run[w], "canceled", ext[run[w]])
          /\ Drop(w)
          /\ CancelCleanup(w)
    /\ UNCHANGED <<remoteVars, rec>>

\* _selected_asr and the first part of _submit_cloud: what the submission row says.
Decide(w) ==
    LET a == run[w]
    IN  /\ pc[w] = "decide"
        /\ \/ strategy[a] = "local" /\ Goto(w, "local")
           \/ /\ strategy[a] # "local"
              /\ \/ state[a] = "submitted" /\ Goto(w, IF poll[a] THEN "defer" ELSE "schedule")
                 \/ state[a] = "sending" /\ Goto(w, "markUnknown")
                 \/ state[a] \in TerminalSubmissions /\ Handle(w, state[a])
                 \/ state[a] \in {"none", "prepared", "canceled"} /\ Goto(w, "convert")
        /\ UNCHANGED <<stageVars, submissionVars, remoteVars, rec>>

FallBack(w) == Goto(w, IF Mode = "cloud" THEN "error" ELSE "local")

\* Converting the audio, the preflight and prepare.  A row whose object was deleted conflicts.
Prepare(w) ==
    LET a == run[w]
    IN  /\ pc[w] = "prepare"
        /\ \/ /\ FallBack(w)
              /\ UNCHANGED submissionVars
           \/ /\ state[a] = "none"
              /\ state' = [state EXCEPT ![a] = "prepared"]
              /\ key' = [key EXCEPT ![a] = Cos]
              /\ Goto(w, "prepared")
              /\ UNCHANGED <<task, poll, signed, cleanup>>
           \/ /\ state[a] # "none"
              /\ Goto(w, IF key[a] = Cos THEN "prepared" ELSE "error")
              /\ UNCHANGED submissionVars
        /\ UNCHANGED <<stageVars, remoteVars, rec>>

\* The upload to COS.  One that fails may have stored the object all the same.
Put(w) ==
    /\ pc[w] = "put"
    /\ \/ object' = TRUE /\ Goto(w, "staged")
       \/ object' \in {object, TRUE} /\ Goto(w, "abort")
    /\ UNCHANGED <<stageVars, submissionVars, paid, rec>>

\* presign_get raises.
PresignFails(w) ==
    /\ pc[w] = "mark"
    /\ Cos
    /\ Goto(w, "abort")
    /\ UNCHANGED <<stageVars, submissionVars, remoteVars, rec>>

\* mark_sending up to its check.
MarkSendingReads(w) ==
    /\ pc[w] = "mark"
    /\ Goto(w, IF state[run[w]] = "prepared" THEN "markWrite" ELSE "abort")
    /\ UNCHANGED <<stageVars, submissionVars, remoteVars, rec>>

\* Faulty variant: the transition is not committed before the paid request.
MarkSendingUncommitted(w) ==
    /\ pc[w] = "markWrite"
    /\ Goto(w, "create")
    /\ UNCHANGED <<stageVars, submissionVars, remoteVars, rec>>

\* mark_sending's assignments and commit.
MarkSendingWrites(w) ==
    /\ pc[w] = "markWrite"
    /\ state' = [state EXCEPT ![run[w]] = "sending"]
    /\ signed' = [signed EXCEPT ![run[w]] = @ \/ Cos]
    /\ Goto(w, "create")
    /\ UNCHANGED <<stageVars, task, poll, key, cleanup, remoteVars, rec>>

\* The paid request.  An answer from which the provider's decision can be told goes with it;
\* the last disjunct is an exception nothing foresees, before or after the request.
Create(w) ==
    /\ pc[w] = "create"
    /\ \E taken \in BOOLEAN :
         /\ paid' = IF taken THEN [paid EXCEPT ![run[w]] = @ + 1] ELSE paid
         /\ \/ \E r \in CreateAnswers :
                 /\ taken => r \in AnswersWhenTaken
                 /\ r = "task" => taken
                 /\ Goto(w, CreateOutcome(r))
            \/ Goto(w, "abort")
    /\ UNCHANGED <<stageVars, submissionVars, object, rec>>

\* mark_failed_before_submit: cleanup_due_at is set if there is an object.
SubmissionFails(a) ==
    /\ state' = [state EXCEPT ![a] = "failed"]
    /\ poll' = [poll EXCEPT ![a] = FALSE]
    /\ cleanup' = [cleanup EXCEPT ![a] = @ \/ key[a]]
    /\ UNCHANGED <<ext, task, key, signed>>

\* mark_unknown: also writes the stage row.
SubmissionUnknown(a) ==
    /\ state' = [state EXCEPT ![a] = "submission_unknown"]
    /\ ext' = [ext EXCEPT ![a] = "submission_unknown"]
    /\ poll' = [poll EXCEPT ![a] = FALSE]
    /\ cleanup' = [cleanup EXCEPT ![a] = @ \/ signed[a]]
    /\ UNCHANGED <<task, key, signed>>

\* CloudAsrRequestError with a definite refusal.
MarkRefused(w) ==
    /\ pc[w] = "refused"
    /\ IF state[run[w]] \in {"prepared", "sending"}
       THEN SubmissionFails(run[w]) /\ Handle(w, "failed")
       ELSE Goto(w, "error") /\ UNCHANGED <<ext, submissionVars>>
    /\ UNCHANGED <<stage, strategy, holder, live, remoteVars, rec>>

\* CloudAsrRequestError with an unknown outcome, or a resumed attempt found in "sending".
MarkUnknown(w) ==
    /\ pc[w] = "markUnknown"
    /\ IF state[run[w]] = "sending"
       THEN SubmissionUnknown(run[w]) /\ Handle(w, "submission_unknown")
       ELSE Goto(w, "error") /\ UNCHANGED <<ext, submissionVars>>
    /\ UNCHANGED <<stage, strategy, holder, live, remoteVars, rec>>

\* Any other exception between prepare and the answer.
Abort(w) ==
    LET a == run[w]
    IN  /\ pc[w] = "abort"
        /\ \/ state[a] = "sending" /\ SubmissionUnknown(a) /\ Handle(w, "submission_unknown")
           \/ state[a] = "prepared" /\ SubmissionFails(a) /\ Handle(w, "failed")
           \/ /\ state[a] \notin {"sending", "prepared"}
              /\ Handle(w, state[a])
              /\ UNCHANGED <<ext, submissionVars>>
        /\ UNCHANGED <<stage, strategy, holder, live, remoteVars, rec>>

MarkSubmitted(w) ==
    LET a == run[w]
    IN  /\ pc[w] = "created"
        /\ IF state[a] = "sending"
           THEN /\ state' = [state EXCEPT ![a] = "submitted"]
                /\ task' = [task EXCEPT ![a] = TRUE]
                /\ Goto(w, "schedule")
           ELSE Goto(w, "error") /\ UNCHANGED <<state, task>>
        /\ UNCHANGED <<stageVars, poll, key, signed, cleanup, remoteVars, rec>>

ScheduleQuery(w) ==
    LET a == run[w]
    IN  /\ pc[w] = "schedule"
        /\ IF state[a] = "submitted"
           THEN poll' = [poll EXCEPT ![a] = TRUE] /\ Goto(w, "defer")
           ELSE Goto(w, "error") /\ UNCHANGED poll
        /\ UNCHANGED <<stageVars, state, task, key, signed, cleanup, remoteVars, rec>>

\* _handle_cloud_terminal.  A result that cannot be read or published is an error.
HandleTerminal(w) ==
    /\ pc[w] = "terminal"
    /\ \/ seen[w] = "succeeded" /\ \E p \in {"publish", "error"} : Goto(w, p)
       \/ seen[w] \in {"failed", "submission_unknown"} /\ FallBack(w)
       \/ seen[w] \notin TerminalSubmissions /\ Goto(w, "error")
    /\ UNCHANGED <<stageVars, submissionVars, remoteVars, rec>>

\* _run_local: a transcript, an error, or a busy GPU.
RunLocal(w) ==
    /\ pc[w] = "local"
    /\ \E p \in {"publish", "error", "requeue"} : Goto(w, p)
    /\ UNCHANGED <<stageVars, submissionVars, remoteVars, rec>>

\* The store calls of Worker.run.  fail overwrites external_submission_state with the value its
\* error carries, and no error of this stage carries one.
Conclude(w, from, s, e) ==
    /\ pc[w] = from
    /\ IF ClaimMatches(w) THEN EndRun(run[w], s, e) ELSE UNCHANGED stageVars
    /\ Drop(w)
    /\ UNCHANGED <<submissionVars, remoteVars, rec>>

Return(w) ==
    \/ Conclude(w, "complete", "completed", ext[run[w]])
    \/ Conclude(w, "defer", "waiting_external", "submitted")
    \/ Conclude(w, "error", "failed", "none")
    \/ Conclude(w, "requeue", "queued", ext[run[w]])

CrashWorker(w) ==
    /\ Alive(w)
    /\ pc' = [pc EXCEPT ![w] = "dead"]
    /\ run' = [run EXCEPT ![w] = NoAttempt]
    /\ seen' = [seen EXCEPT ![w] = "none"]
    /\ UNCHANGED <<stageVars, submissionVars, remoteVars, rec>>

LeaseExpires(a) ==
    /\ live[a]
    /\ live' = [live EXCEPT ![a] = FALSE]
    /\ UNCHANGED <<stage, ext, strategy, holder, submissionVars, remoteVars, handlerVars, rec>>
-----------------------------------------------------------------------------
(* The reconciler, one remote call per pass *)

\* Faulty variant: results never expire.
DueWithoutExpiry(a) ==
    IF key[a] /\ cleanup[a] THEN {"delete"}
    ELSE IF state[a] = "submitted" /\ poll[a] THEN {"query"} ELSE {}

\* What _claim_one may do with a submission: an object to delete goes first.  A submitted request
\* expires after 24 hours, whenever that is.
Due(a) ==
    IF key[a] /\ cleanup[a] THEN {"delete"}
    ELSE IF state[a] = "submitted" THEN {"expire"} \cup (IF poll[a] THEN {"query"} ELSE {})
    ELSE {}

ClaimSubmission(a, action) ==
    /\ rec = NoClaim
    /\ action \in Due(a)
    /\ rec' = [attempt |-> a, action |-> action]
    /\ UNCHANGED <<stageVars, submissionVars, remoteVars, handlerVars>>

\* _wake_transcribe_stage: a waiting stage is queued, or canceled if its task or item is; which are
\* so because a cancel of the task read its stages before this one began to wait.
Wake(a, terminal) ==
    IF stage[a] = "waiting_external"
    THEN /\ \E s \in {"queued", "canceled"} : stage' = [stage EXCEPT ![a] = s]
         /\ ext' = [ext EXCEPT ![a] = terminal]
    ELSE UNCHANGED <<stage, ext>>

\* Faulty variant: the object of an ended request is forgotten.
EndSubmissionOnly(a, terminal) ==
    /\ state' = [state EXCEPT ![a] = terminal]
    /\ poll' = [poll EXCEPT ![a] = FALSE]
    /\ Wake(a, terminal)
    /\ rec' = NoClaim
    /\ UNCHANGED <<strategy, holder, live, task, key, signed, cleanup, remoteVars, handlerVars>>

EndSubmission(a, terminal) ==
    /\ state' = [state EXCEPT ![a] = terminal]
    /\ poll' = [poll EXCEPT ![a] = FALSE]
    /\ cleanup' = [cleanup EXCEPT ![a] = @ \/ key[a]]
    /\ Wake(a, terminal)
    /\ rec' = NoClaim
    /\ UNCHANGED <<strategy, holder, live, task, key, signed, remoteVars, handlerVars>>

Expire(a) ==
    /\ rec = [attempt |-> a, action |-> "expire"]
    /\ EndSubmission(a, "failed")

\* The answer to a query: an end, or another try later.
Query(a) ==
    /\ rec = [attempt |-> a, action |-> "query"]
    /\ \E r \in QueryAnswers :
         IF r \in Repeatable
         THEN /\ poll' = [poll EXCEPT ![a] = TRUE]
              /\ rec' = NoClaim
              /\ UNCHANGED <<stageVars, state, task, key, signed, cleanup, remoteVars, handlerVars>>
         ELSE EndSubmission(a, QueryOutcome(r))

\* The remote deletion, then its record.
DeleteObject(a) ==
    /\ rec = [attempt |-> a, action |-> "delete"]
    /\ object' = FALSE
    /\ rec' = [rec EXCEPT !.action = "deleted"]
    /\ UNCHANGED <<stageVars, submissionVars, paid, handlerVars>>

\* The deletion raises, whether it was carried out or not; it is due again in five minutes.
DeletionFails(a) ==
    /\ rec = [attempt |-> a, action |-> "delete"]
    /\ object' \in {object, FALSE}
    /\ rec' = NoClaim
    /\ UNCHANGED <<stageVars, submissionVars, paid, handlerVars>>

\* Faulty variant: the row goes on naming the object that is gone.
RecordDeletionKeepingKey(a) ==
    /\ rec = [attempt |-> a, action |-> "deleted"]
    /\ signed' = [signed EXCEPT ![a] = FALSE]
    /\ cleanup' = [cleanup EXCEPT ![a] = FALSE]
    /\ rec' = NoClaim
    /\ UNCHANGED <<stageVars, state, task, poll, key, remoteVars, handlerVars>>

RecordDeletion(a) ==
    /\ rec = [attempt |-> a, action |-> "deleted"]
    /\ key' = [key EXCEPT ![a] = FALSE]
    /\ signed' = [signed EXCEPT ![a] = FALSE]
    /\ cleanup' = [cleanup EXCEPT ![a] = FALSE]
    /\ rec' = NoClaim
    /\ UNCHANGED <<stageVars, state, task, poll, remoteVars, handlerVars>>

\* The maintenance process dies; its lease on the submission runs out.
CrashReconciler ==
    /\ rec # NoClaim
    /\ rec' = NoClaim
    /\ UNCHANGED <<stageVars, submissionVars, remoteVars, handlerVars>>
-----------------------------------------------------------------------------
Submit(w) ==
    \/ Prepare(w) \/ Put(w) \/ PresignFails(w) \/ MarkSendingReads(w) \/ MarkSendingWrites(w)
    \/ Create(w)
    \/ MarkRefused(w) \/ MarkUnknown(w) \/ Abort(w) \/ MarkSubmitted(w) \/ ScheduleQuery(w)

HandlerNext(w) ==
    \/ Checkpoint(w) \/ Decide(w) \/ Submit(w) \/ HandleTerminal(w) \/ RunLocal(w) \/ Return(w)

ReconcilerNext ==
    \/ CrashReconciler
    \/ \E a \in Attempts :
         \/ \E action \in {"query", "expire", "delete"} : ClaimSubmission(a, action)
         \/ Expire(a) \/ Query(a) \/ DeleteObject(a) \/ DeletionFails(a) \/ RecordDeletion(a)

UserNext == \E a \in Attempts : Cancel(a) \/ \E s \in Strategies : Retry(a, s)

Next ==
    \/ UserNext \/ ReconcilerNext
    \/ \E w \in Workers : StartWorker(w) \/ ClaimNext(w) \/ HandlerNext(w) \/ CrashWorker(w)
    \/ \E a \in Attempts : LeaseExpires(a)

Spec == Init /\ [][Next]_vars

\* The maintenance loop runs every five seconds for as long as the application does; it claims
\* every due row in turn, is not killed in every pass, and after 24 hours expires a request.  A
\* deletion that is tried again and again succeeds once.
Fairness ==
    \A a \in Attempts :
        /\ SF_vars(ClaimSubmission(a, "expire"))
        /\ SF_vars(ClaimSubmission(a, "delete"))
        /\ SF_vars(Expire(a))
        /\ SF_vars(Query(a))
        /\ SF_vars(DeleteObject(a))
        /\ SF_vars(RecordDeletion(a))

FairSpec == Spec /\ Fairness
-----------------------------------------------------------------------------
(* Properties *)

\* Every row and every process has its type; a handler has an attempt.
TypeOK ==
    /\ stage \in [Attempts -> {"absent", "queued", "running", "waiting_external",
                               "cancel_requested", "canceled", "failed", "completed"}]
    /\ ext \in [Attempts -> {"none", "submitted", "submission_unknown", "succeeded", "failed"}]
    /\ strategy \in [Attempts -> Strategies]
    /\ holder \in [Attempts -> Workers \cup {NoWorker}]
    /\ live \in [Attempts -> BOOLEAN]
    /\ state \in [Attempts -> SubmissionStates]
    /\ task \in [Attempts -> BOOLEAN]
    /\ poll \in [Attempts -> BOOLEAN]
    /\ key \in [Attempts -> BOOLEAN]
    /\ signed \in [Attempts -> BOOLEAN]
    /\ cleanup \in [Attempts -> BOOLEAN]
    /\ object \in BOOLEAN
    /\ paid \in [Attempts -> Nat]
    /\ pc \in [Workers -> HandlerPoints \cup {"unborn", "idle", "dead"}]
    /\ run \in [Workers -> Attempts \cup {NoAttempt}]
    /\ seen \in [Workers -> SubmissionStates]
    /\ rec \in [attempt : Attempts \cup {NoAttempt},
                action : {"none", "query", "expire", "delete", "deleted"}]
    /\ \A w \in Workers : pc[w] \in HandlerPoints => run[w] \in Attempts

\* An attempt pays for at most one request, whatever crashes, recoveries and wake-ups it goes
\* through, as long as one worker process lives at a time: "sending" is durable before the request
\* goes out, and a resumed attempt that finds it never sends again.
PaidOnce == \A a \in Attempts : paid[a] <= 1

\* What the cloud_submissions row says of a request the provider took: its task id, or that its
\* outcome is unknown, never that it failed without having been sent; only while "sending" may the
\* record lag behind.  What a retry makes of it is another matter: see UnknownIsConfirmed.
AcceptedIsOnRecord ==
    \A a \in Attempts :
        paid[a] > 0 => task[a] \/ state[a] \in {"sending", "submission_unknown"}

\* Every submission that is over has its COS object deleted or scheduled for deletion, on each of
\* the paths on which one can end.
EndedIsCleanedUp ==
    \A a \in Attempts :
        state[a] \in TerminalSubmissions \cup {"canceled"} /\ key[a] => cleanup[a]

\* What the documents demand and the code does not keep, and no run lists: a retry after a
\* submission whose outcome is unknown goes to the cloud only if the user has confirmed it
\* (retry_stage).  It fails because the failure of the stage overwrites what retry_stage looks at.
UnknownIsConfirmed ==
    [][\A a \in Attempts \ {MaxAttempt} :
         state[a] = "submission_unknown" /\ stage[a + 1] = "absent" /\ stage'[a + 1] # "absent"
           => strategy'[a + 1] # "same"]_vars

\* A submitted request ends even if the worker dies before it schedules the first query, or the
\* provider answers nothing but "still running": the 24 hours of its result run out.
SubmissionEnds == \A a \in Attempts : state[a] = "submitted" ~> state[a] # "submitted"

\* A deletion that is due is carried out, however often the reconciler dies half way.
CleanupCompletes == \A a \in Attempts : (key[a] /\ cleanup[a]) ~> ~key[a]

=============================================================================
