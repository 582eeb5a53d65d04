---------------------------- MODULE CloudAsrProofs ----------------------------
(***************************************************************************)
(* Proofs about CloudAsr for any workers, attempts and modes: types, the   *)
(* cleanup of ended submissions, and, while one worker process lives at a  *)
(* time, that an attempt pays once and that what the provider took is on   *)
(* record.                                                                 *)
(***************************************************************************)
EXTENDS CloudAsr, TLAPS

Over == TerminalSubmissions \cup {"canceled"}

(* A row that is over has its object scheduled for deletion.  mark_unknown  *)
(* goes by the signed URL, which every request that may be out has.        *)
CleanupInv ==
  \A a \in Attempts :
    /\ state[a] \in Over /\ key[a] => cleanup[a]
    /\ state[a] = "sending" /\ key[a] => signed[a]
    /\ key[a] => Cos

OneWorker == \A v, w \in Workers : Alive(v) /\ Alive(w) => v = w

(* Nothing is paid before "sending" is durable, and the one worker is the   *)
(* only one to take a row from "prepared" to "sending".                    *)
WorkerInv ==
  \A w \in Workers :
    /\ pc[w] = "markWrite" => state[run[w]] = "prepared"
    /\ pc[w] = "create" => state[run[w]] = "sending" /\ paid[run[w]] = 0
    /\ pc[w] = "refused" => paid[run[w]] = 0

PaymentInv ==
  \A a \in Attempts :
    /\ paid[a] <= 1
    /\ state[a] \in {"none", "prepared", "canceled"} => paid[a] = 0
    /\ state[a] = "submitted" => task[a]
    /\ paid[a] > 0 => task[a] \/ state[a] \in {"sending", "submission_unknown"}

(* What the reconciler claimed to end is still open when it ends it. *)
ReconcilerInv ==
  rec.action \in {"query", "expire"} =>
    rec.attempt \in Attempts /\ state[rec.attempt] = "submitted"

PaidInv == OneWorker /\ WorkerInv /\ PaymentInv /\ ReconcilerInv

-----------------------------------------------------------------------------
LEMMA ConstantsOK ==
  /\ MaxAttempt \in Nat /\ MaxAttempt # 0
  /\ Mode \in {"auto", "cloud"} /\ Cos \in BOOLEAN /\ Overlap \in BOOLEAN
  /\ NoWorker \notin Workers
BY SettingAssumption DEF SettingAssumption

LEMMA AttemptsOK == Attempts \subseteq Nat /\ 1 \in Attempts /\ NoAttempt \notin Attempts
BY ConstantsOK DEF Attempts, NoAttempt

(* What the answers of the provider come to. *)
LEMMA CreateCases ==
  ASSUME NEW w \in Workers, Create(w)
  PROVE  /\ pc[w] = "create"
         /\ UNCHANGED <<stageVars, submissionVars, object, rec>>
         /\ \/ /\ paid' = [paid EXCEPT ![run[w]] = @ + 1]
               /\ \E p \in {"created", "markUnknown", "abort"} : Goto(w, p)
            \/ /\ UNCHANGED paid
               /\ \E p \in {"refused", "markUnknown", "abort"} : Goto(w, p)
<1>1. ASSUME NEW r \in AnswersWhenTaken
      PROVE  CreateOutcome(r) \in {"created", "markUnknown"}
  BY DEF AnswersWhenTaken, CreateOutcome, Refusals, ErrorAnswers
<1>2. ASSUME NEW r \in CreateAnswers, r # "task"
      PROVE  CreateOutcome(r) \in {"refused", "markUnknown"}
  BY <1>2 DEF CreateOutcome
<1> QED BY <1>1, <1>2 DEF Create

LEMMA QueryCases ==
  ASSUME NEW a \in Attempts, Query(a)
  PROVE  /\ rec = [attempt |-> a, action |-> "query"]
         /\ \/ \E t \in {"succeeded", "failed"} : EndSubmission(a, t)
            \/ /\ poll' = [poll EXCEPT ![a] = TRUE]
               /\ rec' = NoClaim
               /\ UNCHANGED <<stageVars, state, task, key, signed, cleanup, remoteVars,
                              handlerVars>>
BY DEF Query, QueryOutcome

LEMMA TypeInit == Init => TypeOK
<1> SUFFICES ASSUME Init PROVE TypeOK
  OBVIOUS
<1>1. rec \in [attempt : Attempts \cup {NoAttempt},
               action : {"none", "query", "expire", "delete", "deleted"}]
  BY DEF Init, NoClaim
<1>2. \A w \in Workers : pc[w] \notin HandlerPoints
  BY DEF Init, HandlerPoints
<1>3. "none" \in SubmissionStates /\ "same" \in Strategies
  BY DEF SubmissionStates, Strategies
<1> QED BY <1>1, <1>2, <1>3 DEF Init, TypeOK

LEMMA TypeUser == ASSUME TypeOK, UserNext PROVE TypeOK'
<1>1. ASSUME NEW a \in Attempts, Cancel(a) PROVE TypeOK'
  BY <1>1 DEF TypeOK, Cancel, submissionVars, remoteVars, handlerVars
<1>2. ASSUME NEW a \in Attempts, NEW s \in Strategies, Retry(a, s) PROVE TypeOK'
  <2>1. a + 1 \in Attempts
    BY <1>2, ConstantsOK DEF Retry, Attempts
  <2> QED BY <1>2, <2>1 DEF TypeOK, Retry, submissionVars, remoteVars, handlerVars
<1> QED BY <1>1, <1>2 DEF UserNext

LEMMA TypeReconciler == ASSUME TypeOK, ReconcilerNext PROVE TypeOK'
<1> USE DEF TypeOK, stageVars, submissionVars, remoteVars, handlerVars, NoClaim
<1>1. CASE CrashReconciler
  BY <1>1 DEF CrashReconciler
<1>2. ASSUME NEW a \in Attempts, NEW action \in {"query", "expire", "delete"},
             ClaimSubmission(a, action)
      PROVE  TypeOK'
  BY <1>2 DEF ClaimSubmission
<1>3. ASSUME NEW a \in Attempts, NEW t \in {"succeeded", "failed"}, EndSubmission(a, t)
      PROVE  TypeOK'
  BY <1>3 DEF EndSubmission, Wake, SubmissionStates, TerminalSubmissions
<1>4. ASSUME NEW a \in Attempts, Query(a) PROVE TypeOK'
  <2>1. CASE \E t \in {"succeeded", "failed"} : EndSubmission(a, t)
    BY <1>3, <2>1
  <2>2. CASE poll' = [poll EXCEPT ![a] = TRUE] /\ rec' = NoClaim
             /\ UNCHANGED <<stageVars, state, task, key, signed, cleanup, remoteVars, handlerVars>>
    BY <2>2
  <2> QED BY <1>4, <2>1, <2>2, QueryCases
<1>5. ASSUME NEW a \in Attempts, DeleteObject(a) PROVE TypeOK'
  BY <1>5 DEF DeleteObject
<1>6. ASSUME NEW a \in Attempts, DeletionFails(a) PROVE TypeOK'
  BY <1>6 DEF DeletionFails
<1>7. ASSUME NEW a \in Attempts, RecordDeletion(a) PROVE TypeOK'
  BY <1>7 DEF RecordDeletion
<1> QED BY <1>1, <1>2, <1>3, <1>4, <1>5, <1>6, <1>7 DEF ReconcilerNext, Expire

-----------------------------------------------------------------------------
(* The worker.  Goto, Handle and Drop keep the types of what they assign.   *)

HandlerTypes ==
  /\ pc \in [Workers -> HandlerPoints \cup {"unborn", "idle", "dead"}]
  /\ run \in [Workers -> Attempts \cup {NoAttempt}]
  /\ seen \in [Workers -> SubmissionStates]
  /\ \A w \in Workers : pc[w] \in HandlerPoints => run[w] \in Attempts

StageTypes ==
  /\ stage \in [Attempts -> {"absent", "queued", "running", "waiting_external",
                             "cancel_requested", "canceled", "failed", "completed"}]
  /\ ext \in [Attempts -> {"none", "submitted", "submission_unknown", "succeeded", "failed"}]
  /\ strategy \in [Attempts -> Strategies]
  /\ holder \in [Attempts -> Workers \cup {NoWorker}]
  /\ live \in [Attempts -> BOOLEAN]

SubmissionTypes ==
  /\ state \in [Attempts -> SubmissionStates]
  /\ task \in [Attempts -> BOOLEAN]
  /\ poll \in [Attempts -> BOOLEAN]
  /\ key \in [Attempts -> BOOLEAN]
  /\ signed \in [Attempts -> BOOLEAN]
  /\ cleanup \in [Attempts -> BOOLEAN]

RemoteTypes ==
  /\ object \in BOOLEAN
  /\ paid \in [Attempts -> Nat]
  /\ rec \in [attempt : Attempts \cup {NoAttempt},
              action : {"none", "query", "expire", "delete", "deleted"}]

LEMMA TypeParts == TypeOK <=> HandlerTypes /\ StageTypes /\ SubmissionTypes /\ RemoteTypes
BY DEF TypeOK, HandlerTypes, StageTypes, SubmissionTypes, RemoteTypes

LEMMA TypePartsNext == HandlerTypes' /\ StageTypes' /\ SubmissionTypes' /\ RemoteTypes' => TypeOK'
BY DEF TypeOK, HandlerTypes, StageTypes, SubmissionTypes, RemoteTypes

LEMMA HandlerMoves ==
  ASSUME HandlerTypes, NEW w \in Workers, pc[w] \in HandlerPoints,
         \/ \E p \in HandlerPoints : Goto(w, p)
         \/ \E s \in SubmissionStates : Handle(w, s)
         \/ Drop(w)
  PROVE  HandlerTypes'
<1>1. {"terminal"} \subseteq HandlerPoints /\ "idle" \notin HandlerPoints
      /\ "none" \in SubmissionStates
  BY DEF HandlerPoints, SubmissionStates
<1>2. CASE \E p \in HandlerPoints : Goto(w, p)
  BY <1>2 DEF HandlerTypes, Goto
<1>3. CASE \E s \in SubmissionStates : Handle(w, s)
  BY <1>1, <1>3 DEF HandlerTypes, Handle
<1>4. CASE Drop(w)
  BY <1>1, <1>4 DEF HandlerTypes, Drop
<1> QED BY <1>2, <1>3, <1>4

LEMMA TypeHandler ==
  ASSUME TypeOK, NEW w \in Workers, HandlerNext(w)
  PROVE  TypeOK'
<1> USE DEF stageVars, submissionVars, remoteVars
<1>1. CASE Checkpoint(w)
  <2>1. pc[w] \in HandlerPoints /\ run[w] \in Attempts
        /\ AfterCheckpoint[pc[w]] \in HandlerPoints
    BY <1>1 DEF Checkpoint, AfterCheckpoint, HandlerPoints, TypeOK
  <2>2. HandlerTypes'
    BY <1>1, <2>1, TypeParts, HandlerMoves DEF Checkpoint
  <2>3. StageTypes'
    BY <1>1, <2>1, TypeParts DEF Checkpoint, StageTypes, EndRun
  <2>4. SubmissionTypes'
    BY <1>1, <2>1, TypeParts DEF Checkpoint, SubmissionTypes, CancelCleanup, SubmissionStates
  <2>5. RemoteTypes'
    BY <1>1, TypeParts DEF Checkpoint, RemoteTypes
  <2> QED BY <2>2, <2>3, <2>4, <2>5, TypePartsNext
<1>2. CASE Decide(w) \/ HandleTerminal(w) \/ RunLocal(w)
  <2>1. pc[w] \in HandlerPoints /\ run[w] \in Attempts /\ state[run[w]] \in SubmissionStates
    BY <1>2 DEF Decide, HandleTerminal, RunLocal, HandlerPoints, TypeOK
  <2>2. \/ \E p \in HandlerPoints : Goto(w, p)
        \/ \E s \in SubmissionStates : Handle(w, s)
    BY <1>2, <2>1 DEF Decide, HandleTerminal, RunLocal, FallBack, HandlerPoints
  <2>3. HandlerTypes'
    BY <2>1, <2>2, TypeParts, HandlerMoves
  <2>4. StageTypes' /\ SubmissionTypes' /\ RemoteTypes'
    BY <1>2, TypeParts
    DEF Decide, HandleTerminal, RunLocal, StageTypes, SubmissionTypes, RemoteTypes
  <2> QED BY <2>3, <2>4, TypePartsNext
<1>3. CASE Submit(w)
  <2>1. pc[w] \in HandlerPoints /\ run[w] \in Attempts /\ state[run[w]] \in SubmissionStates
    BY <1>3 DEF Submit, Prepare, Put, PresignFails, MarkSendingReads, MarkSendingWrites, Create,
        MarkRefused,
                MarkUnknown, Abort, MarkSubmitted, ScheduleQuery, HandlerPoints, TypeOK
  <2>2. \/ \E p \in HandlerPoints : Goto(w, p)
        \/ \E s \in SubmissionStates : Handle(w, s)
    BY <1>3, <2>1, CreateCases
    DEF Submit, Prepare, Put, PresignFails, MarkSendingReads, MarkSendingWrites, MarkRefused,
        MarkUnknown, Abort, MarkSubmitted, ScheduleQuery, FallBack, HandlerPoints,
        SubmissionStates, TerminalSubmissions
  <2>3. HandlerTypes'
    BY <2>1, <2>2, TypeParts, HandlerMoves
  <2>4. StageTypes'
    BY <1>3, <2>1, TypeParts
    DEF Submit, Prepare, Put, PresignFails, MarkSendingReads, MarkSendingWrites, Create,
        MarkRefused,
        MarkUnknown, Abort, MarkSubmitted, ScheduleQuery, SubmissionFails, SubmissionUnknown,
        StageTypes
  <2>5. SubmissionTypes'
    <3> USE <2>1, TypeParts DEF SubmissionTypes, SubmissionStates
    <3>1. CASE Prepare(w)
      BY <3>1, ConstantsOK DEF Prepare
    <3>2. CASE Put(w) \/ PresignFails(w) \/ MarkSendingReads(w) \/ Create(w)
      BY <3>2 DEF Put, PresignFails, MarkSendingReads, Create
    <3>3. CASE MarkSendingWrites(w)
      BY <3>3, ConstantsOK DEF MarkSendingWrites
    <3>4. CASE MarkSubmitted(w) \/ ScheduleQuery(w)
      BY <3>4 DEF MarkSubmitted, ScheduleQuery
    <3>5. CASE MarkRefused(w)
      BY <3>5 DEF MarkRefused, SubmissionFails, TerminalSubmissions
    <3>6. CASE MarkUnknown(w)
      BY <3>6 DEF MarkUnknown, SubmissionUnknown, TerminalSubmissions
    <3>7. CASE Abort(w)
      BY <3>7 DEF Abort, SubmissionFails, SubmissionUnknown, TerminalSubmissions
    <3> QED BY <1>3, <3>1, <3>2, <3>3, <3>4, <3>5, <3>6, <3>7 DEF Submit
  <2>6. RemoteTypes'
    <3> USE <2>1, TypeParts DEF RemoteTypes
    <3>1. CASE Put(w)
      BY <3>1 DEF Put
    <3>2. CASE Create(w)
      BY <3>2, CreateCases
    <3>3. CASE Prepare(w) \/ PresignFails(w) \/ MarkSendingReads(w) \/ MarkSendingWrites(w)
      BY <3>3 DEF Prepare, PresignFails, MarkSendingReads, MarkSendingWrites
    <3>4. CASE \/ MarkRefused(w) \/ MarkUnknown(w) \/ Abort(w)
               \/ MarkSubmitted(w) \/ ScheduleQuery(w)
      BY <3>4 DEF MarkRefused, MarkUnknown, Abort, MarkSubmitted, ScheduleQuery
    <3> QED BY <1>3, <3>1, <3>2, <3>3, <3>4 DEF Submit
  <2> QED BY <2>3, <2>4, <2>5, <2>6, TypePartsNext
<1>4. CASE Return(w)
  <2>1. pc[w] \in HandlerPoints /\ run[w] \in Attempts
    BY <1>4 DEF Return, Conclude, HandlerPoints, TypeOK
  <2>2. HandlerTypes'
    BY <1>4, <2>1, TypeParts, HandlerMoves DEF Return, Conclude
  <2>3. StageTypes'
    BY <1>4, <2>1, TypeParts DEF Return, Conclude, EndRun, StageTypes
  <2>4. SubmissionTypes' /\ RemoteTypes'
    BY <1>4, TypeParts DEF Return, Conclude, SubmissionTypes, RemoteTypes
  <2> QED BY <2>2, <2>3, <2>4, TypePartsNext
<1> QED BY <1>1, <1>2, <1>3, <1>4 DEF HandlerNext

LEMMA TypeWorker ==
  ASSUME TypeOK, NEW w \in Workers, StartWorker(w) \/ ClaimNext(w) \/ CrashWorker(w)
  PROVE  TypeOK'
<1> USE DEF TypeOK, HandlerPoints, SubmissionStates, stageVars, submissionVars, remoteVars
<1>1. CASE StartWorker(w)
  BY <1>1 DEF StartWorker, Goto
<1>2. CASE ClaimNext(w)
  BY <1>2 DEF ClaimNext
<1>3. CASE CrashWorker(w)
  BY <1>3 DEF CrashWorker
<1> QED BY <1>1, <1>2, <1>3

LEMMA TypeStep == TypeOK /\ [Next]_vars => TypeOK'
<1> SUFFICES ASSUME TypeOK, [Next]_vars PROVE TypeOK'
  OBVIOUS
<1>1. ASSUME NEW a \in Attempts, LeaseExpires(a) PROVE TypeOK'
  BY <1>1 DEF TypeOK, LeaseExpires, submissionVars, remoteVars, handlerVars
<1>2. CASE UNCHANGED vars
  BY <1>2 DEF TypeOK, vars, stageVars, submissionVars, remoteVars, handlerVars
<1> QED BY <1>1, <1>2, TypeUser, TypeReconciler, TypeHandler, TypeWorker DEF Next

(***************************************************************************)
(* Every row of the stage and of its submissions, every worker and the     *)
(* reconciler's claim keep their types, and a handler works on an attempt  *)
(* of the stage (StageRunClaim of worker_store.py, cloud_submissions.py).  *)
(***************************************************************************)
THEOREM TypeCorrect == Spec => []TypeOK
BY TypeInit, TypeStep, PTL DEF Spec

-----------------------------------------------------------------------------
(* Objects and their cleanup *)

LEMMA CleanupInit == Init => CleanupInv
BY DEF Init, CleanupInv, Over, TerminalSubmissions

LEMMA CleanupUntouched ==
  ASSUME CleanupInv, UNCHANGED <<state, key, signed, cleanup>> PROVE CleanupInv'
BY DEF CleanupInv

LEMMA CleanupReconciler == ASSUME TypeOK, CleanupInv, ReconcilerNext PROVE CleanupInv'
<1> USE DEF TypeOK, CleanupInv
<1>1. ASSUME NEW a \in Attempts, NEW t \in {"succeeded", "failed"}, EndSubmission(a, t)
      PROVE  CleanupInv'
  BY <1>1 DEF EndSubmission
<1>2. ASSUME NEW a \in Attempts, RecordDeletion(a) PROVE CleanupInv'
  BY <1>2 DEF RecordDeletion
<1>3. ASSUME NEW a \in Attempts, Query(a) PROVE CleanupInv'
  <2>1. CASE \E t \in {"succeeded", "failed"} : EndSubmission(a, t)
    BY <1>1, <2>1
  <2>2. CASE UNCHANGED <<state, key, signed, cleanup>>
    BY <2>2, CleanupUntouched
  <2> QED BY <1>3, <2>1, <2>2, QueryCases
<1>4. ASSUME NEW a \in Attempts, Expire(a) PROVE CleanupInv'
  BY <1>1, <1>4 DEF Expire
<1>5. ASSUME \/ CrashReconciler
             \/ \E a \in Attempts :
                  \/ \E action \in {"query", "expire", "delete"} : ClaimSubmission(a, action)
                  \/ DeleteObject(a) \/ DeletionFails(a)
      PROVE  CleanupInv'
  BY <1>5, CleanupUntouched
  DEF CrashReconciler, ClaimSubmission, DeleteObject, DeletionFails, submissionVars
<1> QED BY <1>2, <1>3, <1>4, <1>5 DEF ReconcilerNext

LEMMA CleanupSubmit ==
  ASSUME TypeOK, CleanupInv, NEW w \in Workers, Submit(w) PROVE CleanupInv'
<1> USE DEF TypeOK, CleanupInv, Over, TerminalSubmissions, submissionVars
<1>1. CASE Prepare(w)
  BY <1>1 DEF Prepare
<1>2. CASE Put(w) \/ PresignFails(w) \/ MarkSendingReads(w) \/ Create(w) \/ ScheduleQuery(w)
  BY <1>2, CleanupUntouched DEF Put, PresignFails, MarkSendingReads, Create, ScheduleQuery
<1>3. CASE MarkSendingWrites(w)
  BY <1>3 DEF MarkSendingWrites, HandlerPoints
<1>4. CASE MarkSubmitted(w)
  BY <1>4 DEF MarkSubmitted, HandlerPoints
<1>5. CASE MarkRefused(w)
  BY <1>5 DEF MarkRefused, SubmissionFails, HandlerPoints
<1>6. CASE MarkUnknown(w)
  BY <1>6 DEF MarkUnknown, SubmissionUnknown, HandlerPoints
<1>7. CASE Abort(w)
  BY <1>7 DEF Abort, SubmissionFails, SubmissionUnknown, HandlerPoints
<1> QED BY <1>1, <1>2, <1>3, <1>4, <1>5, <1>6, <1>7 DEF Submit

LEMMA CleanupStep == ASSUME TypeOK, CleanupInv, [Next]_vars PROVE CleanupInv'
<1>1. ASSUME NEW w \in Workers, Checkpoint(w) PROVE CleanupInv'
  BY <1>1 DEF Checkpoint, CancelCleanup, CleanupInv, TypeOK, submissionVars, HandlerPoints,
              AfterCheckpoint
<1>2. ASSUME NEW w \in Workers,
             Decide(w) \/ HandleTerminal(w) \/ RunLocal(w) \/ Return(w)
             \/ StartWorker(w) \/ ClaimNext(w) \/ CrashWorker(w)
      PROVE  CleanupInv'
  BY <1>2, CleanupUntouched
  DEF Decide, HandleTerminal, RunLocal, Return, Conclude, StartWorker, ClaimNext, CrashWorker,
      submissionVars
<1>3. CASE UserNext \/ \E a \in Attempts : LeaseExpires(a)
  BY <1>3, CleanupUntouched DEF UserNext, Cancel, Retry, LeaseExpires, submissionVars
<1>4. CASE UNCHANGED vars
  BY <1>4, CleanupUntouched DEF vars, submissionVars
<1> QED BY <1>1, <1>2, <1>3, <1>4, CleanupSubmit, CleanupReconciler DEF Next, HandlerNext

(***************************************************************************)
(* A submission that is over has its COS object deleted or scheduled for   *)
(* deletion, with any number of workers at once: the transitions of        *)
(* cloud_submissions.py and tencent_asr.py that end one set cleanup_due_at *)
(* themselves, and mark_unknown finds the signed URL of every request.     *)
(***************************************************************************)
THEOREM EndedIsCleanedUpCorrect == Spec => []EndedIsCleanedUp
<1>1. Init => TypeOK /\ CleanupInv
  BY TypeInit, CleanupInit
<1>2. TypeOK /\ CleanupInv /\ [Next]_vars => (TypeOK /\ CleanupInv)'
  BY TypeStep, CleanupStep
<1>3. CleanupInv => EndedIsCleanedUp
  BY DEF CleanupInv, EndedIsCleanedUp, Over
<1> QED BY <1>1, <1>2, <1>3, PTL DEF Spec

-----------------------------------------------------------------------------
(* Payments, with one worker process at a time *)

LEMMA PaidInit == Init => PaidInv
BY DEF Init, PaidInv, OneWorker, Alive, WorkerInv, PaymentInv, ReconcilerInv, NoClaim

LEMMA PaidUntouched ==
  ASSUME PaidInv, UNCHANGED <<state, task, paid, pc, run, rec>> PROVE PaidInv'
BY DEF PaidInv, OneWorker, Alive, WorkerInv, PaymentInv, ReconcilerInv

LEMMA PaidReconciler == ASSUME TypeOK, PaidInv, ReconcilerNext PROVE PaidInv'
<1> USE DEF TypeOK, PaidInv, OneWorker, Alive, WorkerInv, PaymentInv, ReconcilerInv, NoClaim,
            stageVars, submissionVars, remoteVars, handlerVars, HandlerPoints
<1>1. ASSUME NEW a \in Attempts, NEW t \in {"succeeded", "failed"}, EndSubmission(a, t),
             state[a] = "submitted"
      PROVE  PaidInv'
  BY <1>1 DEF EndSubmission
<1>2. ASSUME NEW a \in Attempts, Query(a) PROVE PaidInv'
  <2>1. state[a] = "submitted"
    BY <1>2, QueryCases DEF PaidInv, ReconcilerInv
  <2>2. CASE \E t \in {"succeeded", "failed"} : EndSubmission(a, t)
    BY <1>1, <2>1, <2>2
  <2>3. CASE rec' = NoClaim /\ UNCHANGED <<state, task, paid, pc, run>>
    BY <2>3
  <2> QED BY <1>2, <2>2, <2>3, QueryCases
<1>3. ASSUME NEW a \in Attempts, Expire(a) PROVE PaidInv'
  BY <1>1, <1>3 DEF Expire
<1>4. ASSUME NEW a \in Attempts, NEW action \in {"query", "expire", "delete"},
             ClaimSubmission(a, action)
      PROVE  PaidInv'
  BY <1>4 DEF ClaimSubmission, Due
<1>5. ASSUME NEW a \in Attempts, DeleteObject(a) \/ DeletionFails(a) \/ RecordDeletion(a)
      PROVE  PaidInv'
  <2>1. /\ UNCHANGED <<state, task, paid, pc, run>>
        /\ rec'.action \notin {"query", "expire"}
    <3>1. CASE DeleteObject(a)
      BY <3>1 DEF DeleteObject
    <3>2. CASE DeletionFails(a)
      BY <3>2 DEF DeletionFails
    <3>3. CASE RecordDeletion(a)
      BY <3>3 DEF RecordDeletion
    <3> QED BY <1>5, <3>1, <3>2, <3>3
  <2> QED BY <2>1
<1>6. CASE CrashReconciler
  BY <1>6 DEF CrashReconciler
<1> QED BY <1>2, <1>3, <1>4, <1>5, <1>6 DEF ReconcilerNext

(* A handler's step is the only worker's. *)
LEMMA Alone ==
  ASSUME TypeOK, OneWorker, NEW w \in Workers, pc[w] \in HandlerPoints
  PROVE  /\ run[w] \in Attempts
         /\ \A v \in Workers : v # w => pc[v] \in {"unborn", "dead"}
BY DEF TypeOK, OneWorker, Alive, HandlerPoints

LEMMA PaidSubmit ==
  ASSUME TypeOK, PaidInv, NEW w \in Workers, Submit(w) PROVE PaidInv'
<1>1. pc[w] \in HandlerPoints
  BY DEF Submit, Prepare, Put, PresignFails, MarkSendingReads, MarkSendingWrites, Create,
        MarkRefused,
         MarkUnknown, Abort, MarkSubmitted, ScheduleQuery, HandlerPoints
<1>2. /\ run[w] \in Attempts
      /\ \A v \in Workers : v # w => pc[v] \in {"unborn", "dead"}
  BY <1>1, Alone DEF PaidInv
<1> USE <1>1, <1>2 DEF TypeOK, PaidInv, OneWorker, Alive, WorkerInv, PaymentInv, ReconcilerInv,
            stageVars, submissionVars, remoteVars, handlerVars, Goto, Handle
<1>3. CASE Prepare(w)
  BY <1>3 DEF Prepare, FallBack
<1>4. CASE Put(w) \/ PresignFails(w)
  <2>1. /\ UNCHANGED <<state, task, paid, rec, run>>
        /\ \E p \in {"staged", "abort"} : pc' = [pc EXCEPT ![w] = p]
    BY <1>4 DEF Put, PresignFails
  <2> QED BY <2>1 DEF HandlerPoints
<1>5. CASE MarkSendingReads(w)
  BY <1>5 DEF MarkSendingReads
<1>6. CASE MarkSendingWrites(w)
  BY <1>6 DEF MarkSendingWrites
<1>7. CASE Create(w)
  BY <1>7, CreateCases
<1>8. CASE MarkRefused(w)
  <2>1. CASE state[run[w]] \in {"prepared", "sending"}
    <3>1. /\ state' = [state EXCEPT ![run[w]] = "failed"]
          /\ paid[run[w]] = 0
          /\ UNCHANGED <<task, paid, run, rec>>
          /\ pc' = [pc EXCEPT ![w] = "terminal"]
      BY <1>8, <2>1 DEF MarkRefused, SubmissionFails
    <3> QED BY <2>1, <3>1
  <2>2. CASE state[run[w]] \notin {"prepared", "sending"}
    BY <1>8, <2>2 DEF MarkRefused
  <2> QED BY <2>1, <2>2
<1>9. CASE MarkUnknown(w)
  BY <1>9 DEF MarkUnknown, SubmissionUnknown
<1>10. CASE Abort(w)
  BY <1>10 DEF Abort, SubmissionFails, SubmissionUnknown
<1>11. CASE MarkSubmitted(w)
  BY <1>11 DEF MarkSubmitted
<1>12. CASE ScheduleQuery(w)
  BY <1>12 DEF ScheduleQuery
<1> QED BY <1>3, <1>4, <1>5, <1>6, <1>7, <1>8, <1>9, <1>10, <1>11, <1>12 DEF Submit

LEMMA PaidWorker ==
  ASSUME ~Overlap, TypeOK, PaidInv, NEW w \in Workers,
         StartWorker(w) \/ ClaimNext(w) \/ HandlerNext(w) \/ CrashWorker(w)
  PROVE  PaidInv'
<1> USE DEF TypeOK, PaidInv, OneWorker, Alive, WorkerInv, PaymentInv, ReconcilerInv,
            stageVars, submissionVars, remoteVars, handlerVars
<1>1. CASE StartWorker(w)
  BY <1>1 DEF StartWorker, Goto
<1>2. CASE ClaimNext(w)
  BY <1>2 DEF ClaimNext
<1>3. CASE CrashWorker(w)
  BY <1>3 DEF CrashWorker
<1>4. CASE Checkpoint(w)
  <2>1. pc[w] \in HandlerPoints
    BY <1>4 DEF Checkpoint, AfterCheckpoint, HandlerPoints
  <2>2. run[w] \in Attempts
    BY <2>1, Alone
  <2>3. pc'[w] \notin {"markWrite", "create", "refused", "unborn", "dead"}
        /\ pc' = [pc EXCEPT ![w] = pc'[w]]
        /\ \A v \in Workers : v # w => run'[v] = run[v]
    BY <1>4 DEF Checkpoint, AfterCheckpoint, Goto, Drop
  <2>4. \/ UNCHANGED state
        \/ state[run[w]] = "prepared" /\ state' = [state EXCEPT ![run[w]] = "canceled"]
    BY <1>4 DEF Checkpoint, CancelCleanup
  <2>5. UNCHANGED <<task, paid, rec>>
    BY <1>4 DEF Checkpoint, CancelCleanup
  <2> QED BY <2>1, <2>2, <2>3, <2>4, <2>5, Alone
<1>5. CASE Decide(w) \/ HandleTerminal(w) \/ RunLocal(w) \/ Return(w)
  <2>1. UNCHANGED <<state, task, paid, rec>>
    BY <1>5 DEF Decide, HandleTerminal, RunLocal, Return, Conclude
  <2>2. pc'[w] \notin {"markWrite", "create", "refused", "unborn", "dead"}
        /\ pc' = [pc EXCEPT ![w] = pc'[w]]
        /\ pc[w] \notin {"unborn", "dead"}
        /\ \A v \in Workers : v # w => run'[v] = run[v]
    BY <1>5 DEF Decide, HandleTerminal, RunLocal, Return, Conclude, Goto, Handle, Drop, FallBack
  <2> QED BY <2>1, <2>2
<1> QED BY <1>1, <1>2, <1>3, <1>4, <1>5, PaidSubmit DEF HandlerNext

LEMMA PaidStep == ASSUME ~Overlap, TypeOK, PaidInv, [Next]_vars PROVE PaidInv'
<1>1. CASE UserNext \/ \E a \in Attempts : LeaseExpires(a)
  BY <1>1, PaidUntouched
  DEF UserNext, Cancel, Retry, LeaseExpires, submissionVars, remoteVars, handlerVars
<1>2. CASE UNCHANGED vars
  BY <1>2, PaidUntouched DEF vars, submissionVars, remoteVars, handlerVars
<1> QED BY <1>1, <1>2, PaidReconciler, PaidWorker DEF Next

LEMMA PaidHolds == ASSUME ~Overlap PROVE Spec => [](TypeOK /\ PaidInv)
<1>1. Init => TypeOK /\ PaidInv
  BY TypeInit, PaidInit
<1>2. TypeOK /\ PaidInv /\ [Next]_vars => (TypeOK /\ PaidInv)'
  BY TypeStep, PaidStep
<1> QED BY <1>1, <1>2, PTL DEF Spec

(***************************************************************************)
(* While one worker process lives at a time, as the launcher starts them,  *)
(* an attempt pays at most once, whatever crashes, expired leases, cancels *)
(* and wake-ups come between: mark_sending commits "sending" before the    *)
(* request goes out and nobody sends from "sending".                       *)
(***************************************************************************)
THEOREM PaidOnceCorrect == ASSUME ~Overlap PROVE Spec => []PaidOnce
<1>1. PaidInv => PaidOnce
  BY DEF PaidInv, PaymentInv, PaidOnce
<1> QED BY <1>1, PaidHolds, PTL

(***************************************************************************)
(* While one worker process lives at a time, a request the provider took   *)
(* is on record by its task id or as unknown, on every path of             *)
(* _submit_cloud and of the reconciler, and never as a plain failure.      *)
(***************************************************************************)
THEOREM AcceptedIsOnRecordCorrect == ASSUME ~Overlap PROVE Spec => []AcceptedIsOnRecord
<1>1. PaidInv => AcceptedIsOnRecord
  BY DEF PaidInv, PaymentInv, AcceptedIsOnRecord
<1> QED BY <1>1, PaidHolds, PTL

=============================================================================
