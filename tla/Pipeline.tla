------------------------------ MODULE Pipeline ------------------------------
(***************************************************************************)
(* The shared stage relationships and the status aggregation rules of      *)
(* src/vtnote/pipeline.py.  Everything here is a constant or an operator:  *)
(* the state machines that use them keep the rows.                         *)
(***************************************************************************)
EXTENDS Naturals

Stages == {"source", "transcribe", "translate", "notes"}

StageStatuses ==
    {"queued", "running", "waiting_external", "cancel_requested",
     "canceled", "failed", "completed", "skipped"}

\* Statuses of items and tasks.
ContainerStatuses ==
    {"queued", "running", "cancel_requested",
     "canceled", "failed", "completed", "completed_with_warnings"}

TerminalStatuses == {"canceled", "completed", "completed_with_warnings", "failed"}

RetryableStageStatuses == {"failed", "canceled"}

ActiveStageStatuses == {"running", "waiting_external", "cancel_requested"}

SuccessfulStageStatuses == {"completed", "skipped"}

\* The attempts that no worker and no reconciler has anything left to do for.
EndedStageStatuses == SuccessfulStageStatuses \cup RetryableStageStatuses

CoreStages == {"source", "transcribe"}

StageOrder ==
    [source |-> 0, transcribe |-> 1, translate |-> 2, notes |-> 3]

StageDependencies ==
    [source     |-> {},
     transcribe |-> {"source"},
     translate  |-> {"transcribe"},
     notes      |-> {"transcribe"}]

RetryActiveConflicts ==
    [source     |-> {"source", "transcribe", "translate", "notes"},
     transcribe |-> {"source", "transcribe", "translate", "notes"},
     translate  |-> {"source", "transcribe", "translate"},
     notes      |-> {"source", "transcribe", "notes"}]

-----------------------------------------------------------------------------
(***************************************************************************)
(* aggregate_item_status.  latest maps each stage that has a run to the    *)
(* status of its newest attempt.  A core stage without a run counts as not *)
(* yet successful.                                                         *)
(***************************************************************************)
AggregateItemStatus(latest, hasWarnings) ==
    LET statuses == {latest[s] : s \in DOMAIN latest}
        core     == {latest[s] : s \in CoreStages \cap DOMAIN latest}
        optional == {latest[s] : s \in DOMAIN latest \ CoreStages}
        coreDone == CoreStages \subseteq DOMAIN latest
                      /\ core \subseteq SuccessfulStageStatuses
    IN  IF "cancel_requested" \in statuses THEN "cancel_requested"
        ELSE IF {"running", "waiting_external"} \cap statuses # {} THEN "running"
        ELSE IF "failed" \in core THEN "failed"
        ELSE IF "canceled" \in core THEN "canceled"
        ELSE IF "queued" \in statuses \/ ~coreDone THEN "queued"
        ELSE IF hasWarnings \/ {"failed", "canceled"} \cap optional # {}
             THEN "completed_with_warnings"
        ELSE "completed"

(***************************************************************************)
(* aggregate_task_status, from the set of the statuses of a task's items.  *)
(***************************************************************************)
AggregateTaskStatus(statuses) ==
    IF statuses = {} THEN "queued"
    ELSE IF "cancel_requested" \in statuses THEN "cancel_requested"
    ELSE IF "running" \in statuses THEN "running"
    ELSE IF "queued" \in statuses THEN "queued"
    ELSE IF "failed" \in statuses THEN "failed"
    ELSE IF statuses = {"canceled"} THEN "canceled"
    ELSE IF {"completed_with_warnings", "canceled"} \cap statuses # {}
         THEN "completed_with_warnings"
    ELSE "completed"
=============================================================================
