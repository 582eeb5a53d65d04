---------------------------- MODULE ModelInstall ----------------------------
(***************************************************************************)
(* The installation of one local recognition model (model_assets.py): its  *)
(* model_installs row, the staging directory the files are downloaded to,  *)
(* the directory they are published in, the installer thread of the worker *)
(* process, and the API's two requests, install and cancel.                *)
(*                                                                         *)
(* A session reads the row, may move directories, and writes at its commit *)
(* only the columns it changed.  Where a directory moves in between, the   *)
(* read, the move and the commit are steps of their own; otherwise the     *)
(* read and the commit are one step.  The launcher starts a new worker     *)
(* process after the old one has ended, so one installer lives at a time;  *)
(* the lease column may still name an ended one.                           *)
(***************************************************************************)
EXTENDS Naturals

CONSTANTS
    N,           \* how many files the manifest lists
    Size,        \* how many chunks a file has
    Etags,       \* the versions of a file a provider may serve
    Pinned,      \* the version whose hashes the manifest pins
    NoTag,       \* no version is known
    Deaths,      \* bound: how often the worker process dies
    Faults       \* bound: how often a download breaks, a live worker's lease runs out, the API
                 \* dies in a request, or the user asks again for a running download

ASSUME InstallAssumption ==
    /\ N \in Nat \ {0}
    /\ Size \in Nat \ {0}
    /\ Pinned \in Etags
    /\ NoTag \notin Etags
    /\ Deaths \in Nat
    /\ Faults \in Nat

Files == 1 .. N

RowStates == {"not_installed", "queued", "downloading", "verifying",
              "installed", "failed", "canceled"}

Tags == Etags \cup {NoTag}

Rows == [state  : RowStates,
         done   : 0 .. N,                          \* completed_files
         bytes  : 0 .. Size,                       \* current_file_bytes
         etag   : Tags,                            \* current_etag
         cancel : BOOLEAN,                         \* cancel_requested
         owner  : {"nobody", "me", "former"},      \* lease_owner: this process or an ended one
         lease  : {"none", "live", "expired"}]     \* lease_expires_at, against the clock

VARIABLES
    row,       \* the model_installs row
    part,      \* the .part file of file row.done + 1: its chunks and the versions they are of
    final,     \* the files staging holds under their final names
    store,     \* the files install_root holds; empty when it does not exist
    worker,    \* the installer thread
    api,       \* the API's cancellation in progress
    deaths, faults

vars == <<row, part, final, store, worker, api, deaths, faults>>

NoPart == [there |-> FALSE, len |-> 0, of |-> {}]

Parts == [there : BOOLEAN, len : 0 .. Size, of : SUBSET Etags]

\* The columns a session that moves directories may change, as it read them.
HeldRows == [state  : RowStates,
             cancel : BOOLEAN,
             owner  : {"nobody", "me", "former"},
             lease  : {"none", "live", "expired"}]

Held(r) == [state |-> r.state, cancel |-> r.cancel, owner |-> r.owner, lease |-> r.lease]

NewRow == [state |-> "not_installed", done |-> 0, bytes |-> 0, etag |-> NoTag,
           cancel |-> FALSE, owner |-> "nobody", lease |-> "none"]

Pcs == {"down", "idle", "look", "get", "record", "body", "check", "complete",
        "publish", "commit", "canceling", "failing"}

\* at: bytes written; lost: staging was moved away since the download made sure it exists.
Workers == [pc : Pcs, at : 0 .. Size, etag : Tags, lost : BOOLEAN, saw : HeldRows]

Idle == [pc |-> "idle", at |-> 0, etag |-> NoTag, lost |-> FALSE, saw |-> Held(NewRow)]

NoCall == [pc |-> "idle", saw |-> Held(NewRow)]

Init ==
    /\ row = NewRow
    /\ part = NoPart
    /\ final = {}
    /\ store = {}
    /\ worker = Idle
    /\ api = NoCall
    /\ deaths = 0
    /\ faults = 0

-----------------------------------------------------------------------------
(* Helpers *)

At(pc) == worker.pc = pc

Go(pc) == worker' = [worker EXCEPT !.pc = pc]

Rest == worker' = Idle

Newer(was, wish, now) == IF wish # was THEN wish ELSE now

\* A session that read the row as saw and set it to wanted writes the columns that differ.
Flush(saw, wanted) ==
    row' = [row EXCEPT !.state  = Newer(saw.state, wanted.state, @),
                       !.cancel = Newer(saw.cancel, wanted.cancel, @),
                       !.owner  = Newer(saw.owner, wanted.owner, @),
                       !.lease  = Newer(saw.lease, wanted.lease, @)]

Unleased(r) == [r EXCEPT !.owner = "nobody", !.lease = "none"]

Canceled(r) == Unleased([r EXCEPT !.state = "canceled"])

\* The checks of record_progress, complete_file and download_checkpoint.
OwnsDownload == row.state = "downloading" /\ row.owner = "me" /\ row.lease = "live"

\* Faulty variant: release_for_retry does not look at the state of the row.
ReleaseOwned ==
    /\ row' = IF row.owner = "me" THEN Unleased([row EXCEPT !.state = "queued"]) ELSE row
    /\ Rest

\* release_for_retry, after any error but a cancellation or a wrong hash.  It raises when the
\* row is no longer this worker's download, and run_one raises either way.
ReleaseForRetry ==
    /\ row' = IF row.state = "downloading" /\ row.owner = "me"
              THEN Unleased([row EXCEPT !.state = "queued"])
              ELSE row
    /\ Rest

\* The staging directory goes to a new directory of the trash.
TrashStaging == part' = NoPart /\ final' = {}

Staging == <<part, final>>
Bounds  == <<deaths, faults>>

\* The checkpoint offers a resumption when the file is as long as it says.
Resumes == row.etag # NoTag /\ part.there /\ part.len = row.bytes

Offset == IF Resumes THEN row.bytes ELSE 0

Verified == part.there /\ part.len = Size /\ part.of = {Pinned}

CanFail == faults < Faults /\ faults' = faults + 1 /\ UNCHANGED deaths

-----------------------------------------------------------------------------
(* The API *)

\* request_install, with the download acknowledged and space enough.  What an earlier attempt
\* completed stays counted.  A request while the download runs takes the row from its worker.
RequestInstall ==
    /\ row.state # "installed"
    /\ row' = [row EXCEPT !.state = "queued", !.cancel = FALSE]
    /\ IF row.state = "downloading" THEN CanFail ELSE UNCHANGED Bounds
    /\ UNCHANGED <<Staging, store, worker, api>>

\* cancel, of a download that runs: the worker is asked to stop.
CancelRunning ==
    /\ api.pc = "idle"
    /\ row.state = "downloading"
    /\ row.owner # "nobody"
    /\ row' = [row EXCEPT !.cancel = TRUE]
    /\ UNCHANGED <<Staging, store, worker, api, Bounds>>

\* cancel, of anything else but an installed model: the row is read ...
CancelReads ==
    /\ api.pc = "idle"
    /\ row.state \notin {"not_installed", "installed"}
    /\ row.state = "downloading" => row.owner = "nobody"
    /\ api' = [pc |-> "read", saw |-> Held(row)]
    /\ UNCHANGED <<row, Staging, store, worker, Bounds>>

\* ... staging is moved to the trash, which fails while a file in it is open ...
CancelMoves ==
    /\ api.pc = "read"
    /\ IF At("body")
       THEN api' = NoCall /\ UNCHANGED <<Staging, worker>>
       ELSE /\ TrashStaging
            /\ api' = [api EXCEPT !.pc = "moved"]
            /\ worker' = [worker EXCEPT !.lost = @ \/ At("get") \/ At("record")]
    /\ UNCHANGED <<row, store, Bounds>>

\* ... and the row is written.
CancelCommits ==
    /\ api.pc = "moved"
    /\ Flush(api.saw, [Canceled(api.saw) EXCEPT !.cancel = TRUE])
    /\ api' = NoCall
    /\ UNCHANGED <<Staging, store, worker, Bounds>>

\* The API process ends between the move and the commit.
ApiDies ==
    /\ api.pc # "idle"
    /\ CanFail
    /\ api' = NoCall
    /\ UNCHANGED <<row, Staging, store, worker>>

-----------------------------------------------------------------------------
(* The installer *)

\* Faulty variant: only a row that nobody leased may be claimed.
ClaimableUnleased ==
    row.state \in {"queued", "downloading"} /\ ~row.cancel /\ row.lease = "none"

Claimable == row.state \in {"queued", "downloading"} /\ ~row.cancel /\ row.lease # "live"


\* claim.
Claim ==
    /\ At("idle")
    /\ Claimable
    /\ row' = [row EXCEPT !.state = "downloading", !.owner = "me", !.lease = "live"]
    /\ Go("look")
    /\ UNCHANGED <<Staging, store, api, Bounds>>

\* download_checkpoint, cancellation_requested and the choice of the file in run_one.  A row
\* whose files are all counted makes run_one return without giving up its lease.
Look ==
    /\ At("look")
    /\ IF ~OwnsDownload THEN Rest
       ELSE IF row.cancel THEN worker' = [worker EXCEPT !.pc = "canceling", !.saw = Held(row)]
       ELSE IF row.done = N THEN Rest
       ELSE worker' = [worker EXCEPT !.pc = "get", !.at = Offset, !.etag = row.etag]
    /\ UNCHANGED <<row, Staging, store, api, Bounds>>

\* Faulty variant: the rest is taken whatever version it is of.
GetRestOfAny ==
    /\ At("get")
    /\ worker.at > 0
    /\ \E e \in Etags : worker' = [worker EXCEPT !.pc = "record", !.etag = e]
    /\ UNCHANGED <<row, Staging, store, api, Bounds>>

\* The response: the rest of the file in the version asked for (206), ...
GetRest ==
    /\ At("get")
    /\ worker.at > 0
    /\ Go("record")
    /\ UNCHANGED <<row, Staging, store, api, Bounds>>

\* ... the whole file in some version (200), ...
GetWhole ==
    /\ At("get")
    /\ \E e \in Etags : worker' = [worker EXCEPT !.pc = "record", !.at = 0, !.etag = e]
    /\ UNCHANGED <<row, Staging, store, api, Bounds>>

\* ... something unusable, before which an offered partial file is discarded, or no response.
GetFails ==
    /\ At("get")
    /\ CanFail
    /\ \/ ReleaseForRetry /\ UNCHANGED part
       \/ /\ worker.at > 0
          /\ row.owner = "me"
          /\ part' = NoPart
          /\ row' = [(IF row.state = "downloading"
                      THEN Unleased([row EXCEPT !.state = "queued"]) ELSE row)
                     EXCEPT !.bytes = 0, !.etag = NoTag]
          /\ Rest
    /\ UNCHANGED <<final, store, api>>

\* record_progress before the body, and the opening of the file: appending at an offset,
\* truncating otherwise.  Without a staging directory the opening fails.
Open ==
    /\ At("record")
    /\ IF ~OwnsDownload THEN ReleaseForRetry /\ UNCHANGED part
       ELSE IF worker.lost
       THEN /\ row' = Unleased([row EXCEPT !.state = "queued", !.bytes = worker.at,
                                           !.etag = worker.etag])
            /\ Rest
            /\ UNCHANGED part
       ELSE /\ row' = [row EXCEPT !.bytes = worker.at, !.etag = worker.etag, !.lease = "live"]
            /\ part' = IF worker.at > 0 THEN part ELSE [there |-> TRUE, len |-> 0, of |-> {}]
            /\ Go("body")
    /\ UNCHANGED <<final, store, api, Bounds>>

\* One chunk: the cancellation check, the write and, at times, record_progress.
Chunk ==
    /\ At("body")
    /\ worker.at < Size
    /\ IF row.owner = "me" /\ row.cancel
       THEN /\ worker' = [worker EXCEPT !.pc = "canceling", !.saw = Held(row)]
            /\ UNCHANGED <<row, part>>
       ELSE /\ part' = [part EXCEPT !.len = @ + 1, !.of = @ \cup {worker.etag}]
            /\ \/ worker' = [worker EXCEPT !.at = @ + 1] /\ UNCHANGED row
               \/ /\ OwnsDownload
                  /\ row' = [row EXCEPT !.bytes = worker.at + 1, !.etag = worker.etag,
                                        !.lease = "live"]
                  /\ worker' = [worker EXCEPT !.at = @ + 1]
               \/ ~OwnsDownload /\ ReleaseForRetry
    /\ UNCHANGED <<final, store, api, Bounds>>

\* The connection breaks: the file keeps what was written.
BodyBreaks ==
    /\ At("body")
    /\ CanFail
    /\ ReleaseForRetry
    /\ UNCHANGED <<Staging, store, api>>

\* The body ends, early if the provider says so, and record_progress notes its length.
BodyEnds ==
    /\ At("body")
    /\ worker.at = Size \/ faults < Faults
    /\ faults' = IF worker.at = Size THEN faults ELSE faults + 1
    /\ IF OwnsDownload
       THEN /\ row' = [row EXCEPT !.bytes = worker.at, !.etag = worker.etag, !.lease = "live"]
            /\ Go("check")
       ELSE ReleaseForRetry
    /\ UNCHANGED <<Staging, store, api, deaths>>

\* The hash of the partial file, and its final name.  A file that has gone is an OSError.
CheckHash ==
    /\ At("check")
    /\ IF Verified
       THEN /\ final' = final \cup {row.done + 1}
            /\ part' = NoPart
            /\ Go("complete")
            /\ UNCHANGED row
       ELSE IF worker.at = Size /\ ~part.there
       THEN ReleaseForRetry /\ UNCHANGED Staging
       ELSE /\ IF row.owner = "me" THEN worker' = [worker EXCEPT !.pc = "failing", !.saw = Held(row)]
               ELSE Rest
            /\ UNCHANGED <<row, Staging>>
    /\ UNCHANGED <<store, api, Bounds>>

\* complete_file: the file is counted and the lease given back.
CompleteFile ==
    /\ At("complete")
    /\ IF OwnsDownload /\ row.done < N /\ row.bytes = Size
       THEN /\ row' = Unleased([row EXCEPT !.done = @ + 1, !.bytes = 0, !.etag = NoTag,
                                           !.state = IF row.done + 1 = N THEN "verifying"
                                                     ELSE "queued"])
            /\ IF row.done + 1 = N THEN Go("publish") ELSE Rest
       ELSE ReleaseForRetry
    /\ UNCHANGED <<Staging, store, api, Bounds>>

-----------------------------------------------------------------------------
(* Publication, cancellation and failure *)

\* Faulty variant: the files counted as completed are not hashed again.
PublishUnchecked ==
    /\ At("publish")
    /\ IF store = {}
       THEN store' = final /\ TrashStaging /\ Go("commit")
       ELSE Rest /\ UNCHANGED <<Staging, store>>
    /\ UNCHANGED <<row, api, Bounds>>

\* publish_verified hashes every file and moves staging to install_root.  If a file is missing
\* or install_root exists, the handler of the error finds no lease and run_one raises.
PublishMoves ==
    /\ At("publish")
    /\ IF final = Files /\ store = {}
       THEN store' = final /\ TrashStaging /\ Go("commit")
       ELSE Rest /\ UNCHANGED <<Staging, store>>
    /\ UNCHANGED <<row, api, Bounds>>

PublishCommits ==
    /\ At("commit")
    /\ row' = Unleased([row EXCEPT !.state = "installed", !.done = N, !.bytes = 0,
                                   !.etag = NoTag, !.cancel = FALSE])
    /\ Rest
    /\ UNCHANGED <<Staging, store, api, Bounds>>

\* The first part of finish_cancel and of fail_and_trash: staging goes to the trash.
MoveAside ==
    /\ At("canceling") \/ At("failing")
    /\ part.there \/ final # {}
    /\ TrashStaging
    /\ UNCHANGED <<row, store, worker, api, Bounds>>

\* The second part: the row is written.
FinishCancel ==
    /\ At("canceling")
    /\ ~part.there /\ final = {}
    /\ Flush(worker.saw, Canceled(worker.saw))
    /\ Rest
    /\ UNCHANGED <<Staging, store, api, Bounds>>

FailAndTrash ==
    /\ At("failing")
    /\ ~part.there /\ final = {}
    /\ Flush(worker.saw, Unleased([worker.saw EXCEPT !.state = "failed"]))
    /\ Rest
    /\ UNCHANGED <<Staging, store, api, Bounds>>

-----------------------------------------------------------------------------
(* The environment *)

\* A lease runs out: two minutes passed without a record_progress.
LeaseExpires ==
    /\ row.lease = "live"
    /\ IF row.owner = "me" /\ ~At("idle") THEN CanFail ELSE UNCHANGED Bounds
    /\ row' = [row EXCEPT !.lease = "expired"]
    /\ UNCHANGED <<Staging, store, worker, api>>

Ended(r) == [r EXCEPT !.owner = IF @ = "me" THEN "former" ELSE @]

\* The worker process ends; of an open file a prefix is on the disk.
Die ==
    /\ ~At("down")
    /\ deaths < Deaths
    /\ deaths' = deaths + 1
    /\ worker' = [Idle EXCEPT !.pc = "down"]
    /\ row' = Ended(row)
    /\ api' = [api EXCEPT !.saw = Ended(@)]
    /\ \/ UNCHANGED part
       \/ /\ At("body") /\ part.len > 0
          /\ \E n \in 0 .. (part.len - 1) :
                part' = [part EXCEPT !.len = n, !.of = IF n = 0 THEN {} ELSE @]
    /\ UNCHANGED <<final, store, faults>>

\* The supervisor starts the worker again.
Start ==
    /\ At("down")
    /\ Rest
    /\ UNCHANGED <<row, Staging, store, api, Bounds>>

-----------------------------------------------------------------------------

ApiStep == RequestInstall \/ CancelRunning \/ CancelReads \/ CancelMoves \/ CancelCommits \/ ApiDies

Download == GetRest \/ GetWhole \/ Open \/ Chunk \/ BodyEnds \/ CheckHash \/ CompleteFile

Conclude == PublishMoves \/ PublishCommits \/ MoveAside \/ FinishCancel \/ FailAndTrash

WorkerStep == Claim \/ Look \/ Download \/ Conclude

Next ==
    \/ ApiStep
    \/ WorkerStep
    \/ GetFails
    \/ BodyBreaks
    \/ LeaseExpires
    \/ Die
    \/ Start

Spec == Init /\ [][Next]_vars

\* The installer loop runs while its process lives, the supervisor restarts the process, the
\* API carries a request through, and time passes.
FairSpec ==
    /\ Spec
    /\ WF_vars(WorkerStep) /\ WF_vars(Start)
    /\ WF_vars(CancelMoves \/ CancelCommits)
    /\ WF_vars(LeaseExpires)

-----------------------------------------------------------------------------
(* Properties *)

TypeOK ==
    /\ row \in Rows
    /\ part \in Parts
    /\ final \subseteq Files
    /\ store \subseteq Files
    /\ worker \in Workers
    /\ api \in [pc : {"idle", "read", "moved"}, saw : HeldRows]
    /\ deaths \in 0 .. Deaths
    /\ faults \in 0 .. Faults

\* The directory recognition loads models from holds every file of the manifest with the hash
\* it pins, or does not exist, and a row says installed only if it does exist; whatever was
\* counted as completed, moved to the trash, requested again or cut short by a death
\* (publish_verified, request_install, cancel).
InstalledIsWhole ==
    /\ store \in {{}, Files}
    /\ row.state = "installed" => store = Files

\* A resumed download never joins bytes of two versions of a file, whichever the provider
\* serves, and wherever the worker died (the checkpoint and the If-Range of _download).
PartIsOneVersion == \A a, b \in part.of : a = b

\* What the user canceled, or what failed, is taken up again only by the user: a worker that
\* still had the download in hand does not put the row back into the queue
\* (release_for_retry, complete_file).  The one exception is a publication that had already
\* moved the directory.
OnlyTheUserRevives ==
    [][row.state \in {"canceled", "failed"} /\ row'.state \notin {"canceled", "failed"}
         => RequestInstall \/ PublishCommits]_vars

\* The files the row counts are in staging, there is something left to download, and the
\* worker is not about to move staging away.
Sound ==
    /\ row.state \in {"queued", "downloading"}
    /\ ~row.cancel
    /\ row.done < N
    /\ 1 .. row.done \subseteq final
    /\ At("complete") => row.done + 1 \in final
    /\ ~At("canceling") /\ ~At("failing")

\* An installation whose counted files exist comes to an end, past lost leases, broken
\* connections, unusable responses and stale checkpoints, unless the user cancels it or the
\* worker dies once more (ModelInstallerLoop.run, run_one).
InstallConcludes ==
    Sound ~> \/ row.state \in {"installed", "failed", "canceled"}
             \/ row.cancel \/ api.pc # "idle"
             \/ At("down")

=============================================================================
