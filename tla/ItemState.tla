------------------------------ MODULE ItemState ------------------------------
(***************************************************************************)
(* One item on its way to a transcript: the rows of its source and         *)
(* transcribe stages, the files and asset rows the two stages share, and   *)
(* the worker process that runs their handlers (worker.py,                 *)
(* worker_store.py, artifacts.py, runtime_assets.py).                      *)
(*                                                                         *)
(* The launcher keeps one worker process; a lease may still name an ended  *)
(* one.  SourceStage and LocalAsr have the handlers, ItemTranscript the    *)
(* composition.  The statuses of the item and its task, and the leases of  *)
(* the GPU, are left to StageQueue, and the file moves of a trash or a     *)
(* restore to RuntimeAssets: here each is one step.                        *)
(***************************************************************************)
EXTENDS Integers, Sequences, FiniteSets

CONSTANTS
    Items,       \* the items considered
    Tracks,      \* subtitles: each has a content and a format of its own
    Formats,     \* the audio formats a platform may offer
    Attempts,    \* bound: attempts of a stage
    Deaths,      \* bound: how often the worker process dies
    Cancels,     \* bound: how often the user cancels
    Lapses,      \* bound: how often a live worker loses its lease
    NoTrack

ASSUME ItemAssumption ==
    /\ \A i \in Items : /\ i.kind \in {"url", "uploaded_subtitle", "uploaded_media"}
                        /\ i.audio \in BOOLEAN /\ i.export \in BOOLEAN
                        /\ i.audio => i.kind = "url" /\ i.export
    /\ Tracks # {} /\ NoTrack \notin Tracks
    /\ Attempts \in Nat \ {0}
    /\ {Deaths, Cancels, Lapses} \subseteq Nat

VARIABLES
    item,        \* source_kind, whether audio is all it asks for, audio_export_enabled
    row,         \* the newest stage run of each stage
    pc,          \* the worker process: down, idle, or where its handler is
    transcript,  \* transcript.json
    original,    \* source/original.*
    audio,       \* the downloaded file of each format: none, whole, junk or empty
    asset,       \* the downloaded_audio row: its state and format
    upload,      \* the uploaded_source row
    kept,        \* history: the user has taken the media out of the trash and they are still out
    purged,      \* history: maintenance has deleted the media, and no others were registered
    offers,      \* the source handler's subtitle candidates, the best one first
    asr,         \* the recognizer's loop: chunk, runtime, the segments accepted so far
    chunks,      \* the chunk files of the newest transcribe attempt
    recovery,    \* its recovery file
    deaths, cancels, lapses

itemVars == <<item, deaths, cancels, lapses>>
historyVars == <<kept, purged>>
mediaVars == <<audio, asset, upload, historyVars>>
asrVars == <<asr, chunks, recovery>>
vars == <<item, row, pc, transcript, original, audio, asset, upload, kept, purged, offers, asr,
          chunks, recovery, deaths, cancels, lapses>>

Stages == {"source", "transcribe"}

Statuses == {"absent", "queued", "running", "cancel_requested", "canceled", "failed",
             "completed", "skipped"}

NoTranscript == [from |-> "nothing"]
FromTrack(t) == [from |-> "subtitle", track |-> t]
FromAsr(heard) == [from |-> "asr", heard |-> heard]

NoAsset == [state |-> "none", format |-> "none"]

Idle == pc \in {"down", "idle"}
-----------------------------------------------------------------------------
(* The stage rows *)

Freed(r, status) == [r EXCEPT !.status = status, !.owner = "nobody", !.lease = "none"]

\* _claim_matches without the status.
OwnsLease(s) == row[s].owner = "me" /\ row[s].lease = "live"

ClaimMatches(s) == OwnsLease(s) /\ row[s].status = "running"

\* The stage has nothing left to do: an audio task has no transcribe stage.
Finished(s) == row[s].status \in {"absent", "completed", "skipped"}

Cancel ==
    /\ cancels < Cancels
    /\ \E s \in Stages : row[s].status \in {"queued", "running"}
    /\ cancels' = cancels + 1
    /\ row' = [s \in Stages |->
                 CASE row[s].status = "queued"  -> Freed(row[s], "canceled")
                   [] row[s].status = "running" -> [row[s] EXCEPT !.status = "cancel_requested"]
                   [] OTHER -> row[s]]
    /\ UNCHANGED <<item, pc, transcript, original, mediaVars, offers, asrVars, deaths, lapses>>

\* retry_stage opens a new attempt, with no chunk or recovery files of its own.
Retry(s) ==
    /\ row[s].status \in {"failed", "canceled"}
    /\ row[s].attempt < Attempts
    /\ \A q \in Stages : row[q].status \notin {"running", "cancel_requested"}
    /\ s = "transcribe" => Finished("source")
    /\ row' = [row EXCEPT ![s].status = "queued", ![s].attempt = @ + 1]
    /\ IF s = "transcribe"
       THEN chunks' = {} /\ recovery' = NoTranscript
       ELSE UNCHANGED <<chunks, recovery>>
    /\ UNCHANGED <<itemVars, pc, transcript, original, mediaVars, offers, asr>>

\* recover_expired, which a new worker process runs once.
Recovered(r) ==
    CASE r.lease = "expired" /\ r.status = "running"          -> Freed(r, "queued")
      [] r.lease = "expired" /\ r.status = "cancel_requested" -> Freed(r, "canceled")
      [] OTHER -> r

Start ==
    /\ pc = "down"
    /\ row' = [s \in Stages |-> Recovered(row[s])]
    /\ pc' = "idle"
    /\ UNCHANGED <<itemVars, transcript, original, mediaVars, offers, asrVars>>

LeaseExpires ==
    /\ \E s \in Stages :
         /\ row[s].lease = "live"
         /\ row' = [row EXCEPT ![s].lease = "expired"]
         /\ IF row[s].owner = "me"
            THEN lapses < Lapses /\ lapses' = lapses + 1
            ELSE UNCHANGED lapses
    /\ UNCHANGED <<item, pc, transcript, original, mediaVars, offers, asrVars, deaths, cancels>>

\* claim_next: the source stage is the older row.
Claim(s, entry) ==
    /\ pc = "idle"
    /\ row[s].status = "queued"
    /\ s = "transcribe" => Finished("source")
    /\ row' = [row EXCEPT ![s].status = "running", ![s].owner = "me", ![s].lease = "live"]
    /\ pc' = entry

\* complete, and fail: the row is written if the claim still holds.
Conclude(s, status) ==
    /\ row' = IF ClaimMatches(s) THEN [row EXCEPT ![s] = Freed(@, status)] ELSE row
    /\ pc' = "idle"

\* A checkpoint finds the run canceled, or no longer this worker's.
StopRun(s, to) ==
    /\ ~ClaimMatches(s)
    /\ row' = IF OwnsLease(s) THEN [row EXCEPT ![s] = Freed(@, "canceled")] ELSE row
    /\ pc' = to
-----------------------------------------------------------------------------
(* The files *)

\* _ensure_immutable of transcript.json: it is created, or holds the same already.
Publishable(t) == transcript \in {NoTranscript, t}

\* The downloaded files outside the trash.
AudioFiles == {f \in Formats : audio[f] # "none" /\ asset # [state |-> "trash", format |-> f]}

\* trash of the downloaded_audio row, if it is active.
Trashed(a) == IF a.state = "active" THEN [a EXCEPT !.state = "trash"] ELSE a

\* restore of the row a handler needs.
Restored(a) == IF a.state = "trash" THEN [a EXCEPT !.state = "active"] ELSE a

\* The uploaded_source row a handler restores; one that was purged is not there.
RestoredUpload == IF upload = "trash" THEN "active" ELSE upload

IsWhole(a) == a.state # "none" /\ audio[a.format] = "whole"
=============================================================================
