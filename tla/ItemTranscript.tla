---------------------------- MODULE ItemTranscript ----------------------------
(***************************************************************************)
(* An item from its source to its transcript: the two handlers one worker  *)
(* process runs after each other, over the files and rows they share, with *)
(* the user's cancellations and retries, the death of the process and the  *)
(* expiry of its lease in between.                                         *)
(***************************************************************************)
EXTENDS SourceStage, LocalAsr

NewRow(status) == [status |-> status, attempt |-> 1, owner |-> "nobody", lease |-> "none"]

Init ==
    /\ item \in Items
    /\ row = [source     |-> NewRow("queued"),
              transcribe |-> NewRow(IF item.audio THEN "absent" ELSE "queued")]
    /\ pc = "down"
    /\ transcript = NoTranscript
    /\ original = NoTrack
    /\ audio = [f \in Formats |-> "none"]
    /\ asset = NoAsset
    /\ upload = IF item.kind = "url" THEN "none" ELSE "active"
    /\ kept = FALSE /\ purged = FALSE
    /\ offers = <<>>
    /\ asr = NoAsr
    /\ chunks = {}
    /\ recovery = NoTranscript
    /\ deaths = 0 /\ cancels = 0 /\ lapses = 0

\* The process is killed: what its handler held in memory is gone.
Die ==
    /\ pc # "down"
    /\ deaths < Deaths
    /\ deaths' = deaths + 1
    /\ pc' = "down"
    /\ row' = [s \in Stages |->
                 IF row[s].owner = "me" THEN [row[s] EXCEPT !.owner = "former"] ELSE row[s]]
    /\ offers' = <<>>
    /\ asr' = NoAsr
    /\ UNCHANGED <<item, transcript, original, mediaVars, chunks, recovery, cancels, lapses>>

\* aggregate_item_status is no state that keeps a purge off.
Ended ==
    /\ \A s \in Stages : row[s].status \notin {"running", "cancel_requested"}
    /\ \/ \E s \in Stages : row[s].status \in {"failed", "canceled"}
       \/ \A s \in Stages : Finished(s)

\* purge_due of the maintenance loop, when the media's day in the trash is over.
Purge ==
    /\ Ended
    /\ \/ /\ asset.state = "trash"
          /\ asset' = NoAsset
          /\ audio' = [audio EXCEPT ![asset.format] = "none"]
          /\ UNCHANGED upload
       \/ /\ upload = "trash"
          /\ upload' = "gone"
          /\ UNCHANGED <<audio, asset>>
    /\ purged' = TRUE
    /\ UNCHANGED <<itemVars, row, pc, transcript, original, kept, offers, asrVars>>

\* The user takes the media out of the trash.
TakeBack ==
    /\ asset.state = "trash" \/ upload = "trash"
    /\ asset' = Restored(asset)
    /\ upload' = RestoredUpload
    /\ kept' = TRUE
    /\ UNCHANGED <<itemVars, row, pc, transcript, original, audio, purged, offers, asrVars>>

Handle == SourceStep \/ AsrStep

Next ==
    \/ Cancel \/ LeaseExpires \/ \E s \in Stages : Retry(s)
    \/ Purge \/ TakeBack
    \/ Start \/ Die \/ ClaimSource \/ ClaimTranscribe
    \/ Handle

Spec == Init /\ [][Next]_vars

\* The handler's calls have time limits: its thread runs until the process dies.
FairSpec == Spec /\ WF_vars(Handle)
-----------------------------------------------------------------------------
Rows == [status : Statuses, attempt : 1 .. (Attempts + 1), owner : {"nobody", "me", "former"},
         lease : {"none", "live", "expired"}]

\* The types, and what goes together: one stage at a time runs under a lease, chunk files
\* hold what their chunk can yield.
TypeOK ==
    /\ item \in Items
    /\ row \in [Stages -> Rows]
    /\ \A s \in Stages :
         /\ row[s].lease = "none" <=> row[s].owner = "nobody"
         /\ row[s].lease # "none" <=> row[s].status \in {"running", "cancel_requested"}
         /\ row[s].attempt <= Attempts
    /\ row["source"].lease # "none" => row["transcribe"].lease = "none"
    /\ pc \in {"down", "idle"} \cup SourcePlaces \cup AsrPlaces
    /\ pc \in SourcePlaces \ {"source failing"} => row["source"].status # "queued"
    /\ transcript = NoTranscript \/ transcript.from \in {"subtitle", "asr"}
    /\ original \in Tracks \cup {NoTrack}
    /\ audio \in [Formats -> {"none", "whole", "junk", "empty"}]
    /\ asset = NoAsset \/ asset \in [state : {"active", "trash"}, format : Formats]
    /\ upload \in {"none", "active", "trash", "gone"}
    /\ kept \in BOOLEAN /\ purged \in BOOLEAN
    /\ \A i \in 1 .. Len(offers) : offers[i] \in Tracks
    /\ asr.device \in Devices /\ asr.by \in Devices
    /\ \A c \in chunks : c.segments \in Hearings(c.lo, ChunkEnd(c.lo)) /\ c.by \in Devices
    /\ recovery = NoTranscript \/ recovery.from = "asr"
    /\ deaths \in 0 .. Deaths /\ cancels \in 0 .. Cancels /\ lapses \in 0 .. Lapses

\* An utterance no longer than the overlap is in a recognized transcript exactly once, wherever
\* the chunks cut it, however often the run was interrupted, and whatever heard each chunk.
HeardOnce ==
    \A t \in {transcript, recovery} : t.from = "asr" =>
        \A u \in Speech : u.to - u.from <= Overlap =>
            \E h \in t.heard : h.of = u /\ \A g \in t.heard : g.of = u => g = h

\* A crash between the arrival of the file and its row does not make the next run fetch the audio
\* again, in what format the platform then offers: an item has one downloaded file.
OneAudioFile == Cardinality({f \in Formats : audio[f] # "none"}) <= 1

\* A source that found subtitles has published them and kept the file they came from; a completed
\* transcribe has published what its own attempt heard.  No earlier attempt's text passes for it.
PublishedAsClaimed ==
    /\ row["transcribe"].status = "skipped" =>
         original # NoTrack /\ transcript = FromTrack(original)
    /\ row["transcribe"].status = "completed" => recovery # NoTranscript /\ transcript = recovery
    /\ original # NoTrack => transcript = FromTrack(original)

\* While a transcribe stage has its work before it, the media its source stage vouched for are
\* whole, and at hand or in the trash: whatever was canceled, lost or tried before, its first
\* attempt always finds them, and a later one does unless the maintenance loop has deleted them
\* from the trash in between (purge_due; retry_stage does not look).
InputIsKept ==
    row["source"].status = "completed" /\ ~Finished("transcribe") =>
        \/ item.kind = "url" /\ IsWhole(asset)
        \/ item.kind = "uploaded_media" /\ upload \in {"active", "trash"}
        \/ purged /\ \/ row["transcribe"].attempt > 1
                      \/ row["transcribe"].status \in {"failed", "canceled"}

\* A task that does not keep the audio has none left out of the trash once the transcript is made,
\* but for what the user has taken out of it since (restore_storage_asset of the API).
MediaIsDisposed ==
    row["transcribe"].status \in {"completed", "skipped"} /\ ~item.export =>
        kept \/ (asset.state # "active" /\ upload # "active")

\* Whatever candidates fail and whichever device gives out, a handler comes to an end.
HandlerEnds == ~Idle ~> Idle
=============================================================================
