----------------------------- MODULE SourceStage -----------------------------
(***************************************************************************)
(* The source stage's handler (source_stage.py): an uploaded file is       *)
(* looked at; a platform is probed, its subtitle candidates are tried in   *)
(* order and its audio is the last resort (sources.py,                     *)
(* platform_sources.py); a subtitle is published as the transcript, audio  *)
(* is handed over to the transcribe stage as a runtime asset.              *)
(***************************************************************************)
EXTENDS ItemState

OwnTrack == CHOOSE t \in Tracks : TRUE    \* the subtitle the user uploaded

SourceGoTo(from, to) == pc = from /\ pc' = to

SourceFails(from) ==
    /\ SourceGoTo(from, "source failing")
    /\ UNCHANGED <<itemVars, row, transcript, original, mediaVars, offers, asrVars>>

ClaimSource ==
    /\ Claim("source", "loading")
    /\ UNCHANGED <<itemVars, transcript, original, mediaVars, offers, asrVars>>

\* _run, after its checkpoint: what the item's kind asks for.  An upload to be recognized is
\* taken out of the trash, an uploaded subtitle is read where it is; one that was purged is invalid.
LoadItem ==
    /\ ClaimMatches("source")
    /\ SourceGoTo("loading", IF item.kind = "url" THEN "probing"
                             ELSE IF upload = "gone" THEN "source failing"
                             ELSE IF item.kind = "uploaded_subtitle" THEN "chosen"
                             ELSE "viewed")
    /\ offers' = IF item.kind = "uploaded_subtitle" THEN <<OwnTrack>> ELSE <<>>
    /\ upload' = IF item.kind = "uploaded_media" THEN RestoredUpload ELSE upload
    /\ UNCHANGED <<itemVars, row, transcript, original, audio, asset, historyVars, asrVars>>

\* _media_file
ViewMedia ==
    /\ ClaimMatches("source")
    /\ SourceGoTo("viewed", "sourced")
    /\ UNCHANGED <<itemVars, row, transcript, original, mediaVars, offers, asrVars>>

\* probe, and the selector's rank: the platform offers what it likes each time.
Probe ==
    /\ SourceGoTo("probing", "probed")
    /\ \E n \in 0 .. Cardinality(Tracks) : \E s \in [1 .. n -> Tracks] :
         /\ \A i, j \in 1 .. n : s[i] = s[j] => i = j
         /\ offers' = s
    /\ UNCHANGED <<itemVars, row, transcript, original, mediaVars, asrVars>>

\* A task that exports the audio fetches it first.
HaveProbed ==
    /\ ClaimMatches("source")
    /\ SourceGoTo("probed", IF item.export THEN "looking" ELSE "trying")
    /\ UNCHANGED <<itemVars, row, transcript, original, mediaVars, offers, asrVars>>
-----------------------------------------------------------------------------
(* acquire_subtitle_or_audio *)

FetchSubtitle ==
    /\ offers # <<>>
    /\ SourceGoTo("trying", "chosen")
    /\ offers' = <<Head(offers)>>
    /\ UNCHANGED <<itemVars, row, transcript, original, mediaVars, asrVars>>

\* Faulty variant: the candidate that failed will be tried again.
CandidateFailsAgain ==
    /\ offers # <<>>
    /\ SourceGoTo("trying", "trying")
    /\ offers' = Append(Tail(offers), Head(offers))
    /\ UNCHANGED <<itemVars, row, transcript, original, mediaVars, asrVars>>

\* The subtitle is gone, empty or not one.
CandidateFails ==
    /\ offers # <<>>
    /\ SourceGoTo("trying", "trying")
    /\ offers' = Tail(offers)
    /\ UNCHANGED <<itemVars, row, transcript, original, mediaVars, asrVars>>

FallBackToAudio ==
    /\ offers = <<>>
    /\ SourceGoTo("trying", "looking")
    /\ UNCHANGED <<itemVars, row, transcript, original, mediaVars, offers, asrVars>>
-----------------------------------------------------------------------------
(* The audio: _RecoverySourceAdapter.fetch_audio, then the platform's *)

\* Faulty variant: a file no row names is not looked for.
KnownAudioOfRows == IF asset.state # "none" THEN Restored(asset) ELSE NoAsset

\* recover_downloaded_audio: the row is used, or made for the one file found; else there is none.
KnownAudio ==
    IF asset.state # "none" THEN Restored(asset)
    ELSE IF AudioFiles = {} THEN NoAsset
    ELSE [state |-> "active", format |-> CHOOSE f \in AudioFiles : TRUE]

\* Faulty variant: the file found is not validated.
UsableAnyhow(a) == a.state = "active"

\* The file behind the row is probed before it is used.
Usable(a) == a.state = "active" /\ audio[a.format] = "whole"

\* More than one file, or an empty one, cannot be registered.
FindAudio ==
    /\ KnownAudio # NoAsset
    /\ IF asset.state = "none" /\ (Cardinality(AudioFiles) > 1 \/ audio[KnownAudio.format] = "empty")
       THEN SourceGoTo("looking", "source failing") /\ UNCHANGED asset
       ELSE /\ asset' = KnownAudio
            /\ SourceGoTo("looking", IF Usable(KnownAudio) THEN "found" ELSE "source failing")
    /\ purged' = (purged /\ asset'.state = "none")
    /\ UNCHANGED <<itemVars, row, transcript, original, audio, upload, kept, offers, asrVars>>

\* download_resource stages the body and renames it; an empty one is noticed afterwards.
Download ==
    /\ KnownAudio = NoAsset
    /\ \E f \in Formats, body \in {"whole", "junk", "empty"} :
         /\ audio[f] = "none"
         /\ audio' = [audio EXCEPT ![f] = body]
         /\ SourceGoTo("looking", IF body = "empty" THEN "source failing" ELSE "downloaded")
    /\ UNCHANGED <<itemVars, row, transcript, original, asset, upload, historyVars, offers, asrVars>>

\* The platform adapter validates the file, then registers it.
RegisterAudio ==
    /\ \E f \in AudioFiles :
         IF audio[f] = "whole"
         THEN /\ asset' = [state |-> "active", format |-> f]
              /\ SourceGoTo("downloaded", "found")
         ELSE SourceGoTo("downloaded", "source failing") /\ UNCHANGED asset
    /\ purged' = (purged /\ asset'.state = "none")
    /\ UNCHANGED <<itemVars, row, transcript, original, audio, upload, kept, offers, asrVars>>

\* The checkpoint and _validate_audio_handoff.  A task that exports the audio goes on to its
\* candidates; without any, it would find this audio again.
HandOver ==
    /\ ClaimMatches("source")
    /\ SourceGoTo("found", IF ~Usable(asset) THEN "source failing"
                           ELSE IF item.audio \/ offers = <<>> THEN "sourced"
                           ELSE "trying")
    /\ UNCHANGED <<itemVars, row, transcript, original, mediaVars, offers, asrVars>>
-----------------------------------------------------------------------------
(* _publish_subtitle *)

\* Faulty variant: a transcript that is there already is good enough.
PublishWhateverIsThere ==
    /\ SourceGoTo("chosen", "published")
    /\ ClaimMatches("source")
    /\ transcript' = IF transcript = NoTranscript THEN FromTrack(offers[1]) ELSE transcript
    /\ UNCHANGED <<itemVars, row, original, mediaVars, offers, asrVars>>

PublishSubtitle ==
    /\ pc = "chosen"
    /\ ClaimMatches("source")
    /\ IF Publishable(FromTrack(offers[1]))
       THEN transcript' = FromTrack(offers[1]) /\ pc' = "published"
       ELSE UNCHANGED transcript /\ pc' = "source failing"
    /\ UNCHANGED <<itemVars, row, original, mediaVars, offers, asrVars>>

\* write_source_original: no other original, of any format, may be there.
WriteOriginal ==
    /\ pc = "published"
    /\ ClaimMatches("source")
    /\ IF original \in {NoTrack, offers[1]}
       THEN original' = offers[1] /\ pc' = "filed"
       ELSE UNCHANGED original /\ pc' = "source failing"
    /\ UNCHANGED <<itemVars, row, transcript, mediaVars, offers, asrVars>>

\* Faulty variant: audio of an earlier attempt is left where it is.
DropOnlyTheUpload ==
    /\ ClaimMatches("source")
    /\ upload' = IF item.kind = "uploaded_subtitle" THEN "trash" ELSE upload
    /\ kept' = FALSE
    /\ SourceGoTo("filed", "subtitled")
    /\ UNCHANGED <<itemVars, row, transcript, original, audio, asset, purged, offers, asrVars>>

\* The uploaded subtitle, or the audio no one needs any more, goes to the trash.
DropSource ==
    /\ ClaimMatches("source")
    /\ upload' = IF item.kind = "uploaded_subtitle" THEN "trash" ELSE upload
    /\ asset' = IF item.kind = "url" /\ ~item.export THEN Trashed(asset) ELSE asset
    /\ kept' = FALSE
    /\ SourceGoTo("filed", "subtitled")
    /\ UNCHANGED <<itemVars, row, transcript, original, audio, purged, offers, asrVars>>
-----------------------------------------------------------------------------
ForgetSource ==
    /\ offers' = <<>>
    /\ UNCHANGED <<itemVars, transcript, original, mediaVars, asrVars>>

CompleteSource ==
    /\ pc = "sourced"
    /\ Conclude("source", "completed")
    /\ ForgetSource

\* complete with skip_stages writes nothing unless transcribe is still queued.
CompleteSkipping ==
    /\ pc = "subtitled"
    /\ row' = IF ClaimMatches("source") /\ row["transcribe"].status = "queued"
              THEN [row EXCEPT !["source"] = Freed(@, "completed"),
                               !["transcribe"].status = "skipped"]
              ELSE row
    /\ pc' = "idle"
    /\ ForgetSource

FailSource ==
    /\ pc = "source failing"
    /\ Conclude("source", "failed")
    /\ ForgetSource

StopSource ==
    /\ pc \in {"loading", "viewed", "probed", "found", "chosen", "published", "filed"}
    /\ StopRun("source", "idle")
    /\ ForgetSource

\* Media that are none, a platform's refusal or a broken connection; files that cannot be moved.
SourceBreaks == \E p \in {"loading", "probing", "trying", "looking", "filed"} : SourceFails(p)

SourceStep ==
    \/ LoadItem \/ ViewMedia \/ Probe \/ HaveProbed
    \/ FetchSubtitle \/ CandidateFails \/ FallBackToAudio
    \/ FindAudio \/ Download \/ RegisterAudio \/ HandOver
    \/ PublishSubtitle \/ WriteOriginal \/ DropSource
    \/ CompleteSource \/ CompleteSkipping \/ FailSource \/ StopSource \/ SourceBreaks

SourcePlaces == {"loading", "viewed", "probing", "probed", "trying", "looking", "downloaded",
                 "found", "chosen", "published", "filed", "sourced", "subtitled", "source failing"}
=============================================================================
