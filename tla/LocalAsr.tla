------------------------------- MODULE LocalAsr -------------------------------
(***************************************************************************)
(* The transcribe stage's handler on the local route (transcribe_stage.py) *)
(* with the chunked recognizer it calls (local_asr.py).  The audio is cut  *)
(* into chunks that overlap; of the segments heard in a chunk those are    *)
(* accepted whose midpoint lies in the chunk's own window.  A chunk's      *)
(* segments are saved as they come, so that a recovered run, on whatever   *)
(* device, goes on where the last one stopped.                             *)
(*                                                                         *)
(* The recognizer is external: it hears every utterance that lies in the   *)
(* chunk, and of one that crosses a border either nothing or the piece     *)
(* inside.  The text of a segment is the device that heard it.             *)
(***************************************************************************)
EXTENDS ItemState

CONSTANTS
    Duration,    \* of the audio, in ms
    ChunkSize,   \* chunk_duration_ms
    Overlap,     \* chunk_overlap_ms
    Speech       \* the utterances: where each begins and ends

\* An odd overlap makes two windows share a millisecond.
ASSUME AsrAssumption ==
    /\ Duration \in Nat \ {0}
    /\ ChunkSize \in Nat
    /\ Overlap \in Nat
    /\ Overlap < ChunkSize
    /\ Overlap % 2 = 0
    /\ Speech # {}
    /\ \A u \in Speech : /\ u = [from |-> u.from, to |-> u.to]
                         /\ u.from \in Nat /\ u.to \in Nat
                         /\ u.from < u.to /\ u.to <= Duration

Devices == {"cuda", "cpu"}

\* The segments a chunk may yield, and the place _segment gives each.
Crosses(u, lo, hi) == u.from < hi /\ lo < u.to
Inside(u, lo, hi) == lo <= u.from /\ u.to <= hi
Piece(u, lo, hi) ==
    [of |-> u, from |-> IF u.from < lo THEN lo ELSE u.from, to |-> IF hi < u.to THEN hi ELSE u.to]

Hearings(lo, hi) ==
    {{Piece(u, lo, hi) : u \in {v \in Speech : Inside(v, lo, hi)} \cup edge} :
        edge \in SUBSET {v \in Speech : Crosses(v, lo, hi) /\ ~Inside(v, lo, hi)}}

\* _chunk_ranges: where the chunk that starts at lo ends, and where the next one starts.
ChunkEnd(lo) == IF Duration <= lo + ChunkSize THEN Duration ELSE lo + ChunkSize
NextStart(lo) == ChunkEnd(lo) - Overlap

IsLast(lo) == ChunkEnd(lo) = Duration

\* Faulty variant: the windows are the chunks, overlap and all.
LowerOfChunk(lo) == lo

\* The window of a chunk.
Lower(lo) == IF lo = 0 THEN 0 ELSE lo + (Overlap \div 2)
Upper(lo) == IF IsLast(lo) THEN Duration ELSE ChunkEnd(lo) - (Overlap \div 2)

Middle(segment) == (segment.from + segment.to) \div 2

Accepted(lo, segments) == {g \in segments : Lower(lo) <= Middle(g) /\ Middle(g) < Upper(lo)}

NoAsr == [lo |-> 0, device |-> "cuda", heard |-> {}, segments |-> {}, by |-> "cuda"]

AsrGoTo(from, to) == pc = from /\ pc' = to

AsrFails(from) ==
    /\ AsrGoTo(from, "dropping")
    /\ UNCHANGED <<itemVars, row, transcript, original, mediaVars, offers, asrVars>>
-----------------------------------------------------------------------------
ClaimTranscribe ==
    /\ Claim("transcribe", "recovering")
    /\ UNCHANGED <<itemVars, transcript, original, mediaVars, offers, asrVars>>

\* _recover_local_publication, when there is nothing to recover.
NothingToRecover ==
    /\ ClaimMatches("transcribe")
    /\ transcript = NoTranscript /\ recovery = NoTranscript
    /\ AsrGoTo("recovering", "resolving")
    /\ UNCHANGED <<itemVars, row, transcript, original, mediaVars, offers, asrVars>>

\* A transcript without this attempt's recovery file, or another one, is a conflict.
RecoverPublication ==
    /\ ClaimMatches("transcribe")
    /\ transcript # NoTranscript \/ recovery # NoTranscript
    /\ AsrGoTo("recovering", IF recovery = NoTranscript THEN "dropping"
                             ELSE IF transcript = NoTranscript THEN "announcing"
                             ELSE IF transcript = recovery THEN "tidying"
                             ELSE "dropping")
    /\ UNCHANGED <<itemVars, row, transcript, original, mediaVars, offers, asrVars>>

\* _resolve_source: what an earlier attempt has put in the trash is restored.
ResolveSource ==
    /\ IF item.kind = "url"
       THEN /\ asset' = Restored(asset)
            /\ AsrGoTo("resolving", IF asset.state = "none" THEN "dropping" ELSE "preparing")
            /\ UNCHANGED upload
       ELSE /\ upload' = RestoredUpload
            /\ AsrGoTo("resolving", IF upload = "gone" THEN "dropping" ELSE "preparing")
            /\ UNCHANGED asset
    /\ UNCHANGED <<itemVars, row, transcript, original, audio, historyVars, offers, asrVars>>

\* prepare_for_local converts the media; only whole media can be.
PrepareAudio ==
    /\ ClaimMatches("transcribe")
    /\ IF item.kind = "url" /\ ~IsWhole(asset)
       THEN AsrGoTo("preparing", "dropping") /\ UNCHANGED asr
       ELSE AsrGoTo("preparing", "chunking") /\ asr' = NoAsr
    /\ UNCHANGED <<itemVars, row, transcript, original, mediaVars, offers, chunks, recovery>>
-----------------------------------------------------------------------------
(* transcribe: the chunks in turn *)

SavedChunks(lo) == {c \in chunks : c.lo = lo}

\* The chunk's file is used in place of the recognizer.
LoadChunk ==
    /\ ClaimMatches("transcribe")
    /\ \E c \in SavedChunks(asr.lo) :
         asr' = [asr EXCEPT !.segments = c.segments, !.by = c.by]
    /\ AsrGoTo("chunking", "merging")
    /\ UNCHANGED <<itemVars, row, transcript, original, mediaVars, offers, chunks, recovery>>

\* CUDA may give out at any chunk; the rest is then heard on the CPU.
HearChunk ==
    /\ ClaimMatches("transcribe")
    /\ SavedChunks(asr.lo) = {}
    /\ \E device \in {asr.device, "cpu"}, heard \in Hearings(asr.lo, ChunkEnd(asr.lo)) :
         asr' = [asr EXCEPT !.device = device, !.segments = heard, !.by = device]
    /\ AsrGoTo("chunking", "saving")
    /\ UNCHANGED <<itemVars, row, transcript, original, mediaVars, offers, chunks, recovery>>

SaveChunk ==
    /\ ClaimMatches("transcribe")
    /\ chunks' = chunks \cup {[lo |-> asr.lo, segments |-> asr.segments, by |-> asr.by]}
    /\ AsrGoTo("saving", "merging")
    /\ UNCHANGED <<itemVars, row, transcript, original, mediaVars, offers, asr, recovery>>

\* What the window accepts of the chunk, in the text it was heard with.
Merged == asr.heard \cup {[of |-> g.of, lo |-> asr.lo, by |-> asr.by] :
                              g \in Accepted(asr.lo, asr.segments)}

\* report_progress has a checkpoint after the chunk is accepted.
NextChunk ==
    /\ ClaimMatches("transcribe")
    /\ ~IsLast(asr.lo)
    /\ AsrGoTo("merging", "chunking")
    /\ asr' = [asr EXCEPT !.lo = NextStart(asr.lo), !.heard = Merged, !.segments = {}]
    /\ UNCHANGED <<itemVars, row, transcript, original, mediaVars, offers, chunks, recovery>>

LastChunk ==
    /\ ClaimMatches("transcribe")
    /\ IsLast(asr.lo)
    /\ AsrGoTo("merging", IF Merged = {} THEN "dropping" ELSE "heard")
    /\ asr' = [asr EXCEPT !.heard = Merged, !.segments = {}]
    /\ UNCHANGED <<itemVars, row, transcript, original, mediaVars, offers, chunks, recovery>>

\* ensure_transcription_recovery
WriteRecovery ==
    /\ IF recovery \in {NoTranscript, FromAsr(asr.heard)}
       THEN recovery' = FromAsr(asr.heard) /\ AsrGoTo("heard", "announcing")
       ELSE UNCHANGED recovery /\ AsrGoTo("heard", "dropping")
    /\ asr' = NoAsr
    /\ UNCHANGED <<itemVars, row, transcript, original, mediaVars, offers, chunks>>
-----------------------------------------------------------------------------
(* _publish, and the end of the run *)

PublishTranscript ==
    /\ ClaimMatches("transcribe")
    /\ IF Publishable(recovery)
       THEN transcript' = recovery /\ AsrGoTo("announcing", "tidying")
       ELSE UNCHANGED transcript /\ AsrGoTo("announcing", "dropping")
    /\ UNCHANGED <<itemVars, row, original, mediaVars, offers, asrVars>>

\* _trash_owned_media: the media of a task that exports its audio stay.
DropMedia ==
    IF item.export
    THEN UNCHANGED <<asset, upload, kept>>
    ELSE /\ asset' = Trashed(asset)
         /\ upload' = IF upload = "active" THEN "trash" ELSE upload
         /\ kept' = FALSE

Tidy ==
    /\ ClaimMatches("transcribe")
    /\ AsrGoTo("tidying", "transcribed")
    /\ DropMedia
    /\ UNCHANGED <<itemVars, row, transcript, original, audio, purged, offers, asrVars>>

\* _trash_owned_media_best_effort, before the failure or after the cancellation is recorded.
DropMediaIfPossible(from, to) ==
    /\ AsrGoTo(from, to)
    /\ DropMedia \/ UNCHANGED <<asset, upload, kept>>
    /\ asr' = NoAsr
    /\ UNCHANGED <<itemVars, row, transcript, original, audio, purged, offers, chunks, recovery>>

DropAndFail == DropMediaIfPossible("dropping", "transcribe failing")
DropAndLeave == DropMediaIfPossible("stopping", "idle")

CompleteTranscribe ==
    /\ pc = "transcribed"
    /\ Conclude("transcribe", "completed")
    /\ UNCHANGED <<itemVars, transcript, original, mediaVars, offers, asrVars>>

FailTranscribe ==
    /\ pc = "transcribe failing"
    /\ Conclude("transcribe", "failed")
    /\ UNCHANGED <<itemVars, transcript, original, mediaVars, offers, asrVars>>

StopTranscribe ==
    /\ pc \in {"recovering", "preparing", "chunking", "saving", "merging", "announcing", "tidying"}
    /\ StopRun("transcribe", "stopping")
    /\ UNCHANGED <<itemVars, transcript, original, mediaVars, offers, asrVars>>

\* No model or no runtime, an asset that cannot be moved, a recognizer or a disk that fails.
AsrBreaks == \E p \in {"recovering", "resolving", "preparing", "chunking", "saving", "tidying"} :
                AsrFails(p)

AsrStep ==
    \/ NothingToRecover \/ RecoverPublication \/ ResolveSource \/ PrepareAudio
    \/ LoadChunk \/ HearChunk \/ SaveChunk \/ NextChunk \/ LastChunk \/ WriteRecovery
    \/ PublishTranscript \/ Tidy
    \/ DropAndFail \/ DropAndLeave \/ CompleteTranscribe \/ FailTranscribe \/ StopTranscribe
    \/ AsrBreaks

AsrPlaces == {"recovering", "resolving", "preparing", "chunking", "saving", "merging", "heard",
              "announcing", "tidying", "transcribed", "dropping", "stopping",
              "transcribe failing"}
=============================================================================
