------------------------ MODULE ItemTranscriptProofs ------------------------
(***************************************************************************)
(* Proofs about ItemTranscript: a recognized transcript has every          *)
(* utterance once, and what a completed stage claims is what was           *)
(* published.                                                              *)
(***************************************************************************)
EXTENDS ItemTranscript, FiniteSetTheorems, TLAPS

Short == {u \in Speech : u.to - u.from <= Overlap}

Once(heard, u) == \E h \in heard : h.of = u /\ \A g \in heard : g.of = u => g = h
Never(heard, u) == \A g \in heard : g.of # u

\* The chunks before bound are done: every utterance with its middle there was heard once.
Tally(heard, bound) ==
    \A u \in Short : IF Middle(u) < bound THEN Once(heard, u) ELSE Never(heard, u)

AllHeard(heard) == \A u \in Short : Once(heard, u)

AsrRecord == asr = [lo |-> asr.lo, device |-> asr.device, heard |-> asr.heard,
                    segments |-> asr.segments, by |-> asr.by]

\* Where a chunk may start: more than the overlap is left to be heard.
InAudio(lo) == lo \in Nat /\ lo < Duration /\ (lo = 0 \/ lo + Overlap < Duration)

LoopInv ==
    /\ AsrRecord
    /\ InAudio(asr.lo)
    /\ pc \in {"chunking", "saving", "merging"} => Tally(asr.heard, Lower(asr.lo))
    /\ pc \in {"saving", "merging"} => asr.segments \in Hearings(asr.lo, ChunkEnd(asr.lo))
    /\ pc = "heard" => AllHeard(asr.heard)

ChunksInv == \A c \in chunks : c.segments \in Hearings(c.lo, ChunkEnd(c.lo))

TextInv ==
    /\ recovery.from = "asr" => AllHeard(recovery.heard)
    /\ transcript.from = "asr" => AllHeard(transcript.heard)

HeardInv == LoopInv /\ ChunksInv /\ TextInv
-----------------------------------------------------------------------------
(* The windows of the chunks *)

\* Halving, as the prover needs it.
LEMMA Halves == \A n \in Nat : /\ n \div 2 \in Nat
                               /\ 2 * (n \div 2) <= n
                               /\ n < 2 * (n \div 2) + 2
  OBVIOUS

\* An even overlap is twice its half.
LEMMA EvenOverlap == Overlap \div 2 \in Nat /\ Overlap = 2 * (Overlap \div 2)
  BY AsrAssumption

LEMMA UtteranceType ==
  ASSUME NEW u \in Speech
  PROVE  /\ u.from \in Nat /\ u.to \in Nat /\ u.from < u.to /\ u.to <= Duration
         /\ Middle(u) \in Nat
         /\ 2 * Middle(u) <= u.from + u.to
         /\ u.from + u.to < 2 * Middle(u) + 2
  <1>1. u.from \in Nat /\ u.to \in Nat /\ u.from < u.to /\ u.to <= Duration
    BY AsrAssumption
  <1>2. u.from + u.to \in Nat
    BY <1>1
  <1> QED
    BY <1>1, <1>2, Halves DEF Middle

\* What a chunk that starts inside the audio looks like.
LEMMA ChunkShape ==
  ASSUME NEW lo \in Nat, lo < Duration
  PROVE  /\ ChunkEnd(lo) \in Nat /\ lo < ChunkEnd(lo) /\ ChunkEnd(lo) <= Duration
         /\ ChunkEnd(lo) < Duration => ChunkEnd(lo) = lo + ChunkSize
         /\ Lower(lo) \in Nat /\ Upper(lo) \in Int
  <1>1. Duration \in Nat /\ ChunkSize \in Nat /\ Overlap \in Nat /\ Overlap < ChunkSize
    BY AsrAssumption
  <1> QED
    BY <1>1, EvenOverlap DEF ChunkEnd, Lower, Upper, IsLast

\* A short utterance with its middle in the window lies in the chunk.
LEMMA WindowInside ==
  ASSUME NEW lo \in Nat, lo < Duration, NEW u \in Short,
         Lower(lo) <= Middle(u), Middle(u) < Upper(lo)
  PROVE  Inside(u, lo, ChunkEnd(lo))
  <1>1. /\ u \in Speech /\ u.to - u.from <= Overlap
    BY DEF Short
  <1>2. Duration \in Nat /\ ChunkSize \in Nat /\ Overlap \in Nat /\ Overlap < ChunkSize
    BY AsrAssumption
  <1>3. lo <= u.from
    <2>1. CASE lo = 0
      BY <2>1, <1>1, UtteranceType
    <2>2. CASE lo # 0
      <3>1. lo + (Overlap \div 2) <= Middle(u)
        BY <2>2 DEF Lower
      <3> QED
        BY <3>1, <1>1, <1>2, UtteranceType, EvenOverlap
    <2> QED
      BY <2>1, <2>2
  <1>4. u.to <= ChunkEnd(lo)
    <2>1. CASE IsLast(lo)
      BY <2>1, <1>1, UtteranceType DEF IsLast
    <2>2. CASE ~IsLast(lo)
      <3>1. Middle(u) < ChunkEnd(lo) - (Overlap \div 2)
        BY <2>2 DEF Upper
      <3> QED
        BY <3>1, <1>1, <1>2, UtteranceType, EvenOverlap, ChunkShape
    <2> QED
      BY <2>1, <2>2
  <1> QED
    BY <1>3, <1>4 DEF Inside

\* The piece of a short utterance that a border cuts off is never accepted.
LEMMA PieceRefused ==
  ASSUME NEW lo \in Nat, lo < Duration, NEW u \in Short,
         Crosses(u, lo, ChunkEnd(lo)), ~Inside(u, lo, ChunkEnd(lo))
  PROVE  ~(/\ Lower(lo) <= Middle(Piece(u, lo, ChunkEnd(lo)))
           /\ Middle(Piece(u, lo, ChunkEnd(lo))) < Upper(lo))
  <1> DEFINE hi == ChunkEnd(lo)
             p == Piece(u, lo, hi)
  <1>1. /\ u \in Speech /\ u.to - u.from <= Overlap
    BY DEF Short
  <1>2. Duration \in Nat /\ ChunkSize \in Nat /\ Overlap \in Nat /\ Overlap < ChunkSize
    BY AsrAssumption
  <1>3. /\ u.from \in Nat /\ u.to \in Nat /\ u.from < u.to /\ u.to <= Duration
    BY <1>1, UtteranceType
  <1>4. hi \in Nat /\ lo < hi /\ hi <= Duration /\ (hi < Duration => hi = lo + ChunkSize)
    BY ChunkShape
  <1>5. u.from < hi /\ lo < u.to
    BY DEF Crosses
  <1>6. u.from < lo \/ hi < u.to
    BY <1>3, <1>4 DEF Inside
  <1>7. /\ p.from = IF u.from < lo THEN lo ELSE u.from
        /\ p.to = IF hi < u.to THEN hi ELSE u.to
    BY DEF Piece
  <1> HIDE DEF p, hi
  <1>8. p.from + p.to \in Nat
    BY <1>3, <1>4, <1>7
  <1>9. /\ Middle(p) \in Nat
        /\ 2 * Middle(p) <= p.from + p.to
        /\ p.from + p.to < 2 * Middle(p) + 2
    BY <1>8, Halves DEF Middle
  <1>10. CASE u.from < lo
    <2>1. lo # 0
      BY <1>10, <1>3
    <2>2. Lower(lo) = lo + (Overlap \div 2)
      BY <2>1 DEF Lower
    <2>3. p.from = lo /\ p.to <= u.to /\ p.to \in Nat
      BY <1>10, <1>3, <1>4, <1>7
    <2>4. p.from + p.to < 2 * lo + Overlap
      BY <2>3, <1>10, <1>1, <1>2, <1>3
    <2>5. Middle(p) < lo + (Overlap \div 2)
      <3>1. PICK half \in Nat : half = Overlap \div 2 /\ Overlap = 2 * half
        BY EvenOverlap
      <3>2. 2 * Middle(p) < 2 * lo + 2 * half
        BY <2>4, <1>8, <1>9, <3>1
      <3> QED
        BY <3>1, <3>2, <1>9
    <2> QED
      BY <2>2, <2>5, <1>9, EvenOverlap DEF p, hi
  <1>11. CASE hi < u.to /\ ~(u.from < lo)
    <2>1. ~IsLast(lo)
      BY <1>11, <1>3, <1>4, <1>2 DEF IsLast, hi
    <2>2. Upper(lo) = hi - (Overlap \div 2)
      BY <2>1 DEF Upper, hi
    <2>3. p.from = u.from /\ p.to = hi
      BY <1>11, <1>7
    <2>4. 2 * hi - Overlap < p.from + p.to
      BY <2>3, <1>11, <1>1, <1>2, <1>3, <1>4
    <2>5. hi - (Overlap \div 2) <= Middle(p)
      <3>1. PICK half \in Nat : half = Overlap \div 2 /\ Overlap = 2 * half
        BY EvenOverlap
      <3>2. 2 * hi - 2 * half < 2 * Middle(p) + 2
        BY <2>4, <1>4, <1>8, <1>9, <3>1
      <3> QED
        BY <3>1, <3>2, <1>4, <1>9
    <2> QED
      BY <2>2, <2>5, <1>9, <1>4, EvenOverlap DEF p, hi
  <1> QED
    BY <1>6, <1>10, <1>11

\* A chunk accepts a short utterance exactly if its window holds the utterance's middle.
LEMMA AcceptedByWindow ==
  ASSUME NEW lo \in Nat, lo < Duration, NEW u \in Short,
         NEW segs \in Hearings(lo, ChunkEnd(lo))
  PROVE  (\E g \in Accepted(lo, segs) : g.of = u) <=> Lower(lo) <= Middle(u) /\ Middle(u) < Upper(lo)
  <1> DEFINE hi == ChunkEnd(lo)
             within == {v \in Speech : Inside(v, lo, hi)}
             cut == {v \in Speech : Crosses(v, lo, hi) /\ ~Inside(v, lo, hi)}
  <1>1. PICK edge \in SUBSET cut : segs = {Piece(v, lo, hi) : v \in within \cup edge}
    BY DEF Hearings
  <1>2. u \in Speech
    BY DEF Short
  <1>3. \A v : Piece(v, lo, hi).of = v
    BY DEF Piece
  <1>4. Inside(u, lo, hi) => Middle(Piece(u, lo, hi)) = Middle(u)
    <2>1. /\ u.from \in Nat /\ u.to \in Nat /\ hi \in Nat
      BY <1>2, UtteranceType, ChunkShape
    <2> QED
      BY <2>1 DEF Inside, Piece, Middle
  <1>5. ASSUME NEW g \in Accepted(lo, segs), g.of = u
        PROVE  Lower(lo) <= Middle(u) /\ Middle(u) < Upper(lo)
    <2>1. g \in segs /\ Lower(lo) <= Middle(g) /\ Middle(g) < Upper(lo)
      BY <1>5 DEF Accepted
    <2>2. PICK v \in within \cup edge : g = Piece(v, lo, hi)
      BY <1>1, <2>1
    <2>3. v = u
      BY <2>2, <1>3, <1>5
    <2>4. Inside(u, lo, hi) \/ Crosses(u, lo, hi)
      BY <2>2, <2>3
    <2>5. Inside(u, lo, hi)
      BY <2>1, <2>2, <2>3, <2>4, PieceRefused
    <2> QED
      BY <2>1, <2>2, <2>3, <2>5, <1>4
  <1>6. ASSUME Lower(lo) <= Middle(u), Middle(u) < Upper(lo)
        PROVE  \E g \in Accepted(lo, segs) : g.of = u
    <2>1. Inside(u, lo, hi)
      BY <1>6, WindowInside
    <2>2. Piece(u, lo, hi) \in segs
      BY <2>1, <1>1, <1>2
    <2>3. Piece(u, lo, hi) \in Accepted(lo, segs)
      BY <2>1, <2>2, <1>4, <1>6 DEF Accepted
    <2> QED
      BY <2>3, <1>3
  <1> QED
    BY <1>5, <1>6

\* The next chunk's window begins where this one's ends.
LEMMA WindowsMeet ==
  ASSUME NEW lo \in Nat, lo < Duration, ~IsLast(lo)
  PROVE  /\ InAudio(NextStart(lo))
         /\ Lower(NextStart(lo)) = Upper(lo)
  <1>1. Duration \in Nat /\ ChunkSize \in Nat /\ Overlap \in Nat /\ Overlap < ChunkSize
    BY AsrAssumption
  <1>2. ChunkEnd(lo) = lo + ChunkSize /\ lo + ChunkSize < Duration
    BY <1>1 DEF IsLast, ChunkEnd
  <1>3. NextStart(lo) # 0 /\ InAudio(NextStart(lo))
    BY <1>1, <1>2 DEF NextStart, InAudio
  <1>4. Lower(NextStart(lo)) = lo + ChunkSize - Overlap + (Overlap \div 2)
    BY <1>1, <1>2, <1>3 DEF Lower, NextStart
  <1>5. Upper(lo) = lo + ChunkSize - (Overlap \div 2)
    BY <1>1, <1>2 DEF Upper
  <1> QED
    BY <1>1, <1>3, <1>4, <1>5, EvenOverlap

LEMMA WindowsAreOrdered ==
  ASSUME NEW lo, InAudio(lo)
  PROVE  Lower(lo) <= Upper(lo)
  <1>1. /\ Duration \in Nat \ {0} /\ ChunkSize \in Nat
        /\ Overlap \in Nat /\ Overlap < ChunkSize
    BY AsrAssumption
  <1>2. PICK half \in Nat : half = Overlap \div 2 /\ Overlap = 2 * half
    BY EvenOverlap
  <1>3. CASE IsLast(lo)
    BY <1>1, <1>2, <1>3 DEF Lower, Upper, InAudio
  <1>4. CASE ~IsLast(lo)
    <2>1. ChunkEnd(lo) = lo + ChunkSize
      BY <1>4 DEF IsLast, ChunkEnd
    <2> QED
      BY <2>1, <1>1, <1>2, <1>4 DEF Lower, Upper, InAudio
  <1> QED
    BY <1>3, <1>4

\* A chunk merged moves the tally from the start of its window to the end.
LEMMA MergeAdvances ==
  ASSUME NEW lo, InAudio(lo), NEW segs \in Hearings(lo, ChunkEnd(lo)),
         NEW heard, NEW by, Tally(heard, Lower(lo))
  PROVE  Tally(heard \cup {[of |-> g.of, lo |-> lo, by |-> by] : g \in Accepted(lo, segs)},
               Upper(lo))
  <1> DEFINE new == {[of |-> g.of, lo |-> lo, by |-> by] : g \in Accepted(lo, segs)}
  <1> SUFFICES ASSUME NEW u \in Short
               PROVE  IF Middle(u) < Upper(lo) THEN Once(heard \cup new, u)
                                               ELSE Never(heard \cup new, u)
    BY DEF Tally
  <1>1. lo \in Nat /\ lo < Duration
    BY DEF InAudio
  <1>2. Middle(u) \in Nat /\ Lower(lo) \in Nat /\ Upper(lo) \in Int
    BY <1>1, UtteranceType, ChunkShape DEF Short
  <1>3. Lower(lo) <= Upper(lo)
    BY WindowsAreOrdered
  <1>4. (\E g \in Accepted(lo, segs) : g.of = u)
          <=> Lower(lo) <= Middle(u) /\ Middle(u) < Upper(lo)
    BY <1>1, AcceptedByWindow
  <1>5. \A h \in new : h = [of |-> h.of, lo |-> lo, by |-> by]
    OBVIOUS
  <1>6. (\E h \in new : h.of = u) <=> (\E g \in Accepted(lo, segs) : g.of = u)
    <2>1. ASSUME NEW g \in Accepted(lo, segs), g.of = u
          PROVE  \E h \in new : h.of = u
      <3>1. [of |-> g.of, lo |-> lo, by |-> by] \in new
        OBVIOUS
      <3> QED
        BY <2>1, <3>1
    <2>2. ASSUME NEW h \in new, h.of = u
          PROVE  \E g \in Accepted(lo, segs) : g.of = u
      <3>1. PICK g \in Accepted(lo, segs) : h = [of |-> g.of, lo |-> lo, by |-> by]
        OBVIOUS
      <3> QED
        BY <2>2, <3>1
    <2> QED
      BY <2>1, <2>2
  <1>7. IF Middle(u) < Lower(lo) THEN Once(heard, u) ELSE Never(heard, u)
    BY DEF Tally
  <1> HIDE DEF new
  <1>8. CASE Middle(u) < Lower(lo)
    <2>1. Once(heard, u) /\ Never(new, u)
      BY <1>2, <1>4, <1>6, <1>7, <1>8 DEF Never
    <2>2. Once(heard \cup new, u)
      BY <2>1 DEF Once, Never
    <2> QED
      BY <2>2, <1>2, <1>3, <1>8
  <1>9. CASE Lower(lo) <= Middle(u) /\ Middle(u) < Upper(lo)
    <2>1. Never(heard, u)
      BY <1>2, <1>7, <1>9
    <2>2. PICK h \in new : h.of = u
      BY <1>4, <1>6, <1>9
    <2>3. \A g \in new : g.of = u => g = h
      BY <1>5, <2>2
    <2>4. Once(heard \cup new, u)
      BY <2>1, <2>2, <2>3 DEF Once, Never
    <2> QED
      BY <2>4, <1>9
  <1>10. CASE Upper(lo) <= Middle(u)
    <2>1. Never(heard, u) /\ Never(new, u)
      BY <1>2, <1>3, <1>4, <1>6, <1>7, <1>10 DEF Never
    <2>2. Never(heard \cup new, u)
      BY <2>1 DEF Never
    <2> QED
      BY <2>2, <1>2, <1>10
  <1> QED
    BY <1>2, <1>8, <1>9, <1>10

\* Nothing has its middle before the first window, and nothing after the last one.
LEMMA TallyEnds ==
  /\ Tally({}, Lower(0))
  /\ \A lo, heard : IsLast(lo) /\ Tally(heard, Upper(lo)) => AllHeard(heard)
  <1>1. \A u \in Short : Middle(u) \in Nat /\ Middle(u) < Duration
    BY UtteranceType, AsrAssumption DEF Short
  <1> QED
    BY <1>1 DEF Tally, AllHeard, Never, Lower, Upper
-----------------------------------------------------------------------------
(* The invariant *)

TextPlaces == {"chunking", "saving", "merging", "heard"}

\* A step outside the recognizer's loop that leaves its files and the transcript alone.
LEMMA LoopUntouched ==
  ASSUME HeardInv, UNCHANGED <<asrVars, transcript>>, pc' \notin TextPlaces \/ pc' = pc
  PROVE  HeardInv'
  BY DEF HeardInv, LoopInv, ChunksInv, TextInv, AsrRecord, asrVars, TextPlaces, Tally, AllHeard,
         Once, Never

\* The loop forgotten.
LEMMA LoopReset ==
  ASSUME HeardInv, asr' = NoAsr, UNCHANGED <<chunks, recovery, transcript>>, pc' \notin TextPlaces
  PROVE  HeardInv'
  <1>1. LoopInv'
    BY AsrAssumption DEF LoopInv, AsrRecord, NoAsr, InAudio, TextPlaces
  <1> QED
    BY <1>1 DEF HeardInv, ChunksInv, TextInv

\* A subtitle published does not count as recognized.
LEMMA SubtitleKeepsHeard ==
  ASSUME HeardInv, UNCHANGED asrVars, pc' \notin TextPlaces, NEW t,
         transcript' = FromTrack(t) \/ UNCHANGED transcript
  PROVE  HeardInv'
  BY DEF HeardInv, LoopInv, ChunksInv, TextInv, AsrRecord, asrVars, TextPlaces, FromTrack

LEMMA SourceKeepsHeard ==
  ASSUME HeardInv, SourceStep \/ ClaimSource
  PROVE  HeardInv'
  <1>1. CASE PublishSubtitle
    BY <1>1, SubtitleKeepsHeard DEF PublishSubtitle, TextPlaces
  <1>2. CASE LoadItem \/ ViewMedia \/ Probe \/ HaveProbed \/ ClaimSource
    <2>1. UNCHANGED <<asrVars, transcript>>
      BY <1>2 DEF LoadItem, ViewMedia, Probe, HaveProbed, ClaimSource
    <2>2. pc' \notin TextPlaces
      BY <1>2 DEF LoadItem, ViewMedia, Probe, HaveProbed, ClaimSource, SourceGoTo, Claim, TextPlaces
    <2> QED
      BY <2>1, <2>2, LoopUntouched
  <1>3. CASE FetchSubtitle \/ CandidateFails \/ FallBackToAudio \/ SourceBreaks
    <2>1. UNCHANGED <<asrVars, transcript>>
      BY <1>3 DEF FetchSubtitle, CandidateFails, FallBackToAudio, SourceBreaks, SourceFails
    <2>2. pc' \notin TextPlaces
      BY <1>3 DEF FetchSubtitle, CandidateFails, FallBackToAudio, SourceBreaks, SourceFails,
                  SourceGoTo, TextPlaces
    <2> QED
      BY <2>1, <2>2, LoopUntouched
  <1>4. CASE FindAudio \/ Download \/ RegisterAudio \/ HandOver
    <2>1. UNCHANGED <<asrVars, transcript>>
      BY <1>4 DEF FindAudio, Download, RegisterAudio, HandOver
    <2>2. pc' \notin TextPlaces
      BY <1>4 DEF FindAudio, Download, RegisterAudio, HandOver, SourceGoTo, TextPlaces
    <2> QED
      BY <2>1, <2>2, LoopUntouched
  <1>5. CASE WriteOriginal \/ DropSource \/ StopSource
    <2>1. UNCHANGED <<asrVars, transcript>>
      BY <1>5 DEF WriteOriginal, DropSource, StopSource, ForgetSource
    <2>2. pc' \notin TextPlaces
      BY <1>5 DEF WriteOriginal, DropSource, StopSource, StopRun, SourceGoTo, TextPlaces
    <2> QED
      BY <2>1, <2>2, LoopUntouched
  <1>6. CASE CompleteSource \/ CompleteSkipping \/ FailSource
    <2>1. UNCHANGED <<asrVars, transcript>>
      BY <1>6 DEF CompleteSource, CompleteSkipping, FailSource, ForgetSource
    <2>2. pc' \notin TextPlaces
      BY <1>6 DEF CompleteSource, CompleteSkipping, FailSource, Conclude, TextPlaces
    <2> QED
      BY <2>1, <2>2, LoopUntouched
  <1> QED
    BY <1>1, <1>2, <1>3, <1>4, <1>5, <1>6 DEF SourceStep

\* The steps of the transcribe handler around the recognizer's loop.
LEMMA HandlerKeepsHeard ==
  ASSUME HeardInv,
         \/ NothingToRecover \/ RecoverPublication \/ ResolveSource \/ PublishTranscript \/ Tidy
         \/ DropAndFail \/ DropAndLeave \/ CompleteTranscribe \/ FailTranscribe
         \/ StopTranscribe \/ AsrBreaks \/ ClaimTranscribe
  PROVE  HeardInv'
  <1>1. CASE NothingToRecover \/ RecoverPublication \/ ResolveSource \/ AsrBreaks
    <2>1. UNCHANGED <<asrVars, transcript>>
      BY <1>1 DEF NothingToRecover, RecoverPublication, ResolveSource, AsrBreaks, AsrFails
    <2>2. pc' \notin TextPlaces
      BY <1>1 DEF NothingToRecover, RecoverPublication, ResolveSource, AsrBreaks, AsrFails, AsrGoTo,
                  TextPlaces
    <2> QED
      BY <2>1, <2>2, LoopUntouched
  <1>2. CASE Tidy \/ StopTranscribe \/ ClaimTranscribe
    <2>1. UNCHANGED <<asrVars, transcript>>
      BY <1>2 DEF Tidy, StopTranscribe, ClaimTranscribe
    <2>2. pc' \notin TextPlaces
      BY <1>2 DEF Tidy, StopTranscribe, StopRun, ClaimTranscribe, Claim, AsrGoTo, TextPlaces
    <2> QED
      BY <2>1, <2>2, LoopUntouched
  <1>3. CASE CompleteTranscribe \/ FailTranscribe
    <2>1. UNCHANGED <<asrVars, transcript>>
      BY <1>3 DEF CompleteTranscribe, FailTranscribe
    <2>2. pc' \notin TextPlaces
      BY <1>3 DEF CompleteTranscribe, FailTranscribe, Conclude, TextPlaces
    <2> QED
      BY <2>1, <2>2, LoopUntouched
  <1>4. CASE DropAndFail \/ DropAndLeave
    <2>1. asr' = NoAsr /\ UNCHANGED <<chunks, recovery, transcript>>
      BY <1>4 DEF DropAndFail, DropAndLeave, DropMediaIfPossible
    <2>2. pc' \notin TextPlaces
      BY <1>4 DEF DropAndFail, DropAndLeave, DropMediaIfPossible, AsrGoTo, TextPlaces
    <2> QED
      BY <2>1, <2>2, LoopReset
  <1>5. CASE PublishTranscript
    <2>1. UNCHANGED asrVars /\ pc' \notin TextPlaces
      BY <1>5 DEF PublishTranscript, AsrGoTo, TextPlaces
    <2>2. transcript' = recovery \/ UNCHANGED transcript
      BY <1>5 DEF PublishTranscript
    <2> QED
      BY <2>1, <2>2 DEF HeardInv, LoopInv, ChunksInv, TextInv, AsrRecord, asrVars, TextPlaces
  <1> QED
    BY <1>1, <1>2, <1>3, <1>4, <1>5

LEMMA LoopKeepsHeard ==
  ASSUME HeardInv,
         \/ PrepareAudio \/ LoadChunk \/ HearChunk \/ SaveChunk \/ NextChunk \/ LastChunk
         \/ WriteRecovery
  PROVE  HeardInv'
  <1>1. CASE PrepareAudio
    <2>1. CASE pc' = "dropping"
      <3>1. UNCHANGED <<asrVars, transcript>>
        BY <1>1, <2>1 DEF PrepareAudio, AsrGoTo, asrVars
      <3> QED
        BY <2>1, <3>1, LoopUntouched DEF TextPlaces
    <2>2. CASE pc' = "chunking"
      <3>1. asr' = NoAsr /\ UNCHANGED <<chunks, recovery, transcript>>
        BY <1>1, <2>2 DEF PrepareAudio, AsrGoTo
      <3>2. NoAsr.lo = 0 /\ NoAsr.heard = {}
        BY DEF NoAsr
      <3>3. LoopInv'
        BY <2>2, <3>1, <3>2, TallyEnds, AsrAssumption DEF LoopInv, AsrRecord, NoAsr, InAudio
      <3> QED
        BY <3>1, <3>3 DEF HeardInv, ChunksInv, TextInv
    <2> QED
      BY <1>1, <2>1, <2>2 DEF PrepareAudio, AsrGoTo
  <1>2. CASE LoadChunk
    <2>1. PICK c \in SavedChunks(asr.lo) : asr' = [asr EXCEPT !.segments = c.segments, !.by = c.by]
      BY <1>2 DEF LoadChunk
    <2>2. /\ pc = "chunking" /\ pc' = "merging" /\ UNCHANGED <<chunks, recovery, transcript>>
      BY <1>2 DEF LoadChunk, AsrGoTo
    <2>3. c.segments \in Hearings(asr.lo, ChunkEnd(asr.lo))
      BY DEF SavedChunks, HeardInv, ChunksInv
    <2>4. asr' = [lo |-> asr.lo, device |-> asr.device, heard |-> asr.heard,
                  segments |-> c.segments, by |-> c.by]
      BY <2>1 DEF HeardInv, LoopInv, AsrRecord
    <2>5. LoopInv'
      BY <2>2, <2>3, <2>4 DEF HeardInv, LoopInv, AsrRecord
    <2> QED
      BY <2>2, <2>5 DEF HeardInv, ChunksInv, TextInv
  <1>3. CASE HearChunk
    <2>1. PICK device \in {asr.device, "cpu"}, heard \in Hearings(asr.lo, ChunkEnd(asr.lo)) :
            asr' = [asr EXCEPT !.device = device, !.segments = heard, !.by = device]
      BY <1>3 DEF HearChunk
    <2>2. /\ pc = "chunking" /\ pc' = "saving" /\ UNCHANGED <<chunks, recovery, transcript>>
      BY <1>3 DEF HearChunk, AsrGoTo
    <2>3. asr' = [lo |-> asr.lo, device |-> device, heard |-> asr.heard,
                  segments |-> heard, by |-> device]
      BY <2>1 DEF HeardInv, LoopInv, AsrRecord
    <2>4. LoopInv'
      BY <2>2, <2>3 DEF HeardInv, LoopInv, AsrRecord
    <2> QED
      BY <2>2, <2>4 DEF HeardInv, ChunksInv, TextInv
  <1>4. CASE SaveChunk
    <2>1. /\ pc = "saving" /\ pc' = "merging" /\ UNCHANGED <<asr, recovery, transcript>>
          /\ chunks' = chunks \cup {[lo |-> asr.lo, segments |-> asr.segments, by |-> asr.by]}
      BY <1>4 DEF SaveChunk, AsrGoTo
    <2>2. ChunksInv'
      BY <2>1 DEF HeardInv, LoopInv, ChunksInv
    <2>3. LoopInv'
      BY <2>1 DEF HeardInv, LoopInv, AsrRecord
    <2> QED
      BY <2>1, <2>2, <2>3 DEF HeardInv, TextInv
  <1>5. ASSUME pc = "merging"
        PROVE  Tally(Merged, Upper(asr.lo))
    BY <1>5, MergeAdvances DEF HeardInv, LoopInv, Merged
  <1>6. CASE NextChunk
    <2>1. /\ pc = "merging" /\ pc' = "chunking" /\ UNCHANGED <<chunks, recovery, transcript>>
          /\ ~IsLast(asr.lo)
          /\ asr' = [asr EXCEPT !.lo = NextStart(asr.lo), !.heard = Merged, !.segments = {}]
      BY <1>6 DEF NextChunk, AsrGoTo
    <2>2. asr' = [lo |-> NextStart(asr.lo), device |-> asr.device, heard |-> Merged,
                  segments |-> {}, by |-> asr.by]
      BY <2>1 DEF HeardInv, LoopInv, AsrRecord
    <2>3. InAudio(NextStart(asr.lo)) /\ Lower(NextStart(asr.lo)) = Upper(asr.lo)
      BY <2>1, WindowsMeet DEF HeardInv, LoopInv, InAudio
    <2>4. asr'.lo = NextStart(asr.lo) /\ asr'.heard = Merged /\ AsrRecord'
      BY <2>2 DEF AsrRecord
    <2>5. Tally(asr'.heard, Lower(asr'.lo))
      BY <1>5, <2>1, <2>3, <2>4
    <2>6. LoopInv'
      BY <2>1, <2>3, <2>4, <2>5 DEF LoopInv
    <2> QED
      BY <2>1, <2>6 DEF HeardInv, ChunksInv, TextInv
  <1>7. CASE LastChunk
    <2>1. /\ pc = "merging" /\ pc' \in {"dropping", "heard"}
          /\ UNCHANGED <<chunks, recovery, transcript>>
          /\ IsLast(asr.lo)
          /\ asr' = [asr EXCEPT !.heard = Merged, !.segments = {}]
      BY <1>7 DEF LastChunk, AsrGoTo
    <2>2. asr' = [lo |-> asr.lo, device |-> asr.device, heard |-> Merged,
                  segments |-> {}, by |-> asr.by]
      BY <2>1 DEF HeardInv, LoopInv, AsrRecord
    <2>3. asr'.lo = asr.lo /\ asr'.heard = Merged /\ AsrRecord'
      BY <2>2 DEF AsrRecord
    <2>4. AllHeard(asr'.heard)
      BY <1>5, <2>1, <2>3, TallyEnds
    <2>5. LoopInv'
      BY <2>1, <2>3, <2>4 DEF HeardInv, LoopInv
    <2> QED
      BY <2>1, <2>5 DEF HeardInv, ChunksInv, TextInv
  <1>8. CASE WriteRecovery
    <2>1. /\ pc = "heard" /\ pc' \notin TextPlaces /\ asr' = NoAsr
          /\ UNCHANGED <<chunks, transcript>>
          /\ recovery' = FromAsr(asr.heard) \/ UNCHANGED recovery
      BY <1>8 DEF WriteRecovery, AsrGoTo, TextPlaces
    <2>2. LoopInv'
      BY <2>1, AsrAssumption DEF LoopInv, AsrRecord, NoAsr, InAudio, TextPlaces
    <2>3. TextInv'
      BY <2>1 DEF HeardInv, LoopInv, TextInv, FromAsr
    <2> QED
      BY <2>1, <2>2, <2>3 DEF HeardInv, ChunksInv
  <1> QED
    BY <1>1, <1>2, <1>3, <1>4, <1>6, <1>7, <1>8

LEMMA HeardStep == HeardInv /\ [Next]_vars => HeardInv'
  <1> SUFFICES ASSUME HeardInv, [Next]_vars
               PROVE  HeardInv'
    OBVIOUS
  <1>1. CASE Cancel \/ LeaseExpires \/ Start \/ Purge \/ TakeBack
    <2>1. UNCHANGED <<asrVars, transcript>> /\ (pc' = pc \/ pc' \notin TextPlaces)
      BY <1>1 DEF Cancel, LeaseExpires, Start, Purge, TakeBack, TextPlaces
    <2> QED
      BY <2>1, LoopUntouched
  <1>2. CASE \E s \in Stages : Retry(s)
    <2>1. /\ UNCHANGED <<asr, transcript, pc>>
          /\ UNCHANGED <<chunks, recovery>> \/ (chunks' = {} /\ recovery' = NoTranscript)
      BY <1>2 DEF Retry
    <2> QED
      BY <2>1 DEF HeardInv, LoopInv, ChunksInv, TextInv, AsrRecord, NoTranscript
  <1>3. CASE Die
    <2>1. asr' = NoAsr /\ UNCHANGED <<chunks, recovery, transcript>> /\ pc' \notin TextPlaces
      BY <1>3 DEF Die, TextPlaces
    <2> QED
      BY <2>1, LoopReset
  <1>4. CASE ClaimSource \/ ClaimTranscribe \/ Handle
    BY <1>4, SourceKeepsHeard, HandlerKeepsHeard, LoopKeepsHeard DEF Handle, AsrStep
  <1>5. CASE UNCHANGED vars
    <2>1. UNCHANGED <<asrVars, transcript>> /\ pc' = pc
      BY <1>5 DEF vars, asrVars
    <2> QED
      BY <2>1, LoopUntouched
  <1> QED
    BY <1>1, <1>2, <1>3, <1>4, <1>5 DEF Next

LEMMA HeardInitially == Init => HeardInv
  <1> SUFFICES ASSUME Init
               PROVE  HeardInv
    OBVIOUS
  <1>1. LoopInv
    BY AsrAssumption DEF Init, LoopInv, AsrRecord, NoAsr, InAudio
  <1> QED
    BY <1>1 DEF Init, HeardInv, ChunksInv, TextInv, NoTranscript

\* For every length of the audio, of the chunks and of their even overlap: wherever the chunks cut
\* it, an utterance no longer than the overlap is heard once in what is written and published.
THEOREM HeardOnceCorrect == Spec => []HeardOnce
  <1>1. HeardInv => HeardOnce
    BY DEF HeardInv, TextInv, HeardOnce, AllHeard, Once, Short
  <1> QED
    BY <1>1, HeardInitially, HeardStep, PTL DEF Spec
-----------------------------------------------------------------------------
(* One downloaded file *)

AudioInv ==
    /\ audio \in [Formats -> {"none", "whole", "junk", "empty"}]
    /\ asset = NoAsset \/ asset \in [state : {"active", "trash"}, format : Formats]
    /\ \A f, g \in Formats : audio[f] # "none" /\ audio[g] # "none" => f = g

\* The audio is fetched only if there is neither a row nor a file.
LEMMA NothingKnown ==
  ASSUME AudioInv, KnownAudio = NoAsset
  PROVE  \A f \in Formats : audio[f] = "none"
  <1>1. asset.state = "none" /\ asset = NoAsset
    BY DEF AudioInv, KnownAudio, Restored, NoAsset
  <1>2. AudioFiles = {}
    BY <1>1 DEF KnownAudio, NoAsset
  <1> QED
    BY <1>1, <1>2 DEF AudioFiles, NoAsset

LEMMA AudioUntouched ==
  ASSUME AudioInv, UNCHANGED audio, asset' \in {asset, Trashed(asset), Restored(asset)}
  PROVE  AudioInv'
  BY DEF AudioInv, Trashed, Restored, NoAsset

LEMMA SourceKeepsAudio ==
  ASSUME AudioInv, SourceStep \/ ClaimSource
  PROVE  AudioInv'
  <1>1. CASE \/ LoadItem \/ ViewMedia \/ Probe \/ HaveProbed \/ FetchSubtitle \/ CandidateFails
             \/ FallBackToAudio \/ HandOver \/ PublishSubtitle \/ WriteOriginal \/ SourceBreaks
             \/ ClaimSource
    <2>1. UNCHANGED <<audio, asset>>
      BY <1>1 DEF LoadItem, ViewMedia, Probe, HaveProbed, FetchSubtitle, CandidateFails, ClaimSource,
                  FallBackToAudio, HandOver, PublishSubtitle, WriteOriginal, SourceBreaks,
                  SourceFails, mediaVars
    <2> QED
      BY <2>1, AudioUntouched
  <1>2. CASE CompleteSource \/ CompleteSkipping \/ FailSource \/ StopSource
    <2>1. UNCHANGED <<audio, asset>>
      BY <1>2 DEF CompleteSource, CompleteSkipping, FailSource, StopSource, ForgetSource, mediaVars
    <2> QED
      BY <2>1, AudioUntouched
  <1>3. CASE DropSource
    <2>1. UNCHANGED audio /\ asset' \in {asset, Trashed(asset)}
      BY <1>3 DEF DropSource
    <2> QED
      BY <2>1, AudioUntouched
  <1>4. CASE FindAudio
    <2>1. UNCHANGED audio /\ asset' \in {asset, KnownAudio} /\ KnownAudio # NoAsset
      BY <1>4 DEF FindAudio
    <2>2. \/ KnownAudio = Restored(asset)
          \/ KnownAudio \in [state : {"active", "trash"}, format : Formats]
      BY <2>1 DEF KnownAudio, AudioFiles
    <2> QED
      BY <2>1, <2>2, AudioUntouched DEF AudioInv
  <1>5. CASE Download
    <2>1. PICK f \in Formats, body \in {"whole", "junk", "empty"} : audio' = [audio EXCEPT ![f] = body]
      BY <1>5 DEF Download
    <2>2. UNCHANGED asset /\ \A g \in Formats : audio[g] = "none"
      BY <1>5, NothingKnown DEF Download
    <2> QED
      BY <2>1, <2>2 DEF AudioInv
  <1>6. CASE RegisterAudio
    <2>1. /\ UNCHANGED audio
          /\ asset' = asset \/ \E f \in Formats : asset' = [state |-> "active", format |-> f]
      BY <1>6 DEF RegisterAudio, AudioFiles
    <2> QED
      BY <2>1 DEF AudioInv
  <1> QED
    BY <1>1, <1>2, <1>3, <1>4, <1>5, <1>6 DEF SourceStep

LEMMA TranscribeKeepsAudio ==
  ASSUME AudioInv, AsrStep \/ ClaimTranscribe
  PROVE  AudioInv'
  <1>1. UNCHANGED audio /\ asset' \in {asset, Trashed(asset), Restored(asset)}
    <2>1. CASE \/ NothingToRecover \/ RecoverPublication \/ PrepareAudio \/ LoadChunk \/ HearChunk
               \/ SaveChunk \/ NextChunk \/ LastChunk \/ WriteRecovery \/ PublishTranscript
               \/ CompleteTranscribe \/ FailTranscribe \/ StopTranscribe \/ AsrBreaks
               \/ ClaimTranscribe
      BY <2>1 DEF NothingToRecover, RecoverPublication, PrepareAudio, LoadChunk, HearChunk, SaveChunk,
                  NextChunk, LastChunk, WriteRecovery, PublishTranscript, CompleteTranscribe,
                  FailTranscribe, StopTranscribe, AsrBreaks, AsrFails, ClaimTranscribe, mediaVars
    <2>2. CASE ResolveSource \/ Tidy \/ DropAndFail \/ DropAndLeave
      BY <2>2 DEF ResolveSource, Tidy, DropAndFail, DropAndLeave, DropMediaIfPossible, DropMedia
    <2> QED
      BY <2>1, <2>2 DEF AsrStep
  <1> QED
    BY <1>1, AudioUntouched

LEMMA AudioHolds == Spec => []AudioInv
  <1>1. Init => AudioInv
    BY DEF Init, AudioInv
  <1>2. AudioInv /\ [Next]_vars => AudioInv'
    <2> SUFFICES ASSUME AudioInv, [Next]_vars
                 PROVE  AudioInv'
      OBVIOUS
    <2>1. CASE Cancel \/ LeaseExpires \/ Start \/ Die \/ (\E s \in Stages : Retry(s)) \/ UNCHANGED vars
      <3>1. UNCHANGED <<audio, asset>>
        BY <2>1 DEF Cancel, LeaseExpires, Start, Die, Retry, mediaVars, vars
      <3> QED
        BY <3>1, AudioUntouched
    <2>2. CASE Purge
      <3>1. CASE UNCHANGED <<audio, asset>>
        BY <3>1, AudioUntouched
      <3>2. CASE asset' = NoAsset /\ audio' = [audio EXCEPT ![asset.format] = "none"]
        BY <3>2 DEF AudioInv
      <3> QED
        BY <2>2, <3>1, <3>2 DEF Purge
    <2>3. CASE TakeBack
      BY <2>3, AudioUntouched DEF TakeBack
    <2> QED
      BY <2>1, <2>2, <2>3, SourceKeepsAudio, TranscribeKeepsAudio DEF Next, Handle
  <1> QED
    BY <1>1, <1>2, PTL DEF Spec

\* For every set of formats: no crash, retry or change of a platform's offer leaves an item with two
\* downloaded files, which recover_downloaded_audio would have to refuse ever after.
THEOREM OneAudioFileCorrect == Spec => []OneAudioFile
  <1>1. AudioInv => OneAudioFile
    <2> SUFFICES ASSUME AudioInv
                 PROVE  Cardinality({f \in Formats : audio[f] # "none"}) <= 1
      BY DEF OneAudioFile
    <2>1. CASE {f \in Formats : audio[f] # "none"} = {}
      BY <2>1, FS_EmptySet
    <2>2. ASSUME NEW f \in Formats, audio[f] # "none"
          PROVE  Cardinality({g \in Formats : audio[g] # "none"}) <= 1
      <3>1. {g \in Formats : audio[g] # "none"} = {f}
        BY <2>2 DEF AudioInv
      <3> QED
        BY <3>1, FS_Singleton
    <2> QED
      BY <2>1, <2>2
  <1> QED
    BY <1>1, AudioHolds, PTL
-----------------------------------------------------------------------------
(* What a completed stage claims *)

\* Where the transcribe handler still holds its row, if any worker does.
Holding == AsrPlaces \ {"stopping"}

RowValues == [status : Statuses, attempt : Int, owner : {"nobody", "me", "former"},
              lease : {"none", "live", "expired"}]
RowType == [Stages -> RowValues]

ClaimInv ==
    /\ PublishedAsClaimed
    /\ offers \in Seq(Tracks)
    /\ row \in RowType
    /\ pc \in {"down", "idle"} \cup SourcePlaces \cup AsrPlaces
    /\ pc \in {"chosen", "published"} => offers # <<>>
    /\ pc = "published" => transcript = FromTrack(offers[1])
    /\ pc \in {"filed", "subtitled"} => original # NoTrack
    /\ pc \in Holding => row["transcribe"].status \in {"running", "cancel_requested"}
    /\ pc = "announcing" => recovery # NoTranscript
    /\ pc \in {"tidying", "transcribed"} => recovery # NoTranscript /\ transcript = recovery

Outcomes == {"skipped", "completed"}

\* No step makes transcribe skipped or completed, and none undoes what either claims.
LEMMA ClaimsKept ==
  ASSUME PublishedAsClaimed,
         row'["transcribe"].status \in Outcomes
           => row'["transcribe"].status = row["transcribe"].status,
         transcript # NoTranscript => UNCHANGED transcript,
         recovery # NoTranscript /\ row'["transcribe"].status = "completed" => UNCHANGED recovery,
         UNCHANGED original
  PROVE  PublishedAsClaimed'
  BY DEF PublishedAsClaimed, FromTrack, NoTranscript, Outcomes

\* A stage row written when its lease ends.
LEMMA FreedRow ==
  ASSUME row \in RowType, NEW s \in Stages, NEW status \in Statuses,
         row' = [row EXCEPT ![s] = Freed(@, status)]
  PROVE  /\ row' \in RowType
         /\ row'[s].status = status /\ row'[s].attempt = row[s].attempt
         /\ \A q \in Stages \ {s} : row'[q] = row[q]
  <1>1. /\ Freed(row[s], status) \in RowValues /\ Freed(row[s], status).status = status
        /\ Freed(row[s], status).attempt = row[s].attempt
    BY DEF RowType, RowValues, Freed
  <1> QED
    BY <1>1 DEF RowType

\* Places at which the handlers have promised something about the files.
Promising == {"chosen", "published", "filed", "subtitled", "announcing", "tidying", "transcribed"}

LEMMA FilesUntouched ==
  ASSUME ClaimInv, UNCHANGED <<transcript, original, recovery>>,
         row' \in RowType,
         row'["transcribe"].status \in Outcomes
           => row'["transcribe"].status = row["transcribe"].status,
         offers' \in Seq(Tracks),
         pc' \in ({"down", "idle"} \cup SourcePlaces \cup AsrPlaces) \ Promising,
         pc' \in Holding => row'["transcribe"].status \in {"running", "cancel_requested"}
  PROVE  ClaimInv'
  <1>1. PublishedAsClaimed'
    BY ClaimsKept DEF ClaimInv
  <1> QED
    BY <1>1 DEF ClaimInv, Promising

LEMMA HoldingPlaces ==
  /\ Holding = {"recovering", "resolving", "preparing", "chunking", "saving", "merging", "heard",
                "announcing", "tidying", "transcribed", "dropping", "transcribe failing"}
  /\ SourcePlaces \cap Holding = {}
  /\ "idle" \notin Holding /\ "down" \notin Holding /\ "stopping" \notin Holding
  BY DEF Holding, AsrPlaces, SourcePlaces

\* The source handler's steps that leave transcript and original alone.
LEMMA SourceKeepsClaims ==
  ASSUME ClaimInv,
         \/ ViewMedia \/ Probe \/ HaveProbed \/ CandidateFails \/ FallBackToAudio
         \/ FindAudio \/ Download \/ RegisterAudio \/ HandOver \/ SourceBreaks
  PROVE  ClaimInv'
  <1>1. UNCHANGED <<row, transcript, original, recovery>>
    BY DEF ViewMedia, Probe, HaveProbed, CandidateFails, FallBackToAudio, FindAudio, Download,
           RegisterAudio, HandOver, SourceBreaks, SourceFails, asrVars
  <1>2. pc' \in SourcePlaces \ Promising
    BY DEF ViewMedia, Probe, HaveProbed, CandidateFails, FallBackToAudio, FindAudio, Download,
           RegisterAudio, HandOver, SourceBreaks, SourceFails, SourceGoTo, SourcePlaces, Promising
  <1>3. offers' \in Seq(Tracks)
    <2>1. CASE UNCHANGED offers
      BY <2>1 DEF ClaimInv
    <2>2. CASE CandidateFails
      BY <2>2 DEF ClaimInv, CandidateFails
    <2>3. CASE Probe
      <3>1. PICK n \in 0 .. Cardinality(Tracks) : offers' \in [1 .. n -> Tracks]
        BY <2>3 DEF Probe
      <3>2. n \in Nat
        BY <3>1
      <3> QED
        BY <3>1, <3>2
    <2> QED
      BY <2>1, <2>2, <2>3 DEF ViewMedia, HaveProbed, FallBackToAudio, FindAudio, Download,
                              RegisterAudio, HandOver, SourceBreaks, SourceFails
  <1> QED
    BY <1>1, <1>2, <1>3, FilesUntouched, HoldingPlaces DEF ClaimInv

\* A source run that ends otherwise than with subtitles, or is stopped.
LEMMA SourceEndKeepsClaims ==
  ASSUME ClaimInv, CompleteSource \/ FailSource \/ StopSource
  PROVE  ClaimInv'
  <1>1. UNCHANGED <<transcript, original, recovery>> /\ offers' = <<>> /\ pc' = "idle"
    BY DEF CompleteSource, FailSource, StopSource, StopRun, Conclude, ForgetSource, asrVars
  <1>2. row' = row \/ \E status \in Statuses : row' = [row EXCEPT !["source"] = Freed(@, status)]
    BY DEF CompleteSource, FailSource, StopSource, StopRun, Conclude, Statuses
  <1>3. row' \in RowType /\ row'["transcribe"] = row["transcribe"]
    BY <1>2, FreedRow DEF ClaimInv, Stages
  <1>4. offers' \in Seq(Tracks)
    BY <1>1
  <1>5. /\ pc' \in ({"down", "idle"} \cup SourcePlaces \cup AsrPlaces) \ Promising
        /\ pc' \notin Holding
    BY <1>1, HoldingPlaces DEF Promising
  <1> QED
    BY <1>1, <1>3, <1>4, <1>5, FilesUntouched

\* The steps that publish a subtitle.
LEMMA SubtitleKeepsClaims ==
  ASSUME ClaimInv,
         LoadItem \/ FetchSubtitle \/ PublishSubtitle \/ WriteOriginal \/ DropSource \/ CompleteSkipping
  PROVE  ClaimInv'
  <1>2. CASE LoadItem
    <2>1. /\ UNCHANGED <<row, transcript, original, recovery>>
          /\ pc' \in {"probing", "chosen", "viewed", "source failing"}
          /\ pc' = "chosen" => offers' = <<OwnTrack>>
          /\ pc' # "chosen" => offers' \in {<<>>, <<OwnTrack>>}
      BY <1>2, ItemAssumption DEF LoadItem, SourceGoTo, asrVars
    <2>2. OwnTrack \in Tracks
      BY ItemAssumption DEF OwnTrack
    <2>3. offers' \in Seq(Tracks) /\ (pc' = "chosen" => offers' # <<>>)
      <3>1. <<OwnTrack>> \in Seq(Tracks) /\ <<OwnTrack>> # <<>>
        BY <2>2
      <3>2. <<>> \in Seq(Tracks)
        OBVIOUS
      <3>3. CASE offers' = <<OwnTrack>>
        BY <3>1, <3>3
      <3>4. CASE offers' = <<>>
        BY <2>1, <3>1, <3>2, <3>4
      <3> QED
        BY <2>1, <3>3, <3>4
    <2>4. PublishedAsClaimed'
      BY <2>1, ClaimsKept DEF ClaimInv
    <2> QED
      BY <2>1, <2>3, <2>4, HoldingPlaces DEF ClaimInv, SourcePlaces
  <1>3. CASE FetchSubtitle
    <2>1. /\ UNCHANGED <<row, transcript, original, recovery>>
          /\ pc' = "chosen" /\ offers' = <<Head(offers)>> /\ offers # <<>>
      BY <1>3 DEF FetchSubtitle, SourceGoTo, asrVars
    <2>2. offers' \in Seq(Tracks) /\ offers' # <<>>
      BY <2>1 DEF ClaimInv
    <2>3. PublishedAsClaimed'
      BY <2>1, ClaimsKept DEF ClaimInv
    <2> QED
      BY <2>1, <2>2, <2>3, HoldingPlaces DEF ClaimInv, SourcePlaces
  <1>4. CASE PublishSubtitle
    <2>1. /\ UNCHANGED <<row, original, recovery, offers>>
          /\ \/ pc' = "published" /\ transcript' = FromTrack(offers[1])
             \/ pc' = "source failing" /\ UNCHANGED transcript
          /\ transcript # NoTranscript => UNCHANGED transcript
          /\ offers # <<>>
      BY <1>4 DEF PublishSubtitle, Publishable, asrVars, ClaimInv
    <2>2. PublishedAsClaimed'
      BY <2>1, ClaimsKept DEF ClaimInv
    <2> QED
      BY <2>1, <2>2, HoldingPlaces DEF ClaimInv, SourcePlaces
  <1>5. CASE WriteOriginal
    <2>1. /\ UNCHANGED <<row, transcript, recovery, offers>>
          /\ \/ pc' = "filed" /\ original' = offers[1] /\ original \in {NoTrack, offers[1]}
             \/ pc' = "source failing" /\ UNCHANGED original
          /\ offers # <<>> /\ transcript = FromTrack(offers[1])
      BY <1>5 DEF WriteOriginal, asrVars, ClaimInv
    <2>2. offers[1] \in Tracks /\ offers[1] # NoTrack
      <3>1. offers \in Seq(Tracks) /\ offers # <<>>
        BY <2>1 DEF ClaimInv
      <3>2. offers[1] \in Tracks
        BY <3>1
      <3> QED
        BY <3>2, ItemAssumption
    <2>3. PublishedAsClaimed'
      BY <2>1, <2>2 DEF ClaimInv, PublishedAsClaimed
    <2> QED
      BY <2>1, <2>2, <2>3, HoldingPlaces DEF ClaimInv, SourcePlaces
  <1>6. CASE DropSource
    <2>1. /\ UNCHANGED <<row, transcript, original, recovery, offers>>
          /\ pc = "filed" /\ pc' = "subtitled"
      BY <1>6 DEF DropSource, SourceGoTo, asrVars
    <2>2. PublishedAsClaimed'
      BY <2>1, ClaimsKept DEF ClaimInv
    <2> QED
      BY <2>1, <2>2, HoldingPlaces DEF ClaimInv, SourcePlaces
  <1>7. CASE CompleteSkipping
    <2>1. /\ UNCHANGED <<transcript, original, recovery>> /\ offers' = <<>> /\ pc' = "idle"
          /\ original # NoTrack
      BY <1>7 DEF CompleteSkipping, ForgetSource, asrVars, ClaimInv
    <2>2. /\ row' \in RowType
          /\ row'["transcribe"].status \in {row["transcribe"].status, "skipped"}
      BY <1>7 DEF CompleteSkipping, ClaimInv, RowType, RowValues, Freed, Stages, Statuses
    <2>3. PublishedAsClaimed'
      BY <2>1, <2>2 DEF ClaimInv, PublishedAsClaimed
    <2>4. offers' \in Seq(Tracks)
      BY <2>1
    <2> QED
      BY <2>1, <2>2, <2>3, <2>4, HoldingPlaces DEF ClaimInv
  <1> QED
    BY <1>2, <1>3, <1>4, <1>5, <1>6, <1>7

\* The transcribe handler's steps that leave the transcript and the recovery file alone.
LEMMA LoopKeepsClaims ==
  ASSUME ClaimInv,
         \/ NothingToRecover \/ ResolveSource \/ PrepareAudio \/ LoadChunk \/ HearChunk
         \/ SaveChunk \/ NextChunk \/ LastChunk \/ DropAndFail \/ AsrBreaks
  PROVE  ClaimInv'
  <1>1. UNCHANGED <<row, transcript, original, recovery, offers>>
    BY DEF NothingToRecover, ResolveSource, PrepareAudio, LoadChunk, HearChunk, SaveChunk, NextChunk,
           LastChunk, DropAndFail, DropMediaIfPossible, AsrBreaks, AsrFails, asrVars
  <1>2. pc \in Holding /\ pc' \in Holding \ Promising
    BY HoldingPlaces
       DEF NothingToRecover, ResolveSource, PrepareAudio, LoadChunk, HearChunk, SaveChunk, NextChunk,
           LastChunk, DropAndFail, DropMediaIfPossible, AsrBreaks, AsrFails, AsrGoTo, Promising
  <1> QED
    BY <1>1, <1>2, FilesUntouched DEF ClaimInv, Holding

\* The transcribe handler's steps that publish, and those that end its run.
LEMMA PublishKeepsClaims ==
  ASSUME ClaimInv,
         \/ RecoverPublication \/ WriteRecovery \/ PublishTranscript \/ Tidy \/ DropAndLeave
         \/ CompleteTranscribe \/ FailTranscribe \/ StopTranscribe
  PROVE  ClaimInv'
  <1>1. CASE RecoverPublication
    <2>1. /\ UNCHANGED <<row, transcript, original, recovery, offers>>
          /\ pc = "recovering" /\ pc' \in {"dropping", "announcing", "tidying"}
          /\ pc' # "dropping" => recovery # NoTranscript
          /\ pc' = "tidying" => transcript = recovery
      BY <1>1 DEF RecoverPublication, AsrGoTo, asrVars
    <2>2. PublishedAsClaimed'
      BY <2>1, ClaimsKept DEF ClaimInv
    <2> QED
      BY <2>1, <2>2, HoldingPlaces DEF ClaimInv, AsrPlaces
  <1>2. CASE WriteRecovery
    <2>1. /\ UNCHANGED <<row, transcript, original, offers>>
          /\ pc = "heard" /\ pc' \in {"dropping", "announcing"}
          /\ pc' = "announcing" => recovery' # NoTranscript
          /\ recovery # NoTranscript => UNCHANGED recovery
      BY <1>2 DEF WriteRecovery, AsrGoTo, FromAsr, NoTranscript
    <2>2. PublishedAsClaimed'
      BY <2>1, ClaimsKept DEF ClaimInv
    <2> QED
      BY <2>1, <2>2, HoldingPlaces DEF ClaimInv, AsrPlaces
  <1>3. CASE PublishTranscript
    <2>1. /\ UNCHANGED <<row, original, recovery, offers>>
          /\ pc = "announcing" /\ pc' \in {"dropping", "tidying"}
          /\ pc' = "tidying" => transcript' = recovery
          /\ transcript # NoTranscript => UNCHANGED transcript
          /\ recovery # NoTranscript
      BY <1>3 DEF PublishTranscript, Publishable, AsrGoTo, asrVars, ClaimInv
    <2>2. PublishedAsClaimed'
      BY <2>1, ClaimsKept DEF ClaimInv
    <2> QED
      BY <2>1, <2>2, HoldingPlaces DEF ClaimInv, AsrPlaces
  <1>4. CASE Tidy
    <2>1. /\ UNCHANGED <<row, transcript, original, recovery, offers>>
          /\ pc = "tidying" /\ pc' = "transcribed"
      BY <1>4 DEF Tidy, AsrGoTo, asrVars
    <2>2. PublishedAsClaimed'
      BY <2>1, ClaimsKept DEF ClaimInv
    <2> QED
      BY <2>1, <2>2, HoldingPlaces DEF ClaimInv, AsrPlaces
  <1>5. CASE DropAndLeave
    <2>1. UNCHANGED <<row, transcript, original, recovery, offers>> /\ pc' = "idle"
      BY <1>5 DEF DropAndLeave, DropMediaIfPossible, AsrGoTo
    <2> QED
      BY <2>1, FilesUntouched, HoldingPlaces DEF ClaimInv, Promising
  <1>6. CASE FailTranscribe \/ StopTranscribe
    <2>1. UNCHANGED <<transcript, original, recovery, offers>> /\ pc' \in {"idle", "stopping"}
      BY <1>6 DEF FailTranscribe, StopTranscribe, Conclude, StopRun, asrVars
    <2>2. \/ row' = row
          \/ \E status \in Statuses \ Outcomes : row' = [row EXCEPT !["transcribe"] = Freed(@, status)]
      BY <1>6 DEF FailTranscribe, StopTranscribe, Conclude, StopRun, Statuses, Outcomes
    <2>3. /\ row' \in RowType
          /\ row'["transcribe"].status \in Outcomes
               => row'["transcribe"].status = row["transcribe"].status
      BY <2>2, FreedRow DEF ClaimInv, Stages
    <2>4. /\ pc' \in ({"down", "idle"} \cup SourcePlaces \cup AsrPlaces) \ Promising
          /\ pc' \notin Holding
      BY <2>1, HoldingPlaces DEF Promising, AsrPlaces
    <2> QED
      BY <2>1, <2>3, <2>4, FilesUntouched DEF ClaimInv
  <1>7. CASE CompleteTranscribe
    <2>1. UNCHANGED <<transcript, original, recovery, offers>> /\ pc = "transcribed" /\ pc' = "idle"
      BY <1>7 DEF CompleteTranscribe, Conclude, asrVars
    <2>2. row' = row \/ row' = [row EXCEPT !["transcribe"] = Freed(@, "completed")]
      BY <1>7 DEF CompleteTranscribe, Conclude
    <2>3. /\ row' \in RowType
          /\ row'["transcribe"].status \in {row["transcribe"].status, "completed"}
      BY <2>2, FreedRow DEF ClaimInv, Stages, Statuses
    <2>4. PublishedAsClaimed'
      BY <2>1, <2>3 DEF ClaimInv, PublishedAsClaimed
    <2> QED
      BY <2>1, <2>3, <2>4, HoldingPlaces DEF ClaimInv
  <1> QED
    BY <1>1, <1>2, <1>3, <1>4, <1>5, <1>6, <1>7

\* The user, the clock and the process.
LEMMA OthersKeepClaims ==
  ASSUME ClaimInv,
         \/ Cancel \/ LeaseExpires \/ (\E s \in Stages : Retry(s)) \/ Start \/ Die
         \/ ClaimSource \/ ClaimTranscribe \/ Purge \/ TakeBack \/ UNCHANGED vars
  PROVE  ClaimInv'
  <1>1. CASE Cancel
    <2>1. UNCHANGED <<transcript, original, recovery, offers, pc>>
      BY <1>1 DEF Cancel, asrVars
    <2>2. /\ row' \in RowType
          /\ row'["transcribe"].status \in Outcomes
               => row'["transcribe"].status = row["transcribe"].status
          /\ row["transcribe"].status \in {"running", "cancel_requested"}
               => row'["transcribe"].status \in {"running", "cancel_requested"}
      <3>1. ASSUME NEW s \in Stages
            PROVE  /\ row'[s] \in RowValues
                   /\ row'[s].status \in Outcomes => row'[s].status = row[s].status
                   /\ row[s].status \in {"running", "cancel_requested"}
                        => row'[s].status \in {"running", "cancel_requested"}
        <4>1. row[s] \in RowValues
          BY DEF ClaimInv, RowType
        <4>2. \/ row[s].status = "queued" /\ row'[s] = Freed(row[s], "canceled")
              \/ row[s].status = "running" /\ row'[s] = [row[s] EXCEPT !.status = "cancel_requested"]
              \/ row'[s] = row[s]
          BY <1>1 DEF Cancel
        <4> QED
          BY <4>1, <4>2 DEF RowValues, Freed, Statuses, Outcomes
      <3>2. row' = [s \in Stages |-> row'[s]]
        BY <1>1 DEF Cancel
      <3> QED
        BY <3>1, <3>2 DEF RowType, Stages
    <2>3. PublishedAsClaimed'
      BY <2>1, <2>2, ClaimsKept DEF ClaimInv
    <2> QED
      BY <2>1, <2>2, <2>3 DEF ClaimInv
  <1>2. CASE LeaseExpires
    <2>1. UNCHANGED <<transcript, original, recovery, offers, pc>>
      BY <1>2 DEF LeaseExpires, asrVars
    <2>2. row' \in RowType /\ row'["transcribe"].status = row["transcribe"].status
      BY <1>2 DEF LeaseExpires, ClaimInv, RowType, RowValues, Stages
    <2>3. PublishedAsClaimed'
      BY <2>1, <2>2, ClaimsKept DEF ClaimInv
    <2> QED
      BY <2>1, <2>2, <2>3 DEF ClaimInv
  <1>3. ASSUME NEW s \in Stages, Retry(s)
        PROVE  ClaimInv'
    <2>1. UNCHANGED <<transcript, original, offers, pc>>
      BY <1>3 DEF Retry
    <2>2. /\ row' \in RowType
          /\ row'["transcribe"].status \in Outcomes
               => row'["transcribe"].status = row["transcribe"].status /\ s # "transcribe"
          /\ row["transcribe"].status \notin {"running", "cancel_requested"}
      BY <1>3 DEF Retry, ClaimInv, RowType, RowValues, Stages, Statuses, Outcomes
    <2>3. s # "transcribe" => UNCHANGED recovery
      BY <1>3 DEF Retry
    <2>4. PublishedAsClaimed'
      BY <2>1, <2>2, <2>3 DEF ClaimInv, PublishedAsClaimed, Outcomes
    <2> QED
      BY <2>1, <2>2, <2>4, HoldingPlaces DEF ClaimInv
  <1>4. CASE Start \/ Die
    <2>1. /\ UNCHANGED <<transcript, original, recovery>>
          /\ offers' \in {offers, <<>>} /\ pc' \in {"idle", "down"}
      BY <1>4 DEF Start, Die, asrVars
    <2>2. /\ row' \in RowType
          /\ row'["transcribe"].status \in Outcomes
               => row'["transcribe"].status = row["transcribe"].status
      <3>1. ASSUME NEW s \in Stages
            PROVE  /\ row'[s] \in RowValues
                   /\ row'[s].status \in Outcomes => row'[s].status = row[s].status
        <4>1. row[s] \in RowValues
          BY DEF ClaimInv, RowType
        <4>2. \/ row'[s] = Freed(row[s], "queued") \/ row'[s] = Freed(row[s], "canceled")
              \/ row'[s] = [row[s] EXCEPT !.owner = "former"] \/ row'[s] = row[s]
          BY <1>4 DEF Start, Die, Recovered
        <4> QED
          BY <4>1, <4>2 DEF RowValues, Freed, Statuses, Outcomes
      <3>2. row' = [s \in Stages |-> row'[s]]
        BY <1>4 DEF Start, Die
      <3> QED
        BY <3>1, <3>2 DEF RowType, Stages
    <2>3. offers' \in Seq(Tracks)
      <3>1. offers \in Seq(Tracks) /\ <<>> \in Seq(Tracks)
        BY DEF ClaimInv
      <3> QED
        BY <2>1, <3>1
    <2>4. /\ pc' \in ({"down", "idle"} \cup SourcePlaces \cup AsrPlaces) \ Promising
          /\ pc' \notin Holding
      BY <2>1, HoldingPlaces DEF Promising
    <2> QED
      BY <2>1, <2>2, <2>3, <2>4, FilesUntouched
  <1>5. CASE ClaimSource \/ ClaimTranscribe
    <2>1. UNCHANGED <<transcript, original, recovery, offers>> /\ pc' \in {"loading", "recovering"}
      BY <1>5 DEF ClaimSource, ClaimTranscribe, Claim, asrVars
    <2>2. /\ row' \in RowType
          /\ pc' = "recovering" => row'["transcribe"].status = "running"
          /\ row'["transcribe"].status \in Outcomes
               => row'["transcribe"].status = row["transcribe"].status
      BY <1>5 DEF ClaimSource, ClaimTranscribe, Claim, ClaimInv, RowType, RowValues, Stages, Statuses, Outcomes
    <2>3. /\ pc' \in ({"down", "idle"} \cup SourcePlaces \cup AsrPlaces) \ Promising
          /\ pc' \in Holding => pc' = "recovering"
      BY <2>1, HoldingPlaces DEF Promising, AsrPlaces, SourcePlaces
    <2> QED
      BY <2>1, <2>2, <2>3, FilesUntouched DEF ClaimInv
  <1>6. CASE Purge \/ TakeBack \/ UNCHANGED vars
    <2>1. UNCHANGED <<row, pc, transcript, original, recovery, offers>>
      BY <1>6 DEF Purge, TakeBack, asrVars, vars
    <2> QED
      BY <2>1 DEF ClaimInv, PublishedAsClaimed
  <1> QED
    BY <1>1, <1>2, <1>3, <1>4, <1>5, <1>6

LEMMA ClaimsHold == Spec => []ClaimInv
  <1>1. Init => ClaimInv
    <2> SUFFICES ASSUME Init
                 PROVE  ClaimInv
      OBVIOUS
    <2>1. row \in RowType /\ row["transcribe"].status \in {"absent", "queued"}
      BY DEF Init, NewRow, RowType, RowValues, Stages, Statuses
    <2>2. offers \in Seq(Tracks)
      BY DEF Init
    <2>3. PublishedAsClaimed
      BY <2>1 DEF Init, PublishedAsClaimed
    <2>4. pc = "down"
      BY DEF Init
    <2> QED
      BY <2>1, <2>2, <2>3, <2>4, HoldingPlaces DEF ClaimInv
  <1>2. ClaimInv /\ [Next]_vars => ClaimInv'
    BY SourceKeepsClaims, SourceEndKeepsClaims, SubtitleKeepsClaims, LoopKeepsClaims,
       PublishKeepsClaims, OthersKeepClaims DEF Next, Handle, SourceStep, AsrStep
  <1> QED
    BY <1>1, <1>2, PTL DEF Spec

\* For all items, tracks, formats and faults: a stage that is skipped or completed has published what
\* it claims, and no other attempt's text passes for it.
THEOREM PublishedCorrect == Spec => []PublishedAsClaimed
  <1>1. ClaimInv => PublishedAsClaimed
    BY DEF ClaimInv
  <1> QED
    BY <1>1, ClaimsHold, PTL
-----------------------------------------------------------------------------
(* The media a stage is given, and gives away *)

Open == {"running", "cancel_requested"}

UrlPlaces == {"probing", "probed", "trying", "looking", "downloaded", "found"}
SubtitlePlaces == {"chosen", "published", "filed", "subtitled"}

Ready == \/ item.kind = "url" /\ IsWhole(asset)
         \/ item.kind = "uploaded_media" /\ upload \in {"active", "trash"}
Disposed == ~item.export => kept \/ (asset.state # "active" /\ upload # "active")

\* The media a later attempt of transcribe may miss.
Lost == purged /\ \/ row["transcribe"].attempt > 1
                  \/ row["transcribe"].status \in {"failed", "canceled"}

\* The kind of the item decides where its source handler may be and what files it may own; while
\* a handler runs, no other does, and transcribe starts from a completed source.
FilesInv ==
    /\ InputIsKept /\ MediaIsDisposed
    /\ item \in Items
    /\ row["source"].status \notin {"absent", "skipped"}
    /\ upload \in {"none", "active", "trash", "gone"}
    /\ item.kind = "url" <=> upload = "none"
    /\ item.kind # "url" => asset = NoAsset
    /\ row["transcribe"].attempt >= 1
    /\ pc \in SourcePlaces => row["source"].status \in Open
    /\ pc \in Holding \/ row["transcribe"].status \in Outcomes
         => row["source"].status = "completed"
    /\ pc \in UrlPlaces => item.kind = "url"
    /\ pc = "viewed" => item.kind = "uploaded_media"
    /\ pc \in SubtitlePlaces => item.kind # "uploaded_media"
    /\ pc \in {"viewed", "sourced"} => Ready
    /\ pc \in {"subtitled", "transcribed"} => Disposed

AllInv == ClaimInv /\ AudioInv /\ FilesInv

LEMMA Kinds == ASSUME FilesInv PROVE item.kind \in {"url", "uploaded_subtitle", "uploaded_media"}
  BY ItemAssumption DEF FilesInv

\* Moving the audio to the trash and back changes neither what it is nor that there is none.
LEMMA Moves ==
  ASSUME AudioInv, UNCHANGED audio, asset' \in {asset, Trashed(asset), Restored(asset)}
  PROVE  /\ IsWhole(asset) => IsWhole(asset)'
         /\ asset = NoAsset => asset' = NoAsset
  BY DEF AudioInv, IsWhole, Trashed, Restored, NoAsset

\* A source step that leaves the rows and files alone.
LEMMA SourceWalk ==
  ASSUME FilesInv, UNCHANGED <<item, row, mediaVars>>, pc \in SourcePlaces, pc' \in SourcePlaces,
         pc' \in UrlPlaces => item.kind = "url",
         pc' \in SubtitlePlaces \ {"subtitled"} => item.kind # "uploaded_media",
         pc' \notin {"viewed", "subtitled"},
         pc' = "sourced" => Ready
  PROVE  FilesInv'
  <1>1. pc' \notin Holding
    BY HoldingPlaces
  <1>2. pc' \notin {"transcribed"}
    BY DEF SourcePlaces
  <1> QED
    BY <1>1, <1>2 DEF FilesInv, InputIsKept, MediaIsDisposed, Finished, Ready, Disposed, IsWhole, mediaVars,
                       historyVars

LEMMA SourceWalks ==
  ASSUME FilesInv,
         \/ ViewMedia \/ Probe \/ HaveProbed \/ FetchSubtitle \/ CandidateFails \/ FallBackToAudio
         \/ HandOver \/ PublishSubtitle \/ WriteOriginal \/ SourceBreaks
  PROVE  FilesInv'
  <1>1. UNCHANGED <<item, row, mediaVars>>
    BY DEF ViewMedia, Probe, HaveProbed, FetchSubtitle, CandidateFails, FallBackToAudio, HandOver,
           PublishSubtitle, WriteOriginal, SourceBreaks, SourceFails, itemVars
  <1>2. CASE ViewMedia \/ Probe \/ HaveProbed \/ FetchSubtitle \/ CandidateFails \/ FallBackToAudio
    <2>1. /\ pc \in UrlPlaces \cup {"viewed"} /\ pc' \in (UrlPlaces \cup {"chosen", "sourced"})
          /\ pc' \in UrlPlaces \cup {"chosen"} => pc \in UrlPlaces
          /\ pc' = "sourced" => pc = "viewed"
      BY <1>2 DEF ViewMedia, Probe, HaveProbed, FetchSubtitle, CandidateFails, FallBackToAudio,
                  SourceGoTo, UrlPlaces
    <2> QED
      BY <1>1, <2>1, SourceWalk DEF FilesInv, SourcePlaces, UrlPlaces, SubtitlePlaces
  <1>3. CASE HandOver
    <2>1. /\ pc = "found" /\ pc' \in {"source failing", "sourced", "trying"}
          /\ pc' = "sourced" => Usable(asset)
      BY <1>3 DEF HandOver, SourceGoTo
    <2>2. pc' = "sourced" => Ready
      BY <2>1 DEF Usable, IsWhole, Ready, FilesInv, UrlPlaces
    <2> QED
      BY <1>1, <2>1, <2>2, SourceWalk DEF FilesInv, SourcePlaces, UrlPlaces, SubtitlePlaces
  <1>4. CASE PublishSubtitle \/ WriteOriginal
    <2>1. pc \in {"chosen", "published"} /\ pc' \in {"published", "filed", "source failing"}
      BY <1>4 DEF PublishSubtitle, WriteOriginal
    <2> QED
      BY <1>1, <2>1, SourceWalk DEF FilesInv, SourcePlaces, UrlPlaces, SubtitlePlaces
  <1>5. CASE SourceBreaks
    <2>1. pc \in {"loading", "probing", "trying", "looking", "filed"} /\ pc' = "source failing"
      BY <1>5 DEF SourceBreaks, SourceFails, SourceGoTo
    <2> QED
      BY <1>1, <2>1, SourceWalk DEF FilesInv, SourcePlaces, UrlPlaces, SubtitlePlaces
  <1> QED
    BY <1>2, <1>3, <1>4, <1>5

\* The source's steps on the files: until the source is completed nobody is promised anything.
LEMMA SourceKeepsFiles ==
  ASSUME AudioInv, FilesInv, LoadItem \/ FindAudio \/ Download \/ RegisterAudio \/ DropSource
  PROVE  FilesInv'
  <1>1. UNCHANGED <<item, row>>
    BY DEF LoadItem, FindAudio, Download, RegisterAudio, DropSource, itemVars
  <1>2. /\ pc \in {"loading", "looking", "downloaded", "filed"}
        /\ pc' \in {"probing", "chosen", "viewed", "source failing", "found", "downloaded",
                    "subtitled"}
    BY DEF LoadItem, FindAudio, Download, RegisterAudio, DropSource, SourceGoTo
  <1>3. row["source"].status \in Open
    BY <1>2 DEF FilesInv, SourcePlaces
  <1>4. /\ InputIsKept' /\ MediaIsDisposed'
        /\ row["transcribe"].status \notin Outcomes
    BY <1>1, <1>3 DEF FilesInv, InputIsKept, MediaIsDisposed, Open, Outcomes
  <1>5. /\ upload' \in {"none", "active", "trash", "gone"}
        /\ item.kind = "url" <=> upload' = "none"
        /\ item.kind # "url" => asset' = NoAsset
    <2>1. CASE LoadItem \/ DropSource
      <3>1. /\ upload' = upload \/ (item.kind # "url" /\ upload' \in {"active", "trash"})
            /\ asset' = asset \/ item.kind = "url"
        BY <2>1 DEF LoadItem, DropSource, RestoredUpload
      <3> QED
        BY <3>1 DEF FilesInv
    <2>2. CASE FindAudio \/ Download \/ RegisterAudio
      <3>1. UNCHANGED upload /\ pc \in UrlPlaces
        BY <2>2 DEF FindAudio, Download, RegisterAudio, SourceGoTo, UrlPlaces
      <3> QED
        BY <3>1 DEF FilesInv
    <2> QED
      BY <2>1, <2>2
  <1>6. /\ pc' \in UrlPlaces => item.kind = "url"
        /\ pc' = "viewed" => item.kind = "uploaded_media" /\ Ready'
        /\ pc' \in SubtitlePlaces => item.kind # "uploaded_media"
    <2>1. CASE LoadItem
      <3>1. /\ pc' \in {"probing", "chosen", "viewed", "source failing"}
            /\ pc' = "probing" => item.kind = "url"
            /\ pc' = "chosen" => item.kind = "uploaded_subtitle"
            /\ pc' = "viewed" => item.kind = "uploaded_media" /\ upload # "gone"
            /\ item.kind = "uploaded_media" => upload' = RestoredUpload
        BY <2>1, Kinds DEF LoadItem, SourceGoTo
      <3>2. pc' = "viewed" => item.kind = "uploaded_media" /\ upload' \in {"active", "trash"}
        BY <3>1 DEF FilesInv, RestoredUpload
      <3> QED
        BY <1>1, <3>1, <3>2 DEF Ready, UrlPlaces, SubtitlePlaces
    <2>2. CASE DropSource
      BY <2>2 DEF DropSource, SourceGoTo, FilesInv, UrlPlaces, SubtitlePlaces
    <2>3. CASE FindAudio \/ Download \/ RegisterAudio
      <3>1. pc \in UrlPlaces /\ pc' \in {"found", "source failing", "downloaded"}
        BY <2>3 DEF FindAudio, Download, RegisterAudio, SourceGoTo, UrlPlaces
      <3> QED
        BY <3>1 DEF FilesInv, SubtitlePlaces
    <2> QED
      BY <2>1, <2>2, <2>3
  <1>7. pc' = "subtitled" => Disposed'
    <2> SUFFICES ASSUME pc' = "subtitled", ~item.export
                 PROVE  asset'.state # "active" /\ upload' # "active"
      BY <1>1 DEF Disposed
    <2>1. DropSource
      BY DEF LoadItem, FindAudio, Download, RegisterAudio, DropSource, SourceGoTo
    <2>2. /\ pc = "filed"
          /\ upload' = IF item.kind = "uploaded_subtitle" THEN "trash" ELSE upload
          /\ asset' = IF item.kind = "url" THEN Trashed(asset) ELSE asset
      BY <2>1 DEF DropSource, SourceGoTo
    <2>3. item.kind \in {"url", "uploaded_subtitle"}
      BY <2>2, Kinds DEF FilesInv, SubtitlePlaces
    <2>4. CASE item.kind = "url"
      <3>1. upload' = "none" /\ asset' = Trashed(asset)
        BY <2>2, <2>4 DEF FilesInv
      <3> QED
        BY <3>1 DEF AudioInv, Trashed, NoAsset
    <2>5. CASE item.kind = "uploaded_subtitle"
      BY <2>2, <2>5 DEF FilesInv, NoAsset
    <2> QED
      BY <2>3, <2>4, <2>5
  <1>8. pc' \in SourcePlaces /\ pc' \notin Holding /\ pc' # "sourced" /\ pc' # "transcribed"
    BY <1>2, HoldingPlaces DEF SourcePlaces
  <1> QED
    BY <1>1, <1>3, <1>4, <1>5, <1>6, <1>7, <1>8 DEF FilesInv

\* A step after which no handler runs, and which touches no file.
LEMMA Rests ==
  ASSUME FilesInv, UNCHANGED <<item, mediaVars>>, pc' \in {"idle", "down", "stopping"},
         row'["source"].status \notin {"absent", "skipped"},
         row'["transcribe"].status \in Outcomes => row'["source"].status = "completed",
         row'["transcribe"].attempt >= 1,
         InputIsKept', MediaIsDisposed'
  PROVE  FilesInv'
  <1>1. pc' \notin SourcePlaces \cup Holding \cup UrlPlaces \cup SubtitlePlaces
    BY HoldingPlaces DEF SourcePlaces, UrlPlaces, SubtitlePlaces
  <1>2. pc' \notin {"viewed", "sourced", "subtitled", "transcribed"}
    OBVIOUS
  <1> QED
    BY <1>1, <1>2 DEF FilesInv, mediaVars

LEMMA SourceEndKeepsFiles ==
  ASSUME ClaimInv, FilesInv, CompleteSource \/ CompleteSkipping \/ FailSource \/ StopSource
  PROVE  FilesInv'
  <1>1. UNCHANGED <<item, mediaVars>> /\ pc' = "idle" /\ pc \in SourcePlaces
    BY DEF CompleteSource, CompleteSkipping, FailSource, StopSource, Conclude, StopRun, ForgetSource,
           itemVars, SourcePlaces
  <1>2. row["source"].status \in Open /\ row["transcribe"].status \notin Outcomes
    BY <1>1 DEF FilesInv, Open
  <1>3. CASE CompleteSource
    <2>1. pc = "sourced" /\ (row' = row \/ row' = [row EXCEPT !["source"] = Freed(@, "completed")])
      BY <1>3 DEF CompleteSource, Conclude
    <2>2. Ready
      BY <2>1 DEF FilesInv
    <2>3. /\ row'["source"].status \in {row["source"].status, "completed"}
          /\ row'["transcribe"] = row["transcribe"]
      BY <2>1, FreedRow DEF ClaimInv, Stages, Statuses
    <2>4. InputIsKept' /\ MediaIsDisposed'
      BY <1>1, <1>2, <2>2, <2>3
         DEF InputIsKept, MediaIsDisposed, Ready, Outcomes, mediaVars, IsWhole
    <2> QED
      BY <1>1, <1>2, <2>3, <2>4, Rests DEF Open, FilesInv
  <1>4. CASE CompleteSkipping
    <2>1. /\ pc = "subtitled"
          /\ \/ row' = row
             \/ row' = [row EXCEPT !["source"] = Freed(@, "completed"), !["transcribe"].status = "skipped"]
      BY <1>4 DEF CompleteSkipping
    <2>2. \/ row' = row
          \/ /\ row'["source"].status = "completed" /\ row'["transcribe"].status = "skipped"
             /\ row'["transcribe"].attempt = row["transcribe"].attempt
      <3>1. row \in RowType /\ row["source"] \in RowValues /\ row["transcribe"] \in RowValues
        BY DEF ClaimInv, RowType, Stages
      <3>2. \/ row' = row
            \/ /\ row'["source"] = Freed(row["source"], "completed")
               /\ row'["transcribe"] = [row["transcribe"] EXCEPT !.status = "skipped"]
        BY <2>1, <3>1 DEF RowType, Stages
      <3> QED
        BY <3>1, <3>2 DEF RowValues, Freed
    <2>3. Disposed
      BY <2>1 DEF FilesInv
    <2>4. InputIsKept' /\ MediaIsDisposed'
      BY <1>1, <1>2, <2>2, <2>3
         DEF InputIsKept, MediaIsDisposed, Disposed, Finished, Open, Outcomes, mediaVars, historyVars
    <2> QED
      BY <1>1, <1>2, <2>2, <2>4, Rests DEF Open, FilesInv
  <1>5. CASE FailSource \/ StopSource
    <2>1. row' = row \/ \E status \in {"failed", "canceled"} : row' = [row EXCEPT !["source"] = Freed(@, status)]
      BY <1>5 DEF FailSource, StopSource, Conclude, StopRun
    <2>2. /\ row'["source"].status \in {row["source"].status, "failed", "canceled"}
          /\ row'["transcribe"] = row["transcribe"]
      BY <2>1, FreedRow DEF ClaimInv, Stages, Statuses
    <2>3. InputIsKept' /\ MediaIsDisposed'
      BY <1>1, <1>2, <2>2 DEF InputIsKept, MediaIsDisposed, Open, Outcomes
    <2> QED
      BY <1>1, <1>2, <2>2, <2>3, Rests DEF Open, FilesInv
  <1> QED
    BY <1>3, <1>4, <1>5

\* A step of the transcribe handler, whose source is completed: audio may be moved, not changed.
LEMMA TranscribeWalk ==
  ASSUME AudioInv, FilesInv, UNCHANGED <<item, audio, purged>>, pc \in Holding,
         row["transcribe"].status \in Open,
         asset' \in {asset, Trashed(asset), Restored(asset)},
         upload' = upload \/ (upload \in {"active", "trash"} /\ upload' \in {"active", "trash"}),
         row'["source"] = row["source"],
         row'["transcribe"].attempt = row["transcribe"].attempt,
         row'["transcribe"].status \in Outcomes => Disposed',
         pc' \in Holding \cup {"idle", "stopping"},
         pc' = "transcribed" => Disposed'
  PROVE  FilesInv'
  <1>1. row["source"].status = "completed" /\ row'["source"].status = "completed"
    BY DEF FilesInv
  <1>2. /\ upload' \in {"none", "active", "trash", "gone"}
        /\ item.kind = "url" <=> upload' = "none"
        /\ item.kind # "url" => asset' = NoAsset
    BY Moves DEF FilesInv
  <1>3. InputIsKept'
    <2>1. \/ item.kind = "url" /\ IsWhole(asset)
          \/ item.kind = "uploaded_media" /\ upload \in {"active", "trash"}
          \/ purged /\ row["transcribe"].attempt > 1
      BY <1>1 DEF FilesInv, InputIsKept, Finished, Open
    <2> QED
      BY <2>1, <1>2, Moves DEF InputIsKept
  <1>4. MediaIsDisposed'
    BY DEF MediaIsDisposed, Disposed, Outcomes
  <1>5. /\ pc' \notin SourcePlaces \cup UrlPlaces \cup SubtitlePlaces
        /\ pc' \notin {"viewed", "sourced", "subtitled"}
    BY HoldingPlaces DEF SourcePlaces, UrlPlaces, SubtitlePlaces
  <1> QED
    BY <1>1, <1>2, <1>3, <1>4, <1>5 DEF FilesInv

\* After DropMedia nothing but what the item keeps is left out of the trash.
LEMMA Dropped ==
  ASSUME AudioInv, DropMedia, UNCHANGED item
  PROVE  /\ asset' \in {asset, Trashed(asset)}
         /\ upload' = upload \/ (upload = "active" /\ upload' = "trash")
         /\ Disposed'
  <1>1. Trashed(asset).state # "active"
    BY DEF AudioInv, Trashed, NoAsset
  <1> QED
    BY <1>1 DEF DropMedia, Disposed

LEMMA TranscribeKeepsFiles ==
  ASSUME AllInv, AsrStep, pc \in Holding
  PROVE  FilesInv'
  <1>0. row["transcribe"].status \in Open /\ row["transcribe"].status \notin Outcomes
    BY DEF AllInv, ClaimInv, Open, Outcomes
  <1> USE DEF AllInv
  <1>1. CASE \/ NothingToRecover \/ RecoverPublication \/ PrepareAudio \/ LoadChunk \/ HearChunk
             \/ SaveChunk \/ NextChunk \/ LastChunk \/ WriteRecovery \/ PublishTranscript \/ AsrBreaks
    <2>1. UNCHANGED <<item, row, mediaVars>>
      BY <1>1 DEF NothingToRecover, RecoverPublication, PrepareAudio, LoadChunk, HearChunk, SaveChunk,
                  NextChunk, LastChunk, WriteRecovery, PublishTranscript, AsrBreaks, AsrFails, itemVars
    <2>2. pc' \in Holding /\ pc' # "transcribed"
      BY <1>1, HoldingPlaces
         DEF NothingToRecover, RecoverPublication, PrepareAudio, LoadChunk, HearChunk, SaveChunk,
             NextChunk, LastChunk, WriteRecovery, PublishTranscript, AsrBreaks, AsrFails, AsrGoTo
    <2> QED
      BY <1>0, <2>1, <2>2, TranscribeWalk DEF mediaVars, historyVars, FilesInv
  <1>2. CASE ResolveSource
    <2>1. UNCHANGED <<item, row, audio, purged>> /\ pc' \in Holding /\ pc' # "transcribed"
      BY <1>2, HoldingPlaces DEF ResolveSource, AsrGoTo, itemVars, historyVars
    <2>2. /\ asset' \in {asset, Restored(asset)}
          /\ upload' = upload \/ (upload = "trash" /\ upload' = "active")
      BY <1>2 DEF ResolveSource, RestoredUpload
    <2> QED
      BY <1>0, <2>1, <2>2, TranscribeWalk
  <1>3. CASE Tidy \/ DropAndFail
    <2>1. /\ UNCHANGED <<item, row, audio, purged>> /\ pc' \in {"transcribed", "transcribe failing"}
          /\ DropMedia \/ (UNCHANGED <<asset, upload>> /\ pc' # "transcribed")
      BY <1>3 DEF Tidy, DropAndFail, DropMediaIfPossible, AsrGoTo, itemVars
    <2>2. CASE DropMedia
      BY <1>0, <2>1, <2>2, Dropped, HoldingPlaces, TranscribeWalk
    <2>3. CASE UNCHANGED <<asset, upload>> /\ pc' # "transcribed"
      BY <1>0, <2>1, <2>3, HoldingPlaces, TranscribeWalk
    <2> QED
      BY <2>1, <2>2, <2>3
  <1>4. CASE CompleteTranscribe
    <2>1. UNCHANGED <<item, mediaVars>> /\ pc = "transcribed" /\ pc' = "idle"
      BY <1>4 DEF CompleteTranscribe, Conclude, itemVars
    <2>2. row' = row \/ row' = [row EXCEPT !["transcribe"] = Freed(@, "completed")]
      BY <1>4 DEF CompleteTranscribe, Conclude
    <2>3. /\ row'["source"] = row["source"]
          /\ row'["transcribe"].attempt = row["transcribe"].attempt
      BY <2>2, FreedRow DEF ClaimInv, Stages, Statuses
    <2>4. Disposed'
      BY <2>1 DEF FilesInv, Disposed, mediaVars, historyVars
    <2> QED
      BY <1>0, <2>1, <2>3, <2>4, TranscribeWalk DEF mediaVars, historyVars
  <1>5. CASE FailTranscribe \/ StopTranscribe
    <2>1. UNCHANGED <<item, mediaVars>> /\ pc' \in {"idle", "stopping"}
      BY <1>5 DEF FailTranscribe, StopTranscribe, Conclude, StopRun, itemVars
    <2>2. row' = row \/ \E status \in {"failed", "canceled"} :
                          row' = [row EXCEPT !["transcribe"] = Freed(@, status)]
      BY <1>5 DEF FailTranscribe, StopTranscribe, Conclude, StopRun
    <2>3. /\ row'["source"] = row["source"] /\ row'["transcribe"].status \notin Outcomes
          /\ row'["transcribe"].attempt = row["transcribe"].attempt
      BY <1>0, <2>2, FreedRow DEF ClaimInv, Stages, Statuses, Outcomes
    <2> QED
      BY <1>0, <2>1, <2>3, TranscribeWalk DEF mediaVars, historyVars
  <1>6. CASE DropAndLeave
    BY <1>6, HoldingPlaces DEF DropAndLeave, DropMediaIfPossible, AsrGoTo
  <1> QED
    BY <1>1, <1>2, <1>3, <1>4, <1>5, <1>6 DEF AsrStep

\* A canceled run drops the media after its row is written, when the stage may be queued again: what
\* a new attempt needs goes to the trash, where it finds it.
LEMMA StoppedKeepsFiles ==
  ASSUME AllInv, AsrStep, pc \notin Holding
  PROVE  FilesInv'
  <1>1. DropAndLeave
    BY HoldingPlaces
       DEF AsrStep, NothingToRecover, RecoverPublication, ResolveSource, PrepareAudio, LoadChunk,
           HearChunk, SaveChunk, NextChunk, LastChunk, WriteRecovery, PublishTranscript, Tidy,
           DropAndFail, DropMediaIfPossible, CompleteTranscribe, FailTranscribe, StopTranscribe,
           AsrBreaks, AsrFails, AsrGoTo
  <1>2. /\ UNCHANGED <<item, row, audio, purged>> /\ pc' = "idle"
        /\ DropMedia \/ UNCHANGED <<asset, upload, kept>>
    BY <1>1 DEF DropAndLeave, DropMediaIfPossible, AsrGoTo, itemVars
  <1>3. /\ asset' \in {asset, Trashed(asset)}
        /\ upload' = upload \/ (upload = "active" /\ upload' = "trash")
    BY <1>2 DEF DropMedia
  <1>4. /\ IsWhole(asset) => IsWhole(asset)'
        /\ asset = NoAsset => asset' = NoAsset
    BY <1>2, <1>3, Moves DEF AllInv
  <1>5. InputIsKept' /\ MediaIsDisposed'
    <2>1. InputIsKept'
      BY <1>2, <1>3, <1>4 DEF AllInv, FilesInv, InputIsKept, Finished
    <2>2. CASE DropMedia
      BY <1>2, <2>1, <2>2, Dropped DEF AllInv, Disposed, MediaIsDisposed
    <2>3. CASE UNCHANGED <<asset, upload, kept>>
      BY <1>2, <2>1, <2>3 DEF AllInv, FilesInv, MediaIsDisposed
    <2> QED
      BY <1>2, <2>1, <2>2, <2>3
  <1>6. /\ pc' \notin SourcePlaces \cup Holding \cup UrlPlaces \cup SubtitlePlaces
        /\ pc' \notin {"viewed", "sourced", "subtitled", "transcribed"}
    BY <1>2, HoldingPlaces DEF SourcePlaces, UrlPlaces, SubtitlePlaces
  <1> QED
    BY <1>2, <1>3, <1>4, <1>5, <1>6 DEF AllInv, FilesInv

\* The user, the clock and the process: a row of theirs is never made complete, and a stage that is
\* complete stays so.
LEMMA OthersKeepFiles ==
  ASSUME AllInv,
         \/ Cancel \/ LeaseExpires \/ (\E s \in Stages : Retry(s)) \/ Start \/ Die
         \/ ClaimSource \/ ClaimTranscribe \/ UNCHANGED vars
  PROVE  FilesInv'
  <1> USE DEF AllInv
  <1> DEFINE Held(s) == /\ row'[s].status \in Outcomes \cup {"absent"}
                             <=> row[s].status \in Outcomes \cup {"absent"}
                        /\ row[s].status \in Outcomes \cup {"absent"} => row'[s].status = row[s].status
                        /\ row[s].status \in Open /\ pc' = pc => row'[s].status \in Open
                        /\ row'[s].attempt \in {row[s].attempt, row[s].attempt + 1}
                        /\ row[s].status \in {"failed", "canceled"}
                             => \/ row'[s].status = row[s].status
                                \/ row'[s].attempt = row[s].attempt + 1
  <1>1. UNCHANGED <<item, mediaVars>>
    BY DEF Cancel, LeaseExpires, Retry, Start, Die, ClaimSource, ClaimTranscribe, itemVars, vars,
           mediaVars, historyVars
  <1>2. ASSUME NEW s \in Stages
        PROVE  Held(s)
    <2>0. row \in RowType /\ row[s] \in RowValues
      BY DEF ClaimInv, RowType
    <2>1. CASE Cancel
      <3>1. \/ row[s].status = "queued" /\ row'[s] = Freed(row[s], "canceled")
            \/ row[s].status = "running" /\ row'[s] = [row[s] EXCEPT !.status = "cancel_requested"]
            \/ row'[s] = row[s]
        BY <2>1 DEF Cancel
      <3> QED
        BY <2>0, <3>1 DEF RowValues, Freed, Outcomes, Open
    <2>2. CASE LeaseExpires \/ UNCHANGED vars
      <3>1. row'[s].status = row[s].status /\ row'[s].attempt = row[s].attempt
        BY <2>0, <2>2 DEF LeaseExpires, vars, RowType, RowValues, Stages
      <3> QED
        BY <3>1
    <2>3. ASSUME NEW q \in Stages, Retry(q)
          PROVE  Held(s)
      <3>1. \/ row'[s].status = row[s].status /\ row'[s].attempt = row[s].attempt
            \/ /\ row[s].status \in {"failed", "canceled"} /\ row'[s].status = "queued"
               /\ row'[s].attempt = row[s].attempt + 1
        BY <2>0, <2>3 DEF Retry, RowType, RowValues, Stages
      <3> QED
        BY <3>1 DEF Outcomes, Open
    <2>4. CASE Start \/ Die
      <3>1. \/ row[s].status \in Open
                 /\ (row'[s] = Freed(row[s], "queued") \/ row'[s] = Freed(row[s], "canceled"))
                 /\ pc' # pc
            \/ row'[s] = [row[s] EXCEPT !.owner = "former"]
            \/ row'[s] = row[s]
        BY <2>4 DEF Start, Die, Recovered, Open
      <3> QED
        BY <2>0, <3>1 DEF RowValues, Freed, Outcomes, Open
    <2>5. CASE ClaimSource \/ ClaimTranscribe
      <3>1. /\ \/ row'[s].status = row[s].status
               \/ row[s].status = "queued" /\ row'[s].status = "running"
            /\ row'[s].attempt = row[s].attempt
        BY <2>0, <2>5 DEF ClaimSource, ClaimTranscribe, Claim, RowType, RowValues, Stages
      <3> QED
        BY <3>1 DEF Outcomes, Open
    <2> QED
      BY <2>1, <2>2, <2>3, <2>4, <2>5
  <1>3. Held("source") /\ Held("transcribe")
    BY <1>2 DEF Stages
  <1>4. row'["source"].status \notin {"absent", "skipped"} /\ row'["transcribe"].attempt >= 1
    <2>1. row["transcribe"] \in RowValues
      BY DEF ClaimInv, RowType, Stages
    <2> QED
      BY <1>3, <2>1 DEF FilesInv, Outcomes, RowValues
  <1>5. row'["transcribe"].status \in Outcomes => row'["source"].status = "completed"
    BY <1>3 DEF FilesInv, Outcomes
  <1>6. InputIsKept' /\ MediaIsDisposed'
    <2>1. row["transcribe"] \in RowValues /\ row["transcribe"].attempt >= 1
      BY DEF ClaimInv, RowType, Stages, FilesInv
    <2>2. Lost => Lost'
      BY <1>1, <1>3, <2>1 DEF Lost, mediaVars, historyVars, RowValues
    <2>3. UNCHANGED <<item, audio, asset, upload, kept>>
      BY <1>1 DEF mediaVars, historyVars
    <2> QED
      BY <1>3, <2>2, <2>3 DEF FilesInv, InputIsKept, MediaIsDisposed, Finished, Outcomes, IsWhole, Lost
  <1>7. CASE pc' = pc
    <2>1. pc' \in SourcePlaces => row'["source"].status \in Open
      BY <1>3, <1>7 DEF FilesInv
    <2>2. pc' \in Holding => row'["source"].status = "completed"
      BY <1>3, <1>7 DEF FilesInv, Outcomes
    <2> QED
      BY <1>1, <1>4, <1>5, <1>6, <1>7, <2>1, <2>2 DEF FilesInv, mediaVars, historyVars, Ready, Disposed, IsWhole
  <1>8. CASE pc' \in {"idle", "down"}
    BY <1>1, <1>4, <1>5, <1>6, <1>8, Rests
  <1>9. CASE ClaimSource
    <2>1. pc' = "loading" /\ row'["source"].status = "running"
      BY <1>9 DEF ClaimSource, Claim, ClaimInv, RowType, RowValues, Stages
    <2>2. /\ pc' \notin Holding \cup UrlPlaces \cup SubtitlePlaces
          /\ pc' \notin {"viewed", "sourced", "subtitled", "transcribed"}
      BY <2>1, HoldingPlaces DEF SourcePlaces, UrlPlaces, SubtitlePlaces
    <2> QED
      BY <1>1, <1>4, <1>5, <1>6, <2>1, <2>2 DEF FilesInv, mediaVars, Open
  <1>10. CASE ClaimTranscribe
    <2>1. /\ pc' = "recovering" /\ row'["source"].status = row["source"].status
          /\ Finished("source")
      BY <1>10 DEF ClaimTranscribe, Claim, ClaimInv, RowType, RowValues, Stages
    <2>2. row'["source"].status = "completed"
      BY <2>1 DEF Finished, FilesInv
    <2>3. /\ pc' \notin SourcePlaces \cup UrlPlaces \cup SubtitlePlaces
          /\ pc' \notin {"viewed", "sourced", "subtitled", "transcribed"}
      BY <2>1 DEF SourcePlaces, UrlPlaces, SubtitlePlaces
    <2> QED
      BY <1>1, <1>4, <1>6, <2>2, <2>3 DEF FilesInv, mediaVars
  <1>11. \/ pc' = pc \/ pc' \in {"idle", "down"} \/ ClaimSource \/ ClaimTranscribe
    BY DEF Cancel, LeaseExpires, Retry, Start, Die, vars
  <1> QED
    BY <1>7, <1>8, <1>9, <1>10, <1>11

\* Maintenance deletes nothing while a handler needs it: what is lost, an attempt that ended had.
LEMMA PurgeKeepsFiles ==
  ASSUME AllInv, Purge
  PROVE  FilesInv'
  <1> USE DEF AllInv
  <1>1. /\ UNCHANGED <<item, row, pc, kept>> /\ purged' = TRUE /\ Ended
        /\ asset' \in {asset, NoAsset}
        /\ upload' = upload \/ (upload = "trash" /\ upload' = "gone")
    BY DEF Purge, itemVars
  <1>2. pc \notin SourcePlaces \cup Holding
    BY <1>1 DEF Ended, FilesInv, ClaimInv, Open, Stages
  <1>3. InputIsKept'
    BY <1>1 DEF Ended, Finished, InputIsKept, Stages
  <1>4. MediaIsDisposed'
    BY <1>1 DEF FilesInv, MediaIsDisposed, NoAsset
  <1>5. pc \notin UrlPlaces \cup SubtitlePlaces \cup {"viewed", "sourced", "subtitled", "transcribed"}
    BY <1>2, HoldingPlaces DEF SourcePlaces, UrlPlaces, SubtitlePlaces
  <1> QED
    BY <1>1, <1>2, <1>3, <1>4, <1>5 DEF FilesInv

\* The user gives back what the stages may need, and answers for it.
LEMMA TakeBackKeepsFiles ==
  ASSUME AllInv, TakeBack
  PROVE  FilesInv'
  <1> USE DEF AllInv
  <1>1. /\ UNCHANGED <<item, row, pc, audio, purged>> /\ kept' = TRUE
        /\ asset' = Restored(asset)
        /\ upload' = upload \/ (upload = "trash" /\ upload' = "active")
    BY DEF TakeBack, RestoredUpload, itemVars
  <1>2. /\ IsWhole(asset) => IsWhole(asset)'
        /\ asset = NoAsset => asset' = NoAsset
    BY <1>1, Moves
  <1>3. InputIsKept'
    BY <1>1, <1>2 DEF FilesInv, InputIsKept, Finished
  <1>4. MediaIsDisposed' /\ Disposed'
    BY <1>1 DEF MediaIsDisposed, Disposed
  <1>5. Ready => Ready'
    BY <1>1, <1>2 DEF Ready
  <1> QED
    BY <1>1, <1>2, <1>3, <1>4, <1>5 DEF FilesInv

LEMMA FilesHold == Spec => []AllInv
  <1>1. ASSUME Init
        PROVE  FilesInv
    <2>1. /\ row["source"].status = "queued" /\ row["transcribe"].status \in {"absent", "queued"}
          /\ pc = "down" /\ item \in Items /\ asset = NoAsset
      BY <1>1 DEF Init, NewRow
    <2>2. /\ item.kind = "url" <=> upload = "none"
          /\ upload \in {"none", "active"} /\ row["transcribe"].attempt = 1
      BY <1>1 DEF Init, NewRow
    <2>3. /\ pc \notin SourcePlaces \cup Holding \cup UrlPlaces \cup SubtitlePlaces
          /\ pc \notin {"viewed", "sourced", "subtitled", "transcribed"}
      BY <2>1, HoldingPlaces DEF SourcePlaces, UrlPlaces, SubtitlePlaces
    <2> QED
      BY <2>1, <2>2, <2>3 DEF FilesInv, InputIsKept, MediaIsDisposed, Outcomes
  <1>2. AllInv /\ [Next]_vars => FilesInv'
    BY SourceWalks, SourceKeepsFiles, SourceEndKeepsFiles, TranscribeKeepsFiles, StoppedKeepsFiles,
       OthersKeepFiles, PurgeKeepsFiles, TakeBackKeepsFiles
       DEF AllInv, Next, Handle, SourceStep
  <1> QED
    BY <1>1, <1>2, ClaimsHold, AudioHolds, PTL DEF Spec, AllInv

\* For all items, formats and faults: while a transcribe stage has its work before it, what its
\* source vouched for is whole and within its reach, whichever run dropped or trashed it meanwhile.
\* Only maintenance takes it away, and only from an attempt after the first.
THEOREM InputKept == Spec => []InputIsKept
  <1>1. AllInv => InputIsKept
    BY DEF AllInv, FilesInv
  <1> QED
    BY <1>1, FilesHold, PTL

\* A task that keeps no audio has none outside the trash once its transcript is made, but for what
\* the user has taken out: also when the handler of a canceled run moves media after its row has
\* gone on, and whatever was restored or purged before.
THEOREM MediaDisposed == Spec => []MediaIsDisposed
  <1>1. AllInv => MediaIsDisposed
    BY DEF AllInv, FilesInv
  <1> QED
    BY <1>1, FilesHold, PTL
-----------------------------------------------------------------------------
(* The types, and what goes together *)

\* A row is leased while its stage runs, and has had no more attempts than it may.
RowIsSound(r) ==
    /\ r.lease = "none" <=> r.owner = "nobody"
    /\ r.lease # "none" <=> r.status \in Open
    /\ r.attempt \in 1 .. Attempts

\* That at most one stage is leased follows: transcribe runs only after a completed source.
RowsInv ==
    /\ \A s \in Stages : RowIsSound(row[s])
    /\ row["transcribe"].status \in Open => row["source"].status = "completed"

ContentInv ==
    /\ transcript = NoTranscript \/ transcript.from \in {"subtitle", "asr"}
    /\ recovery = NoTranscript \/ recovery.from = "asr"
    /\ original \in Tracks \cup {NoTrack}
    /\ kept \in BOOLEAN /\ purged \in BOOLEAN
    /\ asr.device \in Devices /\ asr.by \in Devices
    /\ \A c \in chunks : c.by \in Devices

BoundsInv == deaths \in 0 .. Deaths /\ cancels \in 0 .. Cancels /\ lapses \in 0 .. Lapses

\* A lease that ends: the row of a running stage is written with its outcome.
LEMMA SoundWhenFreed ==
  ASSUME AllInv, RowsInv, NEW s \in Stages, NEW status \in Statuses \ Open, OwnsLease(s),
         row' = [row EXCEPT ![s] = Freed(@, status)]
  PROVE  RowsInv'
  <1>1. /\ row'[s] = Freed(row[s], status)
        /\ \A q \in Stages \ {s} : row'[q] = row[q]
        /\ row[s] \in RowValues
    BY DEF AllInv, ClaimInv, RowType
  <1>2. RowIsSound(row'[s])
    BY <1>1 DEF RowsInv, RowIsSound, RowValues, Freed
  <1>3. row[s].status \in Open
    BY DEF RowsInv, RowIsSound, OwnsLease
  <1>4. row'[s].status \notin Open
    <2>1. Freed(row[s], status).status = status
      BY <1>1 DEF RowValues, Freed
    <2>2. QED BY <1>1, <2>1
  <1>5. row'["transcribe"].status \in Open => row'["source"].status = "completed"
    BY <1>1, <1>3, <1>4 DEF RowsInv, Stages, Open
  <1> QED
    BY <1>1, <1>2, <1>5 DEF RowsInv

LEMMA HandlersKeepRows ==
  ASSUME AllInv, RowsInv, Handle
  PROVE  RowsInv'
  <1>1. CASE UNCHANGED row
    BY <1>1 DEF RowsInv
  <1>2. CASE CompleteSkipping /\ row' # row
    <2>1. /\ ClaimMatches("source") /\ row["transcribe"].status = "queued"
          /\ row' = [row EXCEPT !["source"] = Freed(@, "completed"), !["transcribe"].status = "skipped"]
      BY <1>2 DEF CompleteSkipping
    <2>2. row["source"] \in RowValues /\ row["transcribe"] \in RowValues
      BY DEF AllInv, ClaimInv, RowType, Stages
    <2>3. /\ row'["source"] = Freed(row["source"], "completed")
          /\ row'["transcribe"] = [row["transcribe"] EXCEPT !.status = "skipped"]
      BY <2>1 DEF AllInv, ClaimInv, RowType, Stages
    <2>4. RowIsSound(row'["source"])
      BY <2>2, <2>3 DEF RowsInv, RowIsSound, RowValues, Freed, Stages, Open
    <2>5. RowIsSound(row'["transcribe"]) /\ row'["transcribe"].status \notin Open
      BY <2>1, <2>2, <2>3 DEF RowsInv, RowIsSound, RowValues, Stages, Open
    <2> QED
      BY <2>4, <2>5 DEF RowsInv, Stages
  <1>3. CASE \E s \in Stages, status \in {"completed", "failed", "canceled"} :
               OwnsLease(s) /\ row' = [row EXCEPT ![s] = Freed(@, status)]
    BY <1>3, SoundWhenFreed DEF Statuses, Open
  <1>4. CASE CompleteSource \/ FailSource \/ StopSource
    <2>1. \/ UNCHANGED row
          \/ \E status \in {"completed", "failed", "canceled"} :
               OwnsLease("source") /\ row' = [row EXCEPT !["source"] = Freed(@, status)]
      BY <1>4 DEF CompleteSource, FailSource, StopSource, Conclude, StopRun, ClaimMatches
    <2> QED
      BY <1>1, <1>3, <2>1 DEF Stages
  <1>5. CASE CompleteTranscribe \/ FailTranscribe \/ StopTranscribe
    <2>1. \/ UNCHANGED row
          \/ \E status \in {"completed", "failed", "canceled"} :
               OwnsLease("transcribe") /\ row' = [row EXCEPT !["transcribe"] = Freed(@, status)]
      BY <1>5 DEF CompleteTranscribe, FailTranscribe, StopTranscribe, Conclude, StopRun, ClaimMatches
    <2> QED
      BY <1>1, <1>3, <2>1 DEF Stages
  <1>6. \/ UNCHANGED row \/ CompleteSkipping
        \/ CompleteSource \/ FailSource \/ StopSource
        \/ CompleteTranscribe \/ FailTranscribe \/ StopTranscribe
    <2>1. SourceStep => \/ UNCHANGED row \/ CompleteSkipping \/ CompleteSource \/ FailSource
                        \/ StopSource
      BY DEF SourceStep, LoadItem, ViewMedia, Probe, HaveProbed, FetchSubtitle, CandidateFails,
             FallBackToAudio, FindAudio, Download, RegisterAudio, HandOver, PublishSubtitle,
             WriteOriginal, DropSource, SourceBreaks, SourceFails
    <2>2. AsrStep => UNCHANGED row \/ CompleteTranscribe \/ FailTranscribe \/ StopTranscribe
      BY DEF AsrStep, NothingToRecover, RecoverPublication, ResolveSource, PrepareAudio, LoadChunk,
             HearChunk, SaveChunk, NextChunk, LastChunk, WriteRecovery, PublishTranscript, Tidy,
             DropAndFail, DropAndLeave, DropMediaIfPossible, AsrBreaks, AsrFails
    <2> QED
      BY <2>1, <2>2 DEF Handle
  <1> QED
    BY <1>1, <1>2, <1>4, <1>5, <1>6

\* The user, the clock, the process and its claims.
LEMMA OthersKeepRows ==
  ASSUME AllInv, RowsInv,
         \/ Cancel \/ LeaseExpires \/ (\E s \in Stages : Retry(s)) \/ Start \/ Die
         \/ ClaimSource \/ ClaimTranscribe
  PROVE  RowsInv'
  <1>0. ASSUME NEW s \in Stages
        PROVE  row[s] \in RowValues /\ RowIsSound(row[s])
    BY DEF AllInv, ClaimInv, RowType, RowsInv
  <1>1. CASE Cancel \/ Start \/ Die
    <2>1. ASSUME NEW s \in Stages
          PROVE  /\ RowIsSound(row'[s])
                 /\ row'[s].status \in Open => row[s].status \in Open
                 /\ row[s].status = "completed" => row'[s].status = "completed"
      <3>1. \/ row[s].status = "queued" /\ row'[s] = Freed(row[s], "canceled")
            \/ row[s].status = "running" /\ row'[s] = [row[s] EXCEPT !.status = "cancel_requested"]
            \/ row[s].status \in Open /\ row'[s] = Freed(row[s], "queued")
            \/ row[s].status \in Open /\ row'[s] = Freed(row[s], "canceled")
            \/ row[s].owner = "me" /\ row'[s] = [row[s] EXCEPT !.owner = "former"]
            \/ row'[s] = row[s]
        BY <1>1 DEF Cancel, Start, Die, Recovered, Open
      <3> QED
        BY <1>0, <3>1 DEF RowIsSound, RowValues, Freed, Open
    <2> QED
      BY <2>1 DEF RowsInv, Stages
  <1>2. CASE LeaseExpires
    <2>1. PICK s \in Stages : row[s].lease = "live" /\ row' = [row EXCEPT ![s].lease = "expired"]
      BY <1>2 DEF LeaseExpires
    <2>2. /\ row'[s] = [row[s] EXCEPT !.lease = "expired"]
          /\ \A q \in Stages \ {s} : row'[q] = row[q]
      BY <2>1 DEF AllInv, ClaimInv, RowType
    <2>3. RowIsSound(row'[s]) /\ row'[s].status = row[s].status
      BY <1>0, <2>1, <2>2 DEF RowIsSound, RowValues
    <2> QED
      BY <2>2, <2>3 DEF RowsInv, Stages
  <1>3. ASSUME NEW s \in Stages, Retry(s)
        PROVE  RowsInv'
    <2>1. /\ row[s].status \in {"failed", "canceled"} /\ row[s].attempt < Attempts
          /\ row' = [row EXCEPT ![s].status = "queued", ![s].attempt = @ + 1]
      BY <1>3 DEF Retry
    <2>2. /\ row'[s] = [row[s] EXCEPT !.status = "queued", !.attempt = @ + 1]
          /\ \A q \in Stages \ {s} : row'[q] = row[q]
      BY <2>1 DEF AllInv, ClaimInv, RowType
    <2>3. /\ row'[s].status = "queued" /\ row'[s].attempt = row[s].attempt + 1
          /\ row'[s].lease = row[s].lease /\ row'[s].owner = row[s].owner
      BY <1>0, <2>2 DEF RowValues
    <2>4. row[s].attempt + 1 \in 1 .. Attempts
      BY <1>0, <2>1, ItemAssumption DEF RowIsSound
    <2>5. RowIsSound(row'[s])
      BY <1>0, <2>1, <2>3, <2>4 DEF RowIsSound, Open
    <2> QED
      BY <2>1, <2>2, <2>3, <2>5 DEF RowsInv, Stages, Open
  <1>4. ASSUME NEW s \in Stages, row[s].status = "queued", s = "transcribe" => Finished("source"),
               row' = [row EXCEPT ![s].status = "running", ![s].owner = "me", ![s].lease = "live"]
        PROVE  RowsInv'
    <2>1. /\ row'[s] = [row[s] EXCEPT !.status = "running", !.owner = "me", !.lease = "live"]
          /\ \A q \in Stages \ {s} : row'[q] = row[q]
      BY <1>4 DEF AllInv, ClaimInv, RowType
    <2>2. RowIsSound(row'[s])
      BY <1>0, <2>1 DEF RowIsSound, RowValues, Open
    <2>3. row'["transcribe"].status \in Open => row'["source"].status = "completed"
      BY <1>4, <2>1 DEF RowsInv, Stages, Finished, AllInv, FilesInv, Open
    <2> QED
      BY <2>1, <2>2, <2>3 DEF RowsInv
  <1>5. CASE ClaimSource \/ ClaimTranscribe
    BY <1>4, <1>5 DEF ClaimSource, ClaimTranscribe, Claim, Stages
  <1> QED
    BY <1>1, <1>2, <1>3, <1>5

LEMMA RowsHold == Spec => []RowsInv
  <1>1. ASSUME Init
        PROVE  RowsInv
    <2>1. 1 \in 1 .. Attempts
      BY ItemAssumption
    <2>2. \A s \in Stages : RowIsSound(row[s]) /\ row[s].status \notin Open
      BY <1>1, <2>1 DEF Init, NewRow, RowIsSound, Open, Stages
    <2> QED
      BY <2>2 DEF RowsInv, Stages
  <1>2. AllInv /\ RowsInv /\ [Next]_vars => RowsInv'
    <2>1. Purge \/ TakeBack \/ UNCHANGED vars => UNCHANGED row
      BY DEF Purge, TakeBack, vars
    <2> QED
      BY <2>1, HandlersKeepRows, OthersKeepRows DEF Next, RowsInv
  <1> QED
    BY <1>1, <1>2, FilesHold, PTL DEF Spec

\* The candidate at hand is one of the tracks.
LEMMA ChosenTrack ==
  ASSUME ClaimInv, pc \in {"chosen", "published"}
  PROVE  offers[1] \in Tracks
  <1>1. offers \in Seq(Tracks) /\ offers # <<>>
    BY DEF ClaimInv
  <1> QED
    BY <1>1

\* What a step of the source handler does to what is published and kept.
LEMMA SourceKeepsContent ==
  ASSUME AllInv, ContentInv, SourceStep \/ ClaimSource
  PROVE  ContentInv'
  <1>1. UNCHANGED asrVars
    BY DEF SourceStep, LoadItem, ViewMedia, Probe, HaveProbed, FetchSubtitle, CandidateFails,
           FallBackToAudio, FindAudio, Download, RegisterAudio, HandOver, PublishSubtitle,
           WriteOriginal, DropSource, CompleteSource, CompleteSkipping, FailSource, StopSource,
           ForgetSource, SourceBreaks, SourceFails, ClaimSource
  <1>2. \/ UNCHANGED transcript \/ PublishSubtitle
    BY DEF SourceStep, LoadItem, ViewMedia, Probe, HaveProbed, FetchSubtitle, CandidateFails,
           FallBackToAudio, FindAudio, Download, RegisterAudio, HandOver,
           WriteOriginal, DropSource, CompleteSource, CompleteSkipping, FailSource, StopSource,
           ForgetSource, SourceBreaks, SourceFails, ClaimSource
  <1>3. UNCHANGED original \/ WriteOriginal
    BY DEF SourceStep, LoadItem, ViewMedia, Probe, HaveProbed, FetchSubtitle, CandidateFails,
           FallBackToAudio, FindAudio, Download, RegisterAudio, HandOver, PublishSubtitle,
           DropSource, CompleteSource, CompleteSkipping, FailSource, StopSource,
           ForgetSource, SourceBreaks, SourceFails, ClaimSource
  <1>4. kept' \in BOOLEAN /\ purged' \in BOOLEAN
    BY DEF ContentInv, SourceStep, LoadItem, ViewMedia, Probe, HaveProbed, FetchSubtitle, CandidateFails,
           FallBackToAudio, FindAudio, Download, RegisterAudio, HandOver, PublishSubtitle,
           WriteOriginal, DropSource, CompleteSource, CompleteSkipping, FailSource, StopSource,
           ForgetSource, SourceBreaks, SourceFails, ClaimSource, mediaVars, historyVars
  <1>5. transcript' = NoTranscript \/ transcript'.from \in {"subtitle", "asr"}
    <2>1. CASE PublishSubtitle
      <3>1. UNCHANGED transcript \/ transcript' = FromTrack(offers[1])
        BY <2>1 DEF PublishSubtitle
      <3>2. FromTrack(offers[1]).from = "subtitle"
        BY DEF FromTrack
      <3> QED
        BY <3>1, <3>2 DEF ContentInv
    <2> QED
      BY <1>2, <2>1 DEF ContentInv
  <1>6. original' \in Tracks \cup {NoTrack}
    <2>1. CASE WriteOriginal
      <3>1. pc = "published" /\ original' \in {original, offers[1]}
        BY <2>1 DEF WriteOriginal
      <3> QED
        BY <3>1, ChosenTrack DEF AllInv, ContentInv
    <2> QED
      BY <1>3, <2>1 DEF ContentInv
  <1> QED
    BY <1>1, <1>4, <1>5, <1>6 DEF ContentInv, asrVars

\* The recognizer's loop uses one device at a time, and its files name it.
LEMMA AsrKeepsDevices ==
  ASSUME AsrRecord, ContentInv, AsrStep
  PROVE  /\ asr'.device \in Devices /\ asr'.by \in Devices
         /\ \A c \in chunks' : c.by \in Devices
  <1>1. CASE asr' = asr \/ asr' = NoAsr
    <2>1. asr'.device \in Devices /\ asr'.by \in Devices
      BY <1>1 DEF ContentInv, NoAsr, Devices
    <2>2. chunks' = chunks \/ chunks' = chunks \cup {[lo |-> asr.lo, segments |-> asr.segments, by |-> asr.by]}
      BY DEF AsrStep, NothingToRecover, RecoverPublication, ResolveSource, PrepareAudio, LoadChunk,
             HearChunk, SaveChunk, NextChunk, LastChunk, WriteRecovery, PublishTranscript, Tidy,
             DropAndFail, DropAndLeave, DropMediaIfPossible, CompleteTranscribe, FailTranscribe,
             StopTranscribe, AsrBreaks, AsrFails, asrVars
    <2> QED
      BY <2>1, <2>2 DEF ContentInv
  <1>2. CASE LoadChunk
    <2>1. PICK c \in chunks : asr' = [asr EXCEPT !.segments = c.segments, !.by = c.by]
      BY <1>2 DEF LoadChunk, SavedChunks
    <2>2. asr'.device = asr.device /\ asr'.by = c.by
      BY <2>1 DEF AsrRecord
    <2> QED
      BY <1>2, <2>2 DEF LoadChunk, ContentInv
  <1>3. CASE HearChunk
    <2>1. PICK device \in {asr.device, "cpu"}, heard \in Hearings(asr.lo, ChunkEnd(asr.lo)) :
            asr' = [asr EXCEPT !.device = device, !.segments = heard, !.by = device]
      BY <1>3 DEF HearChunk
    <2>2. asr'.device = device /\ asr'.by = device
      BY <2>1 DEF AsrRecord
    <2> QED
      BY <1>3, <2>2 DEF HearChunk, ContentInv, Devices
  <1>4. CASE NextChunk \/ LastChunk
    <2>1. asr'.device = asr.device /\ asr'.by = asr.by /\ UNCHANGED chunks
      BY <1>4 DEF NextChunk, LastChunk, AsrRecord
    <2> QED
      BY <2>1 DEF ContentInv
  <1>5. \/ asr' = asr \/ asr' = NoAsr \/ LoadChunk \/ HearChunk \/ NextChunk \/ LastChunk
    BY DEF AsrStep, NothingToRecover, RecoverPublication, ResolveSource, PrepareAudio, SaveChunk,
           WriteRecovery, PublishTranscript, Tidy, DropAndFail, DropAndLeave, DropMediaIfPossible,
           CompleteTranscribe, FailTranscribe, StopTranscribe, AsrBreaks, AsrFails, asrVars
  <1> QED
    BY <1>1, <1>2, <1>3, <1>4, <1>5

LEMMA TranscribeKeepsContent ==
  ASSUME AllInv, AsrRecord, ContentInv, AsrStep
  PROVE  ContentInv'
  <1>1. UNCHANGED original
    BY DEF AsrStep, NothingToRecover, RecoverPublication, ResolveSource, PrepareAudio, LoadChunk,
           HearChunk, SaveChunk, NextChunk, LastChunk, WriteRecovery, PublishTranscript, Tidy,
           DropAndFail, DropAndLeave, DropMediaIfPossible, CompleteTranscribe, FailTranscribe,
           StopTranscribe, AsrBreaks, AsrFails
  <1>2. kept' \in BOOLEAN /\ purged' \in BOOLEAN
    BY DEF ContentInv, AsrStep, NothingToRecover, RecoverPublication, ResolveSource, PrepareAudio, LoadChunk,
           HearChunk, SaveChunk, NextChunk, LastChunk, WriteRecovery, PublishTranscript, Tidy,
           DropAndFail, DropAndLeave, DropMediaIfPossible, DropMedia, CompleteTranscribe,
           FailTranscribe, StopTranscribe, AsrBreaks, AsrFails, mediaVars, historyVars
  <1>3. UNCHANGED recovery \/ recovery' = FromAsr(asr.heard)
    BY DEF AsrStep, NothingToRecover, RecoverPublication, ResolveSource, PrepareAudio, LoadChunk,
           HearChunk, SaveChunk, NextChunk, LastChunk, WriteRecovery, PublishTranscript, Tidy,
           DropAndFail, DropAndLeave, DropMediaIfPossible, CompleteTranscribe, FailTranscribe,
           StopTranscribe, AsrBreaks, AsrFails, asrVars
  <1>4. UNCHANGED transcript \/ (transcript' = recovery /\ pc = "announcing")
    BY DEF AsrStep, NothingToRecover, RecoverPublication, ResolveSource, PrepareAudio, LoadChunk,
           HearChunk, SaveChunk, NextChunk, LastChunk, WriteRecovery, PublishTranscript, Tidy,
           DropAndFail, DropAndLeave, DropMediaIfPossible, CompleteTranscribe, FailTranscribe,
           StopTranscribe, AsrBreaks, AsrFails, AsrGoTo
  <1>5. transcript' = NoTranscript \/ transcript'.from \in {"subtitle", "asr"}
    BY <1>4 DEF ContentInv
  <1>6. recovery' = NoTranscript \/ recovery'.from = "asr"
    BY <1>3 DEF ContentInv, FromAsr
  <1> QED
    BY <1>1, <1>2, <1>5, <1>6, AsrKeepsDevices DEF ContentInv

LEMMA ContentStep == AllInv /\ HeardInv /\ ContentInv /\ [Next]_vars => ContentInv'
  <1> SUFFICES ASSUME AllInv, HeardInv, ContentInv, [Next]_vars
               PROVE  ContentInv'
    OBVIOUS
  <1>1. CASE \/ Cancel \/ LeaseExpires \/ Start \/ Die \/ ClaimTranscribe
             \/ (\E s \in Stages : Retry(s)) \/ Purge \/ TakeBack \/ UNCHANGED vars
    <2>1. /\ UNCHANGED <<transcript, original>> /\ asr' \in {asr, NoAsr}
          /\ UNCHANGED <<chunks, recovery>> \/ (chunks' = {} /\ recovery' = NoTranscript)
          /\ kept' \in {kept, TRUE} /\ purged' \in {purged, TRUE}
      BY <1>1 DEF Cancel, LeaseExpires, Start, Die, ClaimTranscribe, Retry, Purge, TakeBack, vars,
                  mediaVars, historyVars, asrVars
    <2>2. asr'.device \in Devices /\ asr'.by \in Devices
      BY <2>1 DEF ContentInv, NoAsr, Devices
    <2> QED
      BY <2>1, <2>2 DEF ContentInv
  <1>2. CASE SourceStep \/ ClaimSource \/ AsrStep
    BY <1>2, SourceKeepsContent, TranscribeKeepsContent DEF HeardInv, LoopInv
  <1> QED
    BY <1>1, <1>2 DEF Next, Handle

LEMMA BoundsStep == BoundsInv /\ [Next]_vars => BoundsInv'
  <1> SUFFICES ASSUME BoundsInv, [Next]_vars
               PROVE  BoundsInv'
    OBVIOUS
  <1>0. Deaths \in Nat /\ Cancels \in Nat /\ Lapses \in Nat
    BY ItemAssumption
  <1>1. CASE Cancel
    BY <1>0, <1>1 DEF Cancel, BoundsInv
  <1>2. CASE LeaseExpires
    BY <1>0, <1>2 DEF LeaseExpires, BoundsInv
  <1>3. CASE Die
    BY <1>0, <1>3 DEF Die, BoundsInv
  <1>4. CASE \/ Start \/ ClaimSource \/ ClaimTranscribe \/ (\E s \in Stages : Retry(s))
             \/ Purge \/ TakeBack \/ UNCHANGED vars
    <2>1. UNCHANGED <<deaths, cancels, lapses>>
      BY <1>4 DEF Start, ClaimSource, ClaimTranscribe, Retry, Purge, TakeBack, itemVars, vars
    <2> QED
      BY <2>1 DEF BoundsInv
  <1>5. CASE SourceStep
    <2>1. UNCHANGED itemVars
      BY <1>5 DEF SourceStep, LoadItem, ViewMedia, Probe, HaveProbed, FetchSubtitle, CandidateFails,
             FallBackToAudio, FindAudio, Download, RegisterAudio, HandOver, PublishSubtitle,
             WriteOriginal, DropSource, CompleteSource, CompleteSkipping, FailSource, StopSource,
             ForgetSource, SourceBreaks, SourceFails
    <2> QED
      BY <2>1 DEF BoundsInv, itemVars
  <1>6. CASE AsrStep
    <2>1. UNCHANGED itemVars
      BY <1>6 DEF AsrStep, NothingToRecover, RecoverPublication, ResolveSource, PrepareAudio,
             LoadChunk, HearChunk, SaveChunk, NextChunk, LastChunk, WriteRecovery,
             PublishTranscript, Tidy, DropAndFail, DropAndLeave, DropMediaIfPossible,
             CompleteTranscribe, FailTranscribe, StopTranscribe, AsrBreaks, AsrFails
    <2> QED
      BY <2>1 DEF BoundsInv, itemVars
  <1> QED
    BY <1>1, <1>2, <1>3, <1>4, <1>5, <1>6 DEF Next, Handle

\* For all items and faults, the types hold: in particular at most one of the two stages is leased,
\* and a lease, its owner and the status of its row agree, whoever writes the row.
THEOREM TypeCorrect == Spec => []TypeOK
  <1>1. Init => HeardInv /\ ContentInv /\ BoundsInv
    <2> SUFFICES ASSUME Init
                 PROVE  HeardInv /\ ContentInv /\ BoundsInv
      OBVIOUS
    <2>1. HeardInv
      BY HeardInitially
    <2>2. ContentInv
      BY DEF Init, ContentInv, NoAsr, Devices
    <2>3. BoundsInv
      BY ItemAssumption DEF Init, BoundsInv
    <2> QED
      BY <2>1, <2>2, <2>3
  <1>2. AllInv /\ HeardInv /\ RowsInv /\ ContentInv /\ BoundsInv => TypeOK
    <2> SUFFICES ASSUME AllInv, HeardInv, RowsInv, ContentInv, BoundsInv
                 PROVE  TypeOK
      OBVIOUS
    <2>1. row \in [Stages -> Rows]
      <3>1. ASSUME NEW s \in Stages
            PROVE  row[s] \in Rows
        <4>1. row[s] \in RowValues /\ row[s].attempt \in 1 .. (Attempts + 1)
          BY ItemAssumption DEF AllInv, ClaimInv, RowType, RowsInv, RowIsSound
        <4> QED
          BY <4>1 DEF RowValues, Rows
      <3> QED
        BY <3>1 DEF AllInv, ClaimInv, RowType
    <2>2. \A s \in Stages :
            /\ row[s].lease = "none" <=> row[s].owner = "nobody"
            /\ row[s].lease # "none" <=> row[s].status \in {"running", "cancel_requested"}
            /\ row[s].attempt <= Attempts
      BY ItemAssumption DEF RowsInv, RowIsSound, Open
    <2>3. row["source"].lease # "none" => row["transcribe"].lease = "none"
      BY DEF RowsInv, RowIsSound, Open, Stages
    <2>4. pc \in SourcePlaces \ {"source failing"} => row["source"].status # "queued"
      BY DEF AllInv, FilesInv, Open
    <2>5. \A i \in 1 .. Len(offers) : offers[i] \in Tracks
      <3>1. offers \in Seq(Tracks)
        BY DEF AllInv, ClaimInv
      <3> QED
        BY <3>1
    <2>6. \A c \in chunks : c.segments \in Hearings(c.lo, ChunkEnd(c.lo)) /\ c.by \in Devices
      BY DEF HeardInv, ChunksInv, ContentInv
    <2>7. /\ item \in Items /\ pc \in {"down", "idle"} \cup SourcePlaces \cup AsrPlaces
          /\ audio \in [Formats -> {"none", "whole", "junk", "empty"}]
          /\ asset = NoAsset \/ asset \in [state : {"active", "trash"}, format : Formats]
          /\ upload \in {"none", "active", "trash", "gone"}
      BY DEF AllInv, ClaimInv, AudioInv, FilesInv
    <2> QED
      BY <2>1, <2>2, <2>3, <2>4, <2>5, <2>6, <2>7 DEF TypeOK, ContentInv, BoundsInv
  <1> QED
    BY <1>1, <1>2, HeardStep, ContentStep, BoundsStep, FilesHold, RowsHold, PTL DEF Spec
=============================================================================
