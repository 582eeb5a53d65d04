--------------------------- MODULE MCItemTranscript ---------------------------
(* Instances of ItemTranscript for TLC. *)
EXTENDS ItemTranscript, TLC

ItemOf(kind, audioOnly, keep) == [kind |-> kind, audio |-> audioOnly, export |-> keep]

MCItems == {ItemOf("url", FALSE, FALSE), ItemOf("url", FALSE, TRUE), ItemOf("url", TRUE, TRUE),
            ItemOf("uploaded_subtitle", FALSE, FALSE), ItemOf("uploaded_media", FALSE, FALSE)}

\* Chunks at 0-6, 4-10 and 8-11.  One utterance is longer than the overlap.
MCSpeech == {[from |-> 4, to |-> 5], [from |-> 5, to |-> 7], [from |-> 7, to |-> 11]}
=============================================================================
