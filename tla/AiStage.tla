------------------------------- MODULE AiStage -------------------------------
(***************************************************************************)
(* The translate and notes stages of one item: the batches, chunks and     *)
(* reduce groups a transcript is cut into (translation.py, notes.py), the  *)
(* chat call each of them makes through a provider adapter and its         *)
(* transport (chat.py, provider_chat.py, platform_transport.py), the       *)
(* artifact the handler writes (ai_stages.py, artifacts.py), and the stage *)
(* run row the worker holds meanwhile.                                     *)
(*                                                                         *)
(* A behaviour is about one stage run and its retries.  Sizes stand for    *)
(* the bytes of a cue or a node in a request.  The checkpoint between two  *)
(* calls is one step here; StageQueue has its two transactions.            *)
(***************************************************************************)
EXTENDS Naturals, SequencesExt, FiniteSetsExt

CONSTANTS
    Workers,         \* worker processes, each started once
    Inputs,          \* the stages, transcripts and chat adapters considered
    Budget,          \* max_request_bytes, and note_source_chunk_bytes
    BatchCues,       \* translation_batch_cues
    RetryCues,       \* translation_retry_batch_cues
    MaxChunks,       \* note_max_initial_chunks
    MaxLevels,       \* note_max_reduce_levels
    NoWorker, NoDoc, NoReply

\* An adapter may send a second body without JSON mode; a transport dials the addresses in turn.
ASSUME AiAssumption ==
    /\ \A i \in Inputs :
         /\ i.kind \in {"translate", "notes"}
         /\ i.size \in Seq(Nat \ {0}) /\ i.size # <<>>
         /\ {i.note, i.attempts} \subseteq Nat \ {0}
         /\ i.adapter \in [compat : BOOLEAN, pinned : BOOLEAN, addresses : Nat \ {0}]
    /\ {Budget, BatchCues, RetryCues, MaxChunks, MaxLevels} \subseteq Nat \ {0}
    /\ IsFiniteSet(Workers) /\ NoWorker \notin Workers
    /\ NoReply \notin Seq(Nat) \cup [cites : SUBSET Nat, size : Nat]

VARIABLES
    kind,        \* the stage, "translate" or "notes"
    size,        \* size[c] is the size of cue c of the transcript
    note,        \* the size of the notes the model returns
    attempts,    \* bound: attempts of the stage
    adapter,     \* how the adapter of the profile retries, and its transport connects
    row,         \* the stage run: its newest attempt, lease and external_submission_state
    file,        \* the artifact under each key
    pc,          \* where each worker is
    claim,       \* the attempt and recovery generation it runs under
    todo,        \* the parts of the transcript, or of the nodes, still to be sent
    out,         \* the entries, or the nodes of this level, accepted so far
    level,       \* reduce level, and how many nodes it started from
    call,        \* the chat call under way: tries of this body, whether JSON mode may be dropped, address
    reply,       \* the content the provider returned
    doubt        \* auxiliary: whether a request of the current claim may have been billed unanswered

inputVars == <<kind, size, note, attempts, adapter>>
jobVars == <<todo, out, level>>
callVars == <<call, reply>>
vars == <<inputVars, row, file, pc, claim, jobVars, callVars, doubt>>

Cues == 1..Len(size)
Transcript == [c \in Cues |-> c]
-----------------------------------------------------------------------------
(* Cutting a transcript into requests *)

Total(sizes) ==
    LET sum[n \in 0..Len(sizes)] == IF n = 0 THEN 0 ELSE sum[n - 1] + sizes[n]
    IN  sum[Len(sizes)]

\* What is current when the loop goes on or ends, unless nothing is.
Flush(acc) == IF acc.current = <<>> THEN acc.done ELSE Append(acc.done, acc.current)

\* Faulty variant: the element that does not fit any more closes the group it does not fit in.
ExtendTooFar(acc, x, fits) ==
    IF fits THEN [acc EXCEPT !.current = Append(@, x)]
    ELSE [done |-> Append(acc.done, Append(acc.current, x)), current |-> <<>>]

\* Faulty variant: the element that does not fit any more is left out.
ExtendDropping(acc, x, fits) ==
    IF fits THEN [acc EXCEPT !.current = Append(@, x)]
    ELSE [done |-> Flush(acc), current |-> <<>>]

\* The loop body: x joins the current group or, if that would not fit, starts the next one.
Extend(acc, x, fits) ==
    IF fits THEN [acc EXCEPT !.current = Append(@, x)]
    ELSE [done |-> Flush(acc), current |-> <<x>>]

\* Consecutive groups of s, each as long as it is Fitting; an element that never fits is alone.
Pack(s, Fitting) ==
    LET acc[n \in 0..Len(s)] ==
          IF n = 0 THEN [done |-> <<>>, current |-> <<>>]
          ELSE LET sofar == acc[n - 1]
               IN  Extend(sofar, s[n], Append(sofar.current, s[n]) \in Fitting)
    IN  Flush(acc[Len(s)])

FitsRequest(cues) == Total([i \in DOMAIN cues |-> size[cues[i]]]) <= Budget

Batches == Pack(Transcript, {g \in Seq(Cues) : Len(g) <= BatchCues /\ FitsRequest(g)})

\* A batch whose answer was invalid is sent again in parts.
RetryBatches(cues) ==
    [i \in 1..((Len(cues) + RetryCues - 1) \div RetryCues) |->
        SubSeq(cues, (i - 1) * RetryCues + 1, Min({i * RetryCues, Len(cues)}))]

Chunks == Pack(Transcript, {g \in Seq(Cues) : FitsRequest(g)})

Nodes == [cites : SUBSET Cues, evidence : SUBSET Cues, size : {note}]

FitsReduce(nodes) == Total([i \in DOMAIN nodes |-> nodes[i].size]) <= Budget

ReduceGroups(nodes) == Pack(nodes, {g \in Seq(Nodes) : FitsReduce(g)})

CueOversize == \E c \in Cues : ~FitsRequest(<<c>>)

\* A part is what one request carries: cues to translate, to translate again or to take notes
\* of ("map"), or notes to merge ("reduce").
Part(op, s) == [op |-> op, of |-> s]
Parts(op, groups) == [i \in DOMAIN groups |-> Part(op, groups[i])]

\* A singleton group is not sent.
Passes(part) == part.op = "reduce" /\ Len(part.of) = 1

\* Faulty variant: a merged note may cite any cue of the transcript.
AllowedIdsOfTranscript(part) == IF part.op = "reduce" THEN Cues ELSE ToSet(part.of)

\* allowed_ids: the cues of the chunk, or the lineage of the merged notes.
AllowedIds(part) ==
    IF part.op = "reduce" THEN UNION {n.cites : n \in ToSet(part.of)} ELSE ToSet(part.of)

\* The evidence behind a note: what the notes taken from the transcript itself cite.
Evidence(part, cites) ==
    IF part.op = "reduce" THEN UNION {n.evidence : n \in ToSet(part.of)} ELSE cites

\* What the model may return for a part: the right entries or others; notes that cite one cue.
Replies(part) ==
    IF part.op \in {"translate", "again"}
    THEN {part.of, Reverse(part.of), Tail(part.of)}
    ELSE [cites : {{c} : c \in Cues}, size : {note}]

\* _parse_entries and _parse_node.
Accepts(part, r) ==
    IF part.op \in {"translate", "again"} THEN r = part.of ELSE r.cites \subseteq AllowedIds(part)
-----------------------------------------------------------------------------
(* The stage run and its claim *)

Key(w) == IF kind = "translate" THEN 0 ELSE claim[w].attempt

OwnsLease(w) ==
    /\ row.owner = w
    /\ row.attempt = claim[w].attempt
    /\ row.gen = claim[w].gen
    /\ row.live

ClaimMatches(w) == OwnsLease(w) /\ row.status = "running"

NoLease == [row EXCEPT !.owner = NoWorker, !.live = FALSE]

Init ==
    /\ \E i \in Inputs : kind = i.kind /\ size = i.size /\ note = i.note
                       /\ attempts = i.attempts /\ adapter = i.adapter
    /\ row = [status |-> "queued", attempt |-> 1, gen |-> 0, owner |-> NoWorker,
              live |-> FALSE, unknown |-> FALSE]
    /\ file = [k \in 0..attempts |-> NoDoc]
    /\ pc = [w \in Workers |-> "off"]
    /\ claim = [w \in Workers |-> [attempt |-> 0, gen |-> 0]]
    /\ todo = [w \in Workers |-> <<>>]
    /\ out = [w \in Workers |-> <<>>]
    /\ level = [w \in Workers |-> [depth |-> 0, width |-> 0]]
    /\ call = [w \in Workers |-> [tries |-> 0, compat |-> FALSE, address |-> 0]]
    /\ reply = [w \in Workers |-> NoReply]
    /\ doubt = "none"
-----------------------------------------------------------------------------
(* The user *)

\* cancel_task, for the stage run.
Cancel ==
    /\ row.status \in {"queued", "running"}
    /\ row' = [row EXCEPT !.status = IF @ = "queued" THEN "canceled" ELSE "cancel_requested"]
    /\ doubt' = "none"
    /\ UNCHANGED <<inputVars, file, pc, claim, jobVars, callVars>>

\* retry_stage; ack is acknowledge_possible_charge.
Retry(ack) ==
    /\ row.attempt < attempts
    /\ row.status \in {"failed", "canceled"} \/ (row.status = "completed" /\ kind = "notes")
    /\ row.unknown = ack
    /\ row' = [NoLease EXCEPT !.status = "queued", !.attempt = @ + 1, !.gen = 0, !.unknown = FALSE]
    /\ doubt' = IF ack THEN "none" ELSE doubt
    /\ UNCHANGED <<inputVars, file, pc, claim, jobVars, callVars>>
-----------------------------------------------------------------------------
(* The worker *)

GoTo(w, place) == pc' = [pc EXCEPT ![w] = place]

\* The worker's variables of a handler that is not running.
Forget(w) ==
    /\ todo' = [todo EXCEPT ![w] = <<>>]
    /\ out' = [out EXCEPT ![w] = <<>>]
    /\ level' = [level EXCEPT ![w] = [depth |-> 0, width |-> 0]]
    /\ call' = [call EXCEPT ![w] = [tries |-> 0, compat |-> FALSE, address |-> 0]]
    /\ reply' = [reply EXCEPT ![w] = NoReply]
    /\ claim' = [claim EXCEPT ![w] = [attempt |-> 0, gen |-> 0]]

\* Worker.run starts with recover_expired.
Start(w) ==
    /\ pc[w] = "off"
    /\ GoTo(w, "idle")
    /\ IF row.status \in {"running", "cancel_requested"} /\ ~row.live
       THEN /\ row' = [NoLease EXCEPT !.status = IF @ = "running" THEN "queued" ELSE "canceled",
                                      !.gen = @ + 1]
            /\ doubt' = "none"
       ELSE UNCHANGED <<row, doubt>>
    /\ UNCHANGED <<inputVars, file, claim, jobVars, callVars>>

Die(w) ==
    /\ pc[w] \notin {"off", "dead"}
    /\ GoTo(w, "dead")
    /\ Forget(w)
    /\ UNCHANGED <<inputVars, row, file, doubt>>

LeaseExpires ==
    /\ row.status \in {"running", "cancel_requested"}
    /\ row.live
    /\ row' = [row EXCEPT !.live = FALSE]
    /\ UNCHANGED <<inputVars, file, pc, claim, jobVars, callVars, doubt>>

Claim(w) ==
    /\ pc[w] = "idle"
    /\ row.status = "queued"
    /\ row' = [row EXCEPT !.status = "running", !.owner = w, !.live = TRUE]
    /\ claim' = [claim EXCEPT ![w] = [attempt |-> row.attempt, gen |-> row.gen]]
    /\ GoTo(w, "loading")
    /\ UNCHANGED <<inputVars, file, jobVars, callVars, doubt>>

\* complete and fail: they write the row if the claim still holds; the worker moves on either way.
Conclude(w, status, unknown) ==
    /\ row' = IF ClaimMatches(w)
              THEN [NoLease EXCEPT !.status = status, !.unknown = unknown]
              ELSE row
    /\ GoTo(w, "idle")
    /\ Forget(w)
    /\ UNCHANGED <<inputVars, file, doubt>>

Complete(w) == pc[w] = "written" /\ Conclude(w, "completed", FALSE)

\* Faulty variant: an unknown outcome fails the stage like any other error.
FailPlainly(w) ==
    /\ pc[w] \in {"failing", "in doubt"}
    /\ Conclude(w, "failed", FALSE)

Fail(w) ==
    /\ pc[w] \in {"failing", "in doubt"}
    /\ Conclude(w, "failed", pc[w] = "in doubt")

\* Where a handler calls context.checkpoint before it goes on.
Checked == {"reusing", "planning", "before", "after", "finishing"}

\* The checkpoint finds the run canceled, or no longer this worker's.
Stop(w) ==
    /\ pc[w] \in Checked
    /\ pc[w] = "before" => todo[w] # <<>> /\ ~Passes(Head(todo[w]))
    /\ ~ClaimMatches(w)
    /\ row' = IF OwnsLease(w) THEN [NoLease EXCEPT !.status = "canceled"] ELSE row
    /\ GoTo(w, "idle")
    /\ Forget(w)
    /\ UNCHANGED <<inputVars, file, doubt>>
-----------------------------------------------------------------------------
(* The handler *)

\* The artifact of an earlier run is used again.
Load(w) ==
    /\ pc[w] = "loading"
    /\ GoTo(w, IF file[Key(w)] = NoDoc THEN "planning" ELSE "reusing")
    /\ UNCHANGED <<inputVars, row, file, claim, jobVars, callVars, doubt>>

Reuse(w) ==
    /\ pc[w] = "reusing"
    /\ ClaimMatches(w)
    /\ GoTo(w, "written")
    /\ UNCHANGED <<inputVars, row, file, claim, jobVars, callVars, doubt>>

\* The whole transcript is cut before the first request is sent.
Plan(w) ==
    /\ pc[w] = "planning"
    /\ ClaimMatches(w)
    /\ IF CueOversize \/ (kind = "notes" /\ Len(Chunks) > MaxChunks)
       THEN GoTo(w, "failing") /\ UNCHANGED todo
       ELSE /\ todo' = [todo EXCEPT ![w] =
                  IF kind = "translate" THEN Parts("translate", Batches) ELSE Parts("map", Chunks)]
            /\ GoTo(w, "before")
    /\ UNCHANGED <<inputVars, row, file, claim, out, level, callVars, doubt>>

PassOn(w) ==
    /\ pc[w] = "before"
    /\ todo[w] # <<>>
    /\ Passes(Head(todo[w]))
    /\ out' = [out EXCEPT ![w] = @ \o Head(todo[w]).of]
    /\ todo' = [todo EXCEPT ![w] = Tail(@)]
    /\ UNCHANGED <<inputVars, row, file, pc, claim, level, callVars, doubt>>

\* The adapter's complete is entered.
Ask(w) ==
    /\ pc[w] = "before"
    /\ todo[w] # <<>>
    /\ ~Passes(Head(todo[w]))
    /\ ClaimMatches(w)
    /\ call' = [call EXCEPT ![w] = [tries |-> 0, compat |-> adapter.compat, address |-> 1]]
    /\ GoTo(w, "sending")
    /\ UNCHANGED <<inputVars, row, file, claim, jobVars, reply, doubt>>

Accept(w) ==
    LET part == Head(todo[w])
        r    == reply[w]
    IN  /\ pc[w] = "after"
        /\ ClaimMatches(w)
        /\ Accepts(part, r)
        /\ out' = [out EXCEPT ![w] =
              IF kind = "translate" THEN @ \o r
              ELSE Append(@, [cites |-> r.cites, size |-> r.size,
                              evidence |-> Evidence(part, r.cites)])]
        /\ todo' = [todo EXCEPT ![w] = Tail(@)]
        /\ reply' = [reply EXCEPT ![w] = NoReply]
        /\ GoTo(w, "before")
        /\ UNCHANGED <<inputVars, row, file, claim, level, call, doubt>>

\* Faulty variant: a part sent again is sent again as often as its answer is invalid.
RejectForever(w) ==
    /\ pc[w] = "after"
    /\ ClaimMatches(w)
    /\ ~Accepts(Head(todo[w]), reply[w])
    /\ reply' = [reply EXCEPT ![w] = NoReply]
    /\ IF Head(todo[w]).op \in {"translate", "again"}
       THEN /\ todo' = [todo EXCEPT ![w] =
                  Parts("again", RetryBatches(Head(@).of)) \o Tail(@)]
            /\ GoTo(w, "before")
       ELSE GoTo(w, "failing") /\ UNCHANGED todo
    /\ UNCHANGED <<inputVars, row, file, claim, out, level, call, doubt>>

\* An invalid translation is asked for once more, in at most two parts.
Reject(w) ==
    LET part == Head(todo[w])
    IN  /\ pc[w] = "after"
        /\ ClaimMatches(w)
        /\ ~Accepts(part, reply[w])
        /\ reply' = [reply EXCEPT ![w] = NoReply]
        /\ IF part.op = "translate" /\ Len(RetryBatches(part.of)) <= 2
           THEN /\ todo' = [todo EXCEPT ![w] = Parts("again", RetryBatches(part.of)) \o Tail(@)]
                /\ GoTo(w, "before")
           ELSE GoTo(w, "failing") /\ UNCHANGED todo
        /\ UNCHANGED <<inputVars, row, file, claim, out, level, call, doubt>>

\* Every part is answered: the translation is complete; notes are merged until one is left.
EndLevel(w) ==
    LET nodes == out[w]
    IN  /\ pc[w] = "before"
        /\ todo[w] = <<>>
        /\ IF kind = "translate" \/ Len(nodes) = 1
           THEN GoTo(w, "finishing") /\ UNCHANGED jobVars
           ELSE IF \/ level[w].depth > 0 /\ Len(nodes) >= level[w].width
                   \/ level[w].depth = MaxLevels
           THEN GoTo(w, "failing") /\ UNCHANGED jobVars
           ELSE /\ todo' = [todo EXCEPT ![w] = Parts("reduce", ReduceGroups(nodes))]
                /\ out' = [out EXCEPT ![w] = <<>>]
                /\ level' = [level EXCEPT ![w] = [depth |-> @.depth + 1, width |-> Len(nodes)]]
                /\ UNCHANGED pc
        /\ UNCHANGED <<inputVars, row, file, claim, callVars, doubt>>

\* The two last checks, and validate_against.
Finish(w) ==
    /\ pc[w] = "finishing"
    /\ ClaimMatches(w)
    /\ GoTo(w, IF kind = "translate" /\ out[w] # Transcript THEN "failing" ELSE "writing")
    /\ UNCHANGED <<inputVars, row, file, claim, jobVars, callVars, doubt>>

\* The artifact is replaced whatever has become of the claim since.
Write(w) ==
    /\ pc[w] = "writing"
    /\ file' = [file EXCEPT ![Key(w)] = out[w]]
    /\ GoTo(w, "written")
    /\ UNCHANGED <<inputVars, row, claim, jobVars, callVars, doubt>>
-----------------------------------------------------------------------------
(* The chat call *)

\* A body reaches the provider.  lost: it may be billed for and nobody knows.
Delivered(w, lost) ==
    doubt' = IF doubt = "open" /\ ClaimMatches(w) THEN "repaid"
             ELSE IF lost /\ ClaimMatches(w) THEN "open"
             ELSE doubt

\* The worker leaves the call with an error, or tries the next address.
NextAddressOr(w, place) ==
    IF adapter.pinned /\ call[w].address < adapter.addresses
    THEN /\ call' = [call EXCEPT ![w].address = @ + 1]
         /\ UNCHANGED pc
    ELSE GoTo(w, place) /\ UNCHANGED call

\* No connection.  The pinned transport cannot tell this from a lost answer.
NotSent(w) ==
    /\ pc[w] = "sending"
    /\ NextAddressOr(w, IF adapter.pinned THEN "in doubt" ELSE "failing")
    /\ UNCHANGED <<inputVars, row, file, claim, jobVars, reply, doubt>>

\* The body is sent and no status comes back.
StatusLost(w) ==
    /\ pc[w] = "sending"
    /\ Delivered(w, TRUE)
    /\ NextAddressOr(w, "in doubt")
    /\ UNCHANGED <<inputVars, row, file, claim, jobVars, reply>>

\* The connection breaks while the answer is read.
AnswerLost(w) ==
    /\ pc[w] = "sending"
    /\ Delivered(w, TRUE)
    /\ GoTo(w, "in doubt")
    /\ UNCHANGED <<inputVars, row, file, claim, jobVars, callVars>>

ServerError(w) ==
    /\ pc[w] = "sending"
    /\ Delivered(w, TRUE)
    /\ GoTo(w, "in doubt")
    /\ UNCHANGED <<inputVars, row, file, claim, jobVars, callVars>>

\* 429 with a usable retry-after, once for each body.
RateLimited(w) ==
    /\ pc[w] = "sending"
    /\ call[w].tries = 0
    /\ call' = [call EXCEPT ![w].tries = 1, ![w].address = 1]
    /\ UNCHANGED <<inputVars, row, file, pc, claim, jobVars, reply, doubt>>

\* The provider does not know response_format: the body without it is sent.
FormatRejected(w) ==
    /\ pc[w] = "sending"
    /\ call[w].compat
    /\ call' = [call EXCEPT ![w] = [tries |-> 0, compat |-> FALSE, address |-> 1]]
    /\ UNCHANGED <<inputVars, row, file, pc, claim, jobVars, reply, doubt>>

\* Another refusal (3xx, 4xx), which is not billed.
Refused(w) ==
    /\ pc[w] = "sending"
    /\ GoTo(w, "failing")
    /\ UNCHANGED <<inputVars, row, file, claim, jobVars, callVars, doubt>>

\* A 200 that is truncated, filtered, empty, oversized or no chat answer.
Unusable(w) ==
    /\ pc[w] = "sending"
    /\ Delivered(w, FALSE)
    /\ GoTo(w, "failing")
    /\ UNCHANGED <<inputVars, row, file, claim, jobVars, callVars>>

Answered(w) ==
    /\ pc[w] = "sending"
    /\ Delivered(w, FALSE)
    /\ \E r \in Replies(Head(todo[w])) : reply' = [reply EXCEPT ![w] = r]
    /\ call' = [call EXCEPT ![w] = [tries |-> 0, compat |-> FALSE, address |-> 0]]
    /\ GoTo(w, "after")
    /\ UNCHANGED <<inputVars, row, file, claim, jobVars>>
-----------------------------------------------------------------------------
Exchange(w) ==
    \/ NotSent(w) \/ StatusLost(w) \/ AnswerLost(w) \/ ServerError(w) \/ RateLimited(w)
    \/ FormatRejected(w) \/ Refused(w) \/ Unusable(w) \/ Answered(w)

Handle(w) ==
    \/ Load(w) \/ Reuse(w) \/ Plan(w) \/ PassOn(w) \/ Ask(w) \/ Accept(w) \/ Reject(w)
    \/ EndLevel(w) \/ Finish(w) \/ Write(w) \/ Complete(w) \/ Fail(w) \/ Stop(w)

Next ==
    \/ Cancel
    \/ \E ack \in BOOLEAN : Retry(ack)
    \/ LeaseExpires
    \/ \E w \in Workers : Start(w) \/ Die(w) \/ Claim(w) \/ Handle(w) \/ Exchange(w)

Spec == Init /\ [][Next]_vars

\* A worker goes on until it is killed, and every transport call ends: connects and reads time out.
Fairness == \A w \in Workers : WF_vars(Handle(w) \/ Exchange(w))

FairSpec == Spec /\ Fairness
-----------------------------------------------------------------------------
Places == {"off", "idle", "dead", "loading", "reusing", "planning", "before", "sending", "after",
           "finishing", "writing", "written", "failing", "in doubt"}

Working == Places \ {"off", "idle", "dead"}

\* Every variable holds a value of its kind, no reduce level passes note_max_reduce_levels and a
\* worker has an answer in hand exactly while it is about to parse it.
TypeOK ==
    /\ row.status \in {"queued", "running", "cancel_requested", "canceled", "failed", "completed"}
    /\ row.attempt \in 1..attempts
    /\ row.gen \in 0..Cardinality(Workers)
    /\ row.owner \in Workers \cup {NoWorker}
    /\ row.live => row.owner # NoWorker
    /\ pc \in [Workers -> Places]
    /\ \A w \in Workers :
         /\ level[w].depth \in 0..MaxLevels
         /\ call[w].address \in 0..adapter.addresses
         /\ (reply[w] # NoReply) <=> (pc[w] = "after")
         /\ kind = "notes" => \A n \in ToSet(out[w]) : n \in Nodes
         /\ pc[w] = "sending" => todo[w] # <<>>

\* Whatever the batches, the retries in halves and the answers, the entries a translation has so
\* far and the cues still to be sent are the cues of the transcript, each once and in order: the
\* final validate_against of translation.py has nothing to reject.
EveryCueOnce ==
    kind = "translate" =>
      /\ \A w \in Workers :
           pc[w] \in {"before", "sending", "after", "finishing", "writing"}
             => out[w] \o FlattenSeq([i \in DOMAIN todo[w] |-> todo[w][i].of]) = Transcript
      /\ \A k \in DOMAIN file : file[k] # NoDoc => file[k] = Transcript

\* Merging never broadens the lineage of a note: through every reduce level, a note in the making
\* and a written one cite only cues that notes taken from the transcript cited (notes.py,
\* allowed_ids).
CitesEvidence ==
    kind = "notes" =>
      /\ \A w \in Workers : \A n \in ToSet(out[w]) : n.cites \subseteq n.evidence
      /\ \A k \in DOMAIN file : file[k] # NoDoc =>
           Len(file[k]) = 1 /\ file[k][1].cites \subseteq file[k][1].evidence

\* A request that may have been billed and was never answered is not sent again, by the adapter,
\* by the stage or by a retry, unless the user acknowledged the charge.  What the row cannot tell
\* is left out: a worker that lost the run or was canceled while it waited.
NeverPaidTwiceUnasked == doubt # "repaid"

\* Whatever the sizes, no request is larger than max_request_bytes and no translation asks for more
\* cues than translation_batch_cues, be it a batch, a part of one that is sent again, a chunk, or a
\* group of notes that became too large to merge: the checks before each call have nothing to
\* reject, so no answer already paid for is given up there (translation.py:213, notes.py:578).
RequestsFit ==
    \A w \in Workers : pc[w] = "sending" =>
      LET part == Head(todo[w])
      IN  /\ IF part.op = "reduce" THEN FitsReduce(part.of) ELSE FitsRequest(part.of)
          /\ part.op \in {"translate", "again"} => Len(part.of) <= BatchCues

\* A handler always comes to an end: retries of a batch, reduce levels and retries of a call are
\* bounded (the loops of translation.py and notes.py).
HandlerEnds == \A w \in Workers : pc[w] \in Working ~> pc[w] \in {"idle", "dead"}
=============================================================================
