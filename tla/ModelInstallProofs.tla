------------------------- MODULE ModelInstallProofs -------------------------
(***************************************************************************)
(* Proofs about ModelInstall for every number of files, chunks, versions,  *)
(* deaths and faults: types, the directory recognition loads models from,  *)
(* and the partial file of a resumed download.                             *)
(***************************************************************************)
EXTENDS ModelInstall, TLAPS

\* What the installer knows of the partial file.  While it writes, the checkpoint names the
\* version it writes; what it resumes is of the version the checkpoint names, unless staging
\* was moved away under it.
PartInv ==
    /\ PartIsOneVersion
    /\ row.etag = NoTag \/ part.of \subseteq {row.etag}
    /\ At("body") => /\ part.there
                     /\ part.len = worker.at
                     /\ worker.etag = row.etag
                     /\ row.etag # NoTag
    /\ At("record") => worker.etag # NoTag
    /\ (At("get") \/ At("record")) /\ worker.at > 0
          => /\ worker.etag = row.etag
             /\ row.etag # NoTag
             /\ worker.lost \/ (part.there /\ part.len = worker.at)
    /\ worker.lost => (At("get") \/ At("record")) /\ part = NoPart
    /\ ~part.there => part = NoPart
    /\ worker.pc \in {"get", "record", "body", "check", "complete"} => row.done < N
    /\ At("complete") => part = NoPart

StoreInv ==
    /\ InstalledIsWhole
    /\ At("commit") => store = Files

IInv == TypeOK /\ PartInv /\ StoreInv

LEMMA InitInv == Init => IInv
BY InstallAssumption
   DEF InstallAssumption, Init, IInv, TypeOK, PartInv, StoreInv, PartIsOneVersion, InstalledIsWhole, NewRow, NoPart,
       Idle, NoCall, Tags, Rows, RowStates, Parts, Workers, Pcs, HeldRows, Held, Files, At

-----------------------------------------------------------------------------
(* What the shared steps do *)

LEMMA Zeros == 0 \in 0 .. Size /\ NoTag \in Tags /\ N \in 0 .. N /\ N \in Nat /\ N # 0
  BY InstallAssumption DEF InstallAssumption, Tags

LEMMA Counted ==
    ASSUME NEW r \in Rows, r.done + 1 \in 0 .. N, NEW s \in {"verifying", "queued"}
    PROVE  LET v == Unleased([r EXCEPT !.done = @ + 1, !.bytes = 0, !.etag = NoTag, !.state = s])
           IN  v \in Rows /\ v.state = s /\ v.etag = NoTag
  BY Zeros DEF Rows, RowStates, Unleased

LEMMA VersionsAreTags == \A e \in Etags : e \in Tags /\ e # NoTag
  BY InstallAssumption DEF InstallAssumption, Tags

\* What release_for_retry leaves alone.
LEMMA Released ==
    ASSUME TypeOK, ReleaseForRetry
    PROVE  /\ row' \in Rows
           /\ row'.etag = row.etag /\ row'.done = row.done /\ row'.bytes = row.bytes
           /\ row'.state = row.state \/ row'.state = "queued"
           /\ worker' = Idle
<1>1. CASE row.state = "downloading" /\ row.owner = "me"
  BY <1>1 DEF TypeOK, ReleaseForRetry, Unleased, Rows, RowStates, Rest
<1>2. CASE ~(row.state = "downloading" /\ row.owner = "me")
  BY <1>2 DEF TypeOK, ReleaseForRetry, Rest
<1> QED
  BY <1>1, <1>2

LEMMA Flushed ==
    ASSUME TypeOK, NEW saw \in HeldRows, NEW wanted \in HeldRows, Flush(saw, wanted)
    PROVE  /\ row' \in Rows
           /\ row'.etag = row.etag /\ row'.done = row.done
           /\ row'.state = row.state \/ row'.state = wanted.state
  BY DEF TypeOK, Flush, Newer, HeldRows, Rows

LEMMA IdleType == Idle \in Workers /\ Idle.pc = "idle" /\ ~Idle.lost /\ NoCall \in [pc : {"idle", "read", "moved"}, saw : HeldRows]
  BY InstallAssumption
     DEF InstallAssumption, Idle, Workers, Pcs, Tags, HeldRows, Held, NewRow, RowStates, NoCall

LEMMA PartTypes ==
    /\ NoPart \in Parts
    /\ [there |-> TRUE, len |-> 0, of |-> {}] \in Parts
  BY InstallAssumption DEF InstallAssumption, NoPart, Parts

LEMMA PartChanges ==
    ASSUME part \in Parts, NEW n \in 0 .. Size, NEW s \in SUBSET Etags,
           part' = [part EXCEPT !.len = n, !.of = s]
    PROVE  /\ part' \in Parts
           /\ part'.there = part.there /\ part'.len = n /\ part'.of = s
  BY DEF Parts

LEMMA Progressed ==
    ASSUME TypeOK, NEW n \in 0 .. Size, NEW e \in Tags, NEW l \in {"live", "none"},
           row' = [row EXCEPT !.bytes = n, !.etag = e, !.lease = l]
    PROVE  /\ row' \in Rows
           /\ row'.state = row.state /\ row'.done = row.done
           /\ row'.etag = e /\ row'.bytes = n
  BY DEF TypeOK, Rows

\* A step that keeps the file and the checkpoint, and leaves the installer where it was.
LEMMA Quiet ==
    ASSUME PartInv, UNCHANGED <<part, worker>>, row'.etag = row.etag, row'.done = row.done
    PROVE  PartInv'
  BY DEF PartInv, PartIsOneVersion, At, NoPart

\* A step after which the installer does not hold the file: it is kept or gone.
LEMMA Away ==
    ASSUME PartInv, part' = part \/ part' = NoPart, row'.etag = row.etag \/ part' = NoPart,
           worker'.pc \notin {"get", "record", "body", "complete"}, ~worker'.lost,
           worker'.pc = "check" => row'.done < N
    PROVE  PartInv'
  BY DEF PartInv, PartIsOneVersion, At, NoPart
-----------------------------------------------------------------------------
(* The steps *)

LEMMA ApiInv == IInv /\ ApiStep => IInv'
<1> SUFFICES ASSUME IInv, ApiStep PROVE IInv'
  OBVIOUS
<1> USE Zeros DEF IInv
<1>1. CASE RequestInstall
  <2>1. row' \in Rows /\ faults' \in 0 .. Faults /\ deaths' = deaths
    <3>1. row' \in Rows
      BY <1>1 DEF RequestInstall, TypeOK, Rows, RowStates
    <3>2. faults' \in 0 .. Faults /\ deaths' = deaths
      BY InstallAssumption, <1>1 DEF InstallAssumption, RequestInstall, TypeOK, Bounds, CanFail
    <3> QED
      BY <3>1, <3>2
  <2>4. TypeOK'
    BY <1>1, <2>1 DEF RequestInstall, TypeOK, Staging
  <2>2. PartInv'
    BY <1>1, Quiet DEF RequestInstall, TypeOK, Rows, Staging
  <2>3. StoreInv'
    BY <1>1 DEF RequestInstall, TypeOK, Rows, StoreInv, InstalledIsWhole, At
  <2> QED
    BY <2>4, <2>2, <2>3
<1>2. CASE CancelRunning
  <2>1. TypeOK'
    BY <1>2 DEF CancelRunning, TypeOK, Rows, Staging, Bounds
  <2>2. PartInv'
    BY <1>2, Quiet DEF CancelRunning, TypeOK, Rows, Staging
  <2>3. StoreInv'
    BY <1>2 DEF CancelRunning, TypeOK, Rows, StoreInv, InstalledIsWhole, At
  <2> QED
    BY <2>1, <2>2, <2>3
<1>3. CASE CancelReads \/ ApiDies
  <2>1. TypeOK'
    BY InstallAssumption, <1>3, IdleType
       DEF InstallAssumption, CancelReads, ApiDies, TypeOK, Rows, Held, HeldRows, Staging, Bounds, CanFail
  <2>2. PartInv'
    BY <1>3, Quiet DEF CancelReads, ApiDies, Staging
  <2>3. StoreInv'
    BY <1>3 DEF CancelReads, ApiDies, StoreInv, InstalledIsWhole, At
  <2> QED
    BY <2>1, <2>2, <2>3
<1>4. CASE CancelMoves
  <2>0. CASE At("body")
    <3>1. TypeOK'
      BY <1>4, <2>0, IdleType DEF CancelMoves, TypeOK, Staging, Bounds
    <3>2. PartInv'
      BY <1>4, <2>0, Quiet DEF CancelMoves, Staging
    <3>3. StoreInv'
      BY <1>4, <2>0 DEF CancelMoves, StoreInv, InstalledIsWhole, At
    <3> QED
      BY <3>1, <3>2, <3>3
  <2>1. CASE ~At("body")
    <3>1. /\ worker' \in Workers
          /\ worker'.pc = worker.pc /\ worker'.at = worker.at /\ worker'.etag = worker.etag
          /\ worker'.lost = (worker.lost \/ At("get") \/ At("record"))
      BY <1>4, <2>1 DEF CancelMoves, TypeOK, Workers, At
    <3>2. part' = NoPart /\ part' \in Parts /\ final' = {} /\ UNCHANGED <<row, store>>
      BY <1>4, <2>1, PartTypes DEF CancelMoves, TrashStaging
    <3>3. TypeOK'
      BY <1>4, <2>1, <3>1, <3>2 DEF CancelMoves, TypeOK, Bounds
    <3>4. PartInv'
      BY <2>1, <3>1, <3>2 DEF PartInv, PartIsOneVersion, At, NoPart
    <3>5. StoreInv'
      BY <3>1, <3>2 DEF StoreInv, InstalledIsWhole, At
    <3> QED
      BY <3>3, <3>4, <3>5
  <2> QED
    BY <2>0, <2>1
<1>5. CASE CancelCommits
  <2> DEFINE wanted == [Canceled(api.saw) EXCEPT !.cancel = TRUE]
  <2>1. wanted \in HeldRows /\ wanted.state = "canceled"
    BY DEF TypeOK, HeldRows, RowStates, Canceled, Unleased
  <2>2. /\ row' \in Rows
        /\ row'.etag = row.etag /\ row'.done = row.done
        /\ row'.state = row.state \/ row'.state = "canceled"
    BY <1>5, <2>1, Flushed DEF CancelCommits, TypeOK
  <2>3. TypeOK'
    BY <1>5, <2>2, IdleType DEF CancelCommits, TypeOK, Staging, Bounds
  <2>4. PartInv'
    BY <1>5, <2>2, Quiet DEF CancelCommits, Staging
  <2>5. StoreInv'
    BY <1>5, <2>2 DEF CancelCommits, StoreInv, InstalledIsWhole, At
  <2> QED
    BY <2>3, <2>4, <2>5
<1> QED
  BY <1>1, <1>2, <1>3, <1>4, <1>5 DEF ApiStep

LEMMA DownloadInv == IInv /\ (Claim \/ Look \/ Download \/ GetFails \/ BodyBreaks) => IInv'
<1> SUFFICES ASSUME IInv, Claim \/ Look \/ Download \/ GetFails \/ BodyBreaks PROVE IInv'
  OBVIOUS
<1> USE Zeros DEF IInv
<1>1. CASE Claim
  <2>1. TypeOK'
    BY <1>1 DEF Claim, TypeOK, Rows, RowStates, Workers, Pcs, Go, Staging, Bounds
  <2>2. PartInv'
    BY <1>1, Away DEF Claim, TypeOK, Rows, Workers, Go, Staging, PartInv, At
  <2>3. StoreInv'
    BY <1>1 DEF Claim, TypeOK, Rows, Workers, Go, StoreInv, InstalledIsWhole, At
  <2> QED
    BY <2>1, <2>2, <2>3
<1>2. CASE Look
  <2>1. Held(row) \in HeldRows
    BY DEF TypeOK, Held, HeldRows, Rows
  <2>2. CASE worker' = [worker EXCEPT !.pc = "get", !.at = Offset, !.etag = row.etag]
    <3>1. Offset \in 0 .. Size /\ (Offset > 0 => Resumes /\ part.len = Offset)
      BY DEF Offset, Resumes, TypeOK, Rows
    <3>2. worker' \in Workers /\ worker'.pc = "get" /\ worker'.at = Offset /\ worker'.etag = row.etag
      BY <2>2, <3>1 DEF TypeOK, Rows, Workers, Pcs
    <3>3. worker'.lost = worker.lost
      BY <2>2 DEF TypeOK, Workers
    <3>0. row.done < N
      <4>1. ~Rest /\ worker' # [worker EXCEPT !.pc = "canceling", !.saw = Held(row)]
        <5>1. [worker EXCEPT !.pc = "canceling", !.saw = Held(row)].pc = "canceling"
          BY DEF TypeOK, Workers
        <5> QED
          BY <3>2, <5>1, IdleType DEF Rest
      <4>2. row.done # N
        BY <1>2, <4>1 DEF Look
      <4>3. row.done \in 0 .. N
        BY DEF TypeOK, Rows
      <4> QED
        BY <4>2, <4>3
    <3>4. worker.lost => part = NoPart
      BY <1>2 DEF Look, PartInv, At, NoPart
    <3>5. PartInv'
      BY <1>2, <3>0, <3>1, <3>2, <3>3, <3>4 DEF Look, PartInv, PartIsOneVersion, At, Resumes, Staging, NoPart
    <3> QED
      BY <1>2, <3>2, <3>5 DEF Look, TypeOK, Staging, Bounds, StoreInv, InstalledIsWhole, At
  <2>3. CASE worker' = [worker EXCEPT !.pc = "canceling", !.saw = Held(row)] \/ Rest
    <3>1. worker' \in Workers /\ worker'.pc \in {"canceling", "idle"} /\ ~worker'.lost
      BY <1>2, <2>1, <2>3, IdleType DEF Look, Rest, TypeOK, Workers, Pcs, PartInv, At
    <3>2. PartInv'
      BY <1>2, <3>1, Away DEF Look, Staging
    <3> QED
      BY <1>2, <3>1, <3>2 DEF Look, TypeOK, Staging, Bounds, StoreInv, InstalledIsWhole, At
  <2> QED
    BY <1>2, <2>2, <2>3 DEF Look
<1>3. CASE GetRest \/ GetWhole
  <2>1. /\ worker' \in Workers /\ worker'.pc = "record" /\ worker'.lost = worker.lost
        /\ worker'.etag # NoTag
        /\ worker'.at > 0 => worker'.at = worker.at /\ worker'.etag = worker.etag
    <3>1. CASE GetRest
      BY <3>1 DEF GetRest, TypeOK, Workers, Pcs, Go, PartInv, At
    <3>2. CASE GetWhole
      <4>1. PICK e \in Etags : worker' = [worker EXCEPT !.pc = "record", !.at = 0, !.etag = e]
        BY <3>2 DEF GetWhole
      <4>2. e \in Tags /\ e # NoTag
        BY VersionsAreTags
      <4>3. worker \in Workers /\ "record" \in Pcs
        BY DEF TypeOK, Pcs
      <4> QED
        <5>1. worker' \in Workers /\ worker'.pc = "record" /\ worker'.lost = worker.lost
          BY <4>1, <4>2, <4>3 DEF Workers
        <5>2. worker'.at = 0 /\ worker'.etag = e
          BY <4>1, <4>3 DEF Workers
        <5> QED
          BY <4>2, <5>1, <5>2
    <3> QED
      BY <1>3, <3>1, <3>2
  <2>2. At("get") /\ UNCHANGED <<row, Staging, store, api, Bounds>>
    BY <1>3 DEF GetRest, GetWhole
  <2>3. PartInv'
    BY <2>1, <2>2 DEF PartInv, PartIsOneVersion, At, Staging, NoPart
  <2> QED
    BY <2>1, <2>2, <2>3 DEF TypeOK, StoreInv, InstalledIsWhole, At, Staging, Bounds
<1>4. CASE GetFails
  <2>1. faults' \in 0 .. Faults /\ deaths' = deaths
    BY InstallAssumption, <1>4 DEF InstallAssumption, GetFails, CanFail, TypeOK
  <2>2. worker' = Idle
    BY <1>4 DEF GetFails, ReleaseForRetry, Rest
  <2>3. CASE ReleaseForRetry /\ UNCHANGED part
    BY <1>4, <2>1, <2>2, <2>3, Released, IdleType, Away
       DEF GetFails, TypeOK, StoreInv, InstalledIsWhole, At
  <2>4. CASE ~(ReleaseForRetry /\ UNCHANGED part)
    <3>1. part' = NoPart /\ NoPart \in Parts
      BY <1>4, <2>4, PartTypes DEF GetFails
    <3>2. row' \in Rows /\ (row'.state = row.state \/ row'.state = "queued")
      <4> DEFINE r == IF row.state = "downloading"
                      THEN Unleased([row EXCEPT !.state = "queued"]) ELSE row
      <4>1. r \in Rows /\ (r.state = row.state \/ r.state = "queued")
        BY DEF TypeOK, Rows, RowStates, Unleased
      <4>2. row' = [r EXCEPT !.bytes = 0, !.etag = NoTag]
        BY <1>4, <2>4 DEF GetFails
      <4> HIDE DEF r
      <4> QED
        BY <4>1, <4>2 DEF Rows
    <3>3. PartInv'
      BY <2>2, <3>1, IdleType, Away
    <3> QED
      BY <1>4, <2>1, <2>2, <3>1, <3>2, <3>3, IdleType
         DEF GetFails, TypeOK, StoreInv, InstalledIsWhole, At
  <2> QED
    BY <2>3, <2>4
<1>5. CASE BodyBreaks
  <2>1. faults' \in 0 .. Faults /\ deaths' = deaths
    BY InstallAssumption, <1>5 DEF InstallAssumption, BodyBreaks, CanFail, TypeOK
  <2> QED
    BY <1>5, <2>1, Released, IdleType, Away
       DEF BodyBreaks, TypeOK, StoreInv, InstalledIsWhole, At, Staging
<1>6. CASE Open
  <2>1. CASE ~OwnsDownload
    BY <1>6, <2>1, Released, IdleType, Away
       DEF Open, TypeOK, StoreInv, InstalledIsWhole, At, Bounds
  <2>2. CASE OwnsDownload /\ worker.lost
    <3>1. row' \in Rows /\ row'.state = "queued" /\ worker' = Idle
      BY <1>6, <2>2 DEF Open, TypeOK, Rows, RowStates, Workers, Unleased, Rest
    <3>2. part' = NoPart
      BY <1>6, <2>2 DEF Open, PartInv
    <3> QED
      BY <1>6, <2>2, <3>1, <3>2, IdleType, Away
         DEF Open, TypeOK, StoreInv, InstalledIsWhole, At, Bounds
  <2>3. CASE OwnsDownload /\ ~worker.lost
    <3>1. /\ row' \in Rows /\ row'.state = row.state
          /\ row'.etag = worker.etag /\ row'.done = row.done
      BY <1>6, <2>3 DEF Open, TypeOK, Rows, Workers
    <3>2. /\ worker' \in Workers /\ worker'.pc = "body"
          /\ worker'.at = worker.at /\ worker'.etag = worker.etag /\ ~worker'.lost
      BY <1>6, <2>3 DEF Open, TypeOK, Workers, Pcs, Go
    <3>3. CASE worker.at > 0
      <4>1. part' = part /\ part.there /\ part.len = worker.at /\ row'.etag = row.etag
        BY <1>6, <2>3, <3>1, <3>3 DEF Open, PartInv, At
      <4>2. PartInv'
        BY <1>6, <3>1, <3>2, <3>3, <4>1 DEF Open, PartInv, PartIsOneVersion, At
      <4> QED
        BY <1>6, <3>1, <3>2, <4>1, <4>2 DEF Open, TypeOK, StoreInv, InstalledIsWhole, At, Bounds
    <3>4. CASE worker.at = 0
      <4>0. part' = [there |-> TRUE, len |-> 0, of |-> {}]
        BY <1>6, <2>3, <3>4 DEF Open
      <4>1. part' = [there |-> TRUE, len |-> 0, of |-> {}] /\ part' \in Parts
        BY <4>0, PartTypes
      <4>2. PartInv'
        BY <1>6, <3>1, <3>2, <3>4, <4>1 DEF Open, PartInv, PartIsOneVersion, At
      <4> QED
        BY <1>6, <3>1, <3>2, <4>1, <4>2 DEF Open, TypeOK, StoreInv, InstalledIsWhole, At, Bounds
    <3> QED
      BY <3>3, <3>4 DEF TypeOK, Workers
  <2> QED
    BY <2>1, <2>2, <2>3
<1>7. CASE Chunk
  <2>1. CASE row.owner = "me" /\ row.cancel
    <3>1. worker' \in Workers /\ worker'.pc = "canceling" /\ ~worker'.lost
      <4>1. Held(row) \in HeldRows
        BY DEF TypeOK, Held, HeldRows, Rows
      <4>2. worker' = [worker EXCEPT !.pc = "canceling", !.saw = Held(row)] /\ ~worker.lost
        BY <1>7, <2>1 DEF Chunk, PartInv, At
      <4> QED
        BY <4>1, <4>2 DEF TypeOK, Workers, Pcs
    <3> QED
      BY <1>7, <2>1, <3>1, Away DEF Chunk, TypeOK, StoreInv, InstalledIsWhole, At, Bounds
  <2>2. CASE ~(row.owner = "me" /\ row.cancel)
    <3>1. part' = [part EXCEPT !.len = @ + 1, !.of = @ \cup {worker.etag}]
      BY <1>7, <2>2 DEF Chunk
    <3>2. /\ part.there /\ part.len = worker.at /\ worker.at < Size
          /\ worker.etag = row.etag /\ row.etag # NoTag /\ row.etag \in Etags
          /\ part.of \subseteq {row.etag} /\ ~worker.lost
      BY <1>7 DEF Chunk, PartInv, At, TypeOK, Rows, Tags
    <3>3. /\ part' \in Parts /\ part'.there /\ part'.len = worker.at + 1
          /\ part'.of = {row.etag}
      <4>1. part.len + 1 \in 0 .. Size /\ part.of \cup {worker.etag} \in SUBSET Etags
        BY InstallAssumption, <3>2 DEF InstallAssumption, TypeOK, Workers, Parts
      <4>2. part.of \cup {worker.etag} = {row.etag}
        BY <3>2
      <4> QED
        <5> DEFINE n == part.len + 1
                   s == part.of \cup {worker.etag}
        <5>1. part' = [part EXCEPT !.len = n, !.of = s] /\ part \in Parts
          BY <3>1 DEF TypeOK
        <5>2. n \in 0 .. Size /\ s \in SUBSET Etags /\ n = worker.at + 1 /\ s = {row.etag}
          BY <3>2, <4>1, <4>2
        <5> HIDE DEF n, s
        <5>3. part' \in Parts /\ part'.there = part.there /\ part'.len = n /\ part'.of = s
          BY <5>1, <5>2, PartChanges
        <5> QED
          BY <3>2, <5>2, <5>3
    <3>4. CASE ReleaseForRetry
      <4>1. PartInv'
        BY <3>3, <3>4, Released, IdleType DEF PartInv, PartIsOneVersion, At
      <4> QED
        BY <1>7, <3>3, <3>4, <4>1, Released, IdleType
           DEF Chunk, TypeOK, StoreInv, InstalledIsWhole, At, Bounds
    <3>5. CASE ~ReleaseForRetry
      <4>1. /\ worker' \in Workers /\ worker'.pc = "body" /\ worker'.at = worker.at + 1
            /\ worker'.etag = worker.etag /\ ~worker'.lost
        BY InstallAssumption, <1>7, <2>2, <3>2, <3>5 DEF InstallAssumption, Chunk, TypeOK, Workers, At
      <4>2. row' \in Rows /\ row'.state = row.state /\ row'.etag = row.etag /\ row'.done = row.done
        <5>1. CASE UNCHANGED row
          BY <5>1 DEF TypeOK
        <5>2. CASE row' = [row EXCEPT !.bytes = worker.at + 1, !.etag = worker.etag,
                                      !.lease = "live"]
          <6>1. worker.at + 1 \in 0 .. Size /\ worker.etag \in Tags
            BY InstallAssumption, <3>2 DEF InstallAssumption, TypeOK, Workers, Tags
          <6> QED
            BY <3>2, <5>2, <6>1, Progressed
        <5> QED
          BY <1>7, <2>2, <3>5, <5>1, <5>2 DEF Chunk
      <4>3. PartInv'
        BY <1>7, <3>2, <3>3, <4>1, <4>2 DEF Chunk, PartInv, PartIsOneVersion, At
      <4> QED
        BY <1>7, <3>3, <4>1, <4>2, <4>3 DEF Chunk, TypeOK, StoreInv, InstalledIsWhole, At, Bounds
    <3> QED
      BY <3>4, <3>5
  <2> QED
    BY <2>1, <2>2
<1>8. CASE BodyEnds
  <2>1. faults' \in 0 .. Faults
    BY InstallAssumption, <1>8 DEF InstallAssumption, BodyEnds, TypeOK
  <2>2. CASE ReleaseForRetry
    BY <1>8, <2>1, <2>2, Released, IdleType, Away
       DEF BodyEnds, TypeOK, StoreInv, InstalledIsWhole, At, Staging
  <2>3. CASE ~ReleaseForRetry
    <3>1. worker.etag \in Tags /\ worker.at \in 0 .. Size /\ ~worker.lost /\ worker.etag = row.etag
      BY <1>8 DEF BodyEnds, TypeOK, Workers, PartInv, At
    <3>2. row' = [row EXCEPT !.bytes = worker.at, !.etag = worker.etag, !.lease = "live"]
      BY <1>8, <2>3 DEF BodyEnds
    <3>3. row' \in Rows /\ row'.state = row.state /\ row'.etag = row.etag /\ row'.done = row.done
      BY <3>1, <3>2, Progressed
    <3>4. worker' \in Workers /\ worker'.pc = "check" /\ ~worker'.lost
      BY <1>8, <2>3, <3>1 DEF BodyEnds, TypeOK, Workers, Pcs, Go
    <3>5. row.done < N
      BY <1>8 DEF BodyEnds, PartInv, At
    <3>6. PartInv'
      BY <1>8, <3>3, <3>4, <3>5, Away DEF BodyEnds, Staging
    <3> QED
      BY <1>8, <2>1, <3>3, <3>4, <3>6
         DEF BodyEnds, TypeOK, StoreInv, InstalledIsWhole, At, Staging
  <2> QED
    BY <2>2, <2>3
<1>9. CASE CheckHash
  <2>1. CASE Verified
    <3>1. row.done + 1 \in Files /\ row.done < N
      BY <1>9 DEF CheckHash, PartInv, At, TypeOK, Rows, Files
    <3>2. final' = final \cup {row.done + 1} /\ part' = NoPart /\ Go("complete")
      BY <1>9, <2>1 DEF CheckHash
    <3>3. UNCHANGED <<row, store, api, deaths, faults>>
      BY <1>9, <2>1 DEF CheckHash, Bounds
    <3>4. worker' \in Workers /\ worker'.pc = "complete" /\ ~worker'.lost
      BY <1>9, <3>2 DEF CheckHash, Go, TypeOK, Workers, Pcs, PartInv, At
    <3>5. PartInv'
      BY <3>1, <3>2, <3>3, <3>4 DEF PartInv, PartIsOneVersion, At, NoPart
    <3> QED
      BY <3>1, <3>2, <3>3, <3>4, <3>5, PartTypes DEF TypeOK, StoreInv, InstalledIsWhole, At
  <2>2. CASE ~Verified /\ worker.at = Size /\ ~part.there
    BY <1>9, <2>2, Released, IdleType, Away
       DEF CheckHash, TypeOK, StoreInv, InstalledIsWhole, At, Staging, Bounds
  <2>3. CASE ~Verified /\ ~(worker.at = Size /\ ~part.there)
    <3>1. worker' \in Workers /\ worker'.pc \in {"failing", "idle"} /\ ~worker'.lost
      <4>1. CASE row.owner = "me"
        <5>1. Held(row) \in HeldRows
          BY DEF TypeOK, Held, HeldRows, Rows
        <5> QED
          BY <1>9, <2>3, <4>1, <5>1 DEF CheckHash, TypeOK, Workers, Pcs, PartInv, At
      <4>2. CASE row.owner # "me"
        BY <1>9, <2>3, <4>2, IdleType DEF CheckHash, Rest
      <4> QED
        BY <4>1, <4>2
    <3>2. UNCHANGED <<row, part, final, store, api, deaths, faults>>
      BY <1>9, <2>3 DEF CheckHash, Staging, Bounds
    <3> QED
      BY <3>1, <3>2, Away DEF TypeOK, StoreInv, InstalledIsWhole, At
  <2> QED
    BY <2>1, <2>2, <2>3
<1>10. CASE CompleteFile
  <2>1. CASE OwnsDownload /\ row.done < N /\ row.bytes = Size
    <3>1. /\ row' \in Rows /\ row'.state \in {"verifying", "queued"} /\ row'.etag = NoTag
          /\ worker' \in Workers /\ worker'.pc \in {"publish", "idle"} /\ ~worker'.lost
      <4>1. row.done + 1 \in 0 .. N
        BY <2>1 DEF TypeOK, Rows
      <4>2. row \in Rows /\ worker \in Workers /\ ~worker.lost
        BY <1>10 DEF TypeOK, CompleteFile, PartInv, At
      <4>3. CASE row.done + 1 = N
        <5>1. /\ row' = Unleased([row EXCEPT !.done = @ + 1, !.bytes = 0, !.etag = NoTag,
                                             !.state = "verifying"])
              /\ Go("publish")
          BY <1>10, <2>1, <4>3 DEF CompleteFile
        <5> QED
          BY <4>1, <4>2, <5>1, Counted DEF Go, Workers, Pcs
      <4>4. CASE row.done + 1 # N
        <5>1. /\ row' = Unleased([row EXCEPT !.done = @ + 1, !.bytes = 0, !.etag = NoTag,
                                             !.state = "queued"])
              /\ worker' = Idle
          BY <1>10, <2>1, <4>4 DEF CompleteFile, Rest
        <5> QED
          BY <4>1, <4>2, <5>1, Counted, IdleType
      <4> QED
        BY <4>3, <4>4
    <3>2. UNCHANGED <<part, final, store, api, deaths, faults>>
      BY <1>10 DEF CompleteFile, Staging, Bounds
    <3>3. part = NoPart
      BY <1>10 DEF CompleteFile, PartInv
    <3>4. PartInv'
      BY <3>1, <3>2, <3>3, Away
    <3> QED
      BY <3>1, <3>2, <3>4 DEF TypeOK, StoreInv, InstalledIsWhole, At
  <2>2. CASE ~(OwnsDownload /\ row.done < N /\ row.bytes = Size)
    BY <1>10, <2>2, Released, IdleType, Away
       DEF CompleteFile, TypeOK, StoreInv, InstalledIsWhole, At, Staging, Bounds
  <2> QED
    BY <2>1, <2>2
<1> QED
  BY <1>1, <1>2, <1>3, <1>4, <1>5, <1>6, <1>7, <1>8, <1>9, <1>10 DEF Download

LEMMA ConcludeInv == IInv /\ Conclude => IInv'
<1> SUFFICES ASSUME IInv, Conclude PROVE IInv'
  OBVIOUS
<1> USE Zeros DEF IInv
<1>1. CASE PublishMoves
  <2>1. CASE final = Files /\ store = {}
    <3>1. /\ worker' \in Workers /\ worker'.pc = "commit" /\ ~worker'.lost
          /\ store' = Files /\ part' = NoPart /\ final' = {}
          /\ UNCHANGED <<row, api, deaths, faults>>
      BY <1>1, <2>1
         DEF PublishMoves, TrashStaging, Go, TypeOK, Workers, Pcs, PartInv, At, Bounds
    <3>2. PartInv'
      BY <3>1, Away
    <3> QED
      BY <3>1, <3>2, PartTypes DEF TypeOK, StoreInv, InstalledIsWhole, At
  <2>2. CASE ~(final = Files /\ store = {})
    <3>1. worker' = Idle /\ UNCHANGED <<row, part, final, store, api, deaths, faults>>
      BY <1>1, <2>2 DEF PublishMoves, Rest, Staging, Bounds
    <3> QED
      BY <3>1, IdleType, Away DEF TypeOK, StoreInv, InstalledIsWhole, At
  <2> QED
    BY <2>1, <2>2
<1>2. CASE PublishCommits
  <2>1. row' \in Rows /\ row'.etag = NoTag
    BY <1>2 DEF PublishCommits, TypeOK, Rows, RowStates, Unleased
  <2>2. worker' = Idle /\ store = Files /\ UNCHANGED <<part, final, store, api, deaths, faults>>
    BY <1>2 DEF PublishCommits, Rest, Staging, Bounds, StoreInv
  <2>3. PartInv'
    BY <2>1, <2>2, IdleType DEF PartInv, PartIsOneVersion, At, NoPart
  <2> QED
    BY <2>1, <2>2, <2>3, IdleType DEF TypeOK, StoreInv, InstalledIsWhole, At
<1>3. CASE MoveAside
  <2>1. /\ part' = NoPart /\ final' = {} /\ UNCHANGED <<row, store, worker, api, deaths, faults>>
        /\ worker.pc \in {"canceling", "failing"} /\ ~worker.lost
    BY <1>3 DEF MoveAside, TrashStaging, Bounds, PartInv, At
  <2>2. PartInv'
    BY <2>1, Away
  <2> QED
    BY <2>1, <2>2, PartTypes DEF TypeOK, StoreInv, InstalledIsWhole, At
<1>4. CASE FinishCancel \/ FailAndTrash
  <2>1. /\ row' \in Rows /\ row'.etag = row.etag /\ row'.done = row.done
        /\ row'.state = row.state \/ row'.state \in {"canceled", "failed"}
    <3>1. worker.saw \in HeldRows
      BY DEF TypeOK, Workers
    <3>2. CASE FinishCancel
      <4>1. Canceled(worker.saw) \in HeldRows /\ Canceled(worker.saw).state = "canceled"
        BY <3>1 DEF HeldRows, RowStates, Canceled, Unleased
      <4> QED
        BY <3>1, <3>2, <4>1, Flushed DEF FinishCancel
    <3>3. CASE FailAndTrash
      <4> DEFINE wanted == Unleased([worker.saw EXCEPT !.state = "failed"])
      <4>1. wanted \in HeldRows /\ wanted.state = "failed"
        BY <3>1 DEF HeldRows, RowStates, Unleased
      <4>2. Flush(worker.saw, wanted)
        BY <3>3 DEF FailAndTrash
      <4> HIDE DEF wanted
      <4> QED
        BY <3>1, <4>1, <4>2, Flushed
    <3> QED
      BY <1>4, <3>2, <3>3
  <2>2. worker' = Idle /\ UNCHANGED <<part, final, store, api, deaths, faults>>
    BY <1>4 DEF FinishCancel, FailAndTrash, Rest, Staging, Bounds
  <2> QED
    BY <2>1, <2>2, IdleType, Away DEF TypeOK, StoreInv, InstalledIsWhole, At
<1> QED
  BY <1>1, <1>2, <1>3, <1>4 DEF Conclude

LEMMA EnvironmentInv == IInv /\ (LeaseExpires \/ Die \/ Start) => IInv'
<1> SUFFICES ASSUME IInv, LeaseExpires \/ Die \/ Start PROVE IInv'
  OBVIOUS
<1> USE Zeros DEF IInv
<1>1. CASE LeaseExpires
  <2>1. /\ row' \in Rows
        /\ row'.state = row.state /\ row'.etag = row.etag /\ row'.done = row.done
    BY <1>1 DEF LeaseExpires, TypeOK, Rows
  <2>2. faults' \in 0 .. Faults /\ deaths' = deaths
    BY <1>1, InstallAssumption DEF InstallAssumption, LeaseExpires, CanFail, TypeOK, Bounds
  <2>3. UNCHANGED <<part, final, store, worker, api>>
    BY <1>1 DEF LeaseExpires, Staging
  <2> QED
    BY <2>1, <2>2, <2>3, Quiet DEF TypeOK, StoreInv, InstalledIsWhole, At
<1>2. CASE Die
  <2>1. /\ row' \in Rows
        /\ row'.state = row.state /\ row'.etag = row.etag /\ row'.done = row.done
    BY <1>2 DEF Die, Ended, TypeOK, Rows
  <2>2. api' \in [pc : {"idle", "read", "moved"}, saw : HeldRows]
    BY <1>2 DEF Die, Ended, TypeOK, HeldRows
  <2>3. worker' \in Workers /\ worker'.pc = "down" /\ ~worker'.lost
    BY <1>2, IdleType DEF Die, Idle, Workers, Pcs
  <2>4. deaths' \in 0 .. Deaths /\ UNCHANGED <<final, store, faults>>
    <3>1. deaths < Deaths /\ deaths' = deaths + 1 /\ UNCHANGED <<final, store, faults>>
      BY <1>2 DEF Die
    <3>2. deaths \in 0 .. Deaths /\ Deaths \in Nat
      BY InstallAssumption DEF InstallAssumption, TypeOK
    <3> QED
      BY <3>1, <3>2
  <2>5. CASE UNCHANGED part
    BY <2>1, <2>2, <2>3, <2>4, <2>5, Away DEF TypeOK, StoreInv, InstalledIsWhole, At
  <2>6. CASE ~UNCHANGED part
    <3>1. PICK n \in 0 .. (part.len - 1) :
             part' = [part EXCEPT !.len = n, !.of = IF n = 0 THEN {} ELSE @]
      BY <1>2, <2>6 DEF Die
    <3>2. At("body") /\ part.len > 0
      BY <1>2, <2>6 DEF Die
    <3> DEFINE s == IF n = 0 THEN {} ELSE part.of
    <3>3. /\ n \in 0 .. Size /\ s \in SUBSET Etags /\ part' = [part EXCEPT !.len = n, !.of = s]
          /\ s \subseteq part.of
      BY <3>1, InstallAssumption DEF InstallAssumption, TypeOK, Parts
    <3> HIDE DEF s
    <3>4. part' \in Parts /\ part'.there = part.there /\ part'.of = s
      BY <3>3, PartChanges DEF TypeOK
    <3>5. PartInv'
      BY <2>1, <2>3, <3>2, <3>3, <3>4 DEF PartInv, PartIsOneVersion, At
    <3> QED
      BY <2>1, <2>2, <2>3, <2>4, <3>4, <3>5 DEF TypeOK, StoreInv, InstalledIsWhole, At
  <2> QED
    BY <2>5, <2>6
<1>3. CASE Start
  <2>1. worker' = Idle /\ UNCHANGED <<row, part, final, store, api, deaths, faults>>
    BY <1>3 DEF Start, Rest, Staging, Bounds
  <2> QED
    BY <2>1, IdleType, Away DEF TypeOK, StoreInv, InstalledIsWhole, At
<1> QED
  BY <1>1, <1>2, <1>3

LEMMA StutterInv == IInv /\ UNCHANGED vars => IInv'
  BY Quiet DEF vars, IInv, TypeOK, StoreInv, InstalledIsWhole, At

-----------------------------------------------------------------------------
(* The theorems *)

LEMMA Invariance == Spec => []IInv
<1>1. IInv /\ [Next]_vars => IInv'
  BY ApiInv, DownloadInv, ConcludeInv, EnvironmentInv, StutterInv DEF Next, WorkerStep
<1> QED
  BY InitInv, <1>1, PTL DEF Spec

\* Every reachable state of the row, the files and the installer has its type.
THEOREM TypeCorrect == Spec => []TypeOK
<1>1. IInv => TypeOK
  BY DEF IInv
<1> QED
  BY Invariance, <1>1, PTL

\* The directory recognition loads models from is complete whenever it exists, and a row that
\* says installed is right, for any number of files, deaths and faults (publish_verified).
THEOREM InstalledCorrect == Spec => []InstalledIsWhole
<1>1. IInv => InstalledIsWhole
  BY DEF IInv, StoreInv
<1> QED
  BY Invariance, <1>1, PTL

\* No partial file joins bytes of two versions, whatever the provider serves and however often
\* the download is cut short (_download, record_progress).
THEOREM PartCorrect == Spec => []PartIsOneVersion
<1>1. IInv => PartIsOneVersion
  BY DEF IInv, PartInv
<1> QED
  BY Invariance, <1>1, PTL

Over == {"canceled", "failed"}

\* Every step but the user's request and a publication's commit leaves an ended row ended.
LEMMA EndedStays ==
    ASSUME TypeOK, Next, row.state \in Over, ~RequestInstall, ~PublishCommits
    PROVE  row'.state \in Over
<1>1. CASE CancelRunning \/ CancelReads \/ CancelMoves \/ ApiDies \/ Look \/ PublishMoves \/ MoveAside
           \/ Start \/ GetRest \/ GetWhole
  BY <1>1 DEF CancelRunning, CancelReads, CancelMoves, ApiDies, Look, PublishMoves, MoveAside, Start,
              GetRest, GetWhole, TypeOK, Rows
<1>2. CASE CancelCommits
  <2> DEFINE wanted == [Canceled(api.saw) EXCEPT !.cancel = TRUE]
  <2>1. api.saw \in HeldRows
    BY DEF TypeOK
  <2>2. wanted \in HeldRows /\ wanted.state = "canceled"
    BY <2>1 DEF HeldRows, RowStates, Canceled, Unleased
  <2>3. Flush(api.saw, wanted)
    BY <1>2 DEF CancelCommits
  <2> HIDE DEF wanted
  <2> QED
    BY <2>1, <2>2, <2>3, Flushed DEF Over
<1>3. CASE FinishCancel
  <2>1. worker.saw \in HeldRows
    BY DEF TypeOK, Workers
  <2>2. Canceled(worker.saw) \in HeldRows /\ Canceled(worker.saw).state = "canceled"
    BY <2>1 DEF HeldRows, RowStates, Canceled, Unleased
  <2> QED
    BY <1>3, <2>1, <2>2, Flushed DEF FinishCancel, Over
<1>4. CASE FailAndTrash
  <2> DEFINE wanted == Unleased([worker.saw EXCEPT !.state = "failed"])
  <2>1. worker.saw \in HeldRows
    BY DEF TypeOK, Workers
  <2>2. wanted \in HeldRows /\ wanted.state = "failed"
    BY <2>1 DEF HeldRows, RowStates, Unleased
  <2>3. Flush(worker.saw, wanted)
    BY <1>4 DEF FailAndTrash
  <2> HIDE DEF wanted
  <2> QED
    BY <2>1, <2>2, <2>3, Flushed DEF Over
<1>5. row.state # "downloading" /\ row.state # "queued" /\ row \in Rows
  BY DEF Over, TypeOK
<1>6. CASE Claim \/ Open \/ Chunk \/ BodyEnds \/ CheckHash \/ CompleteFile \/ BodyBreaks
  <2>1. ReleaseForRetry => row' = row
    BY <1>5 DEF ReleaseForRetry
  <2>2. ~OwnsDownload
    BY <1>5 DEF OwnsDownload
  <2> QED
    BY <1>5, <1>6, <2>1, <2>2
       DEF Claim, Claimable, Open, Chunk, BodyEnds, CheckHash, CompleteFile, BodyBreaks
<1>7. CASE GetFails
  <2>1. ReleaseForRetry => row' = row
    BY <1>5 DEF ReleaseForRetry
  <2>2. row' = row \/ row' = [row EXCEPT !.bytes = 0, !.etag = NoTag]
    BY <1>5, <1>7, <2>1 DEF GetFails
  <2> QED
    BY <1>5, <2>2 DEF Rows
<1>8. CASE LeaseExpires \/ Die
  BY <1>5, <1>8 DEF LeaseExpires, Die, Ended, Rows
<1> QED
  BY <1>1, <1>2, <1>3, <1>4, <1>6, <1>7, <1>8 DEF Next, ApiStep, WorkerStep, Download, Conclude

\* What the user canceled or what failed is put back into the queue by no worker, whatever it still
\* holds of the download, and by no request of the API but install.
THEOREM RevivedByTheUser == Spec => OnlyTheUserRevives
<1>1. TypeOK /\ [Next]_vars =>
        [row.state \in {"canceled", "failed"} /\ row'.state \notin {"canceled", "failed"}
           => RequestInstall \/ PublishCommits]_vars
  BY EndedStays DEF Over
<1> QED
  BY TypeCorrect, <1>1, PTL DEF Spec, OnlyTheUserRevives
=============================================================================
