------------------------- MODULE ConfigurationProofs -------------------------
(***************************************************************************)
(* Theorems about Configuration, for any number of request threads and any *)
(* configurations, options and bounds.                                     *)
(***************************************************************************)
EXTENDS Configuration, TLAPS

\* What a row is once it has been inserted.
IsConnection(c) == c \in ConnectionRow /\ c.conf \in Confs /\ c.ref \in Refs

IsProfile(p) == p \in ProfileRow /\ p.purpose \in Purposes /\ p.options \in Options

\* The requests that hold a reference they have made, that hold the connection they have read,
\* and that delete a secret.
Making == {"creating", "storing", "committing", "orphan"}
Reading == {"storing", "committing", "dropping", "recording", "authorizing"}
Cleaning == {"cleaning", "cleaned"}

\* What a request has once it has come so far.
Ready(r) ==
    /\ r.pc \in {"creating", "storing", "committing"} => r.conf \in Confs
    /\ r.pc \in Reading => IsConnection(r.conn)
    /\ r.pc \in {"storing", "committing"} => r.conn.rev < MaxRevision
    /\ r.pc \in {"editing", "deleting", "recording", "authorizing", "revoking"} => IsProfile(r.prof)
    /\ r.pc = "dropping" => r.prof \in ProfileRow
    /\ r.pc = "editing" => r.prof.rev < MaxRevision
    /\ r.pc \in {"dropping", "deleting", "revoking", "setting"} => r.defaults \in DefaultsRow
    /\ r.pc = "setting" => r.want \in Want
    /\ r.pc = "tasking" => r.snapshot \in Snapshot
    /\ r.pc \in {"creating", "storing", "orphan"} => r.new \in Refs
    /\ r.pc \notin Making => r.new = NoRef
    /\ r.pc \in Cleaning => r.ref \in Refs

Filled ==
    /\ conn.state = "none" => prof.state = "none"
    /\ conn.state # "none" => IsConnection(conn)
    /\ prof.state # "none" => IsProfile(prof)
    /\ task.state # "none" => task.snapshot \in Snapshot
    /\ worker.pc # "idle" => task.state = "queued"

TypeInv == TypeOK /\ Filled /\ \A t \in Threads : Ready(api[t])

LEMMA IdleType == Idle \in ApiRequest /\ Ready(Idle)
  BY DEF Idle, ApiRequest, Points, Ready, Making, Reading, Cleaning

LEMMA InitType == Init => TypeInv
  <1> SUFFICES ASSUME Init PROVE TypeInv
    OBVIOUS
  <1>1. 0 \in Revisions /\ next \in 1 .. MaxRef + 1
    BY ConfigurationAssumption DEF Revisions, Init
  <1>2. conn \in ConnectionRow /\ prof \in ProfileRow /\ defaults \in DefaultsRow
    BY <1>1 DEF Init, ConnectionRow, ProfileRow, DefaultsRow, RowStates
  <1>3. requests \in 0 .. Requests /\ faults \in 0 .. Faults
    BY ConfigurationAssumption DEF Init
  <1>4. QED BY <1>1, <1>2, <1>3, IdleType DEF Init, TypeInv, TypeOK, Filled, TaskRow

\* A request that takes a thread, moves on in it or ends keeps the requests typed.
LEMMA TakeType ==
    ASSUME TypeInv, NEW t \in Threads, NEW r \in ApiRequest, Ready(r), Take(t, r)
    PROVE  /\ api' \in [Threads -> ApiRequest]
           /\ \A u \in Threads : Ready(api'[u])
           /\ api'[t] = r
           /\ \A u \in Threads \ {t} : api'[u] = api[u]
  BY DEF Take, TypeInv, TypeOK

LEMMA ReturnType ==
    ASSUME TypeInv, NEW t \in Threads, Return(t)
    PROVE  /\ api' \in [Threads -> ApiRequest]
           /\ \A u \in Threads : Ready(api'[u])
           /\ api'[t] = Idle
           /\ \A u \in Threads \ {t} : api'[u] = api[u]
  BY IdleType, TakeType DEF Return, Take

LEMMA CleaningRequest ==
    ASSUME TypeInv, NEW t \in Threads, NEW ref \in Refs,
           Take(t, [Idle EXCEPT !.pc = "cleaning", !.ref = ref])
    PROVE  /\ api' \in [Threads -> ApiRequest]
           /\ \A u \in Threads : Ready(api'[u])
           /\ \A u \in Threads \ {t} : api'[u] = api[u]
           /\ api'[t].pc = "cleaning" /\ api'[t].ref = ref /\ api'[t].new = NoRef
  <1> DEFINE request == [Idle EXCEPT !.pc = "cleaning", !.ref = ref]
  <1>1. request.pc = "cleaning" /\ request.ref = ref /\ request.new = NoRef
    BY DEF Idle
  <1>2. "cleaning" \in Points
    BY DEF Points
  <1>3. request \in ApiRequest
    BY <1>2, IdleType DEF ApiRequest
  <1>4. Take(t, request)
    OBVIOUS
  <1> HIDE DEF request
  <1>5. Ready(request)
    BY <1>1 DEF Ready, Making, Reading, Cleaning
  <1>6. QED BY <1>1, <1>3, <1>4, <1>5, TakeType

LEMMA OrphanRequest ==
    ASSUME TypeInv, NEW t \in Threads, NEW ref \in Refs,
           Take(t, [Idle EXCEPT !.pc = "orphan", !.new = ref])
    PROVE  /\ api' \in [Threads -> ApiRequest]
           /\ \A u \in Threads : Ready(api'[u])
           /\ \A u \in Threads \ {t} : api'[u] = api[u]
           /\ api'[t].pc = "orphan" /\ api'[t].new = ref /\ api'[t].ref = NoRef
  <1> DEFINE request == [Idle EXCEPT !.pc = "orphan", !.new = ref]
  <1>1. request.pc = "orphan" /\ request.new = ref /\ request.ref = NoRef
    BY DEF Idle
  <1>2. "orphan" \in Points
    BY DEF Points
  <1>3. request \in ApiRequest
    BY <1>2, IdleType DEF ApiRequest
  <1>4. Take(t, request)
    OBVIOUS
  <1> HIDE DEF request
  <1>5. Ready(request)
    BY <1>1 DEF Ready, Making, Reading, Cleaning
  <1>6. QED BY <1>1, <1>3, <1>4, <1>5, TakeType

LEMMA BeginType ==
    ASSUME TypeInv, NEW t \in Threads, Begin(t)
    PROVE  requests' \in 0 .. Requests
  BY ConfigurationAssumption DEF Begin, Count, TypeInv, TypeOK

LEMMA FaultType ==
    ASSUME TypeInv, Fault
    PROVE  faults' \in 0 .. Faults
  BY ConfigurationAssumption DEF Fault, TypeInv, TypeOK

-----------------------------------------------------------------------------
(* The requests that leave the keyring and the secret of the connection alone *)

\* A request takes a new shape, which holds no reference of its own, deletes no secret, and has
\* read the connection, if it has, just now.
Plain(t) ==
    \E r \in ApiRequest :
      /\ Take(t, r) /\ Ready(r)
      /\ r.pc \notin Making \cup Cleaning
      /\ r.ref \in {NoRef, conn.ref, api[t].ref}
      /\ r.pc \in Reading => r.conn = conn

PlainRequest(t) ==
    \/ DeleteConnection(t) \/ CreateProfile(t) \/ CommitProfile(t)
    \/ UpdateProfile(t) \/ CommitEdit(t) \/ DeleteProfile(t) \/ CommitDeletion(t)
    \/ BeginTest(t) \/ ReadTested(t) \/ RecordTest(t)
    \/ Authorize(t) \/ CommitConsent(t) \/ Revoke(t) \/ CommitRevocation(t)
    \/ UpdateDefaults(t) \/ CommitDefaults(t)
    \/ TakeSnapshot(t) \/ CreateTask(t) \/ Refuse(t)

LEMMA ReturnIsPlain ==
    ASSUME NEW t \in Threads, Return(t)
    PROVE  Plain(t)
  <1>1. Take(t, Idle) /\ Idle.pc = "idle" /\ Idle.ref = NoRef
    BY DEF Return, Take, Idle
  <1>2. QED BY <1>1, IdleType DEF Plain, Making, Cleaning, Reading

\* The requests that read rows and go on.
LEMMA ReadingIsPlain ==
    ASSUME TypeInv, NEW t \in Threads,
           \/ DeleteConnection(t) \/ UpdateProfile(t) \/ DeleteProfile(t) \/ Revoke(t)
           \/ Authorize(t) \/ ReadTested(t)
    PROVE  Plain(t)
  <1>1. conn \in ConnectionRow /\ prof \in ProfileRow /\ defaults \in DefaultsRow
        /\ api[t] \in ApiRequest /\ Ready(api[t])
    BY DEF TypeInv, TypeOK
  <1>0. Referenced \in BOOLEAN
    BY DEF Referenced
  <1>2. CASE DeleteConnection(t)
    <2> DEFINE r == [Idle EXCEPT !.pc = "dropping", !.conn = conn, !.prof = prof,
                                 !.defaults = defaults, !.pinned = Referenced]
    <2>1. Take(t, r) /\ IsConnection(conn)
      BY <1>2 DEF DeleteConnection, TypeInv, Filled
    <2>2. r.pc = "dropping" /\ r.conn = conn /\ r.prof = prof /\ r.defaults = defaults
          /\ r.new = NoRef /\ r.ref = NoRef
      BY DEF Idle
    <2>3. r \in ApiRequest
      <3>1. "dropping" \in Points
        BY DEF Points
      <3>2. prof \in ProfileRow \cup {None} /\ defaults \in DefaultsRow \cup {None}
            /\ conn \in ConnectionRow \cup {None}
        BY <1>1
      <3>3. QED BY <1>0, <3>1, <3>2, IdleType DEF ApiRequest
    <2> HIDE DEF r
    <2>4. QED BY <1>1, <2>1, <2>2, <2>3 DEF Plain, Ready, Making, Reading, Cleaning
  <1>3. CASE UpdateProfile(t)
    <2> DEFINE r == [Idle EXCEPT !.pc = "editing", !.prof = prof]
    <2>1. Take(t, r) /\ IsProfile(prof) /\ prof.rev < MaxRevision
      BY <1>3 DEF UpdateProfile, TypeInv, Filled
    <2>2. r.pc = "editing" /\ r.prof = prof /\ r.new = NoRef /\ r.ref = NoRef
      BY DEF Idle
    <2>3. r \in ApiRequest
      <3>1. "editing" \in Points
        BY DEF Points
      <3>2. prof \in ProfileRow \cup {None} /\ defaults \in DefaultsRow \cup {None}
            /\ conn \in ConnectionRow \cup {None}
        BY <1>1
      <3>3. QED BY <1>0, <3>1, <3>2, IdleType DEF ApiRequest
    <2> HIDE DEF r
    <2>4. QED BY <2>1, <2>2, <2>3 DEF Plain, Ready, Making, Reading, Cleaning
  <1>4. CASE DeleteProfile(t)
    <2> DEFINE r == [Idle EXCEPT !.pc = "deleting", !.prof = prof, !.defaults = defaults,
                                 !.pinned = Referenced]
    <2>1. Take(t, r) /\ IsProfile(prof)
      BY <1>4 DEF DeleteProfile, TypeInv, Filled
    <2>2. r.pc = "deleting" /\ r.prof = prof /\ r.defaults = defaults /\ r.new = NoRef
          /\ r.ref = NoRef
      BY DEF Idle
    <2>3. r \in ApiRequest
      <3>1. "deleting" \in Points
        BY DEF Points
      <3>2. prof \in ProfileRow \cup {None} /\ defaults \in DefaultsRow \cup {None}
            /\ conn \in ConnectionRow \cup {None}
        BY <1>1
      <3>3. QED BY <1>0, <3>1, <3>2, IdleType DEF ApiRequest
    <2> HIDE DEF r
    <2>4. QED BY <1>1, <2>1, <2>2, <2>3 DEF Plain, Ready, Making, Reading, Cleaning
  <1>5. CASE Revoke(t)
    <2> DEFINE r == [Idle EXCEPT !.pc = "revoking", !.prof = prof, !.defaults = defaults]
    <2>1. Take(t, r) /\ IsProfile(prof)
      BY <1>5 DEF Revoke, TypeInv, Filled
    <2>2. r.pc = "revoking" /\ r.prof = prof /\ r.defaults = defaults /\ r.new = NoRef
          /\ r.ref = NoRef
      BY DEF Idle
    <2>3. r \in ApiRequest
      <3>1. "revoking" \in Points
        BY DEF Points
      <3>2. prof \in ProfileRow \cup {None} /\ defaults \in DefaultsRow \cup {None}
            /\ conn \in ConnectionRow \cup {None}
        BY <1>1
      <3>3. QED BY <1>0, <3>1, <3>2, IdleType DEF ApiRequest
    <2> HIDE DEF r
    <2>4. QED BY <1>1, <2>1, <2>2, <2>3 DEF Plain, Ready, Making, Reading, Cleaning
  <1>6. CASE Authorize(t)
    <2> DEFINE r == [Idle EXCEPT !.pc = "authorizing", !.conn = conn, !.prof = prof,
                                 !.verify = api[t].verify]
    <2>1. Take(t, r) /\ IsProfile(prof) /\ IsConnection(conn)
      BY <1>6 DEF Authorize, TypeInv, Filled
    <2>2. r.pc = "authorizing" /\ r.prof = prof /\ r.conn = conn /\ r.new = NoRef
          /\ r.ref = NoRef
      BY DEF Idle
    <2>3. r \in ApiRequest
      <3>1. "authorizing" \in Points
        BY DEF Points
      <3>2. prof \in ProfileRow \cup {None} /\ defaults \in DefaultsRow \cup {None}
            /\ conn \in ConnectionRow \cup {None}
        BY <1>1
      <3>3. QED
        <4>1. api[t].verify \in BOOLEAN
          BY <1>1 DEF ApiRequest
        <4>2. QED BY <3>1, <3>2, <4>1, IdleType DEF ApiRequest
    <2> HIDE DEF r
    <2>4. QED BY <1>1, <2>1, <2>2, <2>3 DEF Plain, Ready, Making, Reading, Cleaning
  <1>7. CASE ReadTested(t)
    <2> DEFINE r == [api[t] EXCEPT !.pc = "recording", !.conn = conn, !.prof = prof]
    <2>1. Take(t, r) /\ IsProfile(prof) /\ IsConnection(conn) /\ api[t].pc = "testing"
      BY <1>7 DEF ReadTested, TypeInv, Filled
    <2>2. r.pc = "recording" /\ r.prof = prof /\ r.conn = conn /\ r.new = api[t].new
          /\ r.ref = api[t].ref /\ api[t].new = NoRef
      BY <1>1, <2>1 DEF ApiRequest, Ready, Making
    <2>3. r \in ApiRequest
      BY <1>1 DEF ApiRequest, Points
    <2> HIDE DEF r
    <2>4. QED BY <1>1, <2>1, <2>2, <2>3 DEF Plain, Ready, Making, Reading, Cleaning
  <1>8. QED BY <1>2, <1>3, <1>4, <1>5, <1>6, <1>7

LEMMA PlainStep ==
    ASSUME TypeInv, NEW t \in Threads, PlainRequest(t)
    PROVE  Plain(t)
  <1>1. api[t] \in ApiRequest /\ conn \in ConnectionRow
    BY DEF TypeInv, TypeOK
  <1>2. CASE CreateProfile(t)
    <2> DEFINE r == [Idle EXCEPT !.pc = "naming"]
    <2>1. Take(t, r) /\ r.pc = "naming" /\ r.new = NoRef /\ r.ref = NoRef /\ r \in ApiRequest
      BY <1>2, IdleType DEF CreateProfile, Idle, ApiRequest, Points
    <2> HIDE DEF r
    <2>2. QED BY <2>1 DEF Plain, Ready, Making, Reading, Cleaning
  <1>3. CASE BeginTest(t)
    <2>1. PICK verify \in BOOLEAN :
            Take(t, [Idle EXCEPT !.pc = "testing", !.ref = conn.ref, !.verify = verify])
      BY <1>3 DEF BeginTest
    <2> DEFINE r == [Idle EXCEPT !.pc = "testing", !.ref = conn.ref, !.verify = verify]
    <2>2. conn.ref \in Refs \cup {NoRef}
      BY <1>1 DEF ConnectionRow
    <2>3. Take(t, r) /\ r.pc = "testing" /\ r.new = NoRef /\ r.ref = conn.ref /\ r \in ApiRequest
      BY <2>1, <2>2, IdleType DEF Idle, ApiRequest, Points
    <2> HIDE DEF r
    <2>4. QED BY <2>3 DEF Plain, Ready, Making, Reading, Cleaning
  <1>4. CASE RecordTest(t) /\ ~Return(t)
    <2> DEFINE r == [Idle EXCEPT !.pc = "passed", !.verify = TRUE]
    <2>1. Take(t, r) /\ r.pc = "passed" /\ r.new = NoRef /\ r.ref = NoRef /\ r \in ApiRequest
      BY <1>4, IdleType DEF RecordTest, Idle, ApiRequest, Points
    <2> HIDE DEF r
    <2>2. QED BY <2>1 DEF Plain, Ready, Making, Reading, Cleaning
  <1>5. CASE CommitConsent(t) /\ ~Return(t)
    <2> DEFINE r == [Idle EXCEPT !.pc = "authorized"]
    <2>1. Take(t, r) /\ r.pc = "authorized" /\ r.new = NoRef /\ r.ref = NoRef /\ r \in ApiRequest
      BY <1>5, IdleType DEF CommitConsent, Idle, ApiRequest, Points
    <2> HIDE DEF r
    <2>2. QED BY <2>1 DEF Plain, Ready, Making, Reading, Cleaning
  <1>6. CASE UpdateDefaults(t)
    <2>1. PICK want \in Want :
            Take(t, [Idle EXCEPT !.pc = "setting", !.defaults = defaults, !.want = want])
      BY <1>6 DEF UpdateDefaults
    <2> DEFINE r == [Idle EXCEPT !.pc = "setting", !.defaults = defaults, !.want = want]
    <2>2. defaults \in DefaultsRow
      BY DEF TypeInv, TypeOK
    <2>3. /\ Take(t, r) /\ r.pc = "setting" /\ r.new = NoRef /\ r.ref = NoRef
          /\ r.defaults = defaults /\ r.want = want /\ r \in ApiRequest
      BY <2>1, <2>2, IdleType DEF Idle, ApiRequest, Points
    <2> HIDE DEF r
    <2>4. QED BY <2>2, <2>3 DEF Plain, Ready, Making, Reading, Cleaning
  <1>7. CASE TakeSnapshot(t)
    <2> DEFINE snapshot == [conf |-> conn.conf, options |-> prof.options,
                            connRev |-> conn.rev, profRev |-> prof.rev]
               r == [Idle EXCEPT !.pc = "tasking", !.snapshot = snapshot]
    <2>1. snapshot \in Snapshot
      BY <1>7 DEF TakeSnapshot, Usable, Snapshot, TypeInv, TypeOK, Filled, IsConnection, IsProfile,
                  ConnectionRow, ProfileRow
    <2>2. Take(t, r)
      BY <1>7 DEF TakeSnapshot
    <2> HIDE DEF snapshot
    <2>3. /\ r.pc = "tasking" /\ r.new = NoRef /\ r.ref = NoRef /\ r.snapshot = snapshot
          /\ r \in ApiRequest
      BY <2>1, IdleType DEF Idle, ApiRequest, Points
    <2> HIDE DEF r
    <2>4. QED BY <2>1, <2>2, <2>3 DEF Plain, Ready, Making, Reading, Cleaning
  <1>8. CASE Return(t)
    BY <1>8, ReturnIsPlain
  <1>9. QED
    BY <1>2, <1>3, <1>4, <1>5, <1>6, <1>7, <1>8, ReadingIsPlain
    DEF PlainRequest, CommitProfile, CommitEdit, CommitDeletion, CommitRevocation, CommitDefaults,
        CreateTask, Refuse

\* A request that touches the profile and the default settings at most, and is typed.
LEMMA ProfileOnlyType ==
    ASSUME TypeInv, NEW t \in Threads, Plain(t),
           UNCHANGED <<conn, keys, task, worker, sent, marks>>,
           requests' \in 0 .. Requests, consents' \subseteq Targets, defaults' \in DefaultsRow,
           prof' \in ProfileRow,
           prof'.state # "none" => conn.state # "none" /\ IsProfile(prof')
    PROVE  TypeInv'
  <1>1. api' \in [Threads -> ApiRequest] /\ \A u \in Threads : Ready(api'[u])
    BY TakeType DEF Plain
  <1>2. QED BY <1>1 DEF TypeInv, TypeOK, Filled, keys, marks

\* Reading changes nothing but the request.
LEMMA ReadingType ==
    ASSUME TypeInv, NEW t \in Threads,
           \/ DeleteConnection(t) \/ CreateProfile(t) \/ UpdateProfile(t) \/ DeleteProfile(t)
           \/ BeginTest(t) \/ ReadTested(t) \/ Authorize(t) \/ Revoke(t) \/ UpdateDefaults(t)
           \/ TakeSnapshot(t) \/ Refuse(t)
    PROVE  /\ requests' \in 0 .. Requests
           /\ UNCHANGED <<rows, keys, jobs, consents, marks>>
  <1>1. requests \in 0 .. Requests
    BY DEF TypeInv, TypeOK
  <1>2. UNCHANGED <<rows, keys, jobs, consents, marks>> /\ (Begin(t) \/ UNCHANGED requests)
    BY DEF DeleteConnection, CreateProfile, UpdateProfile, DeleteProfile, BeginTest, ReadTested,
           Authorize, Revoke, UpdateDefaults, TakeSnapshot, Refuse
  <1>3. QED BY <1>1, <1>2, BeginType

\* What a commit makes of a column is what the request has made or what was there.
LEMMA WroteOne ==
    ASSUME NEW read, NEW made, NEW now
    PROVE  Wrote(read, made, now) \in {made, now}
  BY DEF Wrote

LEMMA CommitEditType ==
    ASSUME TypeInv, NEW t \in Threads, CommitEdit(t)
    PROVE  IsProfile(prof') /\ prof'.state = prof.state /\ prof'.purpose = prof.purpose
           /\ prof'.consent \in {None, prof.consent}
  <1> DEFINE seen == api[t].prof
  <1>1. PICK options \in Options :
             prof' = [prof EXCEPT !.options    = options,
                                  !.rev        = seen.rev + 1,
                                  !.test       = Wrote(seen.test, "none", @),
                                  !.tested     = Wrote(seen.tested, 0, @),
                                  !.testedConn = Wrote(seen.testedConn, 0, @),
                                  !.upload     = Wrote(seen.upload, 0, @),
                                  !.uploadConn = Wrote(seen.uploadConn, 0, @),
                                  !.capability = Wrote(seen.capability, None, @),
                                  !.consent    = Wrote(seen.consent, None, @)]
    BY DEF CommitEdit
  <1>2. IsProfile(prof) /\ seen.rev \in Revisions /\ seen.rev < MaxRevision
    BY DEF CommitEdit, Exists, TypeInv, Filled, Ready, IsProfile, ProfileRow
  <1>3. seen.rev + 1 \in Revisions /\ 0 \in Revisions
    BY <1>2, ConfigurationAssumption DEF Revisions
  <1> HIDE DEF seen
  <1>4. /\ Wrote(seen.test, "none", prof.test) \in {"none", prof.test}
        /\ Wrote(seen.tested, 0, prof.tested) \in {0, prof.tested}
        /\ Wrote(seen.testedConn, 0, prof.testedConn) \in {0, prof.testedConn}
        /\ Wrote(seen.upload, 0, prof.upload) \in {0, prof.upload}
        /\ Wrote(seen.uploadConn, 0, prof.uploadConn) \in {0, prof.uploadConn}
        /\ Wrote(seen.capability, None, prof.capability) \in {None, prof.capability}
        /\ Wrote(seen.consent, None, prof.consent) \in {None, prof.consent}
    BY WroteOne
  <1>5. QED BY <1>1, <1>2, <1>3, <1>4 DEF IsProfile, ProfileRow

LEMMA FingerprintType ==
    ASSUME NEW c, NEW p, IsConnection(c), IsProfile(p)
    PROVE  FingerprintOf(c, p) \in Fingerprints /\ TargetOf(c, p) \in Targets
  BY DEF FingerprintOf, Fingerprints, TargetOf, Targets, IsConnection, IsProfile, ConnectionRow,
         ProfileRow

LEMMA RecordTestType ==
    ASSUME TypeInv, NEW t \in Threads, RecordTest(t)
    PROVE  IsProfile(prof') /\ prof'.state = prof.state /\ prof'.purpose = prof.purpose
           /\ prof'.options = prof.options /\ prof'.consent \in {None, prof.consent}
  <1>1. PICK result \in {"failed", "passed"} : prof' = Recorded(t, result)
    BY DEF RecordTest
  <1> DEFINE seen  == api[t].prof
             same  == seen.test = result /\ seen.tested = seen.rev
             c     == IF same THEN api[t].conn ELSE conn
             proof == IF result = "passed" THEN FingerprintOf(c, seen) ELSE None
  <1>2. IsProfile(prof) /\ IsConnection(conn) /\ IsConnection(api[t].conn) /\ IsProfile(seen)
    BY DEF RecordTest, Exists, TypeInv, Filled, Ready, Reading
  <1>3. IsConnection(c) /\ FingerprintOf(c, seen) \in Fingerprints
    BY <1>2, FingerprintType
  <1>4. proof \in Fingerprints \cup {None} /\ c.rev \in Revisions /\ seen.rev \in Revisions
    BY <1>2, <1>3 DEF IsConnection, IsProfile, ConnectionRow, ProfileRow
  <1>5. prof' = [prof EXCEPT
                  !.test       = Wrote(seen.test, result, @),
                  !.tested     = Wrote(seen.tested, seen.rev, @),
                  !.testedConn = Wrote(seen.testedConn, c.rev, @),
                  !.capability = IF seen.purpose = "notes"
                                 THEN Wrote(seen.capability, proof, @) ELSE @,
                  !.consent    = IF seen.purpose = "notes" /\ result = "failed"
                                 THEN Wrote(seen.consent, None, @) ELSE @]
    BY <1>1 DEF Recorded
  <1> HIDE DEF seen, c, proof
  <1>6. /\ Wrote(seen.test, result, prof.test) \in {result, prof.test}
        /\ Wrote(seen.tested, seen.rev, prof.tested) \in {seen.rev, prof.tested}
        /\ Wrote(seen.testedConn, c.rev, prof.testedConn) \in {c.rev, prof.testedConn}
        /\ Wrote(seen.capability, proof, prof.capability) \in {proof, prof.capability}
        /\ Wrote(seen.consent, None, prof.consent) \in {None, prof.consent}
    BY WroteOne
  <1>7. QED BY <1>2, <1>4, <1>5, <1>6 DEF IsProfile, ProfileRow

LEMMA CommitConsentType ==
    ASSUME TypeInv, NEW t \in Threads, CommitConsent(t)
    PROVE  /\ IsProfile(prof') /\ prof'.state = prof.state /\ prof'.purpose = prof.purpose
           /\ prof'.options = prof.options
           /\ prof'.consent \in {prof.consent, FingerprintOf(api[t].conn, api[t].prof)}
           /\ defaults' \in DefaultsRow /\ consents' \subseteq Targets
  <1> DEFINE seen == api[t].prof
             c    == api[t].conn
  <1>1. IsProfile(prof) /\ IsConnection(c) /\ IsProfile(seen) /\ defaults \in DefaultsRow
    BY DEF CommitConsent, Exists, TypeInv, TypeOK, Filled, Ready, Reading
  <1>2. FingerprintOf(c, seen) \in Fingerprints /\ TargetOf(c, seen) \in Targets
        /\ seen.rev \in Revisions /\ c.rev \in Revisions
    BY <1>1, FingerprintType DEF IsConnection, IsProfile, ConnectionRow, ProfileRow
  <1>3. defaults' \in DefaultsRow /\ consents' \subseteq Targets
    <2>1. defaults' \in {defaults, [named |-> TRUE, on |-> TRUE, auto |-> FALSE]}
      BY DEF CommitConsent
    <2>2. [named |-> TRUE, on |-> TRUE, auto |-> FALSE] \in DefaultsRow
      BY DEF DefaultsRow
    <2>3. consents' = consents \cup {TargetOf(c, seen)} /\ consents \subseteq Targets
      BY DEF CommitConsent, TypeInv, TypeOK
    <2>4. QED BY <1>1, <1>2, <2>1, <2>2, <2>3
  <1>4. \/ prof' = [prof EXCEPT !.consent = Wrote(seen.consent, FingerprintOf(c, seen), @)]
        \/ prof' = [prof EXCEPT !.upload     = Wrote(seen.upload, seen.rev, @),
                                !.uploadConn = Wrote(seen.uploadConn, c.rev, @)]
    BY DEF CommitConsent
  <1> HIDE DEF seen, c
  <1>5. /\ Wrote(seen.consent, FingerprintOf(c, seen), prof.consent)
             \in {FingerprintOf(c, seen), prof.consent}
        /\ Wrote(seen.upload, seen.rev, prof.upload) \in {seen.rev, prof.upload}
        /\ Wrote(seen.uploadConn, c.rev, prof.uploadConn) \in {c.rev, prof.uploadConn}
    BY WroteOne
  <1>6. QED BY <1>1, <1>2, <1>3, <1>4, <1>5 DEF IsProfile, ProfileRow, seen, c

LEMMA DeletedType ==
    ASSUME NEW row
    PROVE  \/ Deleted(row) = row
           \/ Exists(row) /\ Deleted(row) = [row EXCEPT !.state = "deleted"]
  <1>1. CASE Exists(row)
    BY <1>1 DEF Deleted
  <1>2. CASE ~Exists(row)
    BY <1>2 DEF Deleted
  <1>3. QED BY <1>1, <1>2

LEMMA UnnamedType ==
    ASSUME TypeInv, NEW t \in Threads, NEW deleted \in BOOLEAN, api[t].defaults \in DefaultsRow
    PROVE  Unnamed(t, deleted) \in DefaultsRow
  <1> DEFINE seen  == api[t].defaults
             unset == api[t].prof.state = "active" /\ seen.named
             named == defaults.named /\ ~unset /\ ~deleted
             on    == IF unset THEN Wrote(seen.on, FALSE, defaults.on) ELSE defaults.on
  <1>1. Unnamed(t, deleted) = [defaults EXCEPT !.named = named, !.on = on]
    BY DEF Unnamed
  <1>2. defaults \in DefaultsRow
    BY DEF TypeInv, TypeOK
  <1>3. named \in BOOLEAN
    OBVIOUS
  <1>4. Wrote(seen.on, FALSE, defaults.on) \in {FALSE, defaults.on}
    BY WroteOne
  <1>5. on \in BOOLEAN
    BY <1>2, <1>4 DEF DefaultsRow
  <1> HIDE DEF named, on
  <1>6. QED BY <1>1, <1>2, <1>3, <1>5 DEF DefaultsRow

LEMMA CommitDeletionType ==
    ASSUME TypeInv, NEW t \in Threads, CommitDeletion(t)
    PROVE  /\ prof' \in ProfileRow /\ defaults' \in DefaultsRow
           /\ prof'.state # "none" => prof.state # "none" /\ IsProfile(prof')
           /\ prof'.state = "none" => prof.state = "none"
           /\ prof'.purpose = prof.purpose /\ prof'.consent = prof.consent
  <1>1. api[t].defaults \in DefaultsRow /\ prof \in ProfileRow
        /\ (prof.state # "none" => IsProfile(prof))
    BY DEF CommitDeletion, TypeInv, TypeOK, Filled, Ready
  <1>2. defaults' \in DefaultsRow
    BY <1>1, UnnamedType DEF CommitDeletion
  <1>3. \/ Exists(prof) /\ prof' = [prof EXCEPT !.state = "archived"]
        \/ Exists(prof) /\ prof' = [prof EXCEPT !.state = "deleted"]
        \/ prof' = prof
    BY DeletedType DEF CommitDeletion
  <1>4. QED BY <1>1, <1>2, <1>3 DEF ProfileRow, IsProfile, Exists, RowStates

LEMMA CommitRevocationType ==
    ASSUME TypeInv, NEW t \in Threads, CommitRevocation(t)
    PROVE  /\ prof' \in ProfileRow /\ defaults' \in DefaultsRow
           /\ prof'.state # "none" => IsProfile(prof')
           /\ prof'.state = prof.state /\ prof'.purpose = prof.purpose
           /\ prof'.options = prof.options
           /\ prof'.consent \in {None, prof.consent}
  <1>1. api[t].defaults \in DefaultsRow /\ defaults \in DefaultsRow /\ prof \in ProfileRow
        /\ (prof.state # "none" => IsProfile(prof))
    BY DEF CommitRevocation, TypeInv, TypeOK, Filled, Ready
  <1>2. defaults' \in DefaultsRow
    <2> DEFINE held == api[t].prof.consent # None
               d    == IF held THEN defaults ELSE api[t].defaults
    <2>1. defaults' = [defaults EXCEPT !.on = IF d.named THEN Wrote(d.on, FALSE, @) ELSE @]
      BY DEF CommitRevocation
    <2> HIDE DEF d
    <2>2. Wrote(d.on, FALSE, defaults.on) \in {FALSE, defaults.on}
      BY WroteOne
    <2>3. QED BY <1>1, <2>1, <2>2 DEF DefaultsRow
  <1>3. prof' = prof \/ prof' = [prof EXCEPT !.consent = None]
    BY DEF CommitRevocation
  <1>4. QED BY <1>1, <1>2, <1>3 DEF ProfileRow, IsProfile

LEMMA CommitDefaultsType ==
    ASSUME TypeInv, NEW t \in Threads, CommitDefaults(t)
    PROVE  defaults' \in DefaultsRow
  <1> DEFINE seen == api[t].defaults
             want == api[t].want
  <1>1. seen \in DefaultsRow /\ want \in Want /\ defaults \in DefaultsRow
    BY DEF CommitDefaults, TypeInv, TypeOK, Ready
  <1>2. defaults' = [named |-> Wrote(seen.named, want.named, defaults.named),
                     on    |-> Wrote(seen.on, want.on, defaults.on),
                     auto  |-> IF prof.purpose = "cloud_asr" THEN defaults.auto
                               ELSE Wrote(seen.auto, FALSE, defaults.auto)]
    BY DEF CommitDefaults
  <1> HIDE DEF seen, want
  <1>3. /\ Wrote(seen.named, want.named, defaults.named) \in {want.named, defaults.named}
        /\ Wrote(seen.on, want.on, defaults.on) \in {want.on, defaults.on}
        /\ Wrote(seen.auto, FALSE, defaults.auto) \in {FALSE, defaults.auto}
    BY WroteOne
  <1>4. QED BY <1>1, <1>2, <1>3 DEF DefaultsRow, Want

LEMMA CommitProfileType ==
    ASSUME TypeInv, NEW t \in Threads, CommitProfile(t)
    PROVE  IsProfile(prof') /\ prof'.consent = prof.consent /\ conn.state # "none"
           /\ prof.state = "none" /\ prof'.state = "active"
  <1>1. PICK purpose \in Purposes, options \in Options :
          prof' = [prof EXCEPT !.state = "active", !.purpose = purpose,
                               !.options = options, !.rev = 1]
    BY DEF CommitProfile
  <1>2. 1 \in Revisions /\ prof \in ProfileRow
    BY ConfigurationAssumption DEF Revisions, TypeInv, TypeOK
  <1>3. conn.state # "none" /\ prof.state = "none"
    BY DEF CommitProfile, Exists
  <1>4. QED BY <1>1, <1>2, <1>3 DEF ProfileRow, RowStates, IsProfile

LEMMA PlainType ==
    ASSUME TypeInv, NEW t \in Threads, PlainRequest(t)
    PROVE  TypeInv'
  <1>1. Plain(t)
    BY PlainStep
  <1>2. CASE \/ DeleteConnection(t) \/ CreateProfile(t) \/ UpdateProfile(t) \/ DeleteProfile(t)
             \/ BeginTest(t) \/ ReadTested(t) \/ Authorize(t) \/ Revoke(t) \/ UpdateDefaults(t)
             \/ TakeSnapshot(t) \/ Refuse(t)
    <2>1. requests' \in 0 .. Requests /\ UNCHANGED <<rows, keys, jobs, consents, marks>>
      BY <1>2, ReadingType
    <2>2. QED BY <1>1, <2>1, ProfileOnlyType DEF TypeInv, TypeOK, Filled, rows, jobs
  <1>3. CASE CreateTask(t)
    <2>1. api[t].snapshot \in Snapshot
      BY <1>3 DEF CreateTask, TypeInv, Ready
    <2>2. task' \in TaskRow /\ task'.state = "queued" /\ task'.snapshot \in Snapshot
      BY <1>3, <2>1 DEF CreateTask, TaskRow
    <2>3. api' \in [Threads -> ApiRequest] /\ \A u \in Threads : Ready(api'[u])
      BY <1>3, ReturnType DEF CreateTask
    <2>4. QED
      BY <1>3, <2>2, <2>3 DEF CreateTask, TypeInv, TypeOK, Filled, rows, keys, marks
  <1>4. ASSUME UNCHANGED <<conn, keys, jobs, marks, requests>>, consents' \subseteq Targets,
               defaults' \in DefaultsRow, prof' \in ProfileRow,
               prof'.state # "none" => conn.state # "none" /\ IsProfile(prof')
        PROVE  TypeInv'
    BY <1>1, <1>4, ProfileOnlyType DEF jobs, TypeInv, TypeOK
  <1>5. /\ consents \subseteq Targets /\ defaults \in DefaultsRow /\ prof \in ProfileRow
        /\ prof.state # "none" => conn.state # "none" /\ IsProfile(prof)
    BY DEF TypeInv, TypeOK, Filled
  <1>6. CASE CommitProfile(t)
    BY <1>4, <1>5, <1>6, CommitProfileType DEF CommitProfile, IsProfile
  <1>7. CASE CommitEdit(t)
    BY <1>4, <1>5, <1>7, CommitEditType DEF CommitEdit, IsProfile, Exists
  <1>8. CASE CommitDeletion(t)
    BY <1>4, <1>5, <1>8, CommitDeletionType DEF CommitDeletion
  <1>9. CASE RecordTest(t)
    BY <1>4, <1>5, <1>9, RecordTestType DEF RecordTest, IsProfile, Exists
  <1>10. CASE CommitConsent(t)
    BY <1>4, <1>5, <1>10, CommitConsentType DEF CommitConsent, IsProfile, Exists
  <1>11. CASE CommitRevocation(t)
    BY <1>4, <1>5, <1>11, CommitRevocationType DEF CommitRevocation
  <1>12. CASE CommitDefaults(t)
    BY <1>4, <1>5, <1>12, CommitDefaultsType DEF CommitDefaults
  <1>13. QED
    BY <1>2, <1>3, <1>6, <1>7, <1>8, <1>9, <1>10, <1>11, <1>12 DEF PlainRequest

-----------------------------------------------------------------------------
(* The requests that make, hand over and delete references *)

LEMMA NextType ==
    ASSUME TypeInv, next <= MaxRef
    PROVE  next \in Refs /\ next + 1 \in 1 .. MaxRef + 1
  BY ConfigurationAssumption DEF TypeInv, TypeOK, Refs

LEMMA CreateConnectionStep ==
    ASSUME TypeInv, NEW t \in Threads, CreateConnection(t)
    PROVE  /\ api' \in [Threads -> ApiRequest] /\ \A u \in Threads : Ready(api'[u])
           /\ \A u \in Threads \ {t} : api'[u] = api[u]
           /\ api'[t].pc = "creating" /\ api'[t].new = next /\ api'[t].ref = NoRef
           /\ next \in Refs /\ next' = next + 1 /\ next' \in 1 .. MaxRef + 1
  <1>1. PICK conf \in Confs : Take(t, [Idle EXCEPT !.pc = "creating", !.conf = conf, !.new = next])
    BY DEF CreateConnection
  <1> DEFINE r == [Idle EXCEPT !.pc = "creating", !.conf = conf, !.new = next]
  <1>2. next \in Refs /\ next' = next + 1 /\ next' \in 1 .. MaxRef + 1
    BY NextType DEF CreateConnection
  <1>3. r.pc = "creating" /\ r.conf = conf /\ r.new = next /\ r.ref = NoRef
    BY DEF Idle
  <1>4. "creating" \in Points
    BY DEF Points
  <1>5. r \in ApiRequest
    BY <1>2, <1>4, IdleType DEF ApiRequest
  <1>6. Take(t, r)
    BY <1>1
  <1> HIDE DEF r
  <1>7. Ready(r)
    BY <1>2, <1>3 DEF Ready, Making, Reading, Cleaning
  <1>8. QED BY <1>2, <1>3, <1>5, <1>6, <1>7, TakeType

LEMMA CreateConnectionType ==
    ASSUME TypeInv, NEW t \in Threads, CreateConnection(t)
    PROVE  TypeInv'
  <1>1. requests' \in 0 .. Requests
    BY BeginType DEF CreateConnection
  <1>2. store' \subseteq Refs /\ given' \subseteq Refs
    BY CreateConnectionStep DEF CreateConnection, TypeInv, TypeOK
  <1>3. QED
    BY <1>1, <1>2, CreateConnectionStep
    DEF CreateConnection, TypeInv, TypeOK, Filled, rows, jobs, marks

LEMMA CommitCreationStep ==
    ASSUME TypeInv, NEW t \in Threads, CommitCreation(t)
    PROVE  /\ TypeInv' /\ IsConnection(conn') /\ conn'.ref = api[t].new /\ conn.state = "none"
           /\ api[t].new \in Refs /\ conn'.state = "active"
           /\ api'[t] = Idle /\ \A u \in Threads \ {t} : api'[u] = api[u]
  <1>1. /\ api[t].conf \in Confs /\ api[t].new \in Refs /\ conn.state = "none"
        /\ 1 \in Revisions
    BY ConfigurationAssumption DEF CommitCreation, TypeInv, Ready, Revisions
  <1>2. IsConnection(conn') /\ conn'.ref = api[t].new /\ conn'.state = "active"
    BY <1>1 DEF CommitCreation, IsConnection, ConnectionRow, RowStates
  <1>3. TypeInv'
    BY <1>2, ReturnType
    DEF CommitCreation, TypeInv, TypeOK, Filled, IsConnection, keys, jobs, marks
  <1>4. QED BY <1>1, <1>2, <1>3, ReturnType DEF CommitCreation

LEMMA UpdateConnectionStep ==
    ASSUME TypeInv, NEW t \in Threads, UpdateConnection(t)
    PROVE  /\ TypeInv' /\ IsConnection(conn)
           /\ \A u \in Threads \ {t} : api'[u] = api[u]
           /\ api'[t].pc \in {"committing", "storing"} /\ api'[t].conn = conn
           /\ api'[t].ref = NoRef
           /\ \/ next' = next /\ api'[t].new = NoRef
              \/ next' = next + 1 /\ api'[t].new = next
  <1>1. PICK conf \in Confs, new \in {NoRef, next}, pc \in {"storing", "committing"} :
          /\ Take(t, [Idle EXCEPT !.pc = pc, !.conn = conn, !.conf = conf, !.new = new])
          /\ IF new = NoRef THEN pc = "committing" /\ next' = next
                            ELSE next <= MaxRef /\ next' = next + 1
    BY DEF UpdateConnection
  <1> DEFINE r == [Idle EXCEPT !.pc = pc, !.conn = conn, !.conf = conf, !.new = new]
  <1>2. IsConnection(conn) /\ conn.rev < MaxRevision /\ conn \in ConnectionRow
    BY DEF UpdateConnection, TypeInv, Filled, IsConnection
  <1>3. r.pc = pc /\ r.conn = conn /\ r.conf = conf /\ r.new = new /\ r.ref = NoRef
    BY DEF Idle
  <1>4. pc \in Points /\ new \in Refs \cup {NoRef}
    BY <1>1, NextType DEF Points
  <1>5. r \in ApiRequest
    BY <1>2, <1>4, IdleType DEF ApiRequest
  <1>6. Take(t, r)
    BY <1>1
  <1> HIDE DEF r
  <1>7. Ready(r)
    BY <1>1, <1>2, <1>3, <1>4 DEF Ready, Making, Reading, Cleaning
  <1>8. /\ api' \in [Threads -> ApiRequest] /\ \A u \in Threads : Ready(api'[u])
        /\ \A u \in Threads \ {t} : api'[u] = api[u]
        /\ api'[t] = r
    BY <1>5, <1>6, <1>7, TakeType
  <1>9. next' \in 1 .. MaxRef + 1 /\ requests' \in 0 .. Requests
    BY <1>1, NextType, BeginType DEF UpdateConnection, TypeInv, TypeOK
  <1>10. TypeInv'
    BY <1>8, <1>9 DEF UpdateConnection, TypeInv, TypeOK, Filled, rows, jobs, marks
  <1>11. QED BY <1>1, <1>2, <1>3, <1>8, <1>10

LEMMA StoreSecretStep ==
    ASSUME TypeInv, NEW t \in Threads, StoreSecret(t)
    PROVE  /\ TypeInv' /\ api[t].pc = "storing" /\ api[t].new \in Refs
           /\ \A u \in Threads \ {t} : api'[u] = api[u]
           /\ api'[t].new = api[t].new
           /\ \/ /\ api'[t].pc = "committing" /\ api'[t].conn = api[t].conn
                 /\ api'[t].ref = api[t].ref
                 /\ store' = store \cup {api[t].new} /\ given' = given \cup {api[t].new}
              \/ /\ api'[t].pc = "orphan" /\ api'[t].ref = NoRef
                 /\ UNCHANGED <<store, given>>
  <1>1. api[t].pc = "storing" /\ api[t].new \in Refs /\ api[t] \in ApiRequest /\ Ready(api[t])
    BY DEF StoreSecret, TypeInv, TypeOK, Ready
  <1>2. CASE /\ store' = store \cup {api[t].new} /\ given' = given \cup {api[t].new}
             /\ Goto(t, "committing") /\ UNCHANGED faults
    <2> DEFINE r == [api[t] EXCEPT !.pc = "committing"]
    <2>1. "committing" \in Points
      BY DEF Points
    <2>2. r \in ApiRequest /\ Take(t, r)
      BY <1>1, <1>2, <2>1 DEF Goto, Take, ApiRequest, TypeInv, TypeOK
    <2>3. /\ r.pc = "committing" /\ r.conn = api[t].conn /\ r.new = api[t].new
          /\ r.conf = api[t].conf /\ r.ref = api[t].ref
      BY <1>1 DEF ApiRequest
    <2> HIDE DEF r
    <2>4. Ready(r)
      BY <1>1, <2>3 DEF Ready, Making, Reading, Cleaning
    <2>5. /\ api' \in [Threads -> ApiRequest] /\ \A u \in Threads : Ready(api'[u])
          /\ \A u \in Threads \ {t} : api'[u] = api[u]
          /\ api'[t] = r
      BY <2>2, <2>4, TakeType
    <2>6. TypeInv'
      BY <1>1, <1>2, <2>5 DEF StoreSecret, TypeInv, TypeOK, Filled, rows, jobs
    <2>7. QED BY <1>1, <1>2, <2>3, <2>5, <2>6
  <1>3. CASE /\ Fault /\ Take(t, [Idle EXCEPT !.pc = "orphan", !.new = api[t].new])
             /\ UNCHANGED <<store, given>>
    <2>1. TypeInv'
      BY <1>1, <1>3, FaultType, OrphanRequest
      DEF StoreSecret, TypeInv, TypeOK, Filled, rows, jobs
    <2>2. QED BY <1>1, <1>3, <2>1, OrphanRequest
  <1>4. QED BY <1>2, <1>3 DEF StoreSecret

LEMMA CommitUpdateStep ==
    ASSUME TypeInv, NEW t \in Threads, CommitUpdate(t)
    PROVE  /\ TypeInv' /\ IsConnection(conn) /\ IsConnection(conn') /\ IsConnection(api[t].conn)
           /\ api[t].pc = "committing" /\ conn'.state = conn.state
           /\ conn'.rev = api[t].conn.rev + 1
           /\ prof'.state = prof.state /\ prof'.purpose = prof.purpose
           /\ prof'.options = prof.options
           /\ prof'.consent \in {None, prof.consent}
           /\ prof.purpose = "notes" => prof'.consent = None
           /\ \A u \in Threads \ {t} : api'[u] = api[u]
           /\ api'[t].new = NoRef
           /\ \/ /\ api[t].new = NoRef /\ conn'.ref = conn.ref
                 /\ UNCHANGED cleanup /\ api'[t] = Idle
              \/ /\ api[t].new \in Refs /\ conn'.ref = api[t].new
                 /\ cleanup' = cleanup \cup {api[t].conn.ref}
                 /\ api'[t].pc = "cleaning" /\ api'[t].ref = api[t].conn.ref
  <1>1. /\ api[t].pc = "committing" /\ api[t].conf \in Confs /\ IsConnection(api[t].conn)
        /\ api[t].conn.rev < MaxRevision /\ api[t].new \in Refs \cup {NoRef}
        /\ IsConnection(conn) /\ prof \in ProfileRow
    BY DEF CommitUpdate, TypeInv, TypeOK, Filled, Ready, ApiRequest, Exists, Reading
  <1>2. api[t].conn.rev + 1 \in Revisions
    BY <1>1, ConfigurationAssumption DEF Revisions, IsConnection, ConnectionRow
  <1>3. Wrote(api[t].conn.conf, api[t].conf, conn.conf) \in {api[t].conf, conn.conf}
    BY WroteOne
  <1>4. /\ IsConnection(conn') /\ conn'.state = conn.state /\ conn'.rev = api[t].conn.rev + 1
        /\ conn'.ref = IF api[t].new # NoRef THEN api[t].new ELSE conn.ref
    BY <1>1, <1>2, <1>3 DEF CommitUpdate, Updated, IsConnection, ConnectionRow
  <1>5. /\ prof' \in ProfileRow /\ prof'.state = prof.state /\ prof'.options = prof.options
        /\ prof'.purpose = prof.purpose /\ prof'.consent \in {None, prof.consent}
        /\ prof.purpose = "notes" => prof'.consent = None
    BY <1>1 DEF CommitUpdate, Unproven, ProfileRow
  <1>6. CASE api[t].new = NoRef
    <2>1. Return(t) /\ UNCHANGED cleanup
      BY <1>6 DEF CommitUpdate
    <2>2. api' \in [Threads -> ApiRequest] /\ (\A u \in Threads : Ready(api'[u])) /\ api'[t] = Idle
          /\ \A u \in Threads \ {t} : api'[u] = api[u]
      BY <2>1, ReturnType
    <2>3. TypeInv'
      BY <1>4, <1>5, <2>1, <2>2
      DEF CommitUpdate, TypeInv, TypeOK, Filled, IsConnection, IsProfile, jobs
    <2>4. QED BY <1>1, <1>4, <1>5, <1>6, <2>1, <2>2, <2>3 DEF Idle
  <1>7. CASE api[t].new # NoRef
    <2>1. /\ cleanup' = cleanup \cup {api[t].conn.ref} /\ api[t].conn.ref \in Refs
          /\ Take(t, [Idle EXCEPT !.pc = "cleaning", !.ref = api[t].conn.ref])
      BY <1>1, <1>7 DEF CommitUpdate, IsConnection
    <2>2. /\ api' \in [Threads -> ApiRequest] /\ \A u \in Threads : Ready(api'[u])
          /\ \A u \in Threads \ {t} : api'[u] = api[u]
          /\ api'[t].pc = "cleaning" /\ api'[t].ref = api[t].conn.ref /\ api'[t].new = NoRef
      BY <2>1, CleaningRequest
    <2>3. TypeInv'
      BY <1>4, <1>5, <2>1, <2>2
      DEF CommitUpdate, TypeInv, TypeOK, Filled, IsConnection, IsProfile, jobs
    <2>4. QED BY <1>1, <1>4, <1>5, <1>7, <2>1, <2>2, <2>3
  <1>8. QED BY <1>6, <1>7

LEMMA FailCommitStep ==
    ASSUME TypeInv, NEW t \in Threads, FailCommit(t)
    PROVE  /\ TypeInv' /\ api[t].pc \in {"creating", "committing"}
           /\ \A u \in Threads \ {t} : api'[u] = api[u]
           /\ api'[t].new = api[t].new /\ api'[t].ref = NoRef
           /\ api'[t].pc = IF api[t].new = NoRef THEN "idle" ELSE "orphan"
  <1>1. faults' \in 0 .. Faults /\ api[t].pc \in {"creating", "committing"}
        /\ api[t].new \in Refs \cup {NoRef}
    BY FaultType DEF FailCommit, CommitFails, TypeInv, TypeOK, ApiRequest
  <1>2. CASE api[t].new = NoRef
    <2>1. Return(t)
      BY <1>2 DEF FailCommit
    <2>2. TypeInv'
      BY <1>1, <2>1, ReturnType DEF FailCommit, TypeInv, TypeOK, Filled, rows, keys, jobs
    <2>3. QED BY <1>1, <1>2, <2>1, <2>2, ReturnType DEF Idle
  <1>3. CASE api[t].new # NoRef
    <2>1. Take(t, [Idle EXCEPT !.pc = "orphan", !.new = api[t].new]) /\ api[t].new \in Refs
      BY <1>1, <1>3 DEF FailCommit
    <2>2. TypeInv'
      BY <1>1, <2>1, OrphanRequest DEF FailCommit, TypeInv, TypeOK, Filled, rows, keys, jobs
    <2>3. QED BY <1>1, <1>3, <2>1, <2>2, OrphanRequest
  <1>4. QED BY <1>2, <1>3

LEMMA CleanupStep ==
    ASSUME TypeInv, NEW t \in Threads,
           DropOrphan(t) \/ AttemptCleanup(t) \/ CommitCleanup(t) \/ RetryCleanup(t)
    PROVE  /\ TypeInv'
           /\ \A u \in Threads \ {t} : api'[u] = api[u]
           /\ \/ api'[t] = Idle
              \/ AttemptCleanup(t) /\ api'[t].pc = "cleaned" /\ api'[t].ref = api[t].ref
                 /\ api'[t].new = NoRef
              \/ RetryCleanup(t) /\ api'[t].pc = "cleaning" /\ api'[t].ref \in cleanup
                 /\ api'[t].new = NoRef
  <1>1. CASE DropOrphan(t)
    <2>1. store' \subseteq Refs /\ cleanup' \subseteq Refs /\ faults' \in 0 .. Faults
      BY <1>1, FaultType DEF DropOrphan, TypeInv, TypeOK, Ready
    <2>2. QED
      BY <1>1, <2>1, ReturnType DEF DropOrphan, TypeInv, TypeOK, Filled, rows, jobs
  <1>2. CASE AttemptCleanup(t)
    <2>1. store' \subseteq Refs /\ faults' \in 0 .. Faults
      BY <1>2, FaultType DEF AttemptCleanup, TypeInv, TypeOK
    <2>2. CASE Return(t)
      BY <1>2, <2>1, <2>2, ReturnType DEF AttemptCleanup, TypeInv, TypeOK, Filled, rows, jobs
    <2>3. CASE Goto(t, "cleaned")
      <3> DEFINE r == [api[t] EXCEPT !.pc = "cleaned"]
      <3>1. "cleaned" \in Points /\ api[t] \in ApiRequest /\ Ready(api[t])
            /\ api[t].pc = "cleaning"
        BY <1>2 DEF AttemptCleanup, Points, TypeInv, TypeOK
      <3>2. r \in ApiRequest /\ Take(t, r)
        BY <2>3, <3>1 DEF Goto, Take, ApiRequest, TypeInv, TypeOK
      <3>3. r.pc = "cleaned" /\ r.new = api[t].new /\ r.ref = api[t].ref
        BY <3>1 DEF ApiRequest
      <3> HIDE DEF r
      <3>4. Ready(r) /\ r.new = NoRef
        BY <3>1, <3>3 DEF Ready, Making, Reading, Cleaning
      <3>5. /\ api' \in [Threads -> ApiRequest] /\ \A u \in Threads : Ready(api'[u])
            /\ \A u \in Threads \ {t} : api'[u] = api[u]
            /\ api'[t] = r
        BY <3>2, <3>4, TakeType
      <3>6. TypeInv'
        BY <1>2, <2>1, <3>5 DEF AttemptCleanup, TypeInv, TypeOK, Filled, rows, jobs
      <3>7. QED BY <1>2, <3>3, <3>4, <3>5, <3>6
    <2>4. QED BY <1>2, <2>2, <2>3 DEF AttemptCleanup
  <1>3. CASE CommitCleanup(t)
    <2>1. cleanup' \subseteq Refs
      BY <1>3 DEF CommitCleanup, TypeInv, TypeOK
    <2>2. QED
      BY <1>3, <2>1, ReturnType DEF CommitCleanup, TypeInv, TypeOK, Filled, rows, jobs, marks
  <1>4. CASE RetryCleanup(t)
    <2>1. PICK ref \in cleanup : Take(t, [Idle EXCEPT !.pc = "cleaning", !.ref = ref])
      BY <1>4 DEF RetryCleanup
    <2>2. ref \in Refs /\ requests' \in 0 .. Requests
      BY <1>4, BeginType DEF RetryCleanup, TypeInv, TypeOK
    <2>3. /\ api' \in [Threads -> ApiRequest] /\ \A u \in Threads : Ready(api'[u])
          /\ \A u \in Threads \ {t} : api'[u] = api[u]
          /\ api'[t].pc = "cleaning" /\ api'[t].ref = ref /\ api'[t].new = NoRef
      BY <2>1, <2>2, CleaningRequest
    <2>4. TypeInv'
      BY <1>4, <2>2, <2>3 DEF RetryCleanup, TypeInv, TypeOK, Filled, rows, keys, jobs, marks
    <2>5. QED BY <1>4, <2>3, <2>4
  <1>5. QED BY <1>1, <1>2, <1>3, <1>4

LEMMA CommitDropStep ==
    ASSUME TypeInv, NEW t \in Threads, CommitDrop(t)
    PROVE  /\ TypeInv' /\ api[t].pc = "dropping" /\ IsConnection(api[t].conn)
           /\ conn'.conf = conn.conf /\ conn'.rev = conn.rev /\ conn'.ref = conn.ref
           /\ conn.state # "none" => conn'.state # "none"
           /\ Exists(conn)' => Exists(conn)
           /\ prof'.purpose = prof.purpose /\ prof'.options = prof.options
           /\ prof'.consent = prof.consent /\ (prof'.state = "none" => prof.state = "none")
           /\ \A u \in Threads \ {t} : api'[u] = api[u]
           /\ api'[t].new = NoRef
           /\ \/ /\ conn'.state = "archived" /\ UNCHANGED <<cleanup, raced>> /\ api'[t] = Idle
              \/ /\ ~Exists(conn)'
                 /\ cleanup' = cleanup \cup {api[t].conn.ref}
                 /\ raced' = (raced \/ Overtaken(t))
                 /\ api'[t].pc = "cleaning" /\ api'[t].ref = api[t].conn.ref
  <1>1. /\ api[t].pc = "dropping" /\ IsConnection(api[t].conn) /\ api[t].conn.ref \in Refs
        /\ api[t].defaults \in DefaultsRow
        /\ conn \in ConnectionRow /\ (conn.state # "none" => IsConnection(conn))
        /\ prof \in ProfileRow /\ (prof.state # "none" => IsProfile(prof))
        /\ (conn.state = "none" => prof.state = "none")
    BY DEF CommitDrop, TypeInv, TypeOK, Filled, Ready, Reading, IsConnection
  <1>2. CASE api[t].pinned
    <2>1. /\ conn' = [conn EXCEPT !.state = "archived"] /\ Exists(conn)
          /\ api[t].prof.state = "active" => Exists(prof)
          /\ prof' = IF api[t].prof.state = "active" THEN [prof EXCEPT !.state = "archived"]
                                                     ELSE prof
          /\ defaults' = Unnamed(t, FALSE) /\ Return(t) /\ UNCHANGED <<cleanup, raced>>
      BY <1>2 DEF CommitDrop
    <2>2. IsConnection(conn') /\ conn'.state = "archived" /\ conn'.conf = conn.conf
          /\ conn'.rev = conn.rev /\ conn'.ref = conn.ref
      BY <1>1, <2>1 DEF IsConnection, ConnectionRow, RowStates, Exists
    <2>3. /\ prof' \in ProfileRow /\ (prof'.state # "none" => IsProfile(prof'))
          /\ prof'.purpose = prof.purpose /\ prof'.options = prof.options
          /\ prof'.consent = prof.consent /\ (prof'.state = "none" => prof.state = "none")
      BY <1>1, <2>1 DEF IsProfile, ProfileRow, RowStates, Exists
    <2>4. defaults' \in DefaultsRow
      BY <1>1, <2>1, UnnamedType
    <2>5. TypeInv'
      BY <2>1, <2>2, <2>3, <2>4, ReturnType
      DEF CommitDrop, TypeInv, TypeOK, Filled, jobs, IsConnection
    <2>6. Exists(conn) /\ api'[t] = Idle /\ Idle.new = NoRef
          /\ \A u \in Threads \ {t} : api'[u] = api[u]
      BY <2>1, ReturnType DEF Idle
    <2>7. QED BY <1>1, <2>1, <2>2, <2>3, <2>5, <2>6
  <1>3. CASE ~api[t].pinned
    <2>1. /\ conn' = Deleted(conn) /\ prof' = Deleted(prof) /\ defaults' = Unnamed(t, TRUE)
          /\ cleanup' = cleanup \cup {api[t].conn.ref}
          /\ raced' = (raced \/ Overtaken(t))
          /\ Take(t, [Idle EXCEPT !.pc = "cleaning", !.ref = api[t].conn.ref])
      BY <1>3 DEF CommitDrop
    <2>2. /\ conn' \in ConnectionRow /\ (conn'.state # "none" => IsConnection(conn'))
          /\ ~Exists(conn)' /\ conn'.conf = conn.conf
          /\ conn'.rev = conn.rev /\ conn'.ref = conn.ref
          /\ conn.state # "none" <=> conn'.state # "none"
      <3>1. CASE Exists(conn)
        <4>1. conn' = [conn EXCEPT !.state = "deleted"]
          BY <2>1, <3>1 DEF Deleted
        <4>2. QED BY <1>1, <3>1, <4>1 DEF IsConnection, ConnectionRow, RowStates, Exists
      <3>2. CASE ~Exists(conn)
        <4>1. conn' = conn
          BY <2>1, <3>2 DEF Deleted
        <4>2. QED BY <1>1, <3>2, <4>1 DEF Exists
      <3>3. QED BY <3>1, <3>2
    <2>3. /\ prof' \in ProfileRow /\ (prof'.state # "none" => IsProfile(prof'))
          /\ prof'.purpose = prof.purpose /\ prof'.options = prof.options
          /\ prof'.consent = prof.consent /\ (prof'.state = "none" <=> prof.state = "none")
      BY <1>1, <2>1, DeletedType DEF IsProfile, ProfileRow, RowStates, Exists
    <2>4. defaults' \in DefaultsRow
      BY <1>1, <2>1, UnnamedType
    <2>5. /\ api' \in [Threads -> ApiRequest] /\ \A u \in Threads : Ready(api'[u])
          /\ \A u \in Threads \ {t} : api'[u] = api[u]
          /\ api'[t].pc = "cleaning" /\ api'[t].ref = api[t].conn.ref /\ api'[t].new = NoRef
      BY <1>1, <2>1, CleaningRequest
    <2>6. TypeInv'
      <3>1. cleanup' \subseteq Refs /\ raced' \in BOOLEAN
        BY <1>1, <2>1 DEF TypeInv, TypeOK, Overtaken
      <3>2. QED
        BY <1>1, <2>2, <2>3, <2>4, <2>5, <3>1 DEF CommitDrop, TypeInv, TypeOK, Filled, jobs
    <2>7. QED BY <1>1, <2>1, <2>2, <2>3, <2>5, <2>6
  <1>4. QED BY <1>2, <1>3

LEMMA WorkerType ==
    ASSUME TypeInv, RetryTask \/ EndTask \/ Validate \/ Resolve \/ Send
    PROVE  TypeInv'
  <1>1. /\ task \in TaskRow /\ worker.ref \in Refs \cup {NoRef} /\ conn \in ConnectionRow
        /\ (task.state # "none" => task.snapshot \in Snapshot)
        /\ worker.pc # "idle" => task.state = "queued"
        /\ conn.ref \in Refs \cup {NoRef}
    BY DEF TypeInv, TypeOK, Filled, ConnectionRow
  <1>2. CASE RetryTask
    <2>1. requests' \in 0 .. Requests
      BY <1>2, ConfigurationAssumption DEF RetryTask, Count, TypeInv, TypeOK
    <2>2. /\ task' \in TaskRow /\ task'.state = "queued" /\ task'.snapshot = task.snapshot
          /\ task.state # "none"
      BY <1>1, <1>2 DEF RetryTask, CanRetry, TaskRow
    <2>3. QED
      BY <1>1, <1>2, <2>1, <2>2 DEF RetryTask, TypeInv, TypeOK, Filled, rows, keys, marks
  <1>3. CASE EndTask
    <2>1. /\ task' \in TaskRow /\ task'.snapshot = task.snapshot /\ task.state # "none"
          /\ worker.pc = "idle"
      BY <1>1, <1>3 DEF EndTask, TaskRow
    <2>2. QED BY <1>1, <1>3, <2>1 DEF EndTask, TypeInv, TypeOK, Filled, rows, keys, marks
  <1>4. CASE Validate
    <2>1. worker' \in [pc : {"idle", "validated", "resolved"}, ref : Refs \cup {NoRef}]
      BY <1>1, <1>4 DEF Validate
    <2>2. QED BY <1>4, <2>1 DEF Validate, TypeInv, TypeOK, Filled, rows, keys, marks
  <1>5. CASE Resolve
    <2>1. worker' \in [pc : {"idle", "validated", "resolved"}, ref : Refs \cup {NoRef}]
      BY <1>5 DEF Resolve, Resolved, AtRest, TypeInv, TypeOK
    <2>2. /\ task' \in TaskRow /\ task'.snapshot = task.snapshot /\ task.state # "none"
          /\ worker'.pc # "idle" => task' = task
      BY <1>1, <1>5 DEF Resolve, TaskRow
    <2>3. worker'.pc # "idle" => worker.pc # "idle"
      BY <1>5 DEF Resolve
    <2>4. QED
      BY <1>1, <1>5, <2>1, <2>2, <2>3 DEF Resolve, TypeInv, TypeOK, Filled, rows, keys, marks
  <1>6. CASE Send
    <2>1. worker' \in [pc : {"idle", "validated", "resolved"}, ref : Refs \cup {NoRef}]
          /\ worker'.pc = "idle"
      BY <1>6 DEF Send, AtRest
    <2>2. /\ task' \in TaskRow /\ task'.snapshot = task.snapshot /\ task.state # "none"
      BY <1>1, <1>6 DEF Send, TaskRow
    <2>3. sent' \in Targets \cup {None}
      BY <1>1, <1>6 DEF Send, Targets, Snapshot, TypeInv, TypeOK
    <2>4. QED BY <1>1, <1>6, <2>1, <2>2, <2>3 DEF Send, TypeInv, TypeOK, Filled, rows, keys, marks
  <1>7. QED BY <1>2, <1>3, <1>4, <1>5, <1>6

LEMMA DieType ==
    ASSUME TypeInv, Die
    PROVE  TypeInv'
  <1>1. api' \in [Threads -> ApiRequest] /\ \A t \in Threads : Ready(api'[t])
    BY IdleType DEF Die
  <1>2. faults' \in 0 .. Faults
    BY FaultType DEF Die
  <1>3. QED BY <1>1, <1>2 DEF Die, TypeInv, TypeOK, Filled, rows, keys, jobs

LEMMA TypeStep ==
    ASSUME TypeInv, [Next]_vars
    PROVE  TypeInv'
  <1>1. ASSUME NEW t \in Threads, Request(t)
        PROVE  TypeInv'
    BY <1>1, CreateConnectionType, CommitCreationStep, UpdateConnectionStep, StoreSecretStep,
       CommitUpdateStep, FailCommitStep, CleanupStep, CommitDropStep, PlainType
    DEF Request, PlainRequest
  <1>2. CASE UNCHANGED vars
    BY <1>2 DEF vars, TypeInv, TypeOK, Filled
  <1>3. QED BY <1>1, <1>2, WorkerType, DieType DEF Next

\* Every row, request and record keeps its type: no request works on values it has not read, and
\* no revision, reference or snapshot leaves its range.
THEOREM TypeCorrect == Spec => []TypeOK
  <1>1. TypeInv => TypeOK
    BY DEF TypeInv
  <1>2. QED BY <1>1, InitType, TypeStep, PTL DEF Spec

-----------------------------------------------------------------------------
(* The secret of the connection *)

\* A reference a request has made, and not yet handed over, is nobody else's.
FreshInv ==
    /\ conn.ref < next /\ \A ref \in cleanup \cup given : ref < next
    /\ \A t \in Threads :
         /\ api[t].ref < next /\ api[t].new < next
         /\ api[t].pc \in Reading => api[t].conn.ref < next
    /\ \A t \in Threads : api[t].new # NoRef =>
         /\ api[t].new # conn.ref
         /\ api[t].new \notin cleanup
         /\ \A u \in Threads :
              /\ api[u].ref # api[t].new
              /\ api[u].pc \in Reading => api[u].conn.ref # api[t].new
              /\ u # t => api[u].new # api[t].new

\* Nobody is about to delete the secret of a connection that exists.
SafeInv ==
    Exists(conn) =>
      /\ conn.ref \notin cleanup
      /\ \A t \in Threads : api[t].pc \in Cleaning => api[t].ref # conn.ref

\* Nor has anybody: what was put under the reference in use, or under one still held, is there.
Holding == {"creating", "storing", "committing"}

KeptInv ==
    /\ LiveSecretIsKept
    /\ \A t \in Threads :
         api[t].pc \in Holding /\ api[t].new # NoRef /\ api[t].new \in given => api[t].new \in store

SecretInv == TypeInv /\ FreshInv /\ SafeInv /\ KeptInv

LEMMA InitSecret == Init => SecretInv
  <1> SUFFICES ASSUME Init PROVE SecretInv
    OBVIOUS
  <1>1. \A t \in Threads : api[t].pc = "idle" /\ api[t].ref = NoRef /\ api[t].new = NoRef
    BY DEF Init, Idle
  <1>2. QED
    BY <1>1, InitType
    DEF Init, SecretInv, FreshInv, SafeInv, KeptInv, LiveSecretIsKept, Holding, Reading, Cleaning,
        Exists, NoRef

LEMMA Numbers ==
    ASSUME TypeInv
    PROVE  /\ conn.ref \in Nat /\ next \in Nat \ {0}
           /\ cleanup \subseteq Nat \ {0} /\ given \subseteq Nat \ {0}
           /\ \A t \in Threads :
                /\ api[t].ref \in Nat /\ api[t].new \in Nat
                /\ api[t].pc \in Reading => api[t].conn.ref \in Nat \ {0}
           /\ NoRef = 0 /\ Refs \subseteq Nat \ {0}
  BY ConfigurationAssumption
  DEF TypeInv, TypeOK, Ready, IsConnection, ConnectionRow, ApiRequest, Refs, NoRef

\* A step that makes, hands over and deletes no reference.
LEMMA SecretUnchanged ==
    ASSUME SecretInv, TypeInv', UNCHANGED <<store, cleanup, next, given>>,
           conn'.ref = conn.ref, Exists(conn)' => Exists(conn),
           \A t \in Threads :
              \/ api'[t] = api[t]
              \/ /\ api'[t].new = NoRef /\ api'[t].pc \notin Cleaning
                 /\ api'[t].ref \in {NoRef, conn.ref, api[t].ref}
                 /\ api'[t].pc \in Reading => api'[t].conn = conn
    PROVE  SecretInv'
  <1>1. FreshInv'
    <2>1. \A t \in Threads :
            /\ api'[t].ref \in {NoRef, conn.ref, api[t].ref}
            /\ api'[t].new \in {NoRef, api[t].new}
            /\ api'[t].pc \in Reading =>
                 \/ api'[t].conn.ref = conn.ref
                 \/ api[t].pc \in Reading /\ api'[t].conn.ref = api[t].conn.ref
      OBVIOUS
    <2>2. \A t \in Threads : api'[t].new # NoRef => api'[t].new = api[t].new
      BY <2>1
    <2>3. \A t \in Threads :
            /\ api'[t].ref < next /\ api'[t].new < next
            /\ api'[t].pc \in Reading => api'[t].conn.ref < next
      BY <2>1, Numbers DEF SecretInv, FreshInv
    <2>4. ASSUME NEW t \in Threads, api'[t].new # NoRef, NEW u \in Threads
          PROVE  /\ api'[u].ref # api'[t].new
                 /\ api'[u].pc \in Reading => api'[u].conn.ref # api'[t].new
                 /\ u # t => api'[u].new # api'[t].new
      BY <2>1, <2>2, <2>4 DEF SecretInv, FreshInv
    <2>5. QED BY <2>2, <2>3, <2>4 DEF SecretInv, FreshInv
  <1>2. SafeInv'
    BY DEF SecretInv, SafeInv
  <1>3. KeptInv'
    BY DEF SecretInv, KeptInv, LiveSecretIsKept
  <1>4. QED BY <1>1, <1>2, <1>3 DEF SecretInv

LEMMA PlainSecret ==
    ASSUME SecretInv, NEW t \in Threads, PlainRequest(t)
    PROVE  SecretInv'
  <1>1. Plain(t) /\ TypeInv'
    BY PlainStep, PlainType DEF SecretInv
  <1>2. PICK r \in ApiRequest :
          /\ Take(t, r) /\ Ready(r)
          /\ r.pc \notin Making \cup Cleaning
          /\ r.ref \in {NoRef, conn.ref, api[t].ref}
          /\ r.pc \in Reading => r.conn = conn
    BY <1>1 DEF Plain
  <1>3. api'[t] = r /\ r.new = NoRef /\ \A u \in Threads \ {t} : api'[u] = api[u]
    BY <1>2, TakeType DEF SecretInv, Ready
  <1>4. UNCHANGED <<conn, store, cleanup, next, given>>
    BY DEF PlainRequest, DeleteConnection, CreateProfile, CommitProfile, UpdateProfile, CommitEdit,
           DeleteProfile, CommitDeletion, BeginTest, ReadTested, RecordTest, Authorize,
           CommitConsent, Revoke, CommitRevocation, UpdateDefaults, CommitDefaults, TakeSnapshot,
           CreateTask, Refuse, rows, keys
  <1>5. QED BY <1>1, <1>2, <1>3, <1>4, SecretUnchanged DEF Exists

LEMMA CreateConnectionSecret ==
    ASSUME SecretInv, NEW t \in Threads, CreateConnection(t)
    PROVE  SecretInv'
  <1>1. /\ \A u \in Threads \ {t} : api'[u] = api[u]
        /\ api'[t].pc = "creating" /\ api'[t].new = next /\ api'[t].ref = NoRef
        /\ next' = next + 1
    BY CreateConnectionStep DEF SecretInv
  <1>2. /\ store' = store \cup {next} /\ given' = given \cup {next}
        /\ UNCHANGED <<conn, cleanup>> /\ ~Exists(conn)
    BY DEF CreateConnection, Exists, rows
  <1>3. TypeInv'
    BY CreateConnectionType DEF SecretInv
  <1>4. FreshInv'
    BY <1>1, <1>2, Numbers DEF SecretInv, FreshInv, Reading
  <1>5. SafeInv'
    BY <1>2 DEF SafeInv, Exists
  <1>6. KeptInv'
    BY <1>1, <1>2 DEF SecretInv, KeptInv, LiveSecretIsKept, Exists
  <1>7. QED BY <1>3, <1>4, <1>5, <1>6 DEF SecretInv

\* The commit of a creation or an update puts the connection under the request's reference.
LEMMA HandOverSecret ==
    ASSUME SecretInv, TypeInv', NEW t \in Threads, api[t].pc \in {"creating", "committing"},
           api[t].new # NoRef, conn'.ref = api[t].new, UNCHANGED <<store, next, given>>,
           \/ cleanup' = cleanup /\ api'[t].ref = NoRef
           \/ /\ api[t].pc \in Reading
              /\ cleanup' = cleanup \cup {api[t].conn.ref} /\ api'[t].ref = api[t].conn.ref,
           api'[t].new = NoRef, api'[t].pc \notin Holding \cup Reading,
           \A u \in Threads \ {t} : api'[u] = api[u]
    PROVE  SecretInv'
  <1>1. /\ \A u \in Threads : api'[u].ref # api[t].new
        /\ api[t].new \notin cleanup'
    BY Numbers DEF SecretInv, FreshInv
  <1>2. FreshInv'
    <2>1. conn'.ref < next' /\ \A ref \in cleanup' \cup given' : ref < next'
      BY DEF SecretInv, FreshInv
    <2>2. \A u \in Threads :
            /\ api'[u].ref < next' /\ api'[u].new < next'
            /\ api'[u].pc \in Reading => api'[u].conn.ref < next'
      BY Numbers DEF SecretInv, FreshInv
    <2>3. ASSUME NEW u \in Threads, api'[u].new # NoRef
          PROVE  /\ api'[u].new # conn'.ref
                 /\ api'[u].new \notin cleanup'
                 /\ \A v \in Threads :
                      /\ api'[v].ref # api'[u].new
                      /\ api'[v].pc \in Reading => api'[v].conn.ref # api'[u].new
                      /\ v # u => api'[v].new # api'[u].new
      <3>1. u # t /\ api'[u] = api[u]
        BY <2>3
      <3>2. QED BY <2>3, <3>1 DEF SecretInv, FreshInv
    <2>4. QED BY <2>1, <2>2, <2>3 DEF FreshInv
  <1>3. SafeInv'
    BY <1>1 DEF SafeInv
  <1>4. KeptInv'
    BY DEF SecretInv, KeptInv, LiveSecretIsKept, Holding
  <1>5. QED BY <1>2, <1>3, <1>4 DEF SecretInv

LEMMA CommitSecret ==
    ASSUME SecretInv, NEW t \in Threads, CommitCreation(t) \/ CommitUpdate(t)
    PROVE  SecretInv'
  <1>1. CASE CommitCreation(t)
    <2>1. /\ TypeInv' /\ api[t].new # NoRef /\ conn'.ref = api[t].new
          /\ api'[t] = Idle /\ \A u \in Threads \ {t} : api'[u] = api[u]
      BY <1>1, CommitCreationStep, Numbers DEF SecretInv
    <2>2. UNCHANGED <<store, next, given, cleanup>> /\ api[t].pc = "creating"
      BY <1>1 DEF CommitCreation, keys
    <2>3. Idle.new = NoRef /\ Idle.ref = NoRef /\ Idle.pc = "idle"
      BY DEF Idle
    <2>4. QED BY <2>1, <2>2, <2>3, HandOverSecret DEF Holding, Reading
  <1>2. CASE CommitUpdate(t) /\ api[t].new = NoRef
    <2>1. /\ TypeInv' /\ conn'.ref = conn.ref /\ conn'.state = conn.state
          /\ api'[t] = Idle /\ \A u \in Threads \ {t} : api'[u] = api[u] /\ UNCHANGED cleanup
      BY <1>2, CommitUpdateStep, Numbers DEF SecretInv
    <2>2. UNCHANGED <<store, cleanup, next, given>>
      BY <1>2, <2>1 DEF CommitUpdate
    <2>3. Idle.new = NoRef /\ Idle.ref = NoRef /\ Idle.pc = "idle"
      BY DEF Idle
    <2>4. QED BY <2>1, <2>2, <2>3, SecretUnchanged DEF Exists, Reading, Cleaning
  <1>3. CASE CommitUpdate(t) /\ api[t].new # NoRef
    <2>1. /\ TypeInv' /\ conn'.ref = api[t].new /\ api[t].pc = "committing"
          /\ cleanup' = cleanup \cup {api[t].conn.ref}
          /\ api'[t].pc = "cleaning" /\ api'[t].ref = api[t].conn.ref /\ api'[t].new = NoRef
          /\ \A u \in Threads \ {t} : api'[u] = api[u]
      BY <1>3, CommitUpdateStep DEF SecretInv
    <2>2. UNCHANGED <<store, next, given>>
      BY <1>3 DEF CommitUpdate
    <2>3. QED BY <1>3, <2>1, <2>2, HandOverSecret DEF Holding, Reading
  <1>4. QED BY <1>1, <1>2, <1>3

LEMMA UpdateSecret ==
    ASSUME SecretInv, NEW t \in Threads, UpdateConnection(t)
    PROVE  SecretInv'
  <1>1. /\ TypeInv' /\ IsConnection(conn)
        /\ \A u \in Threads \ {t} : api'[u] = api[u]
        /\ api'[t].pc \in {"committing", "storing"} /\ api'[t].conn = conn
        /\ api'[t].ref = NoRef
        /\ \/ next' = next /\ api'[t].new = NoRef
           \/ next' = next + 1 /\ api'[t].new = next
    BY UpdateConnectionStep DEF SecretInv
  <1>2. UNCHANGED <<conn, store, cleanup, given>>
    BY DEF UpdateConnection, rows
  <1>3. CASE next' = next /\ api'[t].new = NoRef
    BY <1>1, <1>2, <1>3, SecretUnchanged DEF Exists, Cleaning
  <1>4. CASE next' = next + 1 /\ api'[t].new = next
    <2>1. FreshInv'
      <3>1. conn'.ref < next' /\ \A ref \in cleanup' \cup given' : ref < next'
        BY <1>2, <1>4, Numbers DEF SecretInv, FreshInv
      <3>2. \A u \in Threads :
              /\ api'[u].ref < next' /\ api'[u].new < next'
              /\ api'[u].pc \in Reading => api'[u].conn.ref < next'
        BY <1>1, <1>4, Numbers DEF SecretInv, FreshInv
      <3>3. ASSUME NEW u \in Threads, api'[u].new # NoRef
            PROVE  /\ api'[u].new # conn'.ref
                   /\ api'[u].new \notin cleanup'
                   /\ \A v \in Threads :
                        /\ api'[v].ref # api'[u].new
                        /\ api'[v].pc \in Reading => api'[v].conn.ref # api'[u].new
                        /\ v # u => api'[v].new # api'[u].new
        BY <1>1, <1>2, <1>4, <3>3, Numbers DEF SecretInv, FreshInv
      <3>4. QED BY <3>1, <3>2, <3>3 DEF FreshInv
    <2>2. SafeInv'
      BY <1>1, <1>2 DEF SecretInv, SafeInv, Exists, Cleaning
    <2>3. KeptInv'
      <3>1. next \notin given
        BY Numbers DEF SecretInv, FreshInv
      <3>2. QED BY <1>1, <1>2, <1>4, <3>1 DEF SecretInv, KeptInv, LiveSecretIsKept, Exists
    <2>4. QED BY <1>1, <2>1, <2>2, <2>3 DEF SecretInv
  <1>5. QED BY <1>1, <1>3, <1>4

LEMMA StoreSecretSecret ==
    ASSUME SecretInv, NEW t \in Threads, StoreSecret(t)
    PROVE  SecretInv'
  <1>1. /\ TypeInv' /\ api[t].pc = "storing" /\ api[t].new \in Refs
        /\ \A u \in Threads \ {t} : api'[u] = api[u]
        /\ api'[t].new = api[t].new
        /\ \/ /\ api'[t].pc = "committing" /\ api'[t].conn = api[t].conn
              /\ api'[t].ref = api[t].ref
              /\ store' = store \cup {api[t].new} /\ given' = given \cup {api[t].new}
           \/ /\ api'[t].pc = "orphan" /\ api'[t].ref = NoRef
              /\ UNCHANGED <<store, given>>
    BY StoreSecretStep DEF SecretInv
  <1>2. UNCHANGED <<conn, cleanup, next>>
    BY DEF StoreSecret, rows
  <1>3. FreshInv'
    <2>1. \A u \in Threads :
            /\ api'[u].new = api[u].new /\ api'[u].ref \in {api[u].ref, NoRef}
            /\ api'[u].pc \in Reading => api[u].pc \in Reading /\ api'[u].conn = api[u].conn
      BY <1>1 DEF Reading
    <2>2. \A ref \in cleanup' \cup given' : ref < next'
      BY <1>1, <1>2 DEF SecretInv, FreshInv
    <2>3. QED BY <1>2, <2>1, <2>2, Numbers DEF SecretInv, FreshInv
  <1>4. SafeInv'
    BY <1>1, <1>2 DEF SecretInv, SafeInv, Exists, Cleaning
  <1>5. KeptInv'
    <2>1. api[t].new # conn.ref /\ \A u \in Threads \ {t} : api[u].new # api[t].new
      BY <1>1, Numbers DEF SecretInv, FreshInv
    <2>2. QED
      BY <1>1, <1>2, <2>1 DEF SecretInv, KeptInv, LiveSecretIsKept, Exists, Holding
  <1>6. QED BY <1>1, <1>3, <1>4, <1>5 DEF SecretInv

LEMMA FailCommitSecret ==
    ASSUME SecretInv, NEW t \in Threads, FailCommit(t)
    PROVE  SecretInv'
  <1>1. /\ TypeInv'
        /\ \A u \in Threads \ {t} : api'[u] = api[u]
        /\ api'[t].new = api[t].new /\ api'[t].ref = NoRef
        /\ api'[t].pc \in {"idle", "orphan"}
    BY FailCommitStep DEF SecretInv
  <1>2. UNCHANGED <<conn, store, cleanup, next, given>>
    BY DEF FailCommit, rows, keys
  <1>3. FreshInv'
    <2>1. \A u \in Threads :
            /\ api'[u].new = api[u].new /\ api'[u].ref \in {api[u].ref, NoRef}
            /\ api'[u].pc \in Reading => api[u].pc \in Reading /\ api'[u].conn = api[u].conn
      BY <1>1 DEF Reading
    <2>2. QED BY <1>2, <2>1, Numbers DEF SecretInv, FreshInv
  <1>4. SafeInv'
    BY <1>1, <1>2 DEF SecretInv, SafeInv, Exists, Cleaning
  <1>5. KeptInv'
    BY <1>1, <1>2 DEF SecretInv, KeptInv, LiveSecretIsKept, Exists, Holding
  <1>6. QED BY <1>1, <1>3, <1>4, <1>5 DEF SecretInv

LEMMA CleanupSecret ==
    ASSUME SecretInv, NEW t \in Threads,
           DropOrphan(t) \/ AttemptCleanup(t) \/ CommitCleanup(t) \/ RetryCleanup(t)
    PROVE  SecretInv'
  <1>1. /\ TypeInv'
        /\ \A u \in Threads \ {t} : api'[u] = api[u]
        /\ \/ api'[t] = Idle
           \/ AttemptCleanup(t) /\ api'[t].pc = "cleaned" /\ api'[t].ref = api[t].ref
              /\ api'[t].new = NoRef
           \/ RetryCleanup(t) /\ api'[t].pc = "cleaning" /\ api'[t].ref \in cleanup
              /\ api'[t].new = NoRef
    BY CleanupStep DEF SecretInv
  <1>2. Idle.new = NoRef /\ Idle.ref = NoRef /\ Idle.pc = "idle"
    BY DEF Idle
  <1>3. /\ api'[t].new = NoRef /\ api'[t].pc \notin Reading \cup Holding
        /\ api'[t].ref \in {NoRef, api[t].ref} \cup cleanup
    BY <1>1, <1>2 DEF Reading, Holding
  <1>4. UNCHANGED <<conn, next, given>>
    BY DEF DropOrphan, AttemptCleanup, CommitCleanup, RetryCleanup, rows, keys
  <1>5. CASE DropOrphan(t)
    <2>1. /\ api[t].new \in Refs /\ api[t].new # NoRef
          /\ store' \in {store, store \ {api[t].new}}
          /\ cleanup' \in {cleanup, cleanup \cup {api[t].new}}
          /\ api'[t] = Idle
      BY <1>5, ReturnType, Numbers DEF DropOrphan, SecretInv, TypeInv, Ready
    <2>2. /\ api[t].new # conn.ref
          /\ \A u \in Threads :
               /\ api[u].ref # api[t].new
               /\ u # t => api[u].new # api[t].new
      BY <2>1 DEF SecretInv, FreshInv
    <2>3. FreshInv'
      <3>1. \A ref \in cleanup' \cup given' : ref < next'
        BY <1>4, <2>1 DEF SecretInv, FreshInv
      <3>2. ASSUME NEW u \in Threads, api'[u].new # NoRef
            PROVE  /\ api'[u].new # conn'.ref
                   /\ api'[u].new \notin cleanup'
                   /\ \A v \in Threads :
                        /\ api'[v].ref # api'[u].new
                        /\ api'[v].pc \in Reading => api'[v].conn.ref # api'[u].new
                        /\ v # u => api'[v].new # api'[u].new
        <4>1. u # t /\ api'[u] = api[u]
          BY <1>1, <1>3, <3>2
        <4>2. QED BY <1>1, <1>2, <1>3, <1>4, <2>1, <2>2, <3>2, <4>1 DEF SecretInv, FreshInv
      <3>3. QED BY <1>1, <1>2, <1>3, <1>4, <2>1, <3>1, <3>2, Numbers DEF SecretInv, FreshInv
    <2>4. SafeInv'
      BY <1>1, <1>2, <1>4, <2>1, <2>2 DEF SecretInv, SafeInv, Exists, Cleaning
    <2>5. KeptInv'
      BY <1>1, <1>3, <1>4, <2>1, <2>2 DEF SecretInv, KeptInv, LiveSecretIsKept, Exists
    <2>6. QED BY <1>1, <2>3, <2>4, <2>5 DEF SecretInv
  <1>6. CASE AttemptCleanup(t) \/ CommitCleanup(t) \/ RetryCleanup(t)
    <2>1. cleanup' \subseteq cleanup /\ store' \in {store, store \ {api[t].ref}}
          /\ (store' # store => api[t].pc = "cleaning" /\ AttemptCleanup(t))
      BY <1>6 DEF AttemptCleanup, CommitCleanup, RetryCleanup, keys
    <2>2. FreshInv'
      <3>1. ASSUME NEW u \in Threads, api'[u].new # NoRef
            PROVE  /\ api'[u].new # conn'.ref
                   /\ api'[u].new \notin cleanup'
                   /\ \A v \in Threads :
                        /\ api'[v].ref # api'[u].new
                        /\ api'[v].pc \in Reading => api'[v].conn.ref # api'[u].new
                        /\ v # u => api'[v].new # api'[u].new
        <4>1. u # t /\ api'[u] = api[u]
          BY <1>1, <1>3, <3>1
        <4>2. QED BY <1>1, <1>3, <1>4, <2>1, <3>1, <4>1 DEF SecretInv, FreshInv
      <3>2. \A u \in Threads :
              /\ api'[u].ref < next' /\ api'[u].new < next'
              /\ api'[u].pc \in Reading => api'[u].conn.ref < next'
        BY <1>1, <1>3, <1>4, Numbers DEF SecretInv, FreshInv
      <3>3. QED BY <1>4, <2>1, <3>1, <3>2 DEF SecretInv, FreshInv
    <2>3. SafeInv'
      <3>1. ASSUME Exists(conn), api'[t].pc \in Cleaning
            PROVE  api'[t].ref # conn.ref
        <4>1. CASE AttemptCleanup(t) /\ api'[t].ref = api[t].ref
          BY <3>1, <4>1 DEF AttemptCleanup, SecretInv, SafeInv, Cleaning
        <4>2. CASE api'[t].ref \in cleanup
          BY <3>1, <4>2 DEF SecretInv, SafeInv
        <4>3. QED BY <1>1, <1>2, <3>1, <4>1, <4>2 DEF Cleaning
      <3>2. QED BY <1>1, <1>4, <2>1, <3>1 DEF SecretInv, SafeInv, Exists
    <2>4. KeptInv'
      <3>1. store' # store =>
              /\ Exists(conn) => api[t].ref # conn.ref
              /\ \A u \in Threads : api[u].new # NoRef => api[u].new # api[t].ref
        BY <2>1 DEF SecretInv, SafeInv, FreshInv, Cleaning
      <3>2. QED
        BY <1>1, <1>3, <1>4, <2>1, <3>1 DEF SecretInv, KeptInv, LiveSecretIsKept, Exists
    <2>5. QED BY <1>1, <2>2, <2>3, <2>4 DEF SecretInv
  <1>7. QED BY <1>5, <1>6

LEMMA CommitDropSecret ==
    ASSUME SecretInv, NEW t \in Threads, CommitDrop(t)
    PROVE  SecretInv'
  <1>1. /\ TypeInv' /\ api[t].pc = "dropping" /\ conn'.ref = conn.ref
        /\ Exists(conn)' => Exists(conn)
        /\ \A u \in Threads \ {t} : api'[u] = api[u]
        /\ api'[t].new = NoRef
        /\ \/ UNCHANGED cleanup /\ api'[t] = Idle
           \/ /\ ~Exists(conn)'
              /\ cleanup' = cleanup \cup {api[t].conn.ref}
              /\ api'[t].pc = "cleaning" /\ api'[t].ref = api[t].conn.ref
    BY CommitDropStep DEF SecretInv
  <1>2. UNCHANGED <<store, next, given>>
    BY DEF CommitDrop
  <1>3. CASE UNCHANGED cleanup /\ api'[t] = Idle
    <2>1. Idle.new = NoRef /\ Idle.ref = NoRef /\ Idle.pc = "idle"
      BY DEF Idle
    <2>2. QED BY <1>1, <1>2, <1>3, <2>1, SecretUnchanged DEF Reading, Cleaning
  <1>4. CASE /\ ~Exists(conn)'
             /\ cleanup' = cleanup \cup {api[t].conn.ref}
             /\ api'[t].pc = "cleaning" /\ api'[t].ref = api[t].conn.ref
    <2>1. FreshInv'
      <3>1. ASSUME NEW u \in Threads, api'[u].new # NoRef
            PROVE  /\ api'[u].new # conn'.ref
                   /\ api'[u].new \notin cleanup'
                   /\ \A v \in Threads :
                        /\ api'[v].ref # api'[u].new
                        /\ api'[v].pc \in Reading => api'[v].conn.ref # api'[u].new
                        /\ v # u => api'[v].new # api'[u].new
        <4>1. u # t /\ api'[u] = api[u]
          BY <1>1, <3>1
        <4>2. QED BY <1>1, <1>4, <3>1, <4>1 DEF SecretInv, FreshInv, Reading
      <3>2. \A u \in Threads :
              /\ api'[u].ref < next' /\ api'[u].new < next'
              /\ api'[u].pc \in Reading => api'[u].conn.ref < next'
        BY <1>1, <1>2, <1>4, Numbers DEF SecretInv, FreshInv, Reading
      <3>3. \A ref \in cleanup' \cup given' : ref < next'
        BY <1>1, <1>2, <1>4 DEF SecretInv, FreshInv, Reading
      <3>4. QED BY <1>1, <1>2, <3>1, <3>2, <3>3 DEF SecretInv, FreshInv
    <2>2. SafeInv'
      BY <1>4 DEF SafeInv
    <2>3. KeptInv'
      BY <1>1, <1>2, <1>4 DEF SecretInv, KeptInv, LiveSecretIsKept, Holding
    <2>4. QED BY <1>1, <2>1, <2>2, <2>3 DEF SecretInv
  <1>5. QED BY <1>1, <1>3, <1>4

LEMMA SecretStep ==
    ASSUME SecretInv, [Next]_vars
    PROVE  SecretInv'
  <1>1. TypeInv'
    BY TypeStep DEF SecretInv
  <1>2. CASE \/ RetryTask \/ EndTask \/ Validate \/ Resolve \/ Send \/ UNCHANGED vars
    <2>1. UNCHANGED <<conn, store, cleanup, next, given, api>>
      BY <1>2 DEF RetryTask, EndTask, Validate, Resolve, Send, vars, rows, keys
    <2>2. QED BY <1>1, <2>1, SecretUnchanged DEF Exists
  <1>3. CASE Die
    <2>1. \A t \in Threads : api'[t].new = NoRef /\ api'[t].ref = NoRef /\ api'[t].pc = "idle"
      BY <1>3 DEF Die, Idle
    <2>2. UNCHANGED <<conn, store, cleanup, next, given>>
      BY <1>3 DEF Die, rows, keys
    <2>3. QED BY <1>1, <2>1, <2>2, SecretUnchanged DEF Exists, Reading, Cleaning
  <1>4. ASSUME NEW t \in Threads, Request(t)
        PROVE  SecretInv'
    BY <1>4, CreateConnectionSecret, CommitSecret, UpdateSecret, StoreSecretSecret,
       FailCommitSecret, CleanupSecret, CommitDropSecret, PlainSecret DEF Request, PlainRequest
  <1>5. QED BY <1>2, <1>3, <1>4 DEF Next

\* The secret a connection has is never lost, whatever updates, deletions, failed commits,
\* refusals of the keyring and deaths of the API overlap.
THEOREM SecretsAreKept == Spec => []LiveSecretIsKept
  <1>1. SecretInv => LiveSecretIsKept
    BY DEF SecretInv, KeptInv
  <1>2. QED BY <1>1, InitSecret, SecretStep, PTL DEF Spec

-----------------------------------------------------------------------------
(* What requests in progress have read of the connection *)

\* The revision a request has read is not ahead of the row's, and if it still is the row's, so is
\* the reference: unless a commit has put its own revision over one it had not read.
SeenInv ==
    \A t \in Threads : api[t].pc \in Reading =>
      /\ conn.state # "none"
      /\ ~raced => /\ api[t].conn.rev <= conn.rev
                   /\ api[t].conn.rev = conn.rev => api[t].conn.ref = conn.ref

\* A step that leaves revision and reference, and in which a request reads the row, if any.
LEMMA SeenUnchanged ==
    ASSUME TypeInv, SeenInv, conn'.rev = conn.rev, conn'.ref = conn.ref,
           conn.state # "none" => conn'.state # "none", raced => raced',
           \A t \in Threads : api'[t].pc \in Reading =>
              \/ api[t].pc \in Reading /\ api'[t].conn = api[t].conn
              \/ conn.state # "none" /\ api'[t].conn = conn
    PROVE  SeenInv'
  <1> SUFFICES ASSUME NEW t \in Threads, api'[t].pc \in Reading
               PROVE  /\ conn'.state # "none"
                      /\ ~raced' => /\ api'[t].conn.rev <= conn'.rev
                                    /\ api'[t].conn.rev = conn'.rev =>
                                         api'[t].conn.ref = conn'.ref
    BY DEF SeenInv
  <1>1. conn.rev \in Nat
    BY ConfigurationAssumption DEF TypeInv, TypeOK, ConnectionRow, Revisions
  <1>2. CASE api[t].pc \in Reading /\ api'[t].conn = api[t].conn
    BY <1>2 DEF SeenInv
  <1>3. CASE conn.state # "none" /\ api'[t].conn = conn
    BY <1>1, <1>3
  <1>4. QED BY <1>2, <1>3

LEMMA PlainKeeps ==
    ASSUME NEW t \in Threads, PlainRequest(t)
    PROVE  /\ UNCHANGED <<conn, store, cleanup, next, given, raced, died, worker, sent>>
           /\ api[t].pc \notin {"creating", "committing", "orphan"}
  BY DEF PlainRequest, DeleteConnection, CreateProfile, CommitProfile, UpdateProfile, CommitEdit,
         DeleteProfile, CommitDeletion, BeginTest, ReadTested, RecordTest, Authorize,
         CommitConsent, Revoke, CommitRevocation, UpdateDefaults, CommitDefaults, TakeSnapshot,
         CreateTask, Refuse, rows, keys, marks, jobs, Begin

LEMMA PlainSeen ==
    ASSUME TypeInv, SeenInv, NEW t \in Threads, PlainRequest(t)
    PROVE  SeenInv'
  <1>1. PICK r \in ApiRequest :
          /\ Take(t, r) /\ Ready(r)
          /\ r.pc \in Reading => r.conn = conn
    BY PlainStep DEF Plain
  <1>2. api'[t] = r /\ \A u \in Threads \ {t} : api'[u] = api[u]
    BY <1>1, TakeType
  <1>3. r.pc \in Reading => IsConnection(r.conn)
    BY <1>1 DEF Ready
  <1>4. r.pc \in Reading => conn.state # "none"
    <2>1. CASE DeleteConnection(t)
      BY <2>1 DEF DeleteConnection
    <2>2. CASE ReadTested(t) \/ Authorize(t)
      BY <2>2 DEF ReadTested, Authorize, TypeInv, Filled
    <2>3. CASE ~(DeleteConnection(t) \/ ReadTested(t) \/ Authorize(t))
      <3>1. r.pc = api'[t].pc
        BY <1>2
      <3>2. api'[t].pc \in {"idle", "naming", "editing", "deleting", "testing", "passed",
                            "authorized", "revoking", "setting", "tasking"}
        <4>1. Idle \in ApiRequest
          BY IdleType
        <4>2. ASSUME NEW x, Take(t, x) PROVE api'[t] = x
          BY <4>2 DEF Take, TypeInv, TypeOK
        <4>3. CASE CreateProfile(t) \/ UpdateProfile(t) \/ DeleteProfile(t) \/ Revoke(t)
                   \/ TakeSnapshot(t)
          BY <4>2, <4>3 DEF CreateProfile, UpdateProfile, DeleteProfile, Revoke, TakeSnapshot, Idle
        <4>4. CASE BeginTest(t) \/ UpdateDefaults(t)
          BY <4>2, <4>4 DEF BeginTest, UpdateDefaults, Idle
        <4>5. CASE Return(t)
          BY <4>5, ReturnType DEF Idle
        <4>6. CASE (RecordTest(t) \/ CommitConsent(t)) /\ ~Return(t)
          <5>1. \/ Take(t, [Idle EXCEPT !.pc = "passed", !.verify = TRUE])
                \/ Take(t, [Idle EXCEPT !.pc = "authorized"])
            BY <4>6 DEF RecordTest, CommitConsent
          <5>2. QED BY <4>2, <5>1 DEF Idle
        <4>7. QED
          BY <2>3, <4>3, <4>4, <4>5, <4>6
          DEF PlainRequest, CommitProfile, CommitEdit, CommitDeletion, CommitRevocation,
              CommitDefaults, CreateTask, Refuse
      <3>3. QED BY <3>1, <3>2 DEF Reading
    <2>4. QED BY <2>1, <2>2, <2>3
  <1>5. QED BY <1>1, <1>2, <1>4, PlainKeeps, SeenUnchanged

LEMMA CommitUpdateSeen ==
    ASSUME TypeInv, SeenInv, NEW t \in Threads, CommitUpdate(t)
    PROVE  SeenInv'
  <1>1. /\ IsConnection(conn') /\ IsConnection(conn) /\ IsConnection(api[t].conn)
        /\ conn'.state = conn.state
        /\ conn'.rev = api[t].conn.rev + 1 /\ api[t].pc = "committing"
        /\ api'[t].pc \in {"idle", "cleaning"}
        /\ \A u \in Threads \ {t} : api'[u] = api[u]
    BY CommitUpdateStep DEF Idle
  <1>2. raced' = (raced \/ Overtaken(t))
    BY DEF CommitUpdate
  <1> SUFFICES ASSUME NEW u \in Threads, api'[u].pc \in Reading
               PROVE  /\ conn'.state # "none"
                      /\ ~raced' => /\ api'[u].conn.rev <= conn'.rev
                                    /\ api'[u].conn.rev = conn'.rev =>
                                         api'[u].conn.ref = conn'.ref
    BY DEF SeenInv
  <1>3. u # t /\ api'[u] = api[u]
    BY <1>1 DEF Reading
  <1>4. conn.state # "none" /\ IsConnection(api[u].conn)
    BY <1>3 DEF SeenInv, TypeInv, Ready
  <1>5. ASSUME ~raced'
        PROVE  api[u].conn.rev < conn'.rev
    <2>1. ~raced /\ api[t].conn.rev = conn.rev
      BY <1>2, <1>5 DEF Overtaken
    <2>2. api[u].conn.rev <= conn.rev /\ conn'.rev = conn.rev + 1
      BY <1>1, <1>3, <2>1 DEF SeenInv
    <2>3. conn.rev \in Nat /\ api[u].conn.rev \in Nat
      BY <1>1, <1>4, ConfigurationAssumption DEF IsConnection, ConnectionRow, Revisions
    <2>4. QED BY <2>2, <2>3
  <1>6. conn'.rev \in Nat /\ api[u].conn.rev \in Nat
    BY <1>1, <1>4, ConfigurationAssumption DEF IsConnection, ConnectionRow, Revisions
  <1>7. QED BY <1>1, <1>3, <1>4, <1>5, <1>6

LEMMA SeenStep ==
    ASSUME TypeInv, SeenInv, [Next]_vars
    PROVE  SeenInv'
  <1>1. ASSUME UNCHANGED <<conn, raced>>,
               \A t \in Threads : api'[t].pc \in Reading => api'[t] = api[t]
        PROVE  SeenInv'
    BY <1>1, SeenUnchanged
  <1>2. Idle.pc = "idle"
    BY DEF Idle
  <1>3. CASE RetryTask \/ EndTask \/ Validate \/ Resolve \/ Send \/ UNCHANGED vars
    BY <1>1, <1>3 DEF RetryTask, EndTask, Validate, Resolve, Send, vars, rows, marks
  <1>4. CASE Die
    BY <1>1, <1>2, <1>4 DEF Die, rows, Reading
  <1>5. ASSUME NEW t \in Threads, Request(t)
        PROVE  SeenInv'
    <2>1. CASE CreateConnection(t) \/ DropOrphan(t) \/ AttemptCleanup(t) \/ CommitCleanup(t)
               \/ RetryCleanup(t) \/ FailCommit(t)
      <3>1. UNCHANGED <<conn, raced>>
        BY <2>1 DEF CreateConnection, DropOrphan, AttemptCleanup, CommitCleanup, RetryCleanup,
                    FailCommit, rows, marks
      <3>2. /\ \A u \in Threads \ {t} : api'[u] = api[u]
            /\ api'[t].pc \notin Reading
        BY <1>2, <2>1, CreateConnectionStep, CleanupStep, FailCommitStep DEF Reading
      <3>3. QED BY <1>1, <3>1, <3>2
    <2>2. CASE CommitCreation(t)
      <3>1. /\ conn.state = "none" /\ api'[t] = Idle
            /\ \A u \in Threads \ {t} : api'[u] = api[u]
        BY <2>2, CommitCreationStep
      <3>2. \A u \in Threads : api'[u].pc \notin Reading
        BY <1>2, <3>1 DEF SeenInv, Reading
      <3>3. QED BY <3>2 DEF SeenInv
    <2>3. CASE UpdateConnection(t)
      <3>1. /\ \A u \in Threads \ {t} : api'[u] = api[u]
            /\ api'[t].conn = conn
        BY <2>3, UpdateConnectionStep
      <3>2. UNCHANGED <<conn, raced>> /\ conn.state # "none"
        BY <2>3 DEF UpdateConnection, rows, marks
      <3>3. QED BY <3>1, <3>2, SeenUnchanged
    <2>4. CASE StoreSecret(t)
      <3>1. /\ api[t].pc = "storing"
            /\ \A u \in Threads \ {t} : api'[u] = api[u]
            /\ api'[t].pc \in Reading => api'[t].conn = api[t].conn
        BY <2>4, StoreSecretStep DEF Reading
      <3>2. UNCHANGED <<conn, raced>>
        BY <2>4 DEF StoreSecret, rows
      <3>3. QED BY <3>1, <3>2, SeenUnchanged DEF Reading
    <2>5. CASE CommitDrop(t)
      <3>1. /\ conn'.rev = conn.rev /\ conn'.ref = conn.ref
            /\ conn.state # "none" => conn'.state # "none"
            /\ \A u \in Threads \ {t} : api'[u] = api[u]
            /\ api'[t].pc \in {"idle", "cleaning"}
            /\ raced => raced'
        BY <1>2, <2>5, CommitDropStep
      <3>2. QED BY <3>1, SeenUnchanged DEF Reading
    <2>6. QED
      BY <1>5, <2>1, <2>2, <2>3, <2>4, <2>5, CommitUpdateSeen, PlainSeen
      DEF Request, PlainRequest
  <1>6. QED BY <1>3, <1>4, <1>5 DEF Next

-----------------------------------------------------------------------------
(* No secret is forgotten *)

\* A reference that leaves the cleanup list has no secret any more.
GoneInv == \A t \in Threads : api[t].pc = "cleaned" => api[t].ref \notin store

\* Who answers for the secret under a reference.
Tracked(ref) ==
    \/ Exists(conn) /\ ref = conn.ref
    \/ ref \in cleanup
    \/ \E t \in Threads : api[t].pc \in {"creating", "committing", "orphan"} /\ ref = api[t].new

AllTracked == ~raced /\ ~died => \A ref \in store : Tracked(ref)

LEMMA TrackedOnce == SecretsAreTracked <=> AllTracked
  <1>1. ASSUME NEW ref
        PROVE  Tracked(ref) <=> ref \in (IF Exists(conn) THEN {conn.ref} ELSE {}) \cup cleanup
                                          \cup UNION {InHand(t) : t \in Threads}
    <2>1. ref \in UNION {InHand(t) : t \in Threads} <=> \E t \in Threads : ref \in InHand(t)
      OBVIOUS
    <2>2. \A t \in Threads : ref \in InHand(t) <=>
            api[t].pc \in {"creating", "committing", "orphan"} /\ ref = api[t].new
      BY DEF InHand
    <2>3. ref \in (IF Exists(conn) THEN {conn.ref} ELSE {}) <=> Exists(conn) /\ ref = conn.ref
      OBVIOUS
    <2>4. QED BY <2>1, <2>2, <2>3 DEF Tracked
  <1>2. QED BY <1>1 DEF SecretsAreTracked, AllTracked

TrackInv == SecretInv /\ SeenInv /\ GoneInv /\ AllTracked

LEMMA InitTrack == Init => TrackInv
  <1> SUFFICES ASSUME Init PROVE TrackInv
    OBVIOUS
  <1>1. \A t \in Threads : api[t].pc = "idle"
    BY DEF Init, Idle
  <1>2. store = {}
    BY DEF Init
  <1>3. QED
    BY <1>1, <1>2, InitSecret DEF TrackInv, SeenInv, GoneInv, AllTracked, Reading

\* A step that adds no secret, drops none from the list and keeps what requests hold.
LEMMA TrackUnchanged ==
    ASSUME TrackInv, SecretInv', SeenInv', store' \subseteq store, cleanup \subseteq cleanup',
           raced => raced', died => died',
           ~raced' /\ Exists(conn) =>
              \/ Exists(conn)' /\ conn'.ref = conn.ref
              \/ conn.ref \in cleanup',
           \A t \in Threads :
              \/ api'[t] = api[t]
              \/ /\ api'[t].pc = "cleaned" => api'[t].ref \notin store'
                 /\ ~died' /\ api[t].pc \in {"creating", "committing", "orphan"} =>
                      \/ /\ api'[t].pc \in {"creating", "committing", "orphan"}
                         /\ api'[t].new = api[t].new
                      \/ api[t].new \notin store' \/ api[t].new \in cleanup'
                      \/ Exists(conn)' /\ conn'.ref = api[t].new
    PROVE  TrackInv'
  <1>1. GoneInv'
    BY DEF TrackInv, GoneInv
  <1>2. AllTracked'
    <2> SUFFICES ASSUME ~raced', ~died', NEW ref \in store' PROVE Tracked(ref)'
      BY DEF AllTracked
    <2>1. Tracked(ref)
      BY DEF TrackInv, AllTracked
    <2>2. CASE Exists(conn) /\ ref = conn.ref
      BY <2>2 DEF Tracked
    <2>3. CASE ref \in cleanup
      BY <2>3 DEF Tracked
    <2>4. ASSUME NEW t \in Threads, api[t].pc \in {"creating", "committing", "orphan"},
                 ref = api[t].new
          PROVE  Tracked(ref)'
      BY <2>4 DEF Tracked
    <2>5. QED BY <2>1, <2>2, <2>3, <2>4 DEF Tracked
  <1>3. QED BY <1>1, <1>2 DEF TrackInv

LEMMA AddSecretTrack ==
    ASSUME TrackInv, SecretInv', SeenInv', NEW t \in Threads, NEW ref, ref \in Refs,
           store' = store \cup {ref}, UNCHANGED <<conn, cleanup, raced, died>>,
           api[t].pc \in {"idle", "storing"}, api'[t].pc \in {"creating", "committing"},
           api'[t].new = ref,
           \A u \in Threads : api[u].ref # ref,
           \A u \in Threads \ {t} : api'[u] = api[u]
    PROVE  TrackInv'
  <1>1. GoneInv'
    BY DEF TrackInv, GoneInv
  <1>2. AllTracked'
    <2> SUFFICES ASSUME ~raced', ~died', NEW x \in store' PROVE Tracked(x)'
      BY DEF AllTracked
    <2>1. CASE x = ref
      BY <2>1 DEF Tracked
    <2>2. CASE x \in store
      <3>1. Tracked(x)
        BY <2>2 DEF TrackInv, AllTracked
      <3>2. QED BY <3>1 DEF Tracked, Exists
    <2>3. QED BY <2>1, <2>2
  <1>3. QED BY <1>1, <1>2 DEF TrackInv

LEMMA RequestTrack ==
    ASSUME TrackInv, NEW t \in Threads, Request(t)
    PROVE  TrackInv'
  <1>1. SecretInv' /\ SeenInv' /\ TypeInv
    BY SecretStep, SeenStep DEF TrackInv, SecretInv, Next
  <1>2. Idle.pc = "idle" /\ Idle.new = NoRef
    BY DEF Idle
  <1>3. /\ NoRef \notin store
        /\ \A u \in Threads : api[u].pc = "cleaned" => api[u].ref \notin store
    BY Numbers DEF TrackInv, SecretInv, TypeInv, TypeOK, GoneInv
  <1>4. CASE CreateConnection(t)
    <2>1. /\ \A u \in Threads \ {t} : api'[u] = api[u]
          /\ api'[t].pc = "creating" /\ api'[t].new = next /\ next \in Refs
      BY <1>1, <1>4, CreateConnectionStep
    <2>2. \A u \in Threads : api[u].ref # next
      BY <1>1, Numbers DEF TrackInv, SecretInv, FreshInv
    <2>3. /\ api[t].pc = "idle" /\ store' = store \cup {next}
          /\ UNCHANGED <<conn, cleanup, raced, died>>
      BY <1>4 DEF CreateConnection, Begin, rows, marks
    <2>4. QED BY <1>1, <2>1, <2>2, <2>3, AddSecretTrack
  <1>5. CASE StoreSecret(t)
    <2>1. /\ api[t].pc = "storing" /\ api[t].new \in Refs
          /\ \A u \in Threads \ {t} : api'[u] = api[u]
          /\ api'[t].new = api[t].new
          /\ \/ api'[t].pc = "committing" /\ store' = store \cup {api[t].new}
             \/ api'[t].pc = "orphan" /\ UNCHANGED store
      BY <1>1, <1>5, StoreSecretStep
    <2>2. UNCHANGED <<conn, cleanup, raced, died>>
      BY <1>5 DEF StoreSecret, rows
    <2>3. \A u \in Threads : api[u].ref # api[t].new
      BY <1>1, <2>1, Numbers DEF TrackInv, SecretInv, FreshInv
    <2>4. CASE api'[t].pc = "committing" /\ store' = store \cup {api[t].new}
      BY <1>1, <2>1, <2>2, <2>3, <2>4, AddSecretTrack
    <2>5. CASE api'[t].pc = "orphan" /\ UNCHANGED store
      BY <1>1, <2>1, <2>2, <2>5, TrackUnchanged DEF Exists
    <2>6. QED BY <2>1, <2>4, <2>5
  <1>6. CASE CommitCreation(t)
    <2>1. /\ conn'.ref = api[t].new /\ conn.state = "none" /\ conn'.state = "active"
          /\ api'[t] = Idle /\ \A u \in Threads \ {t} : api'[u] = api[u]
      BY <1>1, <1>6, CommitCreationStep
    <2>2. UNCHANGED <<store, cleanup, raced, died>>
      BY <1>6 DEF CommitCreation, keys, marks
    <2>3. ~Exists(conn) /\ Exists(conn)'
      BY <2>1 DEF Exists
    <2>4. QED BY <1>1, <1>2, <2>1, <2>2, <2>3, TrackUnchanged
  <1>7. CASE CommitUpdate(t)
    <2>1. /\ IsConnection(conn) /\ conn'.state = conn.state
          /\ api[t].pc = "committing"
          /\ \A u \in Threads \ {t} : api'[u] = api[u]
          /\ \/ /\ api[t].new = NoRef /\ conn'.ref = conn.ref
                /\ UNCHANGED cleanup /\ api'[t] = Idle
             \/ /\ api[t].new \in Refs /\ conn'.ref = api[t].new
                /\ cleanup' = cleanup \cup {api[t].conn.ref}
                /\ api'[t].pc = "cleaning"
      BY <1>1, <1>7, CommitUpdateStep
    <2>2. /\ UNCHANGED <<store, died>> /\ raced' = (raced \/ Overtaken(t))
          /\ Exists(conn) /\ Exists(conn)'
      BY <1>7, <2>1 DEF CommitUpdate, Exists
    <2>3. ~raced' => api[t].conn.ref = conn.ref
      BY <2>1, <2>2 DEF Overtaken, TrackInv, SeenInv, Reading
    <2>4. QED BY <1>1, <1>2, <1>3, <2>1, <2>2, <2>3, TrackUnchanged
  <1>8. CASE FailCommit(t)
    <2>1. /\ api[t].pc \in {"creating", "committing"}
          /\ \A u \in Threads \ {t} : api'[u] = api[u]
          /\ api'[t].new = api[t].new
          /\ api'[t].pc = IF api[t].new = NoRef THEN "idle" ELSE "orphan"
      BY <1>1, <1>8, FailCommitStep
    <2>2. UNCHANGED <<conn, store, cleanup, raced, died>>
      BY <1>8 DEF FailCommit, rows, keys
    <2>3. QED BY <1>1, <1>3, <2>1, <2>2, TrackUnchanged DEF Exists
  <1>9. CASE DropOrphan(t)
    <2>1. /\ api[t].pc = "orphan" /\ api'[t] = Idle /\ \A u \in Threads \ {t} : api'[u] = api[u]
      BY <1>1, <1>9, ReturnType DEF DropOrphan
    <2>2. /\ UNCHANGED <<conn, raced, died>> /\ store' \subseteq store /\ cleanup \subseteq cleanup'
          /\ api[t].new \notin store' \/ api[t].new \in cleanup'
      BY <1>9 DEF DropOrphan, rows
    <2>3. QED BY <1>1, <1>2, <2>1, <2>2, TrackUnchanged DEF Exists
  <1>10. CASE AttemptCleanup(t) \/ RetryCleanup(t)
    <2>1. /\ \A u \in Threads \ {t} : api'[u] = api[u]
          /\ \/ api'[t] = Idle
             \/ AttemptCleanup(t) /\ api'[t].pc = "cleaned" /\ api'[t].ref = api[t].ref
             \/ api'[t].pc = "cleaning"
      BY <1>1, <1>10, CleanupStep
    <2>2. /\ UNCHANGED <<conn, cleanup, raced, died>> /\ store' \subseteq store
          /\ api[t].pc \in {"idle", "cleaning"}
      BY <1>10 DEF AttemptCleanup, RetryCleanup, Begin, rows, keys, marks
    <2>3. api'[t].pc = "cleaned" => api'[t].ref \notin store'
      <3>1. ASSUME AttemptCleanup(t), api'[t].pc = "cleaned"
            PROVE  store' = store \ {api[t].ref}
        <4>1. ~Return(t)
          BY <1>2, <3>1, ReturnType, <1>1
        <4>2. ~(Fault /\ Return(t) /\ UNCHANGED store)
          BY <4>1
        <4>3. QED BY <3>1, <4>1 DEF AttemptCleanup
      <3>2. QED BY <1>2, <2>1, <3>1
    <2>4. QED BY <1>1, <2>1, <2>2, <2>3, TrackUnchanged DEF Exists
  <1>11. CASE CommitCleanup(t)
    <2>1. /\ api'[t] = Idle /\ \A u \in Threads \ {t} : api'[u] = api[u]
          /\ api[t].pc = "cleaned" /\ cleanup' = cleanup \ {api[t].ref}
          /\ UNCHANGED <<conn, store, raced, died>>
      BY <1>1, <1>11, ReturnType DEF CommitCleanup, rows, marks
    <2>2. GoneInv'
      BY <1>2, <2>1 DEF TrackInv, GoneInv
    <2>3. AllTracked'
      <3> SUFFICES ASSUME ~raced', ~died', NEW ref \in store' PROVE Tracked(ref)'
        BY DEF AllTracked
      <3>1. Tracked(ref) /\ ref # api[t].ref
        BY <1>3, <2>1 DEF TrackInv, AllTracked
      <3>2. ASSUME NEW u \in Threads, api[u].pc \in {"creating", "committing", "orphan"}
            PROVE  api'[u] = api[u]
        BY <2>1, <3>2
      <3>3. QED BY <2>1, <3>1, <3>2 DEF Tracked, Exists
    <2>4. QED BY <1>1, <2>2, <2>3 DEF TrackInv
  <1>12. CASE UpdateConnection(t)
    <2>1. /\ \A u \in Threads \ {t} : api'[u] = api[u]
          /\ api'[t].pc \in {"committing", "storing"}
      BY <1>1, <1>12, UpdateConnectionStep
    <2>2. api[t].pc = "idle" /\ UNCHANGED <<conn, store, cleanup, raced, died>>
      BY <1>12 DEF UpdateConnection, Begin, rows, marks
    <2>3. QED BY <1>1, <2>1, <2>2, TrackUnchanged DEF Exists
  <1>13. CASE CommitDrop(t)
    <2>1. /\ conn'.ref = conn.ref /\ api[t].pc = "dropping"
          /\ \A u \in Threads \ {t} : api'[u] = api[u]
          /\ \/ /\ conn'.state = "archived" /\ UNCHANGED <<cleanup, raced>> /\ api'[t] = Idle
             \/ /\ cleanup' = cleanup \cup {api[t].conn.ref}
                /\ raced' = (raced \/ Overtaken(t))
                /\ api'[t].pc = "cleaning"
      BY <1>1, <1>13, CommitDropStep
    <2>2. UNCHANGED <<store, died>>
      BY <1>13 DEF CommitDrop
    <2>3. CASE /\ cleanup' = cleanup \cup {api[t].conn.ref}
               /\ raced' = (raced \/ Overtaken(t))
               /\ api'[t].pc = "cleaning"
      <3>1. ~raced' => api[t].conn.ref = conn.ref
        BY <2>1, <2>3 DEF Overtaken, TrackInv, SeenInv, Reading
      <3>2. QED BY <1>1, <2>1, <2>2, <2>3, <3>1, TrackUnchanged
    <2>4. CASE conn'.state = "archived" /\ UNCHANGED <<cleanup, raced>> /\ api'[t] = Idle
      <3>1. Exists(conn)'
        BY <2>4 DEF Exists
      <3>2. QED BY <1>1, <1>2, <2>1, <2>2, <2>4, <3>1, TrackUnchanged
    <2>5. QED BY <2>1, <2>3, <2>4
  <1>14. CASE PlainRequest(t)
    <2>1. /\ UNCHANGED <<conn, store, cleanup, raced, died>>
          /\ api[t].pc \notin {"creating", "committing", "orphan"}
      BY <1>14, PlainKeeps
    <2>2. api'[t].pc \notin Cleaning /\ \A u \in Threads \ {t} : api'[u] = api[u]
      <3>1. PICK r \in ApiRequest : Take(t, r) /\ Ready(r) /\ r.pc \notin Making \cup Cleaning
        BY <1>1, <1>14, PlainStep DEF Plain
      <3>2. QED BY <1>1, <3>1, TakeType
    <2>3. QED BY <1>1, <2>1, <2>2, TrackUnchanged DEF Exists, Cleaning
  <1>15. QED
    BY <1>4, <1>5, <1>6, <1>7, <1>8, <1>9, <1>10, <1>11, <1>12, <1>13, <1>14
    DEF Request, PlainRequest

LEMMA TrackStep ==
    ASSUME TrackInv, [Next]_vars
    PROVE  TrackInv'
  <1>1. SecretInv' /\ SeenInv'
    BY SecretStep, SeenStep DEF TrackInv, SecretInv
  <1>2. CASE \/ RetryTask \/ EndTask \/ Validate \/ Resolve \/ Send \/ UNCHANGED vars
    <2>1. UNCHANGED <<conn, store, cleanup, api, raced, died>>
      BY <1>2 DEF RetryTask, EndTask, Validate, Resolve, Send, vars, rows, keys, marks
    <2>2. QED BY <1>1, <2>1, TrackUnchanged DEF Exists
  <1>3. CASE Die
    <2>1. /\ died' /\ UNCHANGED <<conn, store, cleanup, raced>>
          /\ \A t \in Threads : api'[t].pc = "idle"
      BY <1>3 DEF Die, rows, keys, Idle
    <2>2. QED BY <1>1, <2>1, TrackUnchanged DEF Exists
  <1>4. QED BY <1>2, <1>3, RequestTrack DEF Next

\* No secret is forgotten in the keyring: unless the API died, or a commit went over a connection
\* another had changed, each is the connection's, queued for deletion, or held by a request.
THEOREM SecretsAreAccountedFor == Spec => []SecretsAreTracked
  <1>1. TrackInv => SecretsAreTracked
    BY TrackedOnce DEF TrackInv
  <1>2. QED BY <1>1, InitTrack, TrackStep, PTL DEF Spec

-----------------------------------------------------------------------------
(* Consent *)

\* Nothing has been agreed to or sent before there is a profile.
EarlyInv ==
    prof.state = "none" => prof.consent = None /\ worker.pc = "idle" /\ sent = None

\* A recorded consent stood for this configuration and these options and, unless commits have
\* overtaken each other, for this secret.
Agreed(record, overtaken, conf, options, ref) ==
    \E target \in record :
      target[1] = conf /\ target[2] = options /\ (overtaken \/ target[3] = ref)

\* The fingerprint on the profile is that of a consent, which was about the secret in use if its
\* revision is; and a worker on its way has a target some consent was about.
AgreedInv ==
    prof.purpose = "notes" =>
      /\ prof.consent # None =>
           \E ref \in Refs : /\ Agreed(consents, raced, prof.consent[1], prof.consent[3], ref)
                             /\ ~raced /\ prof.consent[2] = conn.rev => ref = conn.ref
      /\ worker.pc # "idle" =>
           Agreed(consents, raced, task.snapshot.conf, task.snapshot.options, worker.ref)

ConsentInv == TypeInv /\ SeenInv /\ EarlyInv /\ AgreedInv /\ SentAsConsented

LEMMA InitConsent == Init => ConsentInv
  <1> SUFFICES ASSUME Init PROVE ConsentInv
    OBVIOUS
  <1>1. \A t \in Threads : api[t].pc = "idle"
    BY DEF Init, Idle
  <1>2. QED
    BY <1>1, InitType DEF Init, ConsentInv, SeenInv, EarlyInv, AgreedInv, SentAsConsented, Reading

\* A step that touches neither the worker nor the task, and adds no fingerprint.
LEMMA ConsentUnchanged ==
    ASSUME ConsentInv, TypeInv', SeenInv', UNCHANGED <<task, worker, sent>>,
           consents \subseteq consents', raced => raced',
           prof'.purpose = prof.purpose \/ prof.state = "none",
           prof'.state = "none" => prof.state = "none",
           prof'.consent \in {prof.consent, None},
           \/ prof.purpose = "notes" => prof'.consent = None
           \/ conn'.rev = conn.rev /\ conn'.ref = conn.ref
    PROVE  ConsentInv'
  <1>1. EarlyInv'
    BY DEF ConsentInv, EarlyInv
  <1>2. ASSUME NEW conf, NEW options, NEW ref, Agreed(consents, raced, conf, options, ref)
        PROVE  Agreed(consents', raced', conf, options, ref)
    BY <1>2 DEF Agreed
  <1>3. CASE prof.state = "none"
    BY <1>1, <1>3 DEF ConsentInv, EarlyInv, AgreedInv, SentAsConsented
  <1>4. CASE prof.state # "none"
    <2>1. AgreedInv'
      <3>1. ASSUME prof.purpose = "notes", prof'.consent # None
            PROVE  \E ref \in Refs :
                     /\ Agreed(consents', raced', prof'.consent[1], prof'.consent[3], ref)
                     /\ ~raced' /\ prof'.consent[2] = conn'.rev => ref = conn'.ref
        <4>1. prof'.consent = prof.consent /\ conn'.rev = conn.rev /\ conn'.ref = conn.ref
          BY <3>1
        <4>2. PICK ref \in Refs :
                /\ Agreed(consents, raced, prof.consent[1], prof.consent[3], ref)
                /\ ~raced /\ prof.consent[2] = conn.rev => ref = conn.ref
          BY <3>1, <4>1 DEF ConsentInv, AgreedInv
        <4>3. Agreed(consents', raced', prof.consent[1], prof.consent[3], ref)
          BY <1>2, <4>2
        <4>4. QED BY <4>1, <4>2, <4>3
      <3>2. ASSUME prof.purpose = "notes", worker.pc # "idle"
            PROVE  Agreed(consents', raced', task.snapshot.conf, task.snapshot.options, worker.ref)
        BY <1>2, <3>2 DEF ConsentInv, AgreedInv
      <3>3. QED BY <1>4, <3>1, <3>2 DEF AgreedInv
    <2>2. SentAsConsented'
      BY <1>4 DEF ConsentInv, SentAsConsented
    <2>3. QED BY <1>1, <2>1, <2>2 DEF ConsentInv
  <1>5. QED BY <1>3, <1>4

LEMMA CommitConsentKeeps ==
    ASSUME ConsentInv, TypeInv', SeenInv', NEW t \in Threads, CommitConsent(t)
    PROVE  ConsentInv'
  <1> DEFINE seen == api[t].prof
             c    == api[t].conn
  <1>1. UNCHANGED <<conn, task, worker, sent, raced>>
        /\ consents' = consents \cup {TargetOf(c, seen)} /\ api[t].pc = "authorizing"
    BY DEF CommitConsent, jobs, marks
  <1>2. /\ IsProfile(prof') /\ prof'.state = prof.state /\ prof'.purpose = prof.purpose
        /\ prof'.consent \in {prof.consent, FingerprintOf(c, seen)}
    BY CommitConsentType DEF ConsentInv
  <1>3. CASE prof'.consent = prof.consent
    BY <1>1, <1>2, <1>3, ConsentUnchanged
  <1>4. CASE prof'.consent = FingerprintOf(c, seen)
    <2>1. /\ IsConnection(c) /\ prof.state # "none"
          /\ ~raced /\ c.rev = conn.rev => c.ref = conn.ref
      BY <1>1 DEF CommitConsent, ConsentInv, TypeInv, Ready, SeenInv, Reading, Exists
    <2>2. ASSUME NEW conf, NEW options, NEW ref, Agreed(consents, raced, conf, options, ref)
          PROVE  Agreed(consents', raced', conf, options, ref)
      BY <1>1, <2>2 DEF Agreed
    <2>3. /\ prof'.consent[1] = c.conf /\ prof'.consent[2] = c.rev
          /\ prof'.consent[3] = seen.options
      BY <1>4 DEF FingerprintOf
    <2>4. Agreed(consents', raced', c.conf, seen.options, c.ref)
      <3> DEFINE target == TargetOf(c, seen)
      <3>1. target[1] = c.conf /\ target[2] = seen.options /\ target[3] = c.ref
        BY DEF TargetOf
      <3>2. target \in consents'
        BY <1>1
      <3> HIDE DEF target, c, seen
      <3>3. QED BY <3>1, <3>2 DEF Agreed
    <2>5. c.ref \in Refs
      BY <2>1 DEF IsConnection
    <2> HIDE DEF c, seen
    <2>6. \E ref \in Refs :
            /\ Agreed(consents', raced', prof'.consent[1], prof'.consent[3], ref)
            /\ ~raced' /\ prof'.consent[2] = conn'.rev => ref = conn'.ref
      BY <1>1, <2>1, <2>3, <2>4, <2>5
    <2>7. AgreedInv'
      BY <1>1, <1>2, <2>2, <2>6 DEF ConsentInv, AgreedInv
    <2>8. EarlyInv' /\ SentAsConsented'
      BY <1>1, <1>2, <2>1 DEF ConsentInv, EarlyInv, SentAsConsented
    <2>9. QED BY <2>7, <2>8 DEF ConsentInv
  <1>5. QED BY <1>2, <1>3, <1>4

LEMMA CreateTaskKeeps ==
    ASSUME ConsentInv, TypeInv', SeenInv', NEW t \in Threads, CreateTask(t)
    PROVE  ConsentInv'
  <1>1. worker.pc = "idle"
    BY DEF CreateTask, CanRetry, ConsentInv, TypeInv, Filled
  <1>2. UNCHANGED <<conn, prof, worker, sent, consents, raced>>
    BY DEF CreateTask, rows, marks
  <1>3. \A conf, options, ref :
          Agreed(consents', raced', conf, options, ref) = Agreed(consents, raced, conf, options, ref)
    BY <1>2 DEF Agreed
  <1>4. AgreedInv'
    BY <1>1, <1>2, <1>3 DEF ConsentInv, AgreedInv
  <1>5. QED BY <1>2, <1>4 DEF ConsentInv, EarlyInv, SentAsConsented

LEMMA PlainConsent ==
    ASSUME ConsentInv, TypeInv', SeenInv', NEW t \in Threads, PlainRequest(t)
    PROVE  ConsentInv'
  <1>1. UNCHANGED <<conn, worker, sent, raced>> /\ TypeInv
    BY PlainKeeps DEF ConsentInv
  <1>2. CASE \/ DeleteConnection(t) \/ CreateProfile(t) \/ UpdateProfile(t) \/ DeleteProfile(t)
             \/ BeginTest(t) \/ ReadTested(t) \/ Authorize(t) \/ Revoke(t) \/ UpdateDefaults(t)
             \/ TakeSnapshot(t) \/ Refuse(t)
    <2>1. UNCHANGED <<rows, keys, jobs, consents, marks>>
      BY <1>1, <1>2, ReadingType
    <2>2. QED BY <2>1, ConsentUnchanged DEF rows, jobs, marks
  <1>3. CASE CommitProfile(t)
    <2>1. prof'.consent = prof.consent /\ prof.state = "none" /\ prof'.state = "active"
          /\ UNCHANGED <<task, consents>>
      BY <1>1, <1>3, CommitProfileType DEF CommitProfile, jobs
    <2>2. QED BY <1>1, <2>1, ConsentUnchanged
  <1>4. CASE CommitEdit(t)
    <2>1. prof'.purpose = prof.purpose /\ prof'.state = prof.state
          /\ prof'.consent \in {None, prof.consent} /\ UNCHANGED <<task, consents>>
      BY <1>1, <1>4, CommitEditType DEF CommitEdit, jobs
    <2>2. QED BY <1>1, <2>1, ConsentUnchanged
  <1>5. CASE CommitDeletion(t)
    <2>1. prof'.purpose = prof.purpose /\ (prof'.state = "none" => prof.state = "none")
          /\ prof'.consent = prof.consent /\ UNCHANGED <<task, consents>>
      BY <1>1, <1>5, CommitDeletionType DEF CommitDeletion, jobs
    <2>2. QED BY <1>1, <2>1, ConsentUnchanged
  <1>6. CASE RecordTest(t)
    <2>1. prof'.purpose = prof.purpose /\ prof'.state = prof.state
          /\ prof'.consent \in {None, prof.consent} /\ UNCHANGED <<task, consents>>
      BY <1>1, <1>6, RecordTestType DEF RecordTest, jobs
    <2>2. QED BY <1>1, <2>1, ConsentUnchanged
  <1>7. CASE CommitRevocation(t)
    <2>1. prof'.purpose = prof.purpose /\ prof'.state = prof.state
          /\ prof'.consent \in {None, prof.consent} /\ UNCHANGED <<task, consents>>
      BY <1>1, <1>7, CommitRevocationType DEF CommitRevocation, jobs
    <2>2. QED BY <1>1, <2>1, ConsentUnchanged
  <1>8. CASE CommitDefaults(t)
    <2>1. UNCHANGED <<prof, task, consents>>
      BY <1>8 DEF CommitDefaults, jobs
    <2>2. QED BY <1>1, <2>1, ConsentUnchanged
  <1>9. QED
    BY <1>2, <1>3, <1>4, <1>5, <1>6, <1>7, <1>8, CommitConsentKeeps, CreateTaskKeeps
    DEF PlainRequest

\* The worker looks at the rows, looks again, and sends.
LEMMA WorkerConsent ==
    ASSUME ConsentInv, TypeInv', SeenInv', RetryTask \/ EndTask \/ Validate \/ Resolve \/ Send
    PROVE  ConsentInv'
  <1>1. UNCHANGED <<conn, prof, consents, raced>> /\ task'.snapshot = task.snapshot
    <2>1. task \in TaskRow
      BY DEF ConsentInv, TypeInv, TypeOK
    <2>2. QED BY <2>1 DEF RetryTask, EndTask, Validate, Resolve, Send, rows, marks, TaskRow
  <1>2. \A conf, options, ref :
          Agreed(consents', raced', conf, options, ref) = Agreed(consents, raced, conf, options, ref)
    BY <1>1 DEF Agreed
  <1>3. ASSUME \/ worker' = worker
               \/ worker'.pc = "idle"
               \/ worker'.ref = worker.ref /\ worker.pc # "idle",
               UNCHANGED sent
        PROVE  ConsentInv'
    <2>1. AgreedInv'
      BY <1>1, <1>2, <1>3 DEF ConsentInv, AgreedInv
    <2>2. EarlyInv' /\ SentAsConsented'
      BY <1>1, <1>3 DEF ConsentInv, EarlyInv, SentAsConsented
    <2>3. QED BY <2>1, <2>2 DEF ConsentInv
  <1>4. CASE RetryTask \/ EndTask
    BY <1>3, <1>4 DEF RetryTask, EndTask
  <1>5. CASE Validate
    <2>1. prof.state # "none" /\ conn.state # "none" /\ UNCHANGED sent /\ worker'.ref = conn.ref
      BY <1>5 DEF Validate, SameRevisions, Exists
    <2>2. CASE prof.purpose = "notes"
      <3>1. /\ prof.consent = FingerprintOf(conn, prof)
            /\ conn.conf = task.snapshot.conf /\ prof.options = task.snapshot.options
        BY <1>5, <2>2 DEF Validate, Valid, Authorized
      <3>2. IsConnection(conn) /\ IsProfile(prof)
        BY <2>1 DEF ConsentInv, TypeInv, Filled
      <3>3. prof.consent # None
        BY <3>1, <3>2, FingerprintType, NoneAssumption
      <3>4. PICK ref \in Refs :
              /\ Agreed(consents, raced, prof.consent[1], prof.consent[3], ref)
              /\ ~raced /\ prof.consent[2] = conn.rev => ref = conn.ref
        BY <2>2, <3>3 DEF ConsentInv, AgreedInv
      <3>5. /\ prof.consent[1] = task.snapshot.conf /\ prof.consent[2] = conn.rev
            /\ prof.consent[3] = task.snapshot.options
        BY <3>1 DEF FingerprintOf
      <3>6. Agreed(consents, raced, task.snapshot.conf, task.snapshot.options, conn.ref)
        BY <3>4, <3>5 DEF Agreed
      <3>7. AgreedInv'
        BY <1>1, <1>2, <2>1, <3>6 DEF ConsentInv, AgreedInv
      <3>8. QED BY <1>1, <2>1, <3>7 DEF ConsentInv, EarlyInv, SentAsConsented
    <2>3. CASE prof.purpose # "notes"
      BY <1>1, <2>1, <2>3 DEF ConsentInv, EarlyInv, AgreedInv, SentAsConsented
    <2>4. QED BY <2>2, <2>3
  <1>6. CASE Resolve
    <2>1. worker.pc # "idle" /\ UNCHANGED sent /\ (worker'.pc = "idle" \/ worker'.ref = worker.ref)
      BY <1>6 DEF Resolve, Resolved, AtRest, ConsentInv, TypeInv, TypeOK
    <2>2. QED BY <1>3, <2>1
  <1>7. CASE Send
    <2>1. /\ worker.pc # "idle" /\ worker'.pc = "idle"
          /\ sent' \in {sent, <<task.snapshot.conf, task.snapshot.options, worker.ref>>}
      BY <1>7 DEF Send, AtRest
    <2>2. AgreedInv' /\ EarlyInv'
      BY <1>1, <1>2, <2>1 DEF ConsentInv, AgreedInv, EarlyInv
    <2>3. ASSUME prof.purpose = "notes",
                 sent' = <<task.snapshot.conf, task.snapshot.options, worker.ref>>
          PROVE  \E target \in consents : /\ target[1] = sent'[1] /\ target[2] = sent'[2]
                                          /\ target[3] = sent'[3] \/ raced
      <3>1. Agreed(consents, raced, task.snapshot.conf, task.snapshot.options, worker.ref)
        BY <2>1, <2>3 DEF ConsentInv, AgreedInv
      <3>2. QED BY <2>3, <3>1 DEF Agreed
    <2>4. SentAsConsented'
      BY <1>1, <2>1, <2>3 DEF ConsentInv, SentAsConsented
    <2>5. QED BY <2>2, <2>4 DEF ConsentInv
  <1>8. QED BY <1>4, <1>5, <1>6, <1>7

LEMMA ConsentStep ==
    ASSUME ConsentInv, [Next]_vars
    PROVE  ConsentInv'
  <1>1. TypeInv' /\ SeenInv' /\ TypeInv
    BY TypeStep, SeenStep DEF ConsentInv
  <1>2. ASSUME NEW t \in Threads, Request(t)
        PROVE  ConsentInv'
    <2>1. CASE \/ CreateConnection(t) \/ UpdateConnection(t) \/ StoreSecret(t) \/ FailCommit(t)
               \/ DropOrphan(t) \/ AttemptCleanup(t) \/ CommitCleanup(t) \/ RetryCleanup(t)
      <3>1. UNCHANGED <<conn, prof, task, worker, consents, sent, raced>>
        BY <2>1
        DEF CreateConnection, UpdateConnection, StoreSecret, FailCommit, DropOrphan,
            AttemptCleanup, CommitCleanup, RetryCleanup, rows, jobs, marks
      <3>2. QED BY <1>1, <3>1, ConsentUnchanged
    <2>2. CASE CommitCreation(t)
      <3>1. UNCHANGED <<prof, task, worker, consents, sent, raced>> /\ prof.state = "none"
        BY <1>1, <2>2 DEF CommitCreation, jobs, marks, TypeInv, Filled
      <3>2. prof.consent = None
        BY <3>1 DEF ConsentInv, EarlyInv
      <3>3. QED BY <1>1, <3>1, <3>2, ConsentUnchanged
    <2>3. CASE CommitUpdate(t)
      <3>1. UNCHANGED <<task, worker, consents, sent>> /\ (raced => raced')
        BY <2>3 DEF CommitUpdate, jobs
      <3>2. /\ prof'.state = prof.state /\ prof'.purpose = prof.purpose
            /\ prof'.consent \in {None, prof.consent}
            /\ prof.purpose = "notes" => prof'.consent = None
        BY <1>1, <2>3, CommitUpdateStep
      <3>3. QED BY <1>1, <3>1, <3>2, ConsentUnchanged
    <2>4. CASE CommitDrop(t)
      <3>1. UNCHANGED <<task, worker, consents, sent>>
        BY <2>4 DEF CommitDrop, jobs
      <3>2. /\ conn'.rev = conn.rev /\ conn'.ref = conn.ref /\ (raced => raced')
            /\ prof'.purpose = prof.purpose /\ prof'.consent = prof.consent
            /\ (prof'.state = "none" => prof.state = "none")
        BY <1>1, <2>4, CommitDropStep
      <3>3. QED BY <1>1, <3>1, <3>2, ConsentUnchanged
    <2>5. QED
      BY <1>1, <1>2, <2>1, <2>2, <2>3, <2>4, PlainConsent DEF Request, PlainRequest
  <1>3. CASE Die \/ UNCHANGED vars
    <2>1. UNCHANGED <<conn, prof, task, worker, consents, sent, raced>>
      BY <1>3 DEF Die, vars, rows, jobs
    <2>2. QED BY <1>1, <2>1, ConsentUnchanged
  <1>4. QED BY <1>1, <1>2, <1>3, WorkerConsent DEF Next

\* Notes go only where and with what a recorded consent said they may, and under its secret unless
\* two updates got the same revision, although the worker's two looks at the rows and its look at
\* the keyring are apart and requests commit what they read earlier.
THEOREM SentOnlyAsConsented == Spec => []SentAsConsented
  <1>1. ConsentInv => SentAsConsented
    BY DEF ConsentInv
  <1>2. QED BY <1>1, InitConsent, ConsentStep, PTL DEF Spec

=============================================================================
