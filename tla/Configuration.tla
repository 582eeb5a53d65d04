---------------------------- MODULE Configuration ----------------------------
(***************************************************************************)
(* Provider configuration and consent (configuration.py, the routes of     *)
(* api.py that call it, the snapshot a task takes of it, and the check a   *)
(* worker makes of that snapshot before it sends anything).                *)
(*                                                                         *)
(* One connection and one profile that uses it are followed from their     *)
(* creation to their deletion; a new connection would have a new id.  The  *)
(* connection's secret is in the keyring, under a reference the row names; *)
(* a replaced secret gets a new reference, and the old one is queued in    *)
(* credential_cleanup until the keyring has deleted it.                    *)
(*                                                                         *)
(* API requests run in threads of one process.  None takes a lock to read: *)
(* SQLite gives a request the write lock at its first write.  What it      *)
(* reads before is one step, and travels with it; what it reads and writes *)
(* from there to its commit is another; calls of the keyring and of a      *)
(* provider are steps of their own.  A commit writes the columns whose     *)
(* value differs from the one the request read (Wrote).                    *)
(***************************************************************************)
EXTENDS Naturals

CONSTANTS
    Threads,     \* the API's request threads
    Confs,       \* what base_url and parameters of a connection may be
    Options,     \* what model, context_length and options of a profile may be
    Purposes,    \* the purposes a profile may be created for
    None,        \* no value
    MaxRef,      \* bound: how many credential references are ever made
    MaxRevision, \* bound: the revision an edit may lead to
    Requests,    \* bound: how many requests there are
    Faults       \* bound: failed commits, refusals of the keyring and API deaths

ASSUME ConfigurationAssumption ==
    /\ Purposes \subseteq {"notes", "cloud_asr"}
    /\ None \notin Confs \cup Options \cup Threads
    /\ MaxRef \in Nat \ {0}
    /\ MaxRevision \in Nat \ {0}
    /\ Requests \in Nat
    /\ Faults \in Nat

Refs == 1 .. MaxRef
NoRef == 0
Revisions == 0 .. MaxRevision

RowStates == {"none", "active", "archived", "deleted"}

(* What a consent or a message is about: where it goes, with which         *)
(* options, under which secret.                                            *)
Targets == Confs \X Options \X (Refs \cup {NoRef})

(* _chat_capability_fingerprint: everything the endpoint would see, bar    *)
(* the secret.                                                             *)
Fingerprints == Confs \X Revisions \X Options \X Revisions

ConnectionRow ==
    [state : RowStates, conf : Confs \cup {None}, rev : Revisions, ref : Refs \cup {NoRef}]

ProfileRow ==
    [state : RowStates, purpose : Purposes \cup {None}, options : Options \cup {None},
     rev : Revisions, test : {"none", "failed", "passed"},
     tested : Revisions, testedConn : Revisions,
     upload : Revisions, uploadConn : Revisions,
     capability : Fingerprints \cup {None}, consent : Fingerprints \cup {None}]

DefaultsRow == [named : BOOLEAN, on : BOOLEAN, auto : BOOLEAN]

ASSUME NoneAssumption == None \notin Targets \cup Fingerprints \cup ConnectionRow \cup ProfileRow

VARIABLES
    conn,     \* the provider_connections row
    prof,     \* the processor_profiles row
    defaults, \* the default_settings row: it names the profile; it switches it on; it may still
              \* be switched on automatically
    store,    \* the references the keyring holds a secret for
    cleanup,  \* the credential_cleanup rows
    next,     \* the next fresh reference
    api,      \* per thread, the request in progress with what it has read
    task,     \* the task made with the profile, and its snapshot
    worker,   \* the stage that sends with that snapshot
    given,    \* history: the references a request put a secret under
    consents, \* history: what the consents on record stood for when they were recorded
    sent,     \* history: the last thing a worker sent to
    raced,    \* history: a request wrote the connection over a revision it had not read
    died,     \* history: the API died with a request in progress
    requests, faults

vars == <<conn, prof, defaults, store, cleanup, next, api, task, worker,
          given, consents, sent, raced, died, requests, faults>>

rows == <<conn, prof, defaults>>
keys == <<store, cleanup, next, given>>
jobs == <<task, worker, sent>>
marks == <<raced, died, faults>>

(* conn, prof and defaults are the rows as the request read them, conf and *)
(* want what it asks for, new a reference it has made, ref one it is to    *)
(* delete or has tested, pinned that a task needs what it deletes.         *)
Idle == [pc |-> "idle", conn |-> None, prof |-> None, defaults |-> None, conf |-> None,
         want |-> None, new |-> NoRef, ref |-> NoRef, pinned |-> FALSE, snapshot |-> None,
         verify |-> FALSE]

Snapshot == [conf : Confs, options : Options, connRev : Revisions, profRev : Revisions]

Want == [named : BOOLEAN, on : BOOLEAN]

Points == {"idle", "creating", "storing", "committing", "orphan", "cleaning", "cleaned",
           "dropping", "naming", "editing", "deleting", "testing", "recording", "passed",
           "authorizing", "authorized", "revoking", "setting", "tasking"}

ApiRequest ==
    [pc : Points, conn : ConnectionRow \cup {None}, prof : ProfileRow \cup {None},
     defaults : DefaultsRow \cup {None}, conf : Confs \cup {None}, want : Want \cup {None},
     new : Refs \cup {NoRef}, ref : Refs \cup {NoRef}, pinned : BOOLEAN,
     snapshot : Snapshot \cup {None}, verify : BOOLEAN]

TaskRow ==
    [state : {"none", "queued", "failed", "completed", "released"}, snapshot : Snapshot \cup {None}]

TypeOK ==
    /\ conn \in ConnectionRow
    /\ prof \in ProfileRow
    /\ defaults \in DefaultsRow
    /\ store \subseteq Refs /\ cleanup \subseteq Refs
    /\ next \in 1 .. MaxRef + 1
    /\ api \in [Threads -> ApiRequest]
    /\ task \in TaskRow
    /\ worker \in [pc : {"idle", "validated", "resolved"}, ref : Refs \cup {NoRef}]
    /\ given \subseteq Refs
    /\ consents \subseteq Targets
    /\ sent \in Targets \cup {None}
    /\ raced \in BOOLEAN /\ died \in BOOLEAN
    /\ requests \in 0 .. Requests /\ faults \in 0 .. Faults

Init ==
    /\ conn = [state |-> "none", conf |-> None, rev |-> 0, ref |-> NoRef]
    /\ prof = [state |-> "none", purpose |-> None, options |-> None, rev |-> 0,
               test |-> "none", tested |-> 0, testedConn |-> 0, upload |-> 0, uploadConn |-> 0,
               capability |-> None, consent |-> None]
    /\ defaults = [named |-> FALSE, on |-> FALSE, auto |-> TRUE]
    /\ store = {} /\ cleanup = {} /\ next = 1
    /\ api = [t \in Threads |-> Idle]
    /\ task = [state |-> "none", snapshot |-> None]
    /\ worker = [pc |-> "idle", ref |-> NoRef]
    /\ given = {} /\ consents = {} /\ sent = None /\ raced = FALSE /\ died = FALSE
    /\ requests = 0 /\ faults = 0

Exists(row) == row.state \in {"active", "archived"}

TargetOf(c, p) == <<c.conf, p.options, c.ref>>

FingerprintOf(c, p) == <<c.conf, c.rev, p.options, p.rev>>

(* _profile_view of a connection and a profile: tested with test_ok (for   *)
(* notes, with a capability that is still current), and authorized.        *)
Tested(c, p) ==
    /\ p.tested = p.rev /\ p.testedConn = c.rev /\ p.test = "passed"
    /\ p.purpose = "notes" => p.capability = FingerprintOf(c, p)

Authorized(c, p) ==
    IF p.purpose = "notes" THEN p.consent = FingerprintOf(c, p)
                           ELSE p.upload = p.rev /\ p.uploadConn = c.rev

Usable == prof.state = "active" /\ Tested(conn, prof) /\ Authorized(conn, prof)

(* _retained_snapshot_references: a task that runs, or that ended with a   *)
(* failed or canceled stage, pins what its snapshot names; one whose notes *)
(* are made does not, although they can be made again.                     *)
Referenced == task.state \in {"queued", "failed"}

(* A column after a commit: what the request made of the value it had      *)
(* read, or what is there if it made nothing of it.                        *)
Wrote(read, made, now) == IF made # read THEN made ELSE now

Count == requests < Requests /\ requests' = requests + 1

(* A thread takes a request.                                               *)
Begin(t) == api[t].pc = "idle" /\ Count

Return(t) == api' = [api EXCEPT ![t] = Idle]

Take(t, request) == api' = [api EXCEPT ![t] = request]

Goto(t, pc) == api' = [api EXCEPT ![t].pc = pc]

Fault == faults < Faults /\ faults' = faults + 1

-----------------------------------------------------------------------------
(* Connections.                                                            *)

(* create_connection inserts the row, which keeps other writers out, and   *)
(* stores the secret before the commit.                                    *)
CreateConnection(t) ==
    /\ Begin(t) /\ conn.state = "none" /\ next <= MaxRef
    /\ \A u \in Threads : api[u].pc # "creating"
    /\ next' = next + 1
    /\ store' = store \cup {next} /\ given' = given \cup {next}
    /\ \E conf \in Confs :
         Take(t, [Idle EXCEPT !.pc = "creating", !.conf = conf, !.new = next])
    /\ UNCHANGED <<rows, cleanup, jobs, consents, marks>>

CommitCreation(t) ==
    /\ api[t].pc = "creating" /\ conn.state = "none"
    /\ conn' = [state |-> "active", conf |-> api[t].conf, rev |-> 1, ref |-> api[t].new]
    /\ Return(t)
    /\ UNCHANGED <<prof, defaults, keys, jobs, consents, marks, requests>>

(* update_connection reads the row and the secret it has.  The request     *)
(* asks for a configuration, and to keep, replace or clear the secret; a   *)
(* cleared secret leaves a fresh reference with nothing under it.          *)
UpdateConnection(t) ==
    /\ Begin(t) /\ conn.state = "active" /\ conn.rev < MaxRevision
    /\ \E conf \in Confs, new \in {NoRef, next}, pc \in {"storing", "committing"} :
         /\ Take(t, [Idle EXCEPT !.pc = pc, !.conn = conn, !.conf = conf, !.new = new])
         /\ IF new = NoRef
            THEN conf # conn.conf /\ pc = "committing" /\ UNCHANGED next
            ELSE /\ next <= MaxRef /\ next' = next + 1
                 /\ pc = "committing" => conn.ref \in store
    /\ UNCHANGED <<rows, store, cleanup, given, jobs, consents, marks>>

StoreSecret(t) ==
    /\ api[t].pc = "storing"
    /\ \/ /\ store' = store \cup {api[t].new} /\ given' = given \cup {api[t].new}
          /\ Goto(t, "committing")
          /\ UNCHANGED faults
       \/ /\ Fault                                       \* the keyring refuses
          /\ Take(t, [Idle EXCEPT !.pc = "orphan", !.new = api[t].new])
          /\ UNCHANGED <<store, given>>
    /\ UNCHANGED <<rows, cleanup, next, jobs, consents, raced, died, requests>>

(* What the commit of an update makes of the row: the revision is one more *)
(* than the one that was read.                                             *)
Updated(t) ==
    [conn EXCEPT !.conf = Wrote(api[t].conn.conf, api[t].conf, @),
                 !.rev  = api[t].conn.rev + 1,
                 !.ref  = IF api[t].new # NoRef THEN api[t].new ELSE @]

(* Every profile of the connection loses its capability and chat consent.  *)
Unproven ==
    IF prof.purpose = "notes" THEN [prof EXCEPT !.capability = None, !.consent = None] ELSE prof

\* The row has a revision other than the one the request read.
Overtaken(t) == conn.rev # api[t].conn.rev

CommitUpdate(t) ==
    /\ api[t].pc = "committing" /\ Exists(conn)
    /\ conn' = Updated(t)
    /\ prof' = Unproven
    /\ raced' = (raced \/ Overtaken(t))
    /\ IF api[t].new = NoRef
       THEN Return(t) /\ UNCHANGED cleanup
       ELSE /\ cleanup' = cleanup \cup {api[t].conn.ref}
            /\ Take(t, [Idle EXCEPT !.pc = "cleaning", !.ref = api[t].conn.ref])
    /\ UNCHANGED <<defaults, store, next, given, jobs, consents, died, faults, requests>>

CommitFails(t) ==
    \/ api[t].pc \in {"creating", "committing"} /\ Fault
    \/ api[t].pc = "committing" /\ ~Exists(conn) /\ UNCHANGED faults

\* Faulty variant: a failed update takes the old reference for the orphan.
FailCommitDropsOld(t) ==
    /\ CommitFails(t)
    /\ IF api[t].new = NoRef \/ api[t].pc = "creating" THEN Return(t)
       ELSE Take(t, [Idle EXCEPT !.pc = "orphan", !.new = api[t].conn.ref])
    /\ UNCHANGED <<rows, keys, jobs, consents, raced, died, requests>>

\* Faulty variant: only the failure of a creation cleans up after itself.
FailCommitKeepsSecret(t) ==
    /\ CommitFails(t)
    /\ IF api[t].pc = "committing" THEN Return(t)
       ELSE Take(t, [Idle EXCEPT !.pc = "orphan", !.new = api[t].new])
    /\ UNCHANGED <<rows, keys, jobs, consents, raced, died, requests>>

(* The commit fails: by itself, or because the row is gone.                *)
FailCommit(t) ==
    /\ CommitFails(t)
    /\ IF api[t].new = NoRef THEN Return(t)
       ELSE Take(t, [Idle EXCEPT !.pc = "orphan", !.new = api[t].new])
    /\ UNCHANGED <<rows, keys, jobs, consents, raced, died, requests>>

(* _delete_or_queue_orphaned_credential.                                   *)
DropOrphan(t) ==
    /\ api[t].pc = "orphan"
    /\ \/ store' = store \ {api[t].new} /\ UNCHANGED <<cleanup, faults>>
       \/ Fault /\ cleanup' = cleanup \cup {api[t].new} /\ UNCHANGED store
    /\ Return(t)
    /\ UNCHANGED <<rows, next, given, jobs, consents, raced, died, requests>>

(* _attempt_credential_cleanup: nothing to do when the row is gone; the    *)
(* row outlives a deletion that fails.                                     *)
AttemptCleanup(t) ==
    /\ api[t].pc = "cleaning"
    /\ \/ /\ api[t].ref \notin cleanup
          /\ Return(t) /\ UNCHANGED <<store, faults>>
       \/ /\ api[t].ref \in cleanup
          /\ store' = store \ {api[t].ref}
          /\ Goto(t, "cleaned")
          /\ UNCHANGED faults
       \/ /\ api[t].ref \in cleanup /\ Fault
          /\ Return(t) /\ UNCHANGED store
    /\ UNCHANGED <<rows, cleanup, next, given, jobs, consents, raced, died, requests>>

CommitCleanup(t) ==
    /\ api[t].pc = "cleaned"
    /\ cleanup' = cleanup \ {api[t].ref}
    /\ Return(t)
    /\ UNCHANGED <<rows, store, next, given, jobs, consents, marks, requests>>

(* retry_credential_cleanup, one reference of its list.                    *)
RetryCleanup(t) ==
    /\ Begin(t)
    /\ \E ref \in cleanup : Take(t, [Idle EXCEPT !.pc = "cleaning", !.ref = ref])
    /\ UNCHANGED <<rows, keys, jobs, consents, marks>>

(* delete_connection, of a connection no active profile uses or with       *)
(* cascade_profiles, reads the rows and what the tasks need.               *)
DeleteConnection(t) ==
    /\ Begin(t) /\ conn.state = "active"
    /\ Take(t, [Idle EXCEPT !.pc = "dropping", !.conn = conn, !.prof = prof,
                            !.defaults = defaults, !.pinned = Referenced])
    /\ UNCHANGED <<rows, keys, jobs, consents, marks>>

(* The default settings after a request that saw an active profile has     *)
(* removed it: the request clears what it saw name the profile, and a      *)
(* deleted profile is cleared by ON DELETE SET NULL.                       *)
Unnamed(t, deleted) ==
    LET seen  == api[t].defaults
        unset == api[t].prof.state = "active" /\ seen.named
    IN  [defaults EXCEPT !.named = @ /\ ~unset /\ ~deleted,
                         !.on    = IF unset THEN Wrote(seen.on, FALSE, @) ELSE @]

Deleted(row) == IF Exists(row) THEN [row EXCEPT !.state = "deleted"] ELSE row

(* A row that is gone cannot be archived, which fails the commit; deleting *)
(* it once more is no error.                                               *)
CommitDrop(t) ==
    /\ api[t].pc = "dropping"
    /\ IF api[t].pinned
       THEN /\ Exists(conn) /\ (api[t].prof.state = "active" => Exists(prof))
            /\ conn' = [conn EXCEPT !.state = "archived"]
            /\ prof' = IF api[t].prof.state = "active" THEN [prof EXCEPT !.state = "archived"]
                                                       ELSE prof
            /\ defaults' = Unnamed(t, FALSE)
            /\ Return(t)
            /\ UNCHANGED <<cleanup, raced>>
       ELSE /\ conn' = Deleted(conn) /\ prof' = Deleted(prof)
            /\ defaults' = Unnamed(t, TRUE)
            /\ cleanup' = cleanup \cup {api[t].conn.ref}
            /\ raced' = (raced \/ Overtaken(t))
            /\ Take(t, [Idle EXCEPT !.pc = "cleaning", !.ref = api[t].conn.ref])
    /\ UNCHANGED <<store, next, given, jobs, consents, died, faults, requests>>

-----------------------------------------------------------------------------
(* Profiles.                                                               *)

CreateProfile(t) ==
    /\ Begin(t) /\ conn.state = "active" /\ prof.state = "none"
    /\ Take(t, [Idle EXCEPT !.pc = "naming"])
    /\ UNCHANGED <<rows, keys, jobs, consents, marks>>

CommitProfile(t) ==
    /\ api[t].pc = "naming" /\ Exists(conn) /\ prof.state = "none"
    /\ \E purpose \in Purposes, options \in Options :
         prof' = [prof EXCEPT !.state = "active", !.purpose = purpose,
                              !.options = options, !.rev = 1]
    /\ Return(t)
    /\ UNCHANGED <<conn, defaults, keys, jobs, consents, marks, requests>>

(* update_profile, when it changes more than the name.                     *)
UpdateProfile(t) ==
    /\ Begin(t) /\ prof.state = "active" /\ prof.rev < MaxRevision
    /\ Take(t, [Idle EXCEPT !.pc = "editing", !.prof = prof])
    /\ UNCHANGED <<rows, keys, jobs, consents, marks>>

CommitEdit(t) ==
    LET seen == api[t].prof
    IN  /\ api[t].pc = "editing" /\ Exists(prof)
        /\ \E options \in Options \ {seen.options} :
             prof' = [prof EXCEPT !.options    = options,
                                  !.rev        = seen.rev + 1,
                                  !.test       = Wrote(seen.test, "none", @),
                                  !.tested     = Wrote(seen.tested, 0, @),
                                  !.testedConn = Wrote(seen.testedConn, 0, @),
                                  !.upload     = Wrote(seen.upload, 0, @),
                                  !.uploadConn = Wrote(seen.uploadConn, 0, @),
                                  !.capability = Wrote(seen.capability, None, @),
                                  !.consent    = Wrote(seen.consent, None, @)]
        /\ Return(t)
        /\ UNCHANGED <<conn, defaults, keys, jobs, consents, marks, requests>>

(* delete_profile reads the profile, the default settings and what the     *)
(* tasks need, the last under the write lock if it has to clear a default. *)
DeleteProfile(t) ==
    /\ Begin(t) /\ prof.state = "active"
    /\ Take(t, [Idle EXCEPT !.pc = "deleting", !.prof = prof, !.defaults = defaults,
                            !.pinned = Referenced])
    /\ UNCHANGED <<rows, keys, jobs, consents, marks>>

Pinned(t) == IF api[t].defaults.named THEN Referenced ELSE api[t].pinned

CommitDeletion(t) ==
    /\ api[t].pc = "deleting"
    /\ IF Pinned(t)
       THEN /\ Exists(prof)
            /\ prof' = [prof EXCEPT !.state = "archived"]
            /\ defaults' = Unnamed(t, FALSE)
       ELSE /\ prof' = Deleted(prof)
            /\ defaults' = Unnamed(t, TRUE)
    /\ Return(t)
    /\ UNCHANGED <<conn, keys, jobs, consents, marks, requests>>

-----------------------------------------------------------------------------
(* Tests, consent and the default settings.  verify-chat and verify-asr    *)
(* test a profile, record the consent given with the request and set the   *)
(* default, each with a transaction of its own.                            *)

BeginTest(t) ==
    /\ Begin(t) /\ prof.state = "active"
    /\ \E verify \in BOOLEAN :
         /\ verify => conn.state = "active"
         /\ Take(t, [Idle EXCEPT !.pc = "testing", !.ref = conn.ref, !.verify = verify])
    /\ UNCHANGED <<rows, keys, jobs, consents, marks>>

(* The provider has answered, and record_profile_test reads the profile.   *)
ReadTested(t) ==
    /\ api[t].pc = "testing" /\ prof.state = "active"
    /\ Take(t, [api[t] EXCEPT !.pc = "recording", !.conn = conn, !.prof = prof])
    /\ UNCHANGED <<rows, keys, jobs, consents, marks, requests>>

(* What it records: the revisions are those of the rows as they are now.   *)
(* It reads the connection under the write lock, unless the first columns  *)
(* it sets, the result and its revision, have the values they had.         *)
Recorded(t, result) ==
    LET seen  == api[t].prof
        same  == seen.test = result /\ seen.tested = seen.rev
        c     == IF same THEN api[t].conn ELSE conn
        notes == seen.purpose = "notes"
        proof == IF result = "passed" THEN FingerprintOf(c, seen) ELSE None
    IN  [prof EXCEPT !.test       = Wrote(seen.test, result, @),
                     !.tested     = Wrote(seen.tested, seen.rev, @),
                     !.testedConn = Wrote(seen.testedConn, c.rev, @),
                     !.capability = IF notes THEN Wrote(seen.capability, proof, @) ELSE @,
                     !.consent    = IF notes /\ result = "failed"
                                    THEN Wrote(seen.consent, None, @) ELSE @]

RecordTest(t) ==
    /\ api[t].pc = "recording" /\ Exists(prof)
    /\ \E result \in {"failed", "passed"} :
         /\ result = "passed" => api[t].ref \in given
         /\ prof' = Recorded(t, result)
         /\ IF result = "passed" /\ api[t].verify
            THEN Take(t, [Idle EXCEPT !.pc = "passed", !.verify = TRUE]) ELSE Return(t)
    /\ UNCHANGED <<conn, defaults, keys, jobs, consents, marks, requests>>

(* authorize_chat_data and authorize_cloud_upload.                         *)
Authorize(t) ==
    /\ \/ Begin(t)
       \/ api[t].pc = "passed" /\ UNCHANGED requests
    /\ prof.state = "active" /\ Tested(conn, prof)
    /\ Take(t, [Idle EXCEPT !.pc = "authorizing", !.conn = conn, !.prof = prof,
                            !.verify = api[t].verify])
    /\ UNCHANGED <<rows, keys, jobs, consents, marks>>

(* The first notes profile that gets its consent is switched on, once; the *)
(* default settings are read under the write lock.                         *)
CommitConsent(t) ==
    LET seen == api[t].prof
        c    == api[t].conn
    IN  /\ api[t].pc = "authorizing" /\ Exists(prof)
        /\ IF seen.purpose = "notes"
           THEN /\ prof' = [prof EXCEPT !.consent = Wrote(seen.consent, FingerprintOf(c, seen), @)]
                /\ defaults' = IF defaults.auto /\ ~defaults.named /\ ~defaults.on
                               THEN [named |-> TRUE, on |-> TRUE, auto |-> FALSE] ELSE defaults
           ELSE /\ prof' = [prof EXCEPT !.upload     = Wrote(seen.upload, seen.rev, @),
                                        !.uploadConn = Wrote(seen.uploadConn, c.rev, @)]
                /\ UNCHANGED defaults
        /\ consents' = consents \cup {TargetOf(c, seen)}
        /\ IF api[t].verify THEN Take(t, [Idle EXCEPT !.pc = "authorized"]) ELSE Return(t)
        /\ UNCHANGED <<conn, keys, jobs, marks, requests>>

(* revoke_chat_data reads the default settings under the write lock if     *)
(* there is a consent to take back.                                        *)
Revoke(t) ==
    /\ Begin(t) /\ prof.state = "active" /\ prof.purpose = "notes"
    /\ Take(t, [Idle EXCEPT !.pc = "revoking", !.prof = prof, !.defaults = defaults])
    /\ UNCHANGED <<rows, keys, jobs, consents, marks>>

CommitRevocation(t) ==
    LET held == api[t].prof.consent # None
        d    == IF held THEN defaults ELSE api[t].defaults
    IN  /\ api[t].pc = "revoking" /\ (held => Exists(prof))
        /\ prof' = IF held THEN [prof EXCEPT !.consent = None] ELSE prof
        /\ defaults' = [defaults EXCEPT !.on = IF d.named THEN Wrote(d.on, FALSE, @) ELSE @]
        /\ Return(t)
        /\ UNCHANGED <<conn, keys, jobs, consents, marks, requests>>

(* What update_defaults accepts, as far as it is about the profile: any    *)
(* active one may be named, only a usable one switched on (asr_mode cloud, *)
(* for a cloud_asr profile).                                               *)
Acceptable(want) ==
    /\ want.named => prof.state = "active"
    /\ want.on => want.named /\ Usable

\* What verify-chat and verify-asr ask of it.
Verified == [named |-> TRUE, on |-> prof.purpose = "notes"]

UpdateDefaults(t) ==
    /\ \E want \in Want :
         /\ \/ Begin(t)
            \/ api[t].pc = "authorized" /\ want = Verified /\ UNCHANGED requests
         /\ Acceptable(want)
         /\ Take(t, [Idle EXCEPT !.pc = "setting", !.defaults = defaults, !.want = want])
    /\ UNCHANGED <<rows, keys, jobs, consents, marks>>

\* The foreign key of default_settings: a profile that is named anew must exist.
NamesAProfile(t) == api[t].want.named /\ ~api[t].defaults.named => Exists(prof)

CommitDefaults(t) ==
    LET seen == api[t].defaults
        want == api[t].want
    IN  /\ api[t].pc = "setting" /\ NamesAProfile(t)
        /\ defaults' = [named |-> Wrote(seen.named, want.named, defaults.named),
                        on    |-> Wrote(seen.on, want.on, defaults.on),
                        auto  |-> IF prof.purpose = "cloud_asr" THEN defaults.auto
                                  ELSE Wrote(seen.auto, FALSE, defaults.auto)]
        /\ Return(t)
        /\ UNCHANGED <<conn, prof, keys, jobs, consents, marks, requests>>

-----------------------------------------------------------------------------
(* The task and the worker.                                                *)

(* A stage that failed or was canceled can be retried, and notes that are  *)
(* made can be made again.                                                 *)
CanRetry ==
    \/ task.state = "failed"
    \/ task.state = "completed" /\ prof.purpose = "notes"

(* _pipeline_snapshot copies the two rows; the task is inserted later.  A  *)
(* retry with the profile of today (snapshot_current_notes_retry_profile,  *)
(* snapshot_current_cloud_asr_retry_profile) does the same for the new     *)
(* attempt of a stage that is over.                                        *)
TakeSnapshot(t) ==
    /\ Begin(t) /\ (task.state = "none" \/ CanRetry) /\ Usable
    /\ Take(t, [Idle EXCEPT !.pc = "tasking",
                            !.snapshot = [conf |-> conn.conf, options |-> prof.options,
                                          connRev |-> conn.rev, profRev |-> prof.rev]])
    /\ UNCHANGED <<rows, keys, jobs, consents, marks>>

CreateTask(t) ==
    /\ api[t].pc = "tasking" /\ (task.state = "none" \/ CanRetry)
    /\ task' = [state |-> "queued", snapshot |-> api[t].snapshot]
    /\ Return(t)
    /\ UNCHANGED <<rows, keys, worker, sent, consents, marks, requests>>

(* retry_stage with the snapshot the task has, which holds the write lock. *)
RetryTask ==
    /\ Count /\ CanRetry
    /\ task' = [task EXCEPT !.state = "queued"]
    /\ UNCHANGED <<rows, keys, api, worker, sent, consents, marks>>

(* The stage fails, a check of its worker included, or is canceled; then   *)
(* the task may be deleted.                                                *)
EndTask ==
    /\ worker.pc = "idle"
    /\ \/ task.state = "queued" /\ task' = [task EXCEPT !.state = "failed"]
       \/ task.state \in {"failed", "completed"} /\ task' = [task EXCEPT !.state = "released"]
    /\ UNCHANGED <<rows, keys, api, worker, sent, consents, marks, requests>>

(* What a request of the API meets when a check fails, when the row its    *)
(* commit writes is gone, or when another deletion has queued the same     *)
(* secret: the request ends and has done nothing.                          *)
Refuse(t) ==
    /\ \/ api[t].pc = "testing" /\ prof.state # "active"
       \/ api[t].pc = "passed" /\ ~(prof.state = "active" /\ Tested(conn, prof))
       \/ api[t].pc = "authorized" /\ ~Acceptable(Verified)
       \/ api[t].pc = "naming" /\ ~(Exists(conn) /\ prof.state = "none")
       \/ api[t].pc \in {"editing", "recording", "authorizing"} /\ ~Exists(prof)
       \/ api[t].pc = "revoking" /\ api[t].prof.consent # None /\ ~Exists(prof)
       \/ api[t].pc = "deleting" /\ Pinned(t) /\ ~Exists(prof)
       \/ api[t].pc = "dropping" /\ api[t].pinned
            /\ ~(Exists(conn) /\ (api[t].prof.state = "active" => Exists(prof)))
       \/ api[t].pc = "dropping" /\ ~api[t].pinned /\ api[t].conn.ref \in cleanup
       \/ api[t].pc = "setting" /\ ~NamesAProfile(t)
       \/ api[t].pc = "tasking" /\ ~(task.state = "none" \/ CanRetry)
    /\ Return(t)
    /\ UNCHANGED <<rows, keys, jobs, consents, marks, requests>>

SameRevisions ==
    /\ Exists(conn) /\ Exists(prof)
    /\ conn.rev = task.snapshot.connRev /\ prof.rev = task.snapshot.profRev

(* SnapshotBailianCredentialResolver.validate; the resolver of cloud_asr   *)
(* compares the revisions only.  A check that fails ends the attempt.      *)
Valid ==
    \/ /\ prof.purpose = "notes"
       /\ Tested(conn, prof) /\ Authorized(conn, prof)
       /\ conn.conf = task.snapshot.conf /\ prof.options = task.snapshot.options
    \/ prof.purpose = "cloud_asr"

Validate ==
    /\ worker.pc = "idle" /\ task.state = "queued" /\ SameRevisions /\ Valid
    /\ worker' = [pc |-> IF prof.purpose = "notes" THEN "validated" ELSE "resolved",
                  ref |-> conn.ref]
    /\ UNCHANGED <<rows, keys, api, task, sent, consents, marks, requests>>

AtRest == [pc |-> "idle", ref |-> NoRef]

\* Faulty variant: the reference is read again and nothing compared.
ResolvedAgain ==
    IF Exists(conn) THEN [worker EXCEPT !.pc = "resolved", !.ref = conn.ref] ELSE AtRest

(* resolve, before it reads the secret.                                    *)
Resolved ==
    IF SameRevisions /\ conn.ref = worker.ref THEN [worker EXCEPT !.pc = "resolved"] ELSE AtRest

Resolve ==
    /\ worker.pc = "validated"
    /\ worker' = Resolved
    /\ task' = IF worker'.pc = "idle" THEN [task EXCEPT !.state = "failed"] ELSE task
    /\ UNCHANGED <<rows, keys, api, sent, consents, marks, requests>>

(* The secret is read under the reference in hand and the request sent,    *)
(* which may not be the stage's last; or the secret is gone.               *)
Send ==
    /\ worker.pc = "resolved"
    /\ \/ /\ worker.ref \in store
          /\ sent' = <<task.snapshot.conf, task.snapshot.options, worker.ref>>
          /\ \E state \in {"queued", "failed", "completed"} :
               task' = [task EXCEPT !.state = state]
       \/ /\ worker.ref \notin store
          /\ task' = [task EXCEPT !.state = "failed"]
          /\ UNCHANGED sent
    /\ worker' = AtRest
    /\ UNCHANGED <<rows, keys, api, consents, marks, requests>>

(* The API process dies with its requests.                                 *)
Die ==
    /\ \E t \in Threads : api[t].pc # "idle"
    /\ Fault
    /\ died' = TRUE
    /\ api' = [t \in Threads |-> Idle]
    /\ UNCHANGED <<rows, keys, jobs, consents, raced, requests>>

Request(t) ==
    \/ CreateConnection(t) \/ CommitCreation(t)
    \/ UpdateConnection(t) \/ StoreSecret(t) \/ CommitUpdate(t) \/ FailCommit(t) \/ DropOrphan(t)
    \/ AttemptCleanup(t) \/ CommitCleanup(t) \/ RetryCleanup(t)
    \/ DeleteConnection(t) \/ CommitDrop(t)
    \/ CreateProfile(t) \/ CommitProfile(t) \/ UpdateProfile(t) \/ CommitEdit(t)
    \/ DeleteProfile(t) \/ CommitDeletion(t)
    \/ BeginTest(t) \/ ReadTested(t) \/ RecordTest(t)
    \/ Authorize(t) \/ CommitConsent(t) \/ Revoke(t) \/ CommitRevocation(t)
    \/ UpdateDefaults(t) \/ CommitDefaults(t)
    \/ TakeSnapshot(t) \/ CreateTask(t) \/ Refuse(t)

Next ==
    \/ \E t \in Threads : Request(t)
    \/ RetryTask \/ EndTask \/ Validate \/ Resolve \/ Send
    \/ Die

Spec == Init /\ [][Next]_vars

-----------------------------------------------------------------------------
(* The secret a connection has is never lost: as long as its row exists,   *)
(* active or archived, and the reference it names was given a secret, the  *)
(* keyring holds it, whatever updates, deletions, failed commits and       *)
(* cleanups of other requests overlap (update_connection,                  *)
(* _attempt_credential_cleanup).                                           *)
LiveSecretIsKept ==
    Exists(conn) /\ conn.ref \in given => conn.ref \in store

\* What a request in progress still answers for.
InHand(t) == IF api[t].pc \in {"creating", "committing", "orphan"} THEN {api[t].new} ELSE {}

(* Nor is a secret forgotten: what the keyring holds is the secret of the  *)
(* connection, is queued for deletion, or is in the hands of a request,    *)
(* however updates, deletions, refusals of the keyring and failed commits  *)
(* follow each other (_queue_credential_cleanup,                           *)
(* _delete_or_queue_orphaned_credential).  Two things do lose one and are  *)
(* left out: a death of the API, and a request that commits over a         *)
(* connection which another has changed since it read it.                  *)
SecretsAreTracked ==
    ~raced /\ ~died =>
      store \subseteq (IF Exists(conn) THEN {conn.ref} ELSE {}) \cup cleanup
                        \cup UNION {InHand(t) : t \in Threads}

(* Notes are sent only to a configuration and with options that a recorded *)
(* consent stood for, although the worker looks at the rows twice and      *)
(* reads the keyring after that, and although tests, consents and edits    *)
(* commit what they read earlier (ai_stages.validate, resolve,             *)
(* authorize_chat_data).  The secret is the one of that consent too,       *)
(* unless two updates of the connection got the same revision, which is    *)
(* all that a consent knows of it.                                         *)
SentAsConsented ==
    sent # None /\ prof.purpose = "notes" =>
      \E target \in consents : /\ target[1] = sent[1] /\ target[2] = sent[2]
                               /\ target[3] = sent[3] \/ raced

-----------------------------------------------------------------------------
(* What the tests demand and the code does not keep; no run lists these.   *)

(* What a task that may still run was made with stays there for it: no     *)
(* step deletes a profile or a connection the task needs                   *)
(* (_retained_snapshot_references).  It fails when the task is created     *)
(* after a deletion has read the tasks.                                    *)
RetainedIsSpared ==
    [][Referenced => /\ Exists(prof) => Exists(prof)'
                     /\ Exists(conn) => Exists(conn)']_vars

(* A default never names a profile that was deleted or archived            *)
(* (update_defaults, delete_profile).  It fails when the profile is        *)
(* archived after update_defaults has checked it.                          *)
DefaultIsActive ==
    defaults.named => prof.state = "active"

=============================================================================
