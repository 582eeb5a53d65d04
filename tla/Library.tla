------------------------------ MODULE Library ------------------------------
(***************************************************************************)
(* The library's full-text search (library.py).  Every search first brings *)
(* the index up to date in one transaction that holds SQLite's write lock, *)
(* and then answers from several statements of its own.  Meanwhile workers *)
(* publish files without any lock and change rows with it, users edit      *)
(* excerpts and collections, and tasks are deleted.  A document is a part  *)
(* of an item with the time it was written; a query matches all documents. *)
(***************************************************************************)
EXTENDS Naturals, FiniteSets

CONSTANTS Tasks, Items, Collections, Searchers,
          Nothing,     \* no refresh or edit in progress; no filter
          Unfiled,     \* the filter for tasks in no collection
          TaskOf,      \* the task of each item
          Changes,     \* bound: how many changes of contents
          RowLimit     \* the LIMIT of the full-text query

ASSUME LibraryAssumption ==
  /\ TaskOf \in [Items -> Tasks]
  /\ Changes \in Nat \ {0} /\ RowLimit \in Nat
  /\ Nothing \notin Items \cup Collections \cup Searchers

Files == {"transcript", "note"}              \* written by the workers' handlers
Parts == Files \cup {"row", "excerpt"}
Document == Items \X Parts \X (1..Changes)
States == [Items -> SUBSET SUBSET Document]
Refreshes == [by : Searchers, todo : SUBSET Items, item : Items \cup {Nothing},
              measured : SUBSET Document, read : SUBSET SUBSET Document,
              gap : BOOLEAN, docs : SUBSET Document, fts : SUBSET Document,
              state : States, unread : SUBSET Items]
Edits == [item : Items, op : {"create", "update", "delete"}]

VARIABLES
  task,         \* status of each task: "visible", "hidden" or "deleted"
  content,      \* item -> part -> time of its last change, 0 for none
  clock,        \* number of changes so far
  collections,  \* the collections there are
  filed,        \* the pairs of a collection and a task in it
  docs,         \* library_search_documents
  fts,          \* library_search_fts, by document
  state,        \* library_search_state: item -> set of fingerprints, at most one
  refresh,      \* the refresh in progress, which holds the write lock
  edit,         \* the edit of an excerpt before its transaction
  search,       \* searcher -> what it is doing
  touched,      \* history: searcher -> items changed since its search began
  unread        \* history: items indexed without their transcript

base == <<task, content, clock>>
shelves == <<collections, filed>>
index == <<docs, fts, state, unread>>
vars == <<base, shelves, index, refresh, edit, search, touched>>

Idle == [pc |-> "idle", filter |-> Nothing, tasks |-> {}]
ItemsOf(T) == {i \in Items : TaskOf[i] \in T}
OfItem(D, i) == {d \in D : d[1] = i}
Exists(i) == task[TaskOf[i]] # "deleted"
Unlocked == refresh = Nothing
Visible == {t \in Tasks : task[t] = "visible"}

(* The parts of an item that can be seen now, with their times: both what  *)
(* its documents should hold and the evidence its fingerprint is made of.  *)
Contents(i) ==
  {<<i, p, content[i][p]>> : p \in {q \in Parts : content[i][q] # 0}}

(* Faulty variant: the notes are no evidence. *)
FingerprintWithoutNotes(i) == {d \in Contents(i) : d[2] # "note"}

Fingerprint(i) == Contents(i)

Touch(I) ==
  touched' = [s \in Searchers |->
                IF search[s].pc = "idle" THEN {} ELSE touched[s] \cup I]

TypeOK ==
  /\ task \in [Tasks -> {"visible", "hidden", "deleted"}]
  /\ content \in [Items -> [Parts -> 0..Changes]]
  /\ unread \subseteq Items
  /\ clock \in 0..Changes
  /\ collections \subseteq Collections /\ filed \subseteq collections \X Tasks
  /\ docs \subseteq Document /\ fts \subseteq Document /\ state \in States
  /\ refresh # Nothing => refresh \in Refreshes /\ search[refresh.by].pc = "refresh"
  /\ edit # Nothing => edit \in Edits
  /\ search \in [Searchers -> [pc : {"idle", "refresh", "candidates", "match"},
                              filter : {Nothing, Unfiled} \cup Collections,
                              tasks : SUBSET Tasks]]
  /\ touched \in [Searchers -> SUBSET Items]

Init ==
  /\ task = [t \in Tasks |-> "visible"]
  /\ \E heard \in SUBSET Items : content = [i \in Items |-> [p \in Parts |->
       IF p = "row" \/ (p = "transcript" /\ i \in heard) THEN 1 ELSE 0]]
  /\ clock = 1
  /\ collections = Collections /\ filed = {}
  /\ docs = {} /\ fts = {} /\ state = [i \in Items |-> {}] /\ unread = {}
  /\ refresh = Nothing /\ edit = Nothing
  /\ search = [s \in Searchers |-> Idle]
  /\ touched = [s \in Searchers |-> {}]

-----------------------------------------------------------------------------
(* What the rest of the system does to items and tasks. *)

Tick == clock < Changes /\ clock' = clock + 1

Changed(i, p) ==
  /\ Tick
  /\ content' = [content EXCEPT ![i][p] = clock + 1]
  /\ Touch({i})

(* A row is written under the lock; a published file is replaced without   *)
(* it.  A transcript is published once, a note may be written again.       *)
RowChanges(i) ==
  /\ Exists(i) /\ Unlocked
  /\ Changed(i, "row")
  /\ UNCHANGED <<task, shelves, index, refresh, edit, search>>

FilePublished(i, p) ==
  /\ Exists(i)
  /\ p = "transcript" => content[i][p] = 0
  /\ Changed(i, p)
  /\ UNCHANGED <<task, shelves, index, refresh, edit, search>>

(* The sample of a profile test is uploaded as a task like any other, and  *)
(* hidden when it has been canceled (finalize_profile_test_sample).        *)
HideTask(t) ==
  /\ Unlocked /\ Tick /\ task[t] = "visible"
  /\ task' = [task EXCEPT ![t] = "hidden"]
  /\ Touch(ItemsOf({t}))
  /\ UNCHANGED <<content, shelves, index, refresh, edit, search>>

(* A deletion cascades to documents, states, excerpts and filed pairs; the *)
(* full-text table knows no foreign keys and keeps its rows.               *)
DeleteTask(t) ==
  LET gone == ItemsOf({t}) IN
  /\ Unlocked /\ task[t] # "deleted"
  /\ task' = [task EXCEPT ![t] = "deleted"]
  /\ content' = [i \in Items |-> IF i \in gone THEN [p \in Parts |-> 0] ELSE content[i]]
  /\ docs' = {d \in docs : d[1] \notin gone}
  /\ state' = [i \in Items |-> IF i \in gone THEN {} ELSE state[i]]
  /\ unread' = unread \ gone
  /\ filed' = {f \in filed : f[2] # t}
  /\ Touch(gone)
  /\ UNCHANGED <<clock, collections, fts, refresh, edit, search>>

-----------------------------------------------------------------------------
(* Excerpts and collections. *)

(* create_excerpt, update_excerpt and delete_excerpt look for the item and *)
(* its excerpt first.                                                      *)
BeginEdit(i, op) ==
  /\ edit = Nothing /\ Exists(i)
  /\ IF op = "create" THEN content[i]["transcript"] # 0
                           /\ content[i]["excerpt"] = 0
                      ELSE content[i]["excerpt"] # 0
  /\ edit' = [item |-> i, op |-> op]
  /\ UNCHANGED <<base, shelves, index, refresh, search, touched>>

(* The look-up of the item's state row flushes the excerpt, and so takes   *)
(* the write lock first; the row is deleted with the commit.               *)
CommitEdit ==
  /\ edit # Nothing /\ Unlocked
  /\ LET i == edit.item IN
       IF Exists(i)
       THEN /\ Tick
            /\ content' = [content EXCEPT ![i]["excerpt"] =
                             IF edit.op = "delete" THEN 0 ELSE clock + 1]
            /\ state' = [state EXCEPT ![i] = {}]
            /\ Touch({i})
       ELSE UNCHANGED <<clock, content, state, touched>>   \* integrity error
  /\ edit' = Nothing
  /\ UNCHANGED <<task, shelves, docs, fts, unread, refresh, search>>

(* organize files all the pairs of its tasks and collections or none. *)
Organize(T, C, op) ==
  /\ Unlocked /\ Tick
  /\ T # {} /\ C # {} /\ C \subseteq collections /\ \A t \in T : task[t] # "deleted"
  /\ filed' = IF op = "add" THEN filed \cup (C \X T) ELSE filed \ (C \X T)
  /\ Touch(ItemsOf(T))
  /\ UNCHANGED <<task, content, collections, index, refresh, edit, search>>

DeleteCollection(c) ==
  /\ Unlocked /\ Tick /\ c \in collections
  /\ collections' = collections \ {c}
  /\ filed' = {f \in filed : f[1] # c}
  /\ Touch(ItemsOf({f[2] : f \in {g \in filed : g[1] = c}}))
  /\ UNCHANGED <<task, content, index, refresh, edit, search>>

CreateCollection(c) ==
  /\ Unlocked /\ Tick /\ c \notin collections
  /\ collections' = collections \cup {c}
  /\ UNCHANGED <<task, content, filed, index, refresh, edit, search, touched>>

-----------------------------------------------------------------------------
(* A search: the refresh of the index, one item after the other. *)

BeginSearch(s) ==
  /\ search[s].pc = "idle" /\ Unlocked
  /\ search' = [search EXCEPT ![s] = [Idle EXCEPT !.pc = "refresh"]]
  /\ touched' = [touched EXCEPT ![s] = {}]
  /\ refresh' = [by |-> s, todo |-> ItemsOf(Visible), item |-> Nothing,
                 measured |-> {}, read |-> {}, gap |-> FALSE,
                 docs |-> docs, fts |-> fts \cap docs,
                 state |-> state, unread |-> unread]
  /\ UNCHANGED <<base, shelves, index, edit>>

(* The fingerprint is taken before anything is read; an item whose state   *)
(* already records it is left alone.                                       *)
Measure(i) ==
  /\ ~Unlocked /\ refresh.item = Nothing /\ i \in refresh.todo
  /\ refresh' = IF refresh.state[i] = {Fingerprint(i)}
                THEN [refresh EXCEPT !.todo = @ \ {i}]
                ELSE [refresh EXCEPT !.item = i, !.todo = @ \ {i},
                                     !.measured = Fingerprint(i)]
  /\ UNCHANGED <<base, shelves, index, edit, search, touched>>

(* A transcript that is missing or cannot be read is left out. *)
ReadTranscript ==
  /\ ~Unlocked /\ refresh.item # Nothing /\ refresh.read = {}
  /\ LET there == {d \in Contents(refresh.item) : d[2] \in {"row", "transcript"}} IN
     \/ refresh' = [refresh EXCEPT !.read = {there}, !.gap = FALSE]
     \/ refresh' = [refresh EXCEPT !.read = {{d \in there : d[2] = "row"}},
                                   !.gap = \E d \in there : d[2] = "transcript"]
  /\ UNCHANGED <<base, shelves, index, edit, search, touched>>

(* Faulty variant: the old rows are looked up when the documents are gone. *)
RowsKeptLate(i) == refresh.fts

(* The rows of the full-text table that stay when item i is indexed anew:  *)
(* those of its old documents are deleted first.                           *)
RowsKept(i) == refresh.fts \ OfItem(refresh.docs, i)

(* Faulty variant: the fingerprint recorded is taken after the reading. *)
RecordedLate(i) == Fingerprint(i)

(* The fingerprint that is recorded: the one measured before the reading. *)
Recorded(i) == refresh.measured

(* The notes are read from their files and the excerpts from their rows;   *)
(* then the item's documents are replaced, and their full-text rows.       *)
IndexItem ==
  /\ ~Unlocked /\ refresh.item # Nothing /\ refresh.read # {}
  /\ LET i == refresh.item
         D == (UNION refresh.read)
                \cup {d \in Contents(i) : d[2] \in {"note", "excerpt"}}
     IN refresh' = [refresh EXCEPT
          !.docs = (@ \ OfItem(@, i)) \cup D,
          !.fts = RowsKept(i) \cup D,
          !.state[i] = {Recorded(i)},
          !.unread = IF refresh.gap THEN @ \cup {i} ELSE @ \ {i},
          !.item = Nothing, !.measured = {}, !.read = {}, !.gap = FALSE]
  /\ UNCHANGED <<base, shelves, index, edit, search, touched>>

CommitRefresh ==
  /\ ~Unlocked /\ refresh.item = Nothing /\ refresh.todo = {}
  /\ docs' = refresh.docs /\ fts' = refresh.fts
  /\ state' = refresh.state /\ unread' = refresh.unread
  /\ search' = [search EXCEPT ![refresh.by].pc = "candidates"]
  /\ refresh' = Nothing
  /\ UNCHANGED <<base, shelves, edit, touched>>

(* A note that cannot be read fails the search; its transaction is rolled  *)
(* back.                                                                   *)
RefreshFails ==
  /\ ~Unlocked /\ refresh.item # Nothing /\ refresh.read # {}
  /\ \E d \in Contents(refresh.item) : d[2] = "note"
  /\ search' = [search EXCEPT ![refresh.by] = Idle]
  /\ touched' = [touched EXCEPT ![refresh.by] = {}]
  /\ refresh' = Nothing
  /\ UNCHANGED <<base, shelves, index, edit>>

-----------------------------------------------------------------------------
(* A search: the answer, in statements of their own. *)

Accepts(f, t) ==
  \/ f = Nothing
  \/ f = Unfiled /\ ~\E p \in filed : p[2] = t
  \/ <<f, t>> \in filed

Candidates(s, f) ==
  /\ search[s].pc = "candidates"
  /\ search' = [search EXCEPT ![s] =
       [pc |-> "match", filter |-> f, tasks |-> {t \in Visible : Accepts(f, t)}]]
  /\ UNCHANGED <<base, shelves, index, refresh, edit, touched>>

(* The documents the query can find.  A short one, or one the full-text    *)
(* table cannot answer, scans the documents; any other joins the two       *)
(* tables, and only its first RowLimit rows are looked at.                 *)
Found(s) ==
  LET joined == docs \cap fts
      first == IF Cardinality(joined) <= RowLimit THEN {joined}
               ELSE {R \in SUBSET joined : Cardinality(R) = RowLimit}
  IN {{d \in R : TaskOf[d[1]] \in search[s].tasks} : R \in first \cup {docs}}

(* The answer shows the tasks changed last, as many as the request asked   *)
(* for, each with one of its documents.  It is loaded task by task; one    *)
(* deleted by then fails the request.  Either way nothing is changed.      *)
Answer(s) ==
  /\ search[s].pc = "match"
  /\ search' = [search EXCEPT ![s] = Idle]
  /\ touched' = [touched EXCEPT ![s] = {}]
  /\ UNCHANGED <<base, shelves, index, refresh, edit>>

-----------------------------------------------------------------------------
Next ==
  \/ \E i \in Items :
       \/ RowChanges(i)
       \/ \E p \in Files : FilePublished(i, p)
       \/ \E op \in {"create", "update", "delete"} : BeginEdit(i, op)
       \/ Measure(i)
  \/ \E t \in Tasks : HideTask(t) \/ DeleteTask(t)
  \/ CommitEdit
  \/ \E T \in SUBSET Tasks, C \in SUBSET Collections, op \in {"add", "remove"} :
       Organize(T, C, op)
  \/ \E c \in Collections : DeleteCollection(c) \/ CreateCollection(c)
  \/ ReadTranscript \/ IndexItem \/ CommitRefresh \/ RefreshFails
  \/ \E s \in Searchers :
       \/ \E f \in {Nothing, Unfiled} \cup Collections : Candidates(s, f)
       \/ BeginSearch(s) \/ Answer(s)

Spec == Init /\ [][Next]_vars

-----------------------------------------------------------------------------
(* An index entry whose fingerprint is the item's present one holds just   *)
(* what the item holds, whatever was published while it was made; only a   *)
(* transcript that could not be read may be missing.                       *)
Faithful(D, i) ==
  \/ D = Contents(i)
  \/ i \in unread /\ D = {d \in Contents(i) : d[2] # "transcript"}

IndexTellsTheTruth ==
  \A i \in Items :
    Exists(i) /\ state[i] = {Fingerprint(i)} => Faithful(OfItem(docs, i), i)

(* Every document has its full-text row, and a full-text row without its   *)
(* document is of a deleted task.                                          *)
TablesAgree == docs \subseteq fts /\ \A d \in fts \ docs : ~Exists(d[1])

(* The query finds every item unchanged since its search began as it is,   *)
(* if its task is visible and passes the filter, and nothing of it         *)
(* otherwise, whatever other searches, edits and deletions did meanwhile.  *)
SearchIsCurrent ==
  \A s \in Searchers : search[s].pc = "match" =>
    \A found \in Found(s), i \in Items \ touched[s] :
      IF task[TaskOf[i]] = "visible" /\ Accepts(search[s].filter, TaskOf[i])
      THEN Faithful(OfItem(found, i), i) ELSE OfItem(found, i) = {}
=============================================================================
