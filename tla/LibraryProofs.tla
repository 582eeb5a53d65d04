---------------------------- MODULE LibraryProofs ----------------------------
(***************************************************************************)
(* Proofs about Library for any tasks, items, collections, searchers and   *)
(* numbers of changes: types, the two index tables, the truth of an index  *)
(* entry whose fingerprint is up to date, and what a search finds.         *)
(***************************************************************************)
EXTENDS Library, TLAPS

(* A file of item i is newer than the fingerprint f knows: times only grow, *)
(* so f will never be the item's fingerprint again.                        *)
Grown(i, f) ==
  \E p \in Files : /\ content[i][p] # 0
                   /\ \A d \in f : d[2] = p => d[3] < content[i][p]

(* What an index that records f for item i may hold of it. *)
Good(i, D, f, u) ==
  \/ D = f
  \/ i \in u /\ D = {d \in f : d[2] # "transcript"}
  \/ Grown(i, f)

AllGood(D, st, u) == \A i \in Items : \A f \in st[i] : Good(i, OfItem(D, i), f, u)

(* What the refresh knows of the item it is at: it holds the lock, so only *)
(* files have changed since it measured.                                   *)
Reading ==
  /\ refresh.item \notin Items => refresh.read = {}
  /\ refresh.item \in Items =>
    /\ refresh.measured = Contents(refresh.item) \/ Grown(refresh.item, refresh.measured)
    /\ \A R \in refresh.read :
         \/ Grown(refresh.item, refresh.measured)
         \/ R = {d \in refresh.measured : d[2] \in {"row", "transcript"}}
         \/ refresh.gap /\ R = {d \in refresh.measured : d[2] = "row"}
    /\ \A R, S \in refresh.read : R = S
    /\ \A R \in refresh.read : \A d \in R : d[1] = refresh.item

TimeInv == \A i \in Items, p \in Parts : content[i][p] <= clock

TruthInv ==
  /\ AllGood(docs, state, unread)
  /\ refresh # Nothing => AllGood(refresh.docs, refresh.state, refresh.unread) /\ Reading

TablesInv == TablesAgree /\ (refresh # Nothing => refresh.fts = refresh.docs)

(* What a search knows of the items that were not changed since it began.  *)

Untouched(s) == Items \ touched[s]
Seen(i) == task[TaskOf[i]] = "visible"

(* The refresh will come to the item, is at it, or has it as it is. *)
Caught(i) ==
  \/ i \in refresh.todo
  \/ i = refresh.item /\ refresh.measured = Contents(i)
  \/ i # refresh.item /\ refresh.state[i] = {Contents(i)}

(* The index has the item as it is, and no refresh in progress changes it. *)
Listed(i) ==
  /\ state[i] = {Contents(i)}
  /\ refresh # Nothing => refresh.state[i] = {Contents(i)} /\ refresh.item # i

(* A search knows this after its refresh has been committed, and this when *)
(* it has chosen its tasks.                                                *)
SearchInv ==
  /\ refresh # Nothing => \A i \in Untouched(refresh.by) : Seen(i) => Caught(i)
  /\ \A s \in Searchers : search[s].pc \in {"candidates", "match"} =>
       \A i \in Untouched(s) : Seen(i) => Listed(i)
  /\ \A s \in Searchers : search[s].pc = "match" =>
       \A i \in Untouched(s) :
         TaskOf[i] \in search[s].tasks <=> Seen(i) /\ Accepts(search[s].filter, TaskOf[i])

IInv == TypeOK /\ TimeInv /\ TruthInv /\ TablesInv /\ SearchInv

-----------------------------------------------------------------------------
LEMMA ConstantsOK ==
  /\ TaskOf \in [Items -> Tasks] /\ Changes \in Nat /\ Changes # 0
  /\ Nothing \notin Items /\ Nothing \notin Collections
BY LibraryAssumption DEF LibraryAssumption

LEMMA PartNames ==
  /\ Files \subseteq Parts
  /\ "row" \in Parts /\ "row" \notin Files
  /\ "excerpt" \in Parts /\ "excerpt" \notin Files
  /\ "transcript" \in Files /\ "note" \in Files
BY DEF Files, Parts

LEMMA ContentsType ==
  ASSUME TypeOK, NEW i \in Items
  PROVE  /\ Contents(i) \subseteq Document
         /\ \A d \in Contents(i) : d[1] = i /\ d[2] \in Parts /\ d[3] = content[i][d[2]]
BY ConstantsOK DEF TypeOK, Contents, Document

(* A fingerprint that is the item's own is not outgrown. *)
LEMMA OwnIsNotOutgrown ==
  ASSUME TypeOK, NEW i \in Items
  PROVE  ~Grown(i, Contents(i))
<1> SUFFICES ASSUME NEW p \in Files, content[i][p] # 0,
                    \A d \in Contents(i) : d[2] = p => d[3] < content[i][p]
             PROVE  FALSE
  BY DEF Grown
<1>1. <<i, p, content[i][p]>> \in Contents(i)
  BY PartNames DEF Contents
<1>2. content[i][p] \in Nat
  BY PartNames, ConstantsOK DEF TypeOK
<1> QED BY <1>1, <1>2

LEMMA TruthHolds == IInv => IndexTellsTheTruth
<1> SUFFICES ASSUME IInv, NEW i \in Items, Exists(i), state[i] = {Fingerprint(i)}
             PROVE  Faithful(OfItem(docs, i), i)
  BY DEF IndexTellsTheTruth
<1>1. Good(i, OfItem(docs, i), Contents(i), unread)
  BY DEF IInv, TruthInv, AllGood, Fingerprint
<1> QED BY <1>1, OwnIsNotOutgrown DEF Good, Faithful, IInv

-----------------------------------------------------------------------------
LEMMA Initially == Init => IInv
<1> SUFFICES ASSUME Init PROVE IInv
  OBVIOUS
<1>1. TypeOK
  BY ConstantsOK DEF Init, TypeOK, States, Idle
<1>2. TimeInv
  BY DEF Init, TimeInv
<1>3. TruthInv
  BY DEF Init, TruthInv, AllGood
<1>4. TablesInv
  BY DEF Init, TablesInv, TablesAgree
<1>5. SearchInv
  BY DEF Init, SearchInv, Idle
<1> QED BY <1>1, <1>2, <1>3, <1>4, <1>5 DEF IInv

LEMMA CupType ==
  ASSUME NEW X, NEW A, NEW B, A \subseteq X, B \subseteq X
  PROVE  A \cup B \in SUBSET X
OBVIOUS

LEMMA TouchType ==
  ASSUME TypeOK, NEW I \in SUBSET Items, Touch(I)
  PROVE  touched' \in [Searchers -> SUBSET Items]
BY DEF TypeOK, Touch

LEMMA ChangedType ==
  ASSUME TypeOK, NEW i \in Items, NEW p \in Parts, Changed(i, p)
  PROVE  /\ clock' \in 0..Changes
         /\ content' \in [Items -> [Parts -> 0..Changes]]
         /\ touched' \in [Searchers -> SUBSET Items]
<1>1. clock' \in 0..Changes /\ clock + 1 \in 0..Changes
  BY ConstantsOK DEF TypeOK, Changed, Tick
<1>2. content' \in [Items -> [Parts -> 0..Changes]]
  BY <1>1 DEF TypeOK, Changed
<1> QED BY <1>1, <1>2, TouchType DEF Changed

LEMMA TypeStep == TypeOK /\ [Next]_vars => TypeOK'
<1> SUFFICES ASSUME TypeOK, [Next]_vars PROVE TypeOK'
  OBVIOUS
<1> USE ConstantsOK
<1>1. ASSUME NEW i \in Items, RowChanges(i) PROVE TypeOK'
  BY <1>1, ChangedType, PartNames DEF TypeOK, RowChanges, shelves, index
<1>2. ASSUME NEW i \in Items, NEW p \in Files, FilePublished(i, p) PROVE TypeOK'
  BY <1>2, ChangedType, PartNames DEF TypeOK, FilePublished, shelves, index
<1>3. ASSUME NEW t \in Tasks, HideTask(t) PROVE TypeOK'
  <2>1. touched' \in [Searchers -> SUBSET Items]
    BY <1>3, TouchType DEF HideTask, ItemsOf
  <2> QED BY <1>3, <2>1 DEF TypeOK, HideTask, Tick, shelves, index
<1>4. ASSUME NEW t \in Tasks, DeleteTask(t) PROVE TypeOK'
  <2>1. touched' \in [Searchers -> SUBSET Items]
    BY <1>4, TouchType DEF DeleteTask, ItemsOf
  <2>2. content' \in [Items -> [Parts -> 0..Changes]] /\ state' \in States
    BY <1>4 DEF TypeOK, DeleteTask, States
  <2> QED BY <1>4, <2>1, <2>2 DEF TypeOK, DeleteTask, shelves, index
<1>5. ASSUME NEW i \in Items, NEW op \in {"create", "update", "delete"}, BeginEdit(i, op)
      PROVE  TypeOK'
  BY <1>5 DEF TypeOK, BeginEdit, base, shelves, index, Edits
<1>6. ASSUME CommitEdit PROVE TypeOK'
  <2> DEFINE i == edit.item
  <2>1. i \in Items /\ edit \in Edits
    BY <1>6 DEF CommitEdit, TypeOK, Edits
  <2>2. CASE Exists(i)
    <3>1. clock' \in 0..Changes /\ clock + 1 \in 0..Changes
      BY <1>6, <2>2 DEF TypeOK, CommitEdit, Tick
    <3>2. content' \in [Items -> [Parts -> 0..Changes]]
      <4> DEFINE v == IF edit.op = "delete" THEN 0 ELSE clock + 1
      <4>1. v \in 0..Changes
        BY <3>1, LibraryAssumption
      <4>2. content' = [content EXCEPT ![i]["excerpt"] = v]
        BY <1>6, <2>2 DEF CommitEdit
      <4>3. content \in [Items -> [Parts -> 0..Changes]] /\ "excerpt" \in Parts
        BY PartNames DEF TypeOK
      <4> HIDE DEF v, i
      <4> QED BY <2>1, <4>1, <4>2, <4>3
    <3>3. state' \in States
      BY <1>6, <2>1, <2>2 DEF TypeOK, CommitEdit, States
    <3>4. touched' \in [Searchers -> SUBSET Items]
      BY <1>6, <2>1, <2>2, TouchType DEF CommitEdit
    <3> QED BY <1>6, <3>1, <3>2, <3>3, <3>4 DEF TypeOK, CommitEdit, shelves
  <2>3. CASE ~Exists(i)
    BY <1>6, <2>3 DEF TypeOK, CommitEdit, shelves
  <2> QED BY <2>2, <2>3
<1>7. ASSUME NEW T \in SUBSET Tasks, NEW C \in SUBSET Collections, NEW op \in {"add", "remove"},
             Organize(T, C, op)
      PROVE  TypeOK'
  <2>1. touched' \in [Searchers -> SUBSET Items]
    BY <1>7, TouchType DEF Organize, ItemsOf
  <2>2. filed' \subseteq collections \X Tasks
    BY <1>7 DEF Organize, TypeOK
  <2> QED BY <1>7, <2>1, <2>2 DEF TypeOK, Organize, Tick, index
<1>8. ASSUME NEW c \in Collections, DeleteCollection(c) PROVE TypeOK'
  <2>1. touched' \in [Searchers -> SUBSET Items]
    BY <1>8, TouchType DEF DeleteCollection, ItemsOf
  <2>2. filed' \subseteq collections' \X Tasks /\ collections' \subseteq Collections
    BY <1>8 DEF DeleteCollection, TypeOK
  <2> QED BY <1>8, <2>1, <2>2 DEF TypeOK, DeleteCollection, Tick, index
<1>9. ASSUME NEW c \in Collections, CreateCollection(c) PROVE TypeOK'
  <2>1. filed' \subseteq collections' \X Tasks /\ collections' \subseteq Collections
    BY <1>9 DEF CreateCollection, TypeOK
  <2> QED BY <1>9, <2>1 DEF TypeOK, CreateCollection, Tick, index
<1>10. ASSUME NEW s \in Searchers, BeginSearch(s) PROVE TypeOK'
  <2>1. refresh' \in Refreshes /\ refresh'.by = s
    BY <1>10 DEF TypeOK, BeginSearch, Refreshes, ItemsOf, States
  <2>2. search'[s].pc = "refresh"
    BY <1>10 DEF TypeOK, BeginSearch, Idle
  <2>3. search' \in [Searchers -> [pc : {"idle", "refresh", "candidates", "match"},
                              filter : {Nothing, Unfiled} \cup Collections,
                              tasks : SUBSET Tasks]]
    BY <1>10 DEF TypeOK, BeginSearch, Idle
  <2>4. touched' \in [Searchers -> SUBSET Items]
    BY <1>10 DEF TypeOK, BeginSearch
  <2> QED BY <1>10, <2>1, <2>2, <2>3, <2>4 DEF TypeOK, BeginSearch, base, shelves, index
<1>11. ASSUME NEW i \in Items, Measure(i) PROVE TypeOK'
  <2>1. refresh \in Refreshes /\ refresh # Nothing
    BY <1>11 DEF TypeOK, Measure, Unlocked
  <2>2. refresh' \in Refreshes /\ refresh'.by = refresh.by
    BY <1>11, <2>1, ContentsType DEF Measure, Refreshes, Fingerprint
  <2> QED BY <1>11, <2>1, <2>2 DEF TypeOK, Measure, base, shelves, index
<1>12. ASSUME ReadTranscript PROVE TypeOK'
  <2>1. refresh \in Refreshes /\ refresh # Nothing /\ refresh.item \in Items
    BY <1>12 DEF TypeOK, ReadTranscript, Unlocked, Refreshes
  <2> DEFINE there == {d \in Contents(refresh.item) : d[2] \in {"row", "transcript"}}
             rows == {d \in there : d[2] = "row"}
             gap == \E d \in there : d[2] = "transcript"
  <2>2. there \subseteq Document /\ rows \subseteq Document /\ gap \in BOOLEAN
    BY <2>1, ContentsType
  <2>3. \/ refresh' = [refresh EXCEPT !.read = {there}, !.gap = FALSE]
        \/ refresh' = [refresh EXCEPT !.read = {rows}, !.gap = gap]
    BY <1>12 DEF ReadTranscript
  <2>4. {there} \in SUBSET SUBSET Document /\ {rows} \in SUBSET SUBSET Document
    BY <2>2
  <2>5. PICK r \in SUBSET SUBSET Document, g \in BOOLEAN :
               refresh' = [refresh EXCEPT !.read = r, !.gap = g]
    <3> HIDE DEF there, rows, gap
    <3> QED BY <2>2, <2>3, <2>4
  <2>6. refresh' \in Refreshes /\ refresh'.by = refresh.by
    BY <2>1, <2>5 DEF Refreshes
  <2> QED BY <1>12, <2>1, <2>6 DEF TypeOK, ReadTranscript, base, shelves, index
<1>13. ASSUME IndexItem PROVE TypeOK'
  <2>1. refresh \in Refreshes /\ refresh # Nothing /\ refresh.item \in Items
    BY <1>13 DEF TypeOK, IndexItem, Unlocked, Refreshes
  <2> DEFINE i == refresh.item
             D == (UNION refresh.read) \cup {d \in Contents(i) : d[2] \in {"note", "excerpt"}}
             kept == refresh.docs \ OfItem(refresh.docs, i)
             rows == RowsKept(i)
             u == IF refresh.gap THEN refresh.unread \cup {i} ELSE refresh.unread \ {i}
  <2>0. /\ refresh.read \subseteq SUBSET Document /\ refresh.docs \subseteq Document
        /\ refresh.fts \subseteq Document /\ refresh.measured \subseteq Document
        /\ refresh.unread \subseteq Items
    BY <2>1 DEF Refreshes
  <2>2. /\ D \in SUBSET Document /\ kept \in SUBSET Document /\ rows \in SUBSET Document
        /\ Recorded(i) \in SUBSET Document /\ u \in SUBSET Items
    <3>1. (UNION refresh.read) \subseteq Document
      BY <2>0
    <3>0. Contents(i) \subseteq Document
      BY <2>1, ContentsType
    <3>2. D \in SUBSET Document
      <4>1. {d \in Contents(i) : d[2] \in {"note", "excerpt"}} \subseteq Document
        BY <3>0
      <4> QED BY <3>1, <4>1, CupType
    <3>3. kept \in SUBSET Document /\ rows \in SUBSET Document /\ Recorded(i) \in SUBSET Document
      BY <2>0 DEF RowsKept, Recorded
    <3>4. u \in SUBSET Items
      BY <2>0, <2>1
    <3> QED BY <3>2, <3>3, <3>4
  <2>3. refresh' = [refresh EXCEPT !.docs = kept \cup D, !.fts = rows \cup D,
          !.state[i] = {Recorded(i)}, !.unread = u,
          !.item = Nothing, !.measured = {}, !.read = {}, !.gap = FALSE]
    BY <1>13 DEF IndexItem
  <2>4. refresh' \in Refreshes /\ refresh'.by = refresh.by
    <3> DEFINE dd == kept \cup D
               ff == rows \cup D
               ss == [refresh.state EXCEPT ![i] = {Recorded(i)}]
    <3>1. dd \in SUBSET Document /\ ff \in SUBSET Document
      BY <2>2
    <3>2. ss \in States
      BY <2>1, <2>2 DEF Refreshes, States
    <3>3. refresh' = [refresh EXCEPT !.docs = dd, !.fts = ff, !.state = ss, !.unread = u,
            !.item = Nothing, !.measured = {}, !.read = {}, !.gap = FALSE]
      BY <2>3
    <3> HIDE DEF dd, ff, ss, u
    <3> QED BY <2>1, <2>2, <3>1, <3>2, <3>3 DEF Refreshes
  <2> QED BY <1>13, <2>1, <2>4 DEF TypeOK, IndexItem, base, shelves, index
<1>14. ASSUME CommitRefresh PROVE TypeOK'
  <2>1. refresh \in Refreshes /\ refresh.by \in Searchers
    BY <1>14 DEF TypeOK, CommitRefresh, Unlocked, Refreshes
  <2>2. search' \in [Searchers -> [pc : {"idle", "refresh", "candidates", "match"},
                              filter : {Nothing, Unfiled} \cup Collections,
                              tasks : SUBSET Tasks]]
    BY <1>14, <2>1 DEF TypeOK, CommitRefresh
  <2> QED BY <1>14, <2>1, <2>2 DEF TypeOK, CommitRefresh, Refreshes, base, shelves
<1>15. ASSUME RefreshFails PROVE TypeOK'
  BY <1>15 DEF TypeOK, RefreshFails, Unlocked, Refreshes, Idle, base, shelves, index
<1>16. ASSUME NEW s \in Searchers, NEW f \in {Nothing, Unfiled} \cup Collections, Candidates(s, f)
       PROVE  TypeOK'
  <2>1. search' \in [Searchers -> [pc : {"idle", "refresh", "candidates", "match"},
                              filter : {Nothing, Unfiled} \cup Collections,
                              tasks : SUBSET Tasks]]
    <3>1. {t \in Visible : Accepts(f, t)} \in SUBSET Tasks
      BY DEF Visible
    <3>2. PICK T \in SUBSET Tasks :
            search' = [search EXCEPT ![s] = [pc |-> "match", filter |-> f, tasks |-> T]]
      BY <1>16, <3>1 DEF Candidates
    <3> QED BY <3>2 DEF TypeOK
  <2>2. refresh # Nothing => search'[refresh.by].pc = "refresh"
    BY <1>16 DEF TypeOK, Candidates, Refreshes
  <2> QED BY <1>16, <2>1, <2>2 DEF TypeOK, Candidates, base, shelves, index
<1>17. ASSUME NEW s \in Searchers, Answer(s) PROVE TypeOK'
  BY <1>17 DEF TypeOK, Answer, Idle, Refreshes, base, shelves, index
<1>18. CASE UNCHANGED vars
  BY <1>18 DEF TypeOK, vars, base, shelves, index
<1> QED BY <1>1, <1>2, <1>3, <1>4, <1>5, <1>6, <1>7, <1>8, <1>9, <1>10, <1>11, <1>12, <1>13,
           <1>14, <1>15, <1>16, <1>17, <1>18 DEF Next

-----------------------------------------------------------------------------
(* The index tables. *)

LEMMA TablesStep == TypeOK /\ TablesInv /\ [Next]_vars => TablesInv'
<1> SUFFICES ASSUME TypeOK, TablesInv, [Next]_vars PROVE TablesInv'
  OBVIOUS
<1>1. ASSUME UNCHANGED <<task, docs, fts, refresh>> PROVE TablesInv'
  BY <1>1 DEF TablesInv, TablesAgree, Exists
<1>2. ASSUME NEW t \in Tasks, HideTask(t) PROVE TablesInv'
  <2>1. \A d \in fts \ docs : ~Exists(d[1])'
    BY <1>2, ConstantsOK DEF TablesInv, TablesAgree, HideTask, TypeOK, Exists, Document, index
  <2> QED BY <1>2, <2>1 DEF TablesInv, TablesAgree, HideTask, index
<1>3. ASSUME NEW t \in Tasks, DeleteTask(t) PROVE TablesInv'
  <2>1. \A d \in fts' \ docs' : ~Exists(d[1])'
    <3> SUFFICES ASSUME NEW d \in fts, d \notin docs' PROVE ~Exists(d[1])'
      BY <1>3 DEF DeleteTask
    <3>1. d[1] \in Items
      BY DEF TypeOK, Document
    <3>2. TaskOf[d[1]] \in Tasks
      BY <3>1, ConstantsOK
    <3>3. CASE d \in docs
      <4>1. TaskOf[d[1]] = t
        BY <1>3, <3>1, <3>3 DEF DeleteTask, ItemsOf
      <4> QED BY <1>3, <4>1 DEF DeleteTask, TypeOK, Exists
    <3>4. CASE d \notin docs
      BY <1>3, <3>2, <3>4 DEF DeleteTask, TypeOK, TablesInv, TablesAgree, Exists
    <3> QED BY <3>3, <3>4
  <2>2. docs' \subseteq fts' /\ refresh' = refresh /\ refresh = Nothing
    BY <1>3 DEF DeleteTask, TablesInv, TablesAgree, Unlocked
  <2> QED BY <2>1, <2>2 DEF TablesInv, TablesAgree
<1>4. ASSUME NEW s \in Searchers, BeginSearch(s) PROVE TablesInv'
  <2>1. refresh'.fts = refresh'.docs
    BY <1>4 DEF BeginSearch, TablesInv, TablesAgree
  <2> QED BY <1>4, <2>1 DEF BeginSearch, TablesInv, TablesAgree, Exists, base, index
<1>5. ASSUME refresh # Nothing, refresh'.docs = refresh.docs, refresh'.fts = refresh.fts,
             UNCHANGED <<task, docs, fts>>
      PROVE  TablesInv'
  BY <1>5 DEF TablesInv, TablesAgree, Exists
<1>6. ASSUME NEW i \in Items, Measure(i) PROVE TablesInv'
  <2>1. refresh # Nothing /\ refresh \in Refreshes
    BY <1>6 DEF TypeOK, Measure, Unlocked
  <2>2. refresh'.docs = refresh.docs /\ refresh'.fts = refresh.fts
    BY <1>6, <2>1 DEF Measure, Refreshes
  <2> QED BY <1>5, <1>6, <2>1, <2>2 DEF Measure, base, index
<1>7. ASSUME ReadTranscript PROVE TablesInv'
  <2>1. refresh # Nothing /\ refresh \in Refreshes
    BY <1>7 DEF TypeOK, ReadTranscript, Unlocked
  <2>2. refresh'.docs = refresh.docs /\ refresh'.fts = refresh.fts
    BY <1>7, <2>1 DEF ReadTranscript, Refreshes
  <2> QED BY <1>5, <1>7, <2>1, <2>2 DEF ReadTranscript, base, index
<1>8. ASSUME IndexItem PROVE TablesInv'
  <2>1. refresh # Nothing /\ refresh \in Refreshes /\ refresh.fts = refresh.docs
    BY <1>8 DEF TypeOK, IndexItem, Unlocked, TablesInv
  <2>2. refresh'.fts = refresh'.docs
    BY <1>8, <2>1 DEF IndexItem, Refreshes, RowsKept
  <2> QED BY <1>8, <2>2 DEF IndexItem, TablesInv, TablesAgree, Exists, base, index
<1>9. ASSUME CommitRefresh PROVE TablesInv'
  BY <1>9 DEF CommitRefresh, TablesInv, TablesAgree, Unlocked
<1>10. ASSUME RefreshFails PROVE TablesInv'
  BY <1>10 DEF RefreshFails, TablesInv, TablesAgree, Exists, base, index
<1>11. ASSUME NEW i \in Items, RowChanges(i) PROVE TablesInv'
  BY <1>1, <1>11 DEF RowChanges, index
<1>12. ASSUME NEW i \in Items, NEW p \in Files, FilePublished(i, p) PROVE TablesInv'
  BY <1>1, <1>12 DEF FilePublished, index
<1>13. ASSUME NEW i \in Items, NEW op \in {"create", "update", "delete"}, BeginEdit(i, op)
       PROVE  TablesInv'
  BY <1>1, <1>13 DEF BeginEdit, base, index
<1>14. ASSUME CommitEdit PROVE TablesInv'
  BY <1>1, <1>14 DEF CommitEdit
<1>15. ASSUME NEW T \in SUBSET Tasks, NEW C \in SUBSET Collections, NEW op \in {"add", "remove"},
              Organize(T, C, op)
       PROVE  TablesInv'
  BY <1>1, <1>15 DEF Organize, index
<1>16. ASSUME NEW c \in Collections, DeleteCollection(c) \/ CreateCollection(c) PROVE TablesInv'
  BY <1>1, <1>16 DEF DeleteCollection, CreateCollection, index
<1>17. ASSUME NEW s \in Searchers, NEW f \in {Nothing, Unfiled} \cup Collections,
              Candidates(s, f) \/ Answer(s)
       PROVE  TablesInv'
  BY <1>1, <1>17 DEF Candidates, Answer, base, index
<1>18. CASE UNCHANGED vars
  BY <1>1, <1>18 DEF vars, base, index
<1> QED BY <1>2, <1>3, <1>4, <1>6, <1>7, <1>8, <1>9, <1>10, <1>11, <1>12, <1>13, <1>14,
           <1>15, <1>16, <1>17, <1>18 DEF Next
-----------------------------------------------------------------------------
(* Times and what they say of a fingerprint. *)

LEMMA TimeStep == TypeOK /\ TimeInv /\ [Next]_vars => TimeInv'
<1> SUFFICES ASSUME TypeOK, TimeInv, [Next]_vars PROVE TimeInv'
  OBVIOUS
<1>0. clock \in Nat /\ \A j \in Items, q \in Parts : content[j][q] \in Nat
  BY ConstantsOK DEF TypeOK
<1>1. ASSUME NEW i \in Items, NEW p \in Parts, Changed(i, p) PROVE TimeInv'
  BY <1>0, <1>1 DEF TimeInv, Changed, Tick, TypeOK
<1>2. ASSUME content' = content, clock' \in {clock, clock + 1} PROVE TimeInv'
  BY <1>0, <1>2 DEF TimeInv
<1>3. ASSUME NEW t \in Tasks, DeleteTask(t) PROVE TimeInv'
  BY <1>0, <1>3 DEF DeleteTask, TimeInv
<1>4. ASSUME CommitEdit PROVE TimeInv'
  <2>1. edit.item \in Items
    BY <1>4 DEF CommitEdit, TypeOK, Edits
  <2>2. CASE Exists(edit.item)
    <3>1. clock' = clock + 1
      BY <1>4, <2>2 DEF CommitEdit, Tick
    <3>2. PICK v \in {0, clock + 1} :
            content' = [content EXCEPT ![edit.item]["excerpt"] = v]
      BY <1>4, <2>2 DEF CommitEdit
    <3> QED BY <1>0, <2>1, <3>1, <3>2 DEF TimeInv, TypeOK
  <2>3. CASE ~Exists(edit.item)
    BY <1>2, <1>4, <2>3 DEF CommitEdit
  <2> QED BY <2>2, <2>3
<1>5. CASE \E i \in Items : RowChanges(i) \/ \E p \in Files : FilePublished(i, p)
  BY <1>1, <1>5, PartNames DEF RowChanges, FilePublished
<1>6. CASE UNCHANGED vars
  BY <1>2, <1>6 DEF vars, base
<1>7. CASE \E t \in Tasks : HideTask(t)
  BY <1>2, <1>7 DEF HideTask, Tick
<1>8. CASE \E c \in Collections : DeleteCollection(c) \/ CreateCollection(c)
  BY <1>2, <1>8 DEF DeleteCollection, CreateCollection, Tick
<1>9. CASE \E T \in SUBSET Tasks, C \in SUBSET Collections, op \in {"add", "remove"} :
             Organize(T, C, op)
  BY <1>2, <1>9 DEF Organize, Tick
<1>10. ASSUME UNCHANGED base PROVE TimeInv'
  BY <1>2, <1>10 DEF base
<1>11. CASE \E i \in Items : \/ Measure(i)
                            \/ \E op \in {"create", "update", "delete"} : BeginEdit(i, op)
  BY <1>10, <1>11 DEF Measure, BeginEdit
<1>12. CASE ReadTranscript \/ IndexItem \/ CommitRefresh \/ RefreshFails
  BY <1>10, <1>12 DEF ReadTranscript, IndexItem, CommitRefresh, RefreshFails
<1>13. CASE \E s \in Searchers :
              \/ \E f \in {Nothing, Unfiled} \cup Collections : Candidates(s, f)
              \/ BeginSearch(s) \/ Answer(s)
  BY <1>10, <1>13 DEF Candidates, BeginSearch, Answer
<1> QED BY <1>3, <1>4, <1>5, <1>6, <1>7, <1>8, <1>9, <1>11, <1>12, <1>13 DEF Next

(* Published files outgrow a fingerprint for good. *)
LEMMA GrownStays ==
  ASSUME TypeOK, TimeInv, NEW j \in Items, NEW q \in Parts, Changed(j, q),
         NEW i \in Items, NEW f \in SUBSET Document, Grown(i, f)
  PROVE  Grown(i, f)'
<1>1. PICK p \in Files : content[i][p] # 0 /\ \A d \in f : d[2] = p => d[3] < content[i][p]
  BY DEF Grown
<1>2. content[i][p] \in Nat /\ content[i][p] <= clock /\ clock \in Nat
  BY PartNames, ConstantsOK DEF TypeOK, TimeInv
<1>3. content'[i][p] \in {content[i][p], clock + 1}
  BY PartNames DEF Changed, TypeOK
<1>4. \A d \in f : d[3] \in Nat
  BY ConstantsOK DEF Document
<1>5. content'[i][p] # 0 /\ \A d \in f : d[2] = p => d[3] < content'[i][p]
  BY <1>1, <1>2, <1>3, <1>4
<1> QED BY <1>5 DEF Grown

(* A file that is published outgrows every fingerprint taken before. *)
LEMMA PublishedOutgrows ==
  ASSUME TypeOK, TimeInv, NEW i \in Items, NEW p \in Files, Changed(i, p),
         NEW f, f = Contents(i)
  PROVE  Grown(i, f)'
<1>1. content'[i][p] = clock + 1 /\ clock \in Nat
  BY PartNames, ConstantsOK DEF Changed, TypeOK
<1>2. ASSUME NEW d \in f, d[2] = p PROVE d[3] < clock + 1
  <2>1. d[3] = content[i][p]
    BY <1>2, ContentsType
  <2>2. content[i][p] \in Nat /\ content[i][p] <= clock
    BY PartNames, ConstantsOK DEF TypeOK, TimeInv
  <2> QED BY <1>1, <2>1, <2>2
<1> QED BY <1>1, <1>2 DEF Grown
(* What the refresh knows stays true when a file is published meanwhile. *)
LEMMA ReadingStays ==
  ASSUME TypeOK, TimeInv, refresh \in Refreshes, Reading, UNCHANGED refresh,
         NEW j \in Items, NEW p \in Files, Changed(j, p)
  PROVE  Reading'
<1> SUFFICES ASSUME refresh.item \in Items PROVE Reading'
  BY DEF Reading
<1> DEFINE i == refresh.item
           f == refresh.measured
<1>1. f \in SUBSET Document
  BY DEF Refreshes
<1>2. Grown(i, f) => Grown(i, f)'
  BY <1>1, GrownStays, PartNames
<1>3. f = Contents(i) => (f = Contents(i))' \/ Grown(i, f)'
  <2>1. CASE i = j
    BY <2>1, PublishedOutgrows
  <2>2. CASE i # j
    <3>1. content'[i] = content[i]
      BY <2>2 DEF Changed, TypeOK
    <3> QED BY <3>1 DEF Contents
  <2> QED BY <2>1, <2>2
<1>4. f' = f /\ i' = i
  OBVIOUS
<1>5. (f = Contents(i))' \/ Grown(i, f)'
  BY <1>2, <1>3 DEF Reading
<1>6. \A R \in refresh.read : Grown(i, f) => Grown(i, f)'
  BY <1>2
<1> QED BY <1>2, <1>4, <1>5 DEF Reading
-----------------------------------------------------------------------------
(* The index entries. *)

LEMMA TruthStep == TypeOK /\ TimeInv /\ TruthInv /\ TablesInv /\ [Next]_vars => TruthInv'
<1> SUFFICES ASSUME TypeOK, TimeInv, TruthInv, TablesInv, [Next]_vars PROVE TruthInv'
  OBVIOUS
<1>1. ASSUME UNCHANGED <<content, index, refresh>> PROVE TruthInv'
  <2>1. AllGood(docs, state, unread)' /\ (refresh # Nothing =>
          AllGood(refresh.docs, refresh.state, refresh.unread)' /\ Reading')
    BY <1>1 DEF TruthInv, AllGood, Good, Grown, OfItem, Reading, Contents, index
  <2> QED BY <1>1, <2>1 DEF TruthInv
<1>2. ASSUME NEW i \in Items, RowChanges(i) PROVE TruthInv'
  <2>1. AllGood(docs, state, unread)'
    <3> SUFFICES ASSUME NEW j \in Items, NEW f \in state[j]
                 PROVE  Good(j, OfItem(docs, j), f, unread)'
      BY <1>2 DEF AllGood, RowChanges, index
    <3> DEFINE D == OfItem(docs, j)
    <3>1. Good(j, D, f, unread) /\ f \in SUBSET Document
      BY DEF TruthInv, AllGood, TypeOK, States
    <3>2. Changed(i, "row") /\ UNCHANGED <<docs, unread>>
      BY <1>2 DEF RowChanges, index
    <3>3. Grown(j, f) => Grown(j, f)'
      BY <3>1, <3>2, GrownStays, PartNames
    <3> QED BY <3>1, <3>2, <3>3 DEF Good, OfItem
  <2>2. refresh' = Nothing
    BY <1>2 DEF RowChanges, Unlocked
  <2> QED BY <2>1, <2>2 DEF TruthInv
<1>3. ASSUME NEW i \in Items, NEW p \in Files, FilePublished(i, p) PROVE TruthInv'
  <2>0. Changed(i, p) /\ UNCHANGED <<index, refresh>> /\ p \in Parts
    BY <1>3, PartNames DEF FilePublished
  <2>1. AllGood(docs, state, unread)'
    <3> SUFFICES ASSUME NEW j \in Items, NEW f \in state[j]
                 PROVE  Good(j, OfItem(docs, j), f, unread)'
      BY <2>0 DEF AllGood, index
    <3>1. Good(j, OfItem(docs, j), f, unread) /\ f \in SUBSET Document
      BY DEF TruthInv, AllGood, TypeOK, States
    <3>3. Grown(j, f) => Grown(j, f)'
      BY <2>0, <3>1, GrownStays
    <3> QED BY <2>0, <3>1, <3>3 DEF Good, OfItem, index
  <2>2. ASSUME refresh # Nothing
        PROVE  AllGood(refresh.docs, refresh.state, refresh.unread)' /\ Reading'
    <3>1. refresh \in Refreshes /\ AllGood(refresh.docs, refresh.state, refresh.unread) /\ Reading
      BY <2>2 DEF TypeOK, TruthInv
    <3>2. Reading'
      BY <2>0, <3>1, ReadingStays
    <3>3. refresh.state \in States
      BY <3>1 DEF Refreshes
    <3>4. AllGood(refresh.docs, refresh.state, refresh.unread)'
      <4> SUFFICES ASSUME NEW j \in Items, NEW f \in refresh.state[j]
                   PROVE  Good(j, OfItem(refresh.docs, j), f, refresh.unread)'
        BY <2>0 DEF AllGood
      <4>1. Good(j, OfItem(refresh.docs, j), f, refresh.unread) /\ f \in SUBSET Document
        BY <3>1, <3>3 DEF AllGood, States
      <4>2. Grown(j, f) => Grown(j, f)'
        BY <2>0, <4>1, GrownStays
      <4> QED BY <2>0, <4>1, <4>2 DEF Good, OfItem
    <3> QED BY <3>2, <3>4
  <2> QED BY <2>0, <2>1, <2>2 DEF TruthInv
<1>4. ASSUME NEW t \in Tasks, DeleteTask(t) PROVE TruthInv'
  <2>1. refresh' = Nothing
    BY <1>4 DEF DeleteTask, Unlocked
  <2>2. ASSUME NEW i \in Items, NEW f \in state'[i]
        PROVE  Good(i, OfItem(docs, i), f, unread)'
    <3>1. i \notin ItemsOf({t}) /\ f \in state[i]
      BY <1>4, <2>2 DEF DeleteTask
    <3>2. Good(i, OfItem(docs, i), f, unread)
      BY <3>1 DEF TruthInv, AllGood
    <3>3. content'[i] = content[i] /\ OfItem(docs, i)' = OfItem(docs, i)
          /\ (i \in unread => i \in unread')
      BY <1>4, <3>1 DEF DeleteTask, OfItem
    <3> QED BY <3>2, <3>3 DEF Good, Grown
  <2> QED BY <2>1, <2>2 DEF TruthInv, AllGood
<1>5. ASSUME CommitEdit PROVE TruthInv'
  <2>1. refresh' = Nothing
    BY <1>5 DEF CommitEdit, Unlocked
  <2>2. edit.item \in Items
    BY <1>5 DEF CommitEdit, TypeOK, Edits
  <2>3. ASSUME NEW i \in Items, NEW f \in state'[i]
        PROVE  Good(i, OfItem(docs, i), f, unread)'
    <3>1. f \in state[i]
      BY <1>5, <2>2, <2>3 DEF CommitEdit, TypeOK, States
    <3>2. Good(i, OfItem(docs, i), f, unread)
      BY <3>1 DEF TruthInv, AllGood
    <3>3. \A p \in Files : content'[i][p] = content[i][p]
      BY <1>5, <2>2, PartNames DEF CommitEdit, TypeOK
    <3>4. UNCHANGED <<docs, unread>>
      BY <1>5 DEF CommitEdit
    <3> QED BY <3>2, <3>3, <3>4 DEF Good, Grown, OfItem
  <2> QED BY <2>1, <2>3 DEF TruthInv, AllGood
<1>6. ASSUME NEW s \in Searchers, BeginSearch(s) PROVE TruthInv'
  <2>1. /\ refresh'.docs = docs /\ refresh'.state = state /\ refresh'.unread = unread
        /\ refresh'.item = Nothing /\ refresh'.read = {}
        /\ UNCHANGED <<content, docs, state, unread>>
    BY <1>6 DEF BeginSearch, base, index
  <2>2. AllGood(docs, state, unread)
    BY DEF TruthInv
  <2>3. AllGood(docs, state, unread)' /\ AllGood(refresh.docs, refresh.state, refresh.unread)'
    BY <2>1, <2>2 DEF AllGood, Good, Grown, OfItem
  <2>4. Reading'
    BY <2>1, ConstantsOK DEF Reading
  <2> QED BY <2>3, <2>4 DEF TruthInv
<1>7. ASSUME refresh # Nothing, UNCHANGED <<content, index>>,
             AllGood(refresh'.docs, refresh'.state, refresh'.unread), Reading'
      PROVE  TruthInv'
  <2>1. AllGood(docs, state, unread)'
    BY <1>7 DEF TruthInv, AllGood, Good, Grown, OfItem, index
  <2>2. AllGood(refresh.docs, refresh.state, refresh.unread)'
    BY <1>7 DEF AllGood, Good, Grown, OfItem
  <2> QED BY <1>7, <2>1, <2>2 DEF TruthInv
<1>8. ASSUME NEW i \in Items, Measure(i) PROVE TruthInv'
  <2>1. /\ refresh # Nothing /\ refresh \in Refreshes
        /\ AllGood(refresh.docs, refresh.state, refresh.unread)
    BY <1>8 DEF Measure, Unlocked, TypeOK, TruthInv
  <2>2. UNCHANGED <<content, index>>
    BY <1>8 DEF Measure, base
  <2>3. /\ refresh'.docs = refresh.docs /\ refresh'.state = refresh.state
        /\ refresh'.unread = refresh.unread /\ refresh'.read = refresh.read
    BY <1>8, <2>1 DEF Measure, Refreshes
  <2>4. Reading'
    <3>1. refresh.item = Nothing /\ refresh.read = {}
      BY <1>8, <2>1, ConstantsOK DEF Measure, TruthInv, Reading
    <3>2. CASE refresh' = [refresh EXCEPT !.todo = @ \ {i}]
      BY <2>1, <3>1, <3>2, ConstantsOK DEF Refreshes, Reading
    <3>3. CASE refresh' = [refresh EXCEPT !.item = i, !.todo = @ \ {i},
                                          !.measured = Fingerprint(i)]
      <4>1. refresh'.item = i /\ refresh'.measured = Contents(i) /\ refresh'.read = {}
        BY <2>1, <3>1, <3>3 DEF Refreshes, Fingerprint
      <4>2. Contents(i)' = Contents(i)
        BY <2>2 DEF Contents
      <4> QED BY <4>1, <4>2 DEF Reading
    <3> QED BY <1>8, <3>2, <3>3 DEF Measure
  <2> QED BY <1>7, <2>1, <2>2, <2>3, <2>4
<1>9. ASSUME ReadTranscript PROVE TruthInv'
  <2> DEFINE i == refresh.item
             there == {d \in Contents(i) : d[2] \in {"row", "transcript"}}
             some == {d \in there : d[2] = "row"}
             gap == \E d \in there : d[2] = "transcript"
  <2>1. /\ refresh # Nothing /\ refresh \in Refreshes /\ i \in Items /\ Reading
        /\ AllGood(refresh.docs, refresh.state, refresh.unread)
    BY <1>9 DEF ReadTranscript, Unlocked, TypeOK, TruthInv, Refreshes
  <2>2. UNCHANGED <<content, index>>
    BY <1>9 DEF ReadTranscript, base
  <2>3. \/ refresh' = [refresh EXCEPT !.read = {there}, !.gap = FALSE]
        \/ refresh' = [refresh EXCEPT !.read = {some}, !.gap = gap]
    BY <1>9 DEF ReadTranscript
  <2>4. /\ refresh'.docs = refresh.docs /\ refresh'.state = refresh.state
        /\ refresh'.unread = refresh.unread /\ refresh'.item = i
        /\ refresh'.measured = refresh.measured
        /\ \/ refresh'.read = {there}
           \/ refresh'.read = {some} /\ refresh'.gap = gap
    <3> HIDE DEF there, some, gap
    <3> QED BY <2>1, <2>3 DEF Refreshes
  <2>5. (refresh.measured = Contents(i) \/ Grown(i, refresh.measured))
    BY <2>1 DEF Reading
  <2>8. (\A d \in there : d[1] = i) /\ (\A d \in some : d[1] = i)
    BY <2>1, ContentsType
  <2>6. CASE Grown(i, refresh.measured)
    <3>1. Grown(refresh.item, refresh.measured)'
      BY <2>2, <2>4, <2>6 DEF Grown
    <3>2. \A R, S \in refresh'.read : R = S
      <4> HIDE DEF there, some, gap
      <4> QED BY <2>4
    <3>4. \A R \in refresh'.read : \A d \in R : d[1] = i
      <4> HIDE DEF there, some, gap
      <4> QED BY <2>4, <2>8
    <3>3. Reading'
      BY <2>1, <2>4, <3>1, <3>2, <3>4 DEF Reading
    <3> QED BY <1>7, <2>1, <2>2, <2>4, <3>3
  <2>7. CASE refresh.measured = Contents(i)
    <3>1. there = {d \in refresh.measured : d[2] \in {"row", "transcript"}}
      BY <2>7
    <3>2. some = {d \in refresh.measured : d[2] = "row"}
      BY <2>7
    <3>3. ~gap => some = there
      OBVIOUS
    <3>4. \A R \in refresh'.read :
            \/ R = {d \in refresh.measured : d[2] \in {"row", "transcript"}}
            \/ refresh'.gap /\ R = {d \in refresh.measured : d[2] = "row"}
      <4> HIDE DEF there, some, gap
      <4> QED BY <2>4, <3>1, <3>2, <3>3
    <3>5. \A R, S \in refresh'.read : R = S
      <4> HIDE DEF there, some, gap
      <4> QED BY <2>4
    <3>6. \A R \in refresh'.read : \A d \in R : d[1] = i
      <4> HIDE DEF there, some, gap
      <4> QED BY <2>4, <2>8
    <3>7. refresh.measured' = Contents(refresh.item)'
      BY <2>2, <2>4, <2>7 DEF Contents
    <3>8. Reading'
      BY <2>1, <2>4, <3>4, <3>5, <3>6, <3>7 DEF Reading
    <3> QED BY <1>7, <2>1, <2>2, <2>4, <3>8
  <2> QED BY <2>5, <2>6, <2>7
<1>10. ASSUME IndexItem PROVE TruthInv'
  <2> DEFINE i == refresh.item
             f == refresh.measured
             rest == {d \in Contents(i) : d[2] \in {"note", "excerpt"}}
             D == (UNION refresh.read) \cup rest
             u == IF refresh.gap THEN refresh.unread \cup {i} ELSE refresh.unread \ {i}
  <2>1. /\ refresh # Nothing /\ refresh \in Refreshes /\ i \in Items /\ Reading
        /\ AllGood(refresh.docs, refresh.state, refresh.unread)
    BY <1>10 DEF IndexItem, Unlocked, TypeOK, TruthInv, Refreshes
  <2>2. UNCHANGED <<content, index>>
    BY <1>10 DEF IndexItem, base
  <2>3. /\ refresh'.docs = (refresh.docs \ OfItem(refresh.docs, i)) \cup D
        /\ refresh'.state = [refresh.state EXCEPT ![i] = {f}]
        /\ refresh'.unread = u
        /\ refresh'.item = Nothing /\ refresh'.read = {}
    <3> HIDE DEF D, u
    <3>1. refresh' = [refresh EXCEPT
          !.docs = (refresh.docs \ OfItem(refresh.docs, i)) \cup D,
          !.fts = RowsKept(i) \cup D, !.state = [refresh.state EXCEPT ![i] = {f}],
          !.unread = u, !.item = Nothing, !.measured = {}, !.read = {}, !.gap = FALSE]
      BY <1>10 DEF IndexItem, Recorded, D, u
    <3> QED BY <2>1, <3>1 DEF Refreshes
  <2>4. PICK R \in refresh.read : TRUE
    BY <1>10 DEF IndexItem
  <2>5. UNION refresh.read = R
    BY <2>1, <2>4 DEF Reading
  <2>6. \A d \in D : d[1] = i
    <3>1. \A d \in rest : d[1] = i
      BY <2>1, ContentsType
    <3>2. \A d \in R : d[1] = i
      BY <2>1, <2>4 DEF Reading
    <3> HIDE DEF rest
    <3> QED BY <2>5, <3>1, <3>2
  <2>7. Good(i, D, f, u)
    <3>1. CASE Grown(i, f)
      BY <3>1 DEF Good
    <3>2. CASE ~Grown(i, f)
      <4>1. f = Contents(i)
        BY <2>1, <3>2 DEF Reading
      <4>2. \A d \in f : d[2] \in {"transcript", "note", "row", "excerpt"}
        BY <2>1, <4>1, ContentsType DEF Parts, Files
      <4>3. rest = {d \in f : d[2] \in {"note", "excerpt"}}
        BY <4>1
      <4>4. CASE R = {d \in f : d[2] \in {"row", "transcript"}}
        <5>1. D = f
          <6> HIDE DEF rest, f
          <6> QED BY <2>5, <4>2, <4>3, <4>4
        <5> QED BY <5>1 DEF Good
      <4>5. CASE refresh.gap /\ R = {d \in f : d[2] = "row"}
        <5>1. D = {d \in f : d[2] # "transcript"}
          <6> HIDE DEF rest, f
          <6> QED BY <2>5, <4>2, <4>3, <4>5
        <5>2. i \in u
          BY <4>5
        <5> QED BY <5>1, <5>2 DEF Good
      <4> QED BY <2>1, <2>4, <3>2, <4>4, <4>5 DEF Reading
    <3> QED BY <3>1, <3>2
  <2>8. ASSUME NEW j \in Items, NEW g \in refresh'.state[j]
        PROVE  Good(j, OfItem(refresh'.docs, j), g, u)
    <3>1. CASE j = i
      <4>1. g = f
        BY <2>1, <2>3, <2>8, <3>1 DEF Refreshes, States
      <4>2. OfItem(refresh'.docs, i) = D
        <5> HIDE DEF D
        <5> QED BY <2>3, <2>6 DEF OfItem
      <4> HIDE DEF D, u
      <4> QED BY <2>7, <3>1, <4>1, <4>2
    <3>2. CASE j # i
      <4>1. g \in refresh.state[j]
        BY <2>1, <2>3, <2>8, <3>2 DEF Refreshes, States
      <4>2. OfItem(refresh'.docs, j) = OfItem(refresh.docs, j)
        <5> HIDE DEF D
        <5> QED BY <2>3, <2>6, <3>2 DEF OfItem
      <4>3. j \in refresh.unread => j \in u
        BY <3>2
      <4>4. Good(j, OfItem(refresh.docs, j), g, refresh.unread)
        BY <2>1, <4>1 DEF AllGood
      <4> HIDE DEF u
      <4> QED BY <4>2, <4>3, <4>4 DEF Good
    <3> QED BY <3>1, <3>2
  <2>9. AllGood(refresh'.docs, refresh'.state, refresh'.unread)
    <3> HIDE DEF u
    <3> QED BY <2>3, <2>8 DEF AllGood
  <2>10. Reading'
    BY <2>3, ConstantsOK DEF Reading
  <2> QED BY <1>7, <2>1, <2>2, <2>9, <2>10
<1>11. ASSUME CommitRefresh PROVE TruthInv'
  <2>1. AllGood(refresh.docs, refresh.state, refresh.unread) /\ content' = content
    BY <1>11 DEF CommitRefresh, Unlocked, TruthInv, base
  <2>2. /\ docs' = refresh.docs /\ state' = refresh.state /\ unread' = refresh.unread
        /\ refresh' = Nothing
    BY <1>11 DEF CommitRefresh
  <2> QED BY <2>1, <2>2 DEF TruthInv, AllGood, Good, Grown, OfItem
<1>12. ASSUME refresh' = Nothing, UNCHANGED <<content, index>> PROVE TruthInv'
  BY <1>12 DEF TruthInv, AllGood, Good, Grown, OfItem, index
<1>13. ASSUME RefreshFails PROVE TruthInv'
  BY <1>12, <1>13 DEF RefreshFails, base
<1>14. ASSUME NEW t \in Tasks, HideTask(t) PROVE TruthInv'
  BY <1>1, <1>14 DEF HideTask
<1>15. ASSUME NEW i \in Items, NEW op \in {"create", "update", "delete"}, BeginEdit(i, op)
       PROVE  TruthInv'
  BY <1>1, <1>15 DEF BeginEdit, base
<1>16. ASSUME NEW T \in SUBSET Tasks, NEW C \in SUBSET Collections, NEW op \in {"add", "remove"},
              Organize(T, C, op)
       PROVE  TruthInv'
  BY <1>1, <1>16 DEF Organize
<1>17. ASSUME NEW c \in Collections, DeleteCollection(c) \/ CreateCollection(c) PROVE TruthInv'
  BY <1>1, <1>17 DEF DeleteCollection, CreateCollection
<1>18. ASSUME NEW s \in Searchers, NEW f \in {Nothing, Unfiled} \cup Collections,
              Candidates(s, f) \/ Answer(s)
       PROVE  TruthInv'
  BY <1>1, <1>18 DEF Candidates, Answer, base
<1>19. CASE UNCHANGED vars
  BY <1>1, <1>19 DEF vars, base
<1> QED BY <1>2, <1>3, <1>4, <1>5, <1>6, <1>8, <1>9, <1>10, <1>11, <1>13, <1>14, <1>15,
           <1>16, <1>17, <1>18, <1>19 DEF Next

-----------------------------------------------------------------------------
(* A change outside a search touches the items it concerns in every search *)
(* under way, and leaves all others as they are.                           *)
LEMMA TouchedOnly ==
  ASSUME TypeOK, SearchInv, UNCHANGED <<search, refresh>>, NEW I \in SUBSET Items,
         \A s \in Searchers : search[s].pc # "idle" => touched'[s] = touched[s] \cup I,
         \A i \in Items \ I : /\ content'[i] = content[i] /\ state'[i] = state[i]
                              /\ task'[TaskOf[i]] = task[TaskOf[i]]
                              /\ \A f : Accepts(f, TaskOf[i])' <=> Accepts(f, TaskOf[i])
  PROVE  SearchInv'
<1>1. ASSUME NEW i \in Items \ I PROVE Contents(i)' = Contents(i) /\ (Seen(i)' <=> Seen(i))
  BY DEF Contents, Seen
<1>2. ASSUME NEW s \in Searchers, search[s].pc # "idle", NEW i \in Untouched(s)'
      PROVE  i \in Untouched(s) /\ i \in Items \ I
  BY <1>2 DEF Untouched
<1>3. ASSUME refresh # Nothing, NEW i \in Untouched(refresh.by)', Seen(i)' PROVE Caught(i)'
  <2>1. refresh.by \in Searchers /\ search[refresh.by].pc = "refresh"
    BY <1>3 DEF TypeOK, Refreshes
  <2>2. i \in Untouched(refresh.by) /\ i \in Items \ I
    <3>1. i \in (Untouched(refresh.by))'
      BY <1>3
    <3> QED BY <2>1, <3>1 DEF Untouched
  <2>3. Caught(i) /\ Contents(i)' = Contents(i)
    BY <1>1, <1>3, <2>2 DEF SearchInv
  <2> QED BY <2>3 DEF Caught
<1>4. ASSUME NEW s \in Searchers, search[s].pc \in {"candidates", "match"},
             NEW i \in Untouched(s)', Seen(i)'
      PROVE  Listed(i)'
  <2>1. i \in Untouched(s) /\ i \in Items \ I
    BY <1>2, <1>4
  <2>2. Listed(i) /\ Contents(i)' = Contents(i) /\ state'[i] = state[i]
    BY <1>1, <1>4, <2>1 DEF SearchInv
  <2> QED BY <2>2 DEF Listed
<1>5. ASSUME NEW s \in Searchers, search[s].pc = "match", NEW i \in Untouched(s)'
      PROVE  TaskOf[i] \in search[s].tasks <=>
               Seen(i)' /\ Accepts(search[s].filter, TaskOf[i])'
  <2>1. i \in Untouched(s) /\ i \in Items \ I
    BY <1>2, <1>5
  <2>2. Seen(i)' <=> Seen(i)
    BY <1>1, <2>1
  <2>3. Accepts(search[s].filter, TaskOf[i])' <=> Accepts(search[s].filter, TaskOf[i])
    BY <2>1
  <2> QED BY <1>5, <2>1, <2>2, <2>3 DEF SearchInv
<1> QED BY <1>3, <1>4, <1>5 DEF SearchInv

LEMMA TouchTouches ==
  ASSUME NEW I \in SUBSET Items, Touch(I)
  PROVE  \A s \in Searchers : search[s].pc # "idle" => touched'[s] = touched[s] \cup I
BY DEF Touch

LEMMA OtherTask ==
  ASSUME NEW T \in SUBSET Tasks, NEW i \in Items \ ItemsOf(T)
  PROVE  TaskOf[i] \in Tasks \ T
BY ConstantsOK DEF ItemsOf

(* The changes made by the rest of the system. *)
LEMMA SearchesSurviveChanges ==
  ASSUME TypeOK, SearchInv, UNCHANGED refresh,
         \/ \E i \in Items : RowChanges(i) \/ \E p \in Files : FilePublished(i, p)
         \/ \E t \in Tasks : HideTask(t) \/ DeleteTask(t)
         \/ CommitEdit
         \/ \E T \in SUBSET Tasks, C \in SUBSET Collections, op \in {"add", "remove"} :
              Organize(T, C, op)
         \/ \E c \in Collections : DeleteCollection(c) \/ CreateCollection(c)
  PROVE  SearchInv'
<1>1. ASSUME NEW i \in Items, NEW p \in Parts, Changed(i, p),
             UNCHANGED <<task, shelves, state, search>>
      PROVE  SearchInv'
  <2>1. \A j \in Items \ {i} : content'[j] = content[j]
    BY <1>1 DEF Changed, TypeOK
  <2>2. \A s \in Searchers : search[s].pc # "idle" => touched'[s] = touched[s] \cup {i}
    BY <1>1, TouchTouches DEF Changed
  <2>3. \A f, t : Accepts(f, t)' <=> Accepts(f, t)
    BY <1>1 DEF Accepts, shelves
  <2> QED BY <1>1, <2>1, <2>2, <2>3, TouchedOnly
<1>2. ASSUME NEW t \in Tasks, HideTask(t) PROVE SearchInv'
  <2> DEFINE I == ItemsOf({t})
  <2>1. I \in SUBSET Items /\ \A s \in Searchers : search[s].pc # "idle" => touched'[s] = touched[s] \cup I
    BY <1>2, TouchTouches DEF HideTask, ItemsOf
  <2>2. \A j \in Items \ I : task'[TaskOf[j]] = task[TaskOf[j]]
    BY <1>2, OtherTask DEF HideTask, TypeOK
  <2>3. \A f, u : Accepts(f, u)' <=> Accepts(f, u)
    BY <1>2 DEF Accepts, HideTask, shelves
  <2> HIDE DEF I
  <2> QED BY <1>2, <2>1, <2>2, <2>3, TouchedOnly DEF HideTask, index
<1>3. ASSUME NEW t \in Tasks, DeleteTask(t) PROVE SearchInv'
  <2> DEFINE I == ItemsOf({t})
  <2>1. I \in SUBSET Items /\ \A s \in Searchers : search[s].pc # "idle" => touched'[s] = touched[s] \cup I
    BY <1>3, TouchTouches DEF DeleteTask, ItemsOf
  <2>2. \A j \in Items \ I : /\ content'[j] = content[j] /\ state'[j] = state[j]
                             /\ task'[TaskOf[j]] = task[TaskOf[j]]
    BY <1>3, OtherTask DEF DeleteTask, TypeOK
  <2>3. \A j \in Items \ I : \A f : Accepts(f, TaskOf[j])' <=> Accepts(f, TaskOf[j])
    <3> SUFFICES ASSUME NEW j \in Items \ I, NEW f
                 PROVE  Accepts(f, TaskOf[j])' <=> Accepts(f, TaskOf[j])
      OBVIOUS
    <3>1. TaskOf[j] # t
      BY OtherTask
    <3> QED BY <1>3, <3>1 DEF Accepts, DeleteTask
  <2> HIDE DEF I
  <2> QED BY <1>3, <2>1, <2>2, <2>3, TouchedOnly DEF DeleteTask
<1>4. ASSUME CommitEdit PROVE SearchInv'
  <2> DEFINE i == edit.item
  <2>1. i \in Items /\ \A f, t : Accepts(f, t)' <=> Accepts(f, t)
    BY <1>4 DEF CommitEdit, TypeOK, Edits, Accepts, shelves
  <2>2. CASE Exists(i)
    <3>1. \A s \in Searchers : search[s].pc # "idle" => touched'[s] = touched[s] \cup {i}
      BY <1>4, <2>1, <2>2, TouchTouches DEF CommitEdit
    <3>2. \A j \in Items \ {i} : content'[j] = content[j] /\ state'[j] = state[j]
      BY <1>4, <2>2 DEF CommitEdit, TypeOK, States
    <3>3. UNCHANGED <<task, search>>
      BY <1>4 DEF CommitEdit
    <3> HIDE DEF i
    <3> QED BY <2>1, <3>1, <3>2, <3>3, TouchedOnly
  <2>3. CASE ~Exists(i)
    <3>1. UNCHANGED <<task, search, content, state, touched>>
      BY <1>4, <2>3 DEF CommitEdit
    <3>2. {} \in SUBSET Items /\ \A s \in Searchers : touched'[s] = touched[s] \cup {}
      BY <3>1
    <3> QED BY <2>1, <3>1, <3>2, TouchedOnly
  <2> QED BY <2>2, <2>3
<1>5. ASSUME NEW T \in SUBSET Tasks, NEW C \in SUBSET Collections, NEW op \in {"add", "remove"},
             Organize(T, C, op)
      PROVE  SearchInv'
  <2> DEFINE I == ItemsOf(T)
  <2>1. I \in SUBSET Items /\ \A s \in Searchers : search[s].pc # "idle" => touched'[s] = touched[s] \cup I
    BY <1>5, TouchTouches DEF Organize, ItemsOf
  <2>2. \A j \in Items \ I : \A f : Accepts(f, TaskOf[j])' <=> Accepts(f, TaskOf[j])
    <3> SUFFICES ASSUME NEW j \in Items \ I, NEW f
                 PROVE  Accepts(f, TaskOf[j])' <=> Accepts(f, TaskOf[j])
      OBVIOUS
    <3>1. TaskOf[j] \notin T
      BY OtherTask
    <3>2. \A p : p[2] = TaskOf[j] => p \notin C \X T
      BY <3>1
    <3>3. \A p : p[2] = TaskOf[j] => (p \in filed' <=> p \in filed)
      BY <1>5, <3>2 DEF Organize
    <3> QED BY <3>3 DEF Accepts
  <2> HIDE DEF I
  <2> QED BY <1>5, <2>1, <2>2, TouchedOnly DEF Organize, index
<1>6. ASSUME NEW c \in Collections, DeleteCollection(c) PROVE SearchInv'
  <2> DEFINE T == {f[2] : f \in {g \in filed : g[1] = c}}
             I == ItemsOf(T)
  <2>1. I \in SUBSET Items /\ \A s \in Searchers : search[s].pc # "idle" => touched'[s] = touched[s] \cup I
    BY <1>6, TouchTouches DEF DeleteCollection, ItemsOf
  <2>2. \A j \in Items \ I : \A f : Accepts(f, TaskOf[j])' <=> Accepts(f, TaskOf[j])
    <3> SUFFICES ASSUME NEW j \in Items \ I, NEW f
                 PROVE  Accepts(f, TaskOf[j])' <=> Accepts(f, TaskOf[j])
      OBVIOUS
    <3>1. TaskOf[j] \notin T
      BY DEF ItemsOf
    <3>2. \A p \in filed : p[2] = TaskOf[j] => p[1] # c
      BY <3>1
    <3>3. \A p : p[2] = TaskOf[j] => (p \in filed' <=> p \in filed)
      BY <1>6, <3>2 DEF DeleteCollection
    <3> QED BY <3>3 DEF Accepts
  <2> HIDE DEF I
  <2> QED BY <1>6, <2>1, <2>2, TouchedOnly DEF DeleteCollection, index
<1>7. ASSUME NEW c \in Collections, CreateCollection(c) PROVE SearchInv'
  <2>1. {} \in SUBSET Items /\ \A s \in Searchers : touched'[s] = touched[s] \cup {}
    BY <1>7 DEF CreateCollection
  <2>2. \A f, t : Accepts(f, t)' <=> Accepts(f, t)
    BY <1>7 DEF Accepts, CreateCollection
  <2> QED BY <1>7, <2>1, <2>2, TouchedOnly DEF CreateCollection, index
<1>8. ASSUME NEW i \in Items, RowChanges(i) PROVE SearchInv'
  BY <1>1, <1>8, PartNames DEF RowChanges, index
<1>9. ASSUME NEW i \in Items, NEW p \in Files, FilePublished(i, p) PROVE SearchInv'
  BY <1>1, <1>9, PartNames DEF FilePublished, index
<1> QED BY <1>2, <1>3, <1>4, <1>5, <1>6, <1>7, <1>8, <1>9

(* A step of the refresh that changes neither rows nor the index, and      *)
(* loses no item it had caught.                                            *)
LEMMA RefreshGoesOn ==
  ASSUME SearchInv, refresh # Nothing,
         refresh'.by = refresh.by, UNCHANGED <<base, shelves, index, search, touched>>,
         \A i \in Untouched(refresh.by) : Seen(i) /\ Caught(i) => Caught(i)',
         \A i \in Items : Listed(i) => Listed(i)'
  PROVE  SearchInv'
<1>1. ASSUME NEW i \in Items
      PROVE  /\ Contents(i)' = Contents(i) /\ (Seen(i)' <=> Seen(i))
             /\ \A f : Accepts(f, TaskOf[i])' <=> Accepts(f, TaskOf[i])
  BY DEF Contents, Seen, Accepts, base, shelves
<1>2. \A s : Untouched(s)' = Untouched(s)
  BY DEF Untouched
<1>3. \A i \in Untouched(refresh.by)' : Seen(i)' => Caught(i)'
  BY <1>1 DEF SearchInv, Untouched
<1>4. \A s \in Searchers : search[s].pc \in {"candidates", "match"} =>
        \A i \in Untouched(s)' : Seen(i)' => Listed(i)'
  BY <1>1, <1>2 DEF SearchInv, Untouched
<1>5. \A s \in Searchers : search[s].pc = "match" =>
        \A i \in Untouched(s)' :
          TaskOf[i] \in search[s].tasks <=>
            Seen(i)' /\ Accepts(search[s].filter, TaskOf[i])'
  BY <1>1, <1>2 DEF SearchInv, Untouched
<1> QED BY <1>3, <1>4, <1>5 DEF SearchInv

LEMMA SearchStep == TypeOK /\ TruthInv /\ SearchInv /\ [Next]_vars => SearchInv'
<1> SUFFICES ASSUME TypeOK, TruthInv, SearchInv, [Next]_vars PROVE SearchInv'
  OBVIOUS
<1>1. CASE \/ \E i \in Items : RowChanges(i) \/ \E p \in Files : FilePublished(i, p)
           \/ \E t \in Tasks : HideTask(t) \/ DeleteTask(t)
           \/ CommitEdit
           \/ \E T \in SUBSET Tasks, C \in SUBSET Collections, op \in {"add", "remove"} :
                Organize(T, C, op)
           \/ \E c \in Collections : DeleteCollection(c) \/ CreateCollection(c)
  <2>1. UNCHANGED refresh
    BY <1>1 DEF RowChanges, FilePublished, HideTask, DeleteTask, CommitEdit, Organize,
                DeleteCollection, CreateCollection
  <2> QED BY <1>1, <2>1, SearchesSurviveChanges
<1>2. ASSUME UNCHANGED <<base, shelves, index, refresh, search, touched>> PROVE SearchInv'
  BY <1>2 DEF SearchInv, Untouched, Seen, Caught, Listed, Contents, Accepts, base, shelves, index
<1>3. ASSUME NEW s \in Searchers, BeginSearch(s) PROVE SearchInv'
  <2>1. \A i \in Items : Contents(i)' = Contents(i) /\ (Seen(i)' <=> Seen(i))
    BY <1>3 DEF BeginSearch, Contents, Seen, base
  <2>2. \A i \in Items : Seen(i) => i \in refresh'.todo
    BY <1>3, ConstantsOK DEF BeginSearch, Seen, ItemsOf, Visible
  <2>3. ASSUME NEW r \in Searchers, search'[r].pc \in {"candidates", "match"}
        PROVE  r # s /\ search'[r] = search[r] /\ touched'[r] = touched[r]
    BY <1>3, <2>3 DEF BeginSearch, TypeOK, Idle
  <2>4. refresh'.state = state /\ refresh'.item = Nothing /\ state' = state
    BY <1>3 DEF BeginSearch, index
  <2>5. \A f, t : Accepts(f, t)' <=> Accepts(f, t)
    BY <1>3 DEF BeginSearch, Accepts, shelves
  <2>6. \A i \in Untouched(refresh.by)' : Seen(i)' => Caught(i)'
    BY <2>1, <2>2 DEF Untouched, Caught
  <2>7. ASSUME NEW r \in Searchers, search'[r].pc \in {"candidates", "match"},
               NEW i \in Untouched(r)', Seen(i)'
        PROVE  Listed(i)'
    <3>1. i \in Untouched(r) /\ i \in Items /\ Seen(i) /\ i # Nothing
      BY <2>1, <2>3, <2>7, ConstantsOK DEF Untouched
    <3>2. Listed(i)
      BY <2>3, <2>7, <3>1 DEF SearchInv
    <3> QED BY <2>1, <2>4, <3>1, <3>2 DEF Listed
  <2>8. ASSUME NEW r \in Searchers, search'[r].pc = "match", NEW i \in Untouched(r)'
        PROVE  TaskOf[i] \in search'[r].tasks <=>
                 Seen(i)' /\ Accepts(search[r].filter, TaskOf[i])'
    <3>1. i \in Untouched(r) /\ i \in Items /\ search'[r] = search[r]
      BY <2>3, <2>8 DEF Untouched
    <3> QED BY <2>1, <2>5, <2>8, <3>1 DEF SearchInv
  <2>9. \A r \in Searchers : search'[r].pc = "match" => search'[r] = search[r]
    BY <2>3
  <2> QED BY <2>6, <2>7, <2>8, <2>9 DEF SearchInv
<1>4. ASSUME NEW i \in Items, Measure(i) PROVE SearchInv'
  <2>1. refresh # Nothing /\ refresh \in Refreshes /\ refresh.item = Nothing
    BY <1>4 DEF Measure, Unlocked, TypeOK
  <2>2. /\ refresh'.by = refresh.by /\ refresh'.state = refresh.state
        /\ refresh'.todo = refresh.todo \ {i}
    BY <1>4, <2>1 DEF Measure, Refreshes
  <2>3. \/ refresh.state[i] = {Contents(i)} /\ refresh'.item = Nothing
        \/ /\ refresh.state[i] # {Contents(i)} /\ refresh'.item = i
           /\ refresh'.measured = Contents(i)
    BY <1>4, <2>1 DEF Measure, Refreshes, Fingerprint
  <2>4. UNCHANGED <<base, shelves, index, search, touched>>
    BY <1>4 DEF Measure
  <2>5. \A j \in Items : Contents(j)' = Contents(j) /\ state'[j] = state[j] /\ j # Nothing
    BY <2>4, ConstantsOK DEF Contents, base, index
  <2>6. \A j \in Items : Caught(j) => Caught(j)'
    BY <2>1, <2>2, <2>3, <2>5 DEF Caught
  <2>7. \A j \in Items : Listed(j) => Listed(j)'
    BY <2>1, <2>2, <2>3, <2>5 DEF Listed
  <2> QED BY <2>1, <2>2, <2>4, <2>6, <2>7, RefreshGoesOn DEF Untouched
<1>5. ASSUME ReadTranscript PROVE SearchInv'
  <2>1. refresh # Nothing /\ refresh \in Refreshes
    BY <1>5 DEF ReadTranscript, Unlocked, TypeOK
  <2>2. PICK r, g : refresh' = [refresh EXCEPT !.read = r, !.gap = g]
    BY <1>5 DEF ReadTranscript
  <2>3. /\ refresh'.by = refresh.by /\ refresh'.state = refresh.state
        /\ refresh'.todo = refresh.todo /\ refresh'.item = refresh.item
        /\ refresh'.measured = refresh.measured
    BY <2>1, <2>2 DEF Refreshes
  <2>4. UNCHANGED <<base, shelves, index, search, touched>>
    BY <1>5 DEF ReadTranscript
  <2>5. \A j \in Items : Contents(j)' = Contents(j) /\ state'[j] = state[j]
    BY <2>4 DEF Contents, base, index
  <2>6. \A j \in Items : Caught(j) => Caught(j)'
    BY <2>3, <2>5 DEF Caught
  <2>7. \A j \in Items : Listed(j) => Listed(j)'
    BY <2>1, <2>3, <2>5 DEF Listed
  <2> QED BY <2>1, <2>3, <2>4, <2>6, <2>7, RefreshGoesOn DEF Untouched
<1>6. ASSUME IndexItem PROVE SearchInv'
  <2> DEFINE i == refresh.item
  <2>1. refresh # Nothing /\ refresh \in Refreshes /\ i \in Items
    BY <1>6 DEF IndexItem, Unlocked, TypeOK, Refreshes
  <2>2. PICK d, f, u :
          refresh' = [refresh EXCEPT !.docs = d, !.fts = f,
                        !.state = [refresh.state EXCEPT ![i] = {refresh.measured}],
                        !.unread = u, !.item = Nothing, !.measured = {}, !.read = {},
                        !.gap = FALSE]
    <3> DEFINE D == (UNION refresh.read)
                      \cup {e \in Contents(i) : e[2] \in {"note", "excerpt"}}
               d == (refresh.docs \ OfItem(refresh.docs, i)) \cup D
               f == RowsKept(i) \cup D
               u == IF refresh.gap THEN refresh.unread \cup {i} ELSE refresh.unread \ {i}
    <3>1. refresh' = [refresh EXCEPT !.docs = d, !.fts = f,
                        !.state = [refresh.state EXCEPT ![i] = {refresh.measured}],
                        !.unread = u, !.item = Nothing, !.measured = {}, !.read = {},
                        !.gap = FALSE]
      BY <1>6 DEF IndexItem, Recorded
    <3> HIDE DEF d, f, u
    <3> QED BY <3>1
  <2>3. /\ refresh'.by = refresh.by /\ refresh'.todo = refresh.todo
        /\ refresh'.state = [refresh.state EXCEPT ![i] = {refresh.measured}]
        /\ refresh'.item = Nothing
    BY <2>1, <2>2 DEF Refreshes
  <2>4. UNCHANGED <<base, shelves, index, search, touched>>
    BY <1>6 DEF IndexItem
  <2>5. \A j \in Items : Contents(j)' = Contents(j) /\ state'[j] = state[j] /\ j # Nothing
    BY <2>4, ConstantsOK DEF Contents, base, index
  <2>6. \A j \in Items : refresh'.state[j] = IF j = i THEN {refresh.measured} ELSE refresh.state[j]
    BY <2>1, <2>3 DEF Refreshes, States
  <2>7. refresh.measured # Contents(i) => Grown(i, refresh.measured)
    BY <2>1 DEF TruthInv, Reading
  <2>8. \A j \in Items : Listed(j) => Listed(j)'
    BY <2>1, <2>3, <2>5, <2>6 DEF Listed
  <2>9. ASSUME NEW j \in Untouched(refresh.by), Seen(j) PROVE Caught(j)'
    <3>1. Caught(j) /\ j \in Items
      BY <2>1, <2>9 DEF SearchInv, Untouched
    <3>2. CASE j # i
      BY <2>3, <2>5, <2>6, <3>1, <3>2 DEF Caught
    <3>3. CASE j = i
      BY <2>3, <2>5, <2>6, <3>1, <3>3 DEF Caught
    <3> QED BY <3>2, <3>3
  <2> QED BY <2>1, <2>3, <2>4, <2>8, <2>9, RefreshGoesOn
<1>7. ASSUME CommitRefresh PROVE SearchInv'
  <2> DEFINE s == refresh.by
  <2>1. refresh # Nothing /\ refresh \in Refreshes /\ s \in Searchers /\ search[s].pc = "refresh"
    BY <1>7 DEF CommitRefresh, Unlocked, TypeOK, Refreshes
  <2>2. /\ refresh.item = Nothing /\ refresh.todo = {} /\ refresh' = Nothing
        /\ state' = refresh.state /\ UNCHANGED <<base, shelves, touched>>
    BY <1>7 DEF CommitRefresh
  <2>3. \A j \in Items : /\ Contents(j)' = Contents(j) /\ (Seen(j)' <=> Seen(j)) /\ j # Nothing
                         /\ \A f : Accepts(f, TaskOf[j])' <=> Accepts(f, TaskOf[j])
    BY <2>2, ConstantsOK DEF Contents, Seen, Accepts, base, shelves
  <2>4. /\ search'[s].pc = "candidates"
        /\ \A r \in Searchers \ {s} : search'[r] = search[r]
    BY <1>7, <2>1 DEF CommitRefresh, TypeOK
  <2>5. ASSUME NEW r \in Searchers, search'[r].pc \in {"candidates", "match"},
               NEW j \in Untouched(r)', Seen(j)'
        PROVE  Listed(j)'
    <3>1. j \in Untouched(r) /\ j \in Items /\ Seen(j)
      BY <2>2, <2>3, <2>5 DEF Untouched
    <3>2. CASE r = s
      <4>1. Caught(j)
        BY <2>1, <3>1, <3>2 DEF SearchInv
      <4>2. refresh.state[j] = {Contents(j)}
        BY <2>2, <2>3, <3>1, <4>1 DEF Caught
      <4> QED BY <2>2, <2>3, <3>1, <4>2 DEF Listed
    <3>3. CASE r # s
      <4>1. Listed(j)
        BY <2>4, <2>5, <3>1, <3>3 DEF SearchInv
      <4> QED BY <2>1, <2>2, <2>3, <3>1, <4>1 DEF Listed
    <3> QED BY <3>2, <3>3
  <2>6. ASSUME NEW r \in Searchers, search'[r].pc = "match", NEW j \in Untouched(r)'
        PROVE  TaskOf[j] \in search'[r].tasks <=>
                 Seen(j)' /\ Accepts(search[r].filter, TaskOf[j])'
    <3>1. r # s /\ search'[r] = search[r] /\ j \in Untouched(r) /\ j \in Items
      BY <2>2, <2>4, <2>6 DEF Untouched
    <3>2. TaskOf[j] \in search[r].tasks <=> Seen(j) /\ Accepts(search[r].filter, TaskOf[j])
      BY <2>6, <3>1 DEF SearchInv
    <3> QED BY <2>3, <3>1, <3>2
  <2>7. refresh' = Nothing
    BY <2>2
  <2> HIDE DEF s
  <2> QED BY <2>5, <2>6, <2>7 DEF SearchInv
<1>8. ASSUME NEW s \in Searchers, search' = [search EXCEPT ![s] = Idle],
             UNCHANGED <<base, shelves, index>>, touched' = [touched EXCEPT ![s] = {}],
             refresh' = Nothing \/ (refresh' = refresh /\ search[s].pc # "refresh")
      PROVE  SearchInv'
  <2>1. \A j \in Items : /\ Contents(j)' = Contents(j) /\ (Seen(j)' <=> Seen(j))
                         /\ \A f : Accepts(f, TaskOf[j])' <=> Accepts(f, TaskOf[j])
    BY <1>8 DEF Contents, Seen, Accepts, base, shelves
  <2>2. ASSUME NEW r \in Searchers, search'[r].pc \in {"candidates", "match"}
        PROVE  r # s /\ search'[r] = search[r] /\ touched'[r] = touched[r]
    BY <1>8, <2>2 DEF TypeOK, Idle
  <2>3. \A j \in Items : Listed(j) => Listed(j)'
    BY <1>8, <2>1 DEF Listed, index
  <2>4. ASSUME refresh' # Nothing, NEW j \in Untouched(refresh.by)', Seen(j)' PROVE Caught(j)'
    <3>1. refresh' = refresh /\ refresh # Nothing /\ refresh.by # s /\ refresh.by \in Searchers
      BY <1>8, <2>4 DEF TypeOK, Refreshes
    <3>2. j \in Untouched(refresh.by) /\ j \in Items
      BY <1>8, <2>4, <3>1 DEF Untouched, TypeOK
    <3>3. Caught(j)
      BY <2>1, <2>4, <3>1, <3>2 DEF SearchInv
    <3> QED BY <2>1, <3>1, <3>2, <3>3 DEF Caught
  <2>5. ASSUME NEW r \in Searchers, search'[r].pc \in {"candidates", "match"},
               NEW j \in Untouched(r)', Seen(j)'
        PROVE  Listed(j)'
    <3>1. j \in Untouched(r) /\ j \in Items
      BY <2>2, <2>5 DEF Untouched
    <3> QED BY <2>1, <2>2, <2>3, <2>5, <3>1 DEF SearchInv
  <2>6. ASSUME NEW r \in Searchers, search'[r].pc = "match", NEW j \in Untouched(r)'
        PROVE  TaskOf[j] \in search'[r].tasks <=>
                 Seen(j)' /\ Accepts(search[r].filter, TaskOf[j])'
    <3>1. search'[r] = search[r] /\ j \in Untouched(r) /\ j \in Items
      BY <2>2, <2>6 DEF Untouched
    <3>2. TaskOf[j] \in search[r].tasks <=> Seen(j) /\ Accepts(search[r].filter, TaskOf[j])
      BY <2>6, <3>1 DEF SearchInv
    <3> QED BY <2>1, <3>1, <3>2
  <2> QED BY <2>4, <2>5, <2>6 DEF SearchInv
<1>9. ASSUME RefreshFails PROVE SearchInv'
  <2>1. refresh # Nothing /\ refresh.by \in Searchers
    BY <1>9 DEF RefreshFails, Unlocked, TypeOK, Refreshes
  <2>2. /\ search' = [search EXCEPT ![refresh.by] = Idle] /\ refresh' = Nothing
        /\ touched' = [touched EXCEPT ![refresh.by] = {}] /\ UNCHANGED <<base, shelves, index>>
    BY <1>9 DEF RefreshFails
  <2> QED BY <1>8, <2>1, <2>2
<1>10. ASSUME NEW s \in Searchers, Answer(s) PROVE SearchInv'
  BY <1>8, <1>10 DEF Answer
<1>11. ASSUME NEW s \in Searchers, NEW f \in {Nothing, Unfiled} \cup Collections, Candidates(s, f)
       PROVE  SearchInv'
  <2> DEFINE T == {t \in Visible : Accepts(f, t)}
  <2>1. UNCHANGED <<base, shelves, index, refresh, touched>> /\ search[s].pc = "candidates"
    BY <1>11 DEF Candidates
  <2>2. \A j \in Items : /\ Contents(j)' = Contents(j) /\ (Seen(j)' <=> Seen(j))
                         /\ (Caught(j)' <=> Caught(j)) /\ (Listed(j)' <=> Listed(j))
                         /\ \A g : Accepts(g, TaskOf[j])' <=> Accepts(g, TaskOf[j])
    BY <2>1 DEF Contents, Seen, Caught, Listed, Accepts, base, shelves, index
  <2>3. /\ search'[s] = [pc |-> "match", filter |-> f, tasks |-> T]
        /\ \A r \in Searchers \ {s} : search'[r] = search[r]
    BY <1>11 DEF Candidates, TypeOK
  <2>4. ASSUME refresh' # Nothing, NEW j \in Untouched(refresh.by)', Seen(j)' PROVE Caught(j)'
    <3>1. j \in Untouched(refresh.by) /\ j \in Items /\ refresh # Nothing
      BY <2>1, <2>4 DEF Untouched
    <3> QED BY <2>2, <2>4, <3>1 DEF SearchInv
  <2>5. ASSUME NEW r \in Searchers, search'[r].pc \in {"candidates", "match"},
               NEW j \in Untouched(r)', Seen(j)'
        PROVE  Listed(j)'
    <3>1. j \in Untouched(r) /\ j \in Items /\ search[r].pc \in {"candidates", "match"}
      BY <2>1, <2>3, <2>5 DEF Untouched
    <3> QED BY <2>2, <2>5, <3>1 DEF SearchInv
  <2>6. ASSUME NEW r \in Searchers, search'[r].pc = "match", NEW j \in Untouched(r)'
        PROVE  TaskOf[j] \in search'[r].tasks <=>
                 Seen(j)' /\ Accepts(search[r].filter, TaskOf[j])'
    <3>1. j \in Untouched(r) /\ j \in Items /\ TaskOf[j] \in Tasks
      BY <2>1, <2>6, ConstantsOK DEF Untouched
    <3>2. CASE r = s
      <4>1. TaskOf[j] \in T <=> Seen(j) /\ Accepts(f, TaskOf[j])
        BY <3>1 DEF Visible, Seen
      <4>2. search'[r].tasks = T /\ search'[r].filter = f
        BY <2>3, <3>2
      <4> HIDE DEF T
      <4> QED BY <2>2, <3>1, <4>1, <4>2
    <3>3. CASE r # s
      <4>1. search'[r] = search[r]
        BY <2>3, <3>3
      <4>2. TaskOf[j] \in search[r].tasks <=> Seen(j) /\ Accepts(search[r].filter, TaskOf[j])
        BY <2>6, <3>1, <4>1 DEF SearchInv
      <4> QED BY <2>2, <3>1, <4>1, <4>2
    <3> QED BY <3>2, <3>3
  <2> QED BY <2>4, <2>5, <2>6 DEF SearchInv
<1>12. ASSUME NEW i \in Items, NEW op \in {"create", "update", "delete"}, BeginEdit(i, op)
       PROVE  SearchInv'
  BY <1>2, <1>12 DEF BeginEdit
<1>13. CASE UNCHANGED vars
  BY <1>2, <1>13 DEF vars
<1> QED BY <1>1, <1>3, <1>4, <1>5, <1>6, <1>7, <1>9, <1>10, <1>11, <1>12, <1>13 DEF Next

(* What the last statement finds of an item is what the index holds of it, *)
(* or nothing, as long as the join is not cut.                             *)
LEMMA FoundOfItem ==
  ASSUME TablesAgree, Cardinality(docs \cap fts) <= RowLimit,
         NEW s \in Searchers, NEW found \in Found(s), NEW i \in Items
  PROVE  OfItem(found, i) = IF TaskOf[i] \in search[s].tasks THEN OfItem(docs, i) ELSE {}
<1>1. docs \cap fts = docs
  BY DEF TablesAgree
<1>2. found = {d \in docs : TaskOf[d[1]] \in search[s].tasks}
  BY <1>1 DEF Found
<1> QED BY <1>2 DEF OfItem

LEMMA SearchesHold ==
  TypeOK /\ TruthInv /\ TablesInv /\ SearchInv =>
    (Cardinality(docs \cap fts) <= RowLimit => SearchIsCurrent)
<1> SUFFICES ASSUME TypeOK, TruthInv, TablesInv, SearchInv,
                    Cardinality(docs \cap fts) <= RowLimit,
                    NEW s \in Searchers, search[s].pc = "match",
                    NEW found \in Found(s), NEW i \in Untouched(s)
             PROVE  IF Seen(i) /\ Accepts(search[s].filter, TaskOf[i])
                    THEN Faithful(OfItem(found, i), i) ELSE OfItem(found, i) = {}
  BY DEF SearchIsCurrent, Untouched, Seen
<1>1. i \in Items
  BY DEF Untouched
<1>2. OfItem(found, i) = IF TaskOf[i] \in search[s].tasks THEN OfItem(docs, i) ELSE {}
  BY <1>1, FoundOfItem DEF TablesInv
<1>3. TaskOf[i] \in search[s].tasks <=> Seen(i) /\ Accepts(search[s].filter, TaskOf[i])
  BY DEF SearchInv
<1>4. ASSUME Seen(i) PROVE Faithful(OfItem(docs, i), i)
  <2>1. state[i] = {Contents(i)}
    BY <1>4 DEF SearchInv, Listed
  <2>2. Good(i, OfItem(docs, i), Contents(i), unread)
    BY <1>1, <2>1 DEF TruthInv, AllGood
  <2> QED BY <1>1, <2>2, OwnIsNotOutgrown DEF Good, Faithful
<1> QED BY <1>2, <1>3, <1>4

-----------------------------------------------------------------------------
LEMMA Inductive == IInv /\ [Next]_vars => IInv'
BY TypeStep, TimeStep, TruthStep, TablesStep, SearchStep DEF IInv

LEMMA Invariant == Spec => []IInv
BY Initially, Inductive, PTL DEF Spec

(* Every variable keeps its type. *)
THEOREM TypeCorrect == Spec => []TypeOK
<1>1. IInv => TypeOK
  BY DEF IInv
<1> QED BY Invariant, <1>1, PTL

(* An entry of the index whose fingerprint is the item's present one holds *)
(* what the item holds, for any items, searches and interleaved changes.   *)
THEOREM IndexCorrect == Spec => []IndexTellsTheTruth
BY Invariant, TruthHolds, PTL

(* Documents and full-text rows agree, up to the rows of deleted tasks.    *)
THEOREM TablesCorrect == Spec => []TablesAgree
<1>1. IInv => TablesAgree
  BY DEF IInv, TablesInv
<1> QED BY Invariant, <1>1, PTL

(* While the index holds no more documents than the query may look at, a   *)
(* search finds every item that was not changed since it began as it is,   *)
(* and nothing of the tasks it does not ask for.                           *)
THEOREM SearchCorrect ==
  Spec => [](Cardinality(docs \cap fts) <= RowLimit => SearchIsCurrent)
<1>1. IInv => (Cardinality(docs \cap fts) <= RowLimit => SearchIsCurrent)
  BY SearchesHold DEF IInv
<1> QED BY Invariant, <1>1, PTL
=============================================================================
