------------------------ MODULE KnowledgeStoreProofs ------------------------
(***************************************************************************)
(* The theorems of KnowledgeStore, for any number of items, requests,       *)
(* texts and paths and any bounds.                                          *)
(***************************************************************************)
EXTENDS KnowledgeStore, TLAPS

IInv == TypeOK /\ LogContiguous /\ LogHeadIsItem /\ EqualVersionsAgree

-----------------------------------------------------------------------------
(* What the statements do to the tables.                                   *)

\* The log of an item without a row.
LEMMA EmptyLog == DOMAIN <<>> = {} /\ \A S : <<>> \in [{} -> S]
<1>1. <<>> \in Seq({})
  OBVIOUS
<1>2. Len(<<>>) = 0 /\ DOMAIN <<>> = 1..Len(<<>>)
  OBVIOUS
<1>3. DOMAIN <<>> = {}
  BY <1>2
<1> QED
  BY <1>1, <1>3

\* The version INSERT adds row n of item k and leaves every other row alone.
LEMMA InsertVersionEffect ==
  ASSUME TypeOK, NEW k \in Item, NEW n \in Nat, NEW row \in VersionRow,
         InsertVersion(k, n, row)
  PROVE  /\ DOMAIN versions' = Item
         /\ \A j \in Item \ {k} : versions'[j] = versions[j]
         /\ DOMAIN versions'[k] = DOMAIN versions[k] \cup {n}
         /\ versions'[k][n] = row
         /\ \A i \in DOMAIN versions[k] \ {n} : versions'[k][i] = versions[k][i]
         /\ \A j \in Item : versions'[j] \in [DOMAIN versions'[j] -> VersionRow]
<1> DEFINE log == [i \in DOMAIN versions[k] \cup {n} |->
                     IF i = n THEN row ELSE versions[k][i]]
<1>1. /\ DOMAIN versions' = Item
      /\ \A j \in Item \ {k} : versions'[j] = versions[j]
      /\ versions'[k] = log
  BY DEF TypeOK, InsertVersion
<1>2. \A i \in DOMAIN versions[k] : versions[k][i] \in VersionRow
  BY DEF TypeOK
<1>3. log \in [DOMAIN versions[k] \cup {n} -> VersionRow]
  BY <1>2
<1>4. DOMAIN log = DOMAIN versions[k] \cup {n}
  OBVIOUS
<1> HIDE DEF log
<1>5. \A j \in Item : versions'[j] \in [DOMAIN versions'[j] -> VersionRow]
  BY <1>1, <1>3, <1>4 DEF TypeOK
<1> USE DEF log
<1> QED
  BY <1>1, <1>4, <1>5

\* The task INSERT keeps the queue well typed.
LEMMA EnqueueType ==
  ASSUME TypeOK, NEW k \in Item, Enqueue(k)
  PROVE  tasks' \in Seq(Task)
<1>1. NewTask(k) \in Task
  BY DEF NewTask, Task, MaxAttempts
<1> QED
  BY <1>1 DEF TypeOK, Enqueue

\* A request whose version row can be inserted read the present row: the
\* unique index admits exactly the requests that are not stale.
LEMMA InsertableReadIsFresh ==
  ASSUME IInv, NEW r \in Request, req[r].op \in EditOps,
         Insertable(req[r].item, NextVersion(r))
  PROVE  LET k == req[r].item IN
         /\ req[r] \in Editing
         /\ k \in Item
         /\ items[k] \in ItemRow
         /\ req[r].seen.version = items[k].version
         /\ req[r].seen.content = items[k].content
         /\ req[r].seen.category = items[k].category
         /\ req[r].op = "restore" => items[k].status = "REMOVED_SOFT"
         /\ DOMAIN versions[k] = 1..items[k].version
         /\ NextVersion(r) = items[k].version + 1
         /\ NextVersion(r) \in 1..MaxVersion
         /\ Written(r) \in [content : Content, category : Path]
<1> DEFINE k == req[r].item
<1>1. req[r] \in Editing
  BY DEF IInv, TypeOK, EditOps, Idle, Notifying
<1>2. /\ k \in Item
      /\ req[r].seen \in Snapshot
  BY <1>1 DEF Editing, EditRequest
<1>3. items[k] \in ItemRow
  BY <1>2 DEF IInv, TypeOK, Insertable, Exists, NoRow, Live
<1>4. DOMAIN versions[k] = 1..items[k].version
  BY <1>2 DEF IInv, LogContiguous, Insertable
<1>5. /\ MaxVersion \in Nat \ {0}
      /\ items[k].version \in 1..MaxVersion
      /\ req[r].seen.version \in 1..(MaxVersion - 1)
  BY <1>2, <1>3, BoundAssumption DEF ItemRow, Snapshot
<1>6. req[r].seen.version <= items[k].version
  BY DEF IInv, EqualVersionsAgree, Insertable
<1>7. req[r].seen.version + 1 \notin 1..items[k].version
  BY <1>4 DEF Insertable, NextVersion
<1>8. /\ req[r].seen.version = items[k].version
      /\ NextVersion(r) = items[k].version + 1
      /\ NextVersion(r) \in 1..MaxVersion
  BY <1>5, <1>6, <1>7 DEF NextVersion
<1>9. /\ req[r].seen.content = items[k].content
      /\ req[r].seen.category = items[k].category
      /\ req[r].op = "restore" => items[k].status = "REMOVED_SOFT"
  BY <1>8 DEF IInv, EqualVersionsAgree, Insertable
<1>10. Written(r) \in [content : Content, category : Path]
  BY <1>1 DEF Written, Editing, EditRequest, Snapshot
<1> QED
  BY <1>1, <1>2, <1>3, <1>4, <1>8, <1>9, <1>10

\* A committed edit keeps the invariant whenever the item row it leaves
\* carries the written text, the written path and the next number.
LEMMA CommitEditKeepsIInv ==
  ASSUME IInv, NEW r \in Request, req[r].op \in EditOps,
         NEW source \in Source, NEW row \in ItemRow,
         CommitEdit(r, source, row),
         row.version = NextVersion(r),
         row.content = Written(r).content,
         row.category = Written(r).category
  PROVE  IInv'
<1> DEFINE k == req[r].item
           n == NextVersion(r)
           vrow == [source |-> source, content |-> Written(r).content,
                    category |-> Written(r).category]
<1>1. Insertable(k, n)
  BY DEF CommitEdit
<1>2. /\ k \in Item
      /\ items[k] \in ItemRow
      /\ req[r].seen.version = items[k].version
      /\ DOMAIN versions[k] = 1..items[k].version
      /\ n = items[k].version + 1
      /\ n \in 1..MaxVersion
      /\ Written(r) \in [content : Content, category : Path]
  BY <1>1, InsertableReadIsFresh
<1>3. vrow \in VersionRow
  BY <1>2 DEF VersionRow
<1>4. /\ items' = [items EXCEPT ![k] = row]
      /\ InsertVersion(k, n, vrow)
      /\ Enqueue(k)
      /\ req' = [req EXCEPT ![r] = Idle]
  BY DEF CommitEdit, Release
<1>5. TypeOK
  BY DEF IInv
<1>6. n \in Nat
  BY <1>2, BoundAssumption
<1> HIDE DEF vrow, n
<1>7. /\ DOMAIN versions' = Item
      /\ \A j \in Item \ {k} : versions'[j] = versions[j]
      /\ DOMAIN versions'[k] = DOMAIN versions[k] \cup {n}
      /\ versions'[k][n] = vrow
      /\ \A j \in Item : versions'[j] \in [DOMAIN versions'[j] -> VersionRow]
  BY <1>2, <1>3, <1>4, <1>5, <1>6, InsertVersionEffect
<1>8. tasks' \in Seq(Task)
  BY <1>2, <1>4, <1>5, EnqueueType
<1>9. /\ items'[k] = row
      /\ \A j \in Item \ {k} : items'[j] = items[j]
      /\ items' \in [Item -> ItemRow \cup {NoRow("ABSENT"), NoRow("PURGED")}]
  BY <1>2, <1>4, <1>5 DEF TypeOK
<1>10. /\ req' \in [Request -> {Idle} \cup Editing \cup Notifying]
       /\ req'[r] = Idle
       /\ \A q \in Request \ {r} : req'[q] = req[q]
  BY <1>4, <1>5 DEF TypeOK
<1>11. row.status \in Live /\ row.version = n
  BY DEF ItemRow, n
<1>12. TypeOK'
  BY <1>7, <1>8, <1>9, <1>10 DEF TypeOK
<1>13. LogContiguous'
  <2>1. 1..n = (1..items[k].version) \cup {n}
    BY <1>2, <1>6 DEF ItemRow
  <2> SUFFICES ASSUME NEW j \in Item
               PROVE  (DOMAIN versions[j] = IF Exists(j) THEN 1..items[j].version
                                                         ELSE {})'
    BY DEF LogContiguous
  <2>2. CASE j = k
    BY <2>1, <2>2, <1>2, <1>7, <1>9, <1>11 DEF Exists
  <2>3. CASE j # k
    BY <2>3, <1>7, <1>9 DEF IInv, LogContiguous, Exists
  <2> QED
    BY <2>2, <2>3
<1>14. LogHeadIsItem'
  <2> SUFFICES ASSUME NEW j \in Item, Exists(j)'
               PROVE  (/\ items[j].version \in DOMAIN versions[j]
                       /\ versions[j][items[j].version].content = items[j].content
                       /\ versions[j][items[j].version].category = items[j].category)'
    BY DEF LogHeadIsItem
  <2>1. CASE j = k
    BY <2>1, <1>7, <1>9, <1>11 DEF vrow
  <2>2. CASE j # k
    BY <2>2, <1>7, <1>9 DEF IInv, LogHeadIsItem, Exists
  <2> QED
    BY <2>1, <2>2
<1>15. EqualVersionsAgree'
  <2> SUFFICES ASSUME NEW q \in Request, req'[q].op \in EditOps
               PROVE  (LET j == req[q].item
                           seen == req[q].seen
                       IN /\ items[j].status # "ABSENT"
                          /\ Exists(j) => seen.version <= items[j].version
                          /\ Exists(j) /\ seen.version = items[j].version =>
                               /\ seen.content = items[j].content
                               /\ seen.category = items[j].category
                               /\ req[q].op = "restore" =>
                                    items[j].status = "REMOVED_SOFT")'
    BY DEF EqualVersionsAgree
  <2>1. q # r /\ req'[q] = req[q]
    BY <1>10 DEF Idle, EditOps
  <2>2. req[q] \in Editing
    BY <2>1, <1>5 DEF TypeOK, EditOps, Idle, Notifying
  <2>3. /\ req[q].item \in Item
        /\ req[q].seen.version \in 1..(MaxVersion - 1)
    BY <2>2 DEF Editing, EditRequest, Snapshot
  <2>4. CASE req[q].item = k
    <3>1. Exists(k) /\ items[k].version \in 1..MaxVersion
      BY <1>2 DEF ItemRow, Exists
    <3>2. req[q].seen.version <= items[k].version
      BY <2>1, <2>4, <3>1 DEF IInv, EqualVersionsAgree
    <3>3. req[q].seen.version < n
      BY <3>1, <3>2, <2>3, <1>2, BoundAssumption
    <3>4. items'[k].version = n /\ items'[k].status # "ABSENT"
      BY <1>9, <1>11 DEF Live
    <3> QED
      BY <2>1, <2>3, <2>4, <3>3, <3>4, <1>6, BoundAssumption
  <2>5. CASE req[q].item # k
    BY <2>1, <2>3, <2>5, <1>9 DEF IInv, EqualVersionsAgree, Exists
  <2> QED
    BY <2>4, <2>5
<1> QED
  BY <1>12, <1>13, <1>14, <1>15 DEF IInv

-----------------------------------------------------------------------------
(* The invariant is inductive.                                             *)

LEMMA InitEstablishesIInv == Init => IInv
<1> SUFFICES ASSUME Init PROVE IInv
  OBVIOUS
<1>1. \A k \in Item : versions[k] = <<>> /\ items[k] = NoRow("ABSENT")
  BY DEF Init
<1>2. \A k \in Item : DOMAIN versions[k] = {} /\ ~Exists(k)
  <2>1. \A k \in Item : DOMAIN versions[k] = {}
    BY <1>1, EmptyLog
  <2>2. NoRow("ABSENT").status = "ABSENT"
    BY DEF NoRow
  <2>3. "ABSENT" \notin Live
    BY DEF Live
  <2>4. \A k \in Item : ~Exists(k)
    BY <1>1, <2>2, <2>3 DEF Exists
  <2> QED
    BY <2>1, <2>4
<1>3. \A k \in Item : versions[k] \in [DOMAIN versions[k] -> VersionRow]
  BY <1>1, EmptyLog
<1>4. TypeOK
  BY <1>3 DEF Init, TypeOK
<1>5. \A r \in Request : req[r].op \notin EditOps
  BY DEF Init, Idle, EditOps
<1> QED
  BY <1>2, <1>4, <1>5 DEF IInv, LogContiguous, LogHeadIsItem, EqualVersionsAgree

\* A step that touches no table but possibly the queue, and lets requests go,
\* keeps the invariant: what is known of a request only shrinks.
LEMMA ReleaseKeepsIInv ==
  ASSUME IInv, UNCHANGED <<items, versions>>, tasks' \in Seq(Task),
         NEW r \in Request, Release(r) \/ UNCHANGED req
  PROVE  IInv'
<1>1. req' \in [Request -> {Idle} \cup Editing \cup Notifying]
  BY DEF IInv, TypeOK, Release
<1>2. TypeOK'
  BY <1>1 DEF IInv, TypeOK
<1>3. \A q \in Request : req'[q].op \in EditOps => req'[q] = req[q]
  BY DEF IInv, TypeOK, Release, Idle, EditOps
<1>4. EqualVersionsAgree'
  BY <1>3 DEF IInv, EqualVersionsAgree, Exists
<1> QED
  BY <1>2, <1>4 DEF IInv, LogContiguous, LogHeadIsItem, Exists

LEMMA CreateKeepsIInv ==
  ASSUME IInv, NEW k \in Item, NEW c \in Content, NEW p \in Path,
         CreateKnowledgeFromDraft(k, c, p)
  PROVE  IInv'
<1> DEFINE row == [status |-> "ACTIVE", content |-> c, category |-> p,
                   version |-> 1, expired |-> FALSE]
           vrow == [source |-> "DRAFT_APPROVE", content |-> c, category |-> p]
<1>1. /\ items[k].status = "ABSENT"
      /\ items' = [items EXCEPT ![k] = row]
      /\ InsertVersion(k, 1, vrow)
      /\ Enqueue(k)
      /\ req' = req
  BY DEF CreateKnowledgeFromDraft
<1>2. vrow \in VersionRow
  BY DEF VersionRow, Source
<1>3. row \in ItemRow
  BY BoundAssumption DEF ItemRow, Live
<1>4. row.status = "ACTIVE" /\ row.version = 1 /\ row.content = c /\ row.category = p
  OBVIOUS
<1>5. TypeOK
  BY DEF IInv
<1>6. vrow.content = c /\ vrow.category = p
  OBVIOUS
<1> HIDE DEF row, vrow
<1>7. /\ DOMAIN versions' = Item
      /\ \A j \in Item \ {k} : versions'[j] = versions[j]
      /\ DOMAIN versions'[k] = DOMAIN versions[k] \cup {1}
      /\ versions'[k][1] = vrow
      /\ \A j \in Item : versions'[j] \in [DOMAIN versions'[j] -> VersionRow]
  BY <1>1, <1>2, <1>5, InsertVersionEffect
<1>8. /\ items'[k] = row
      /\ \A j \in Item \ {k} : items'[j] = items[j]
      /\ items' \in [Item -> ItemRow \cup {NoRow("ABSENT"), NoRow("PURGED")}]
  BY <1>1, <1>3, <1>5 DEF TypeOK
<1>9. TypeOK'
  BY <1>1, <1>5, <1>7, <1>8, EnqueueType DEF TypeOK
<1>10. DOMAIN versions[k] = {}
  BY <1>1 DEF IInv, LogContiguous, Exists, Live
<1>11. LogContiguous'
  <2> SUFFICES ASSUME NEW j \in Item
               PROVE  (DOMAIN versions[j] = IF Exists(j) THEN 1..items[j].version
                                                         ELSE {})'
    BY DEF LogContiguous
  <2>1. CASE j = k
    BY <2>1, <1>4, <1>7, <1>8, <1>10 DEF Exists, Live
  <2>2. CASE j # k
    BY <2>2, <1>7, <1>8 DEF IInv, LogContiguous, Exists
  <2> QED
    BY <2>1, <2>2
<1>12. LogHeadIsItem'
  <2> SUFFICES ASSUME NEW j \in Item, Exists(j)'
               PROVE  (/\ items[j].version \in DOMAIN versions[j]
                       /\ versions[j][items[j].version].content = items[j].content
                       /\ versions[j][items[j].version].category = items[j].category)'
    BY DEF LogHeadIsItem
  <2>1. CASE j = k
    BY <2>1, <1>4, <1>6, <1>7, <1>8
  <2>2. CASE j # k
    BY <2>2, <1>7, <1>8 DEF IInv, LogHeadIsItem, Exists
  <2> QED
    BY <2>1, <2>2
<1>13. EqualVersionsAgree'
  <2> SUFFICES ASSUME NEW q \in Request, req[q].op \in EditOps
               PROVE  (LET j == req[q].item
                           seen == req[q].seen
                       IN /\ items[j].status # "ABSENT"
                          /\ Exists(j) => seen.version <= items[j].version
                          /\ Exists(j) /\ seen.version = items[j].version =>
                               /\ seen.content = items[j].content
                               /\ seen.category = items[j].category
                               /\ req[q].op = "restore" =>
                                    items[j].status = "REMOVED_SOFT")'
    BY <1>1 DEF EqualVersionsAgree
  <2>1. req[q] \in Editing
    BY <1>5 DEF TypeOK, EditOps, Idle, Notifying
  <2>2. req[q].item \in Item /\ req[q].item # k
    BY <2>1, <1>1 DEF Editing, EditRequest, IInv, EqualVersionsAgree
  <2> QED
    BY <2>2, <1>1, <1>8 DEF IInv, EqualVersionsAgree, Exists
<1> QED
  BY <1>9, <1>11, <1>12, <1>13 DEF IInv

\* The read of an edit records the row it sees.
LEMMA BeginEditKeepsIInv ==
  ASSUME IInv, NEW r \in Request, NEW op \in EditOps, NEW k \in Item,
         NEW c \in Content \cup {Keep}, NEW p \in Path \cup {Keep},
         BeginEdit(r, op, k, c, p),
         op = "restore" => /\ c = Keep /\ p = Keep
                           /\ items[k].status = "REMOVED_SOFT",
         op = "backfill" => c \in Content /\ p = Keep
  PROVE  IInv'
<1> DEFINE seen == [version |-> items[k].version, content |-> items[k].content,
                    category |-> items[k].category]
           new == [op |-> op, item |-> k, content |-> c, category |-> p,
                   seen |-> seen]
<1>1. /\ Exists(k)
      /\ items[k].version < MaxVersion
      /\ req' = [req EXCEPT ![r] = new]
      /\ UNCHANGED <<items, versions, tasks>>
  BY DEF BeginEdit
<1>2. items[k] \in ItemRow
  BY <1>1 DEF IInv, TypeOK, Exists, NoRow, Live
<1>3. seen \in Snapshot
  BY <1>1, <1>2, BoundAssumption DEF ItemRow, Snapshot
<1>4. new \in Editing
  BY <1>3 DEF Editing, EditRequest, EditOps
<1>5. /\ new.op = op
      /\ new.item = k
      /\ new.seen.version = items[k].version
      /\ new.seen.content = items[k].content
      /\ new.seen.category = items[k].category
  OBVIOUS
<1> HIDE DEF new
<1>6. /\ req'[r] = new
      /\ \A q \in Request \ {r} : req'[q] = req[q]
      /\ req' \in [Request -> {Idle} \cup Editing \cup Notifying]
  BY <1>1, <1>4 DEF IInv, TypeOK
<1>7. TypeOK'
  BY <1>1, <1>6 DEF IInv, TypeOK
<1>8. EqualVersionsAgree'
  <2> SUFFICES ASSUME NEW q \in Request, req'[q].op \in EditOps
               PROVE  (LET j == req[q].item
                           sn == req[q].seen
                       IN /\ items[j].status # "ABSENT"
                          /\ Exists(j) => sn.version <= items[j].version
                          /\ Exists(j) /\ sn.version = items[j].version =>
                               /\ sn.content = items[j].content
                               /\ sn.category = items[j].category
                               /\ req[q].op = "restore" =>
                                    items[j].status = "REMOVED_SOFT")'
    BY DEF EqualVersionsAgree
  <2>1. CASE q = r
    <3>1. items[k].status # "ABSENT"
      BY <1>2 DEF ItemRow, Live
    <3>2. items[k].version <= items[k].version
      BY <1>2, BoundAssumption DEF ItemRow
    <3> QED
      BY <2>1, <3>1, <3>2, <1>1, <1>5, <1>6
  <2>2. CASE q # r
    BY <2>2, <1>1, <1>6 DEF IInv, EqualVersionsAgree, Exists
  <2> QED
    BY <2>1, <2>2
<1> QED
  BY <1>1, <1>7, <1>8 DEF IInv, LogContiguous, LogHeadIsItem, Exists

LEMMA CommitKeepsIInv ==
  ASSUME IInv, NEW r \in Request,
         CommitUpdate(r) \/ CommitRestore(r) \/ CommitBackfill(r)
  PROVE  IInv'
<1> DEFINE k == req[r].item
<1>1. /\ req[r].op \in EditOps
      /\ Insertable(k, NextVersion(r))
  BY DEF CommitUpdate, CommitRestore, CommitBackfill, CommitEdit, EditOps
<1>2. /\ req[r] \in Editing
      /\ items[k] \in ItemRow
      /\ req[r].seen.content = items[k].content
      /\ req[r].seen.category = items[k].category
      /\ NextVersion(r) \in 1..MaxVersion
      /\ Written(r) \in [content : Content, category : Path]
  BY <1>1, InsertableReadIsFresh
<1>3. CASE CommitUpdate(r)
  <2> DEFINE row == [items[k] EXCEPT !.content = Written(r).content,
                                     !.category = Written(r).category,
                                     !.version = NextVersion(r)]
  <2>1. row \in ItemRow
    BY <1>2 DEF ItemRow
  <2>2. /\ row.version = NextVersion(r)
        /\ row.content = Written(r).content
        /\ row.category = Written(r).category
    BY <1>2 DEF ItemRow
  <2>3. CommitEdit(r, "MANUAL_UPDATE", row) /\ "MANUAL_UPDATE" \in Source
    BY <1>3 DEF CommitUpdate, Source
  <2> HIDE DEF row
  <2> QED
    BY <1>1, <2>1, <2>2, <2>3, CommitEditKeepsIInv
<1>4. CASE CommitRestore(r)
  <2> DEFINE row == [items[k] EXCEPT !.status = "ACTIVE", !.expired = FALSE,
                                     !.version = NextVersion(r)]
  <2>1. row \in ItemRow
    BY <1>2 DEF ItemRow, Live
  <2>2. req[r].content = Keep /\ req[r].category = Keep
    BY <1>2, <1>4 DEF CommitRestore, Editing, EditRequest
  <2>3. /\ row.version = NextVersion(r)
        /\ row.content = Written(r).content
        /\ row.category = Written(r).category
    BY <1>2, <2>2 DEF ItemRow, Written
  <2>4. CommitEdit(r, "RESTORE", row) /\ "RESTORE" \in Source
    BY <1>4 DEF CommitRestore, Source
  <2> HIDE DEF row
  <2> QED
    BY <1>1, <2>1, <2>3, <2>4, CommitEditKeepsIInv
<1>5. CASE CommitBackfill(r)
  <2> DEFINE row == [items[k] EXCEPT !.content = Written(r).content,
                                     !.version = NextVersion(r)]
  <2>1. row \in ItemRow
    BY <1>2 DEF ItemRow
  <2>2. req[r].category = Keep
    BY <1>2, <1>5 DEF CommitBackfill, Editing, EditRequest
  <2>3. /\ row.version = NextVersion(r)
        /\ row.content = Written(r).content
        /\ row.category = Written(r).category
    BY <1>2, <2>2 DEF ItemRow, Written
  <2>4. CommitEdit(r, "DOC_SYNC_BACKFILL", row) /\ "DOC_SYNC_BACKFILL" \in Source
    BY <1>5 DEF CommitBackfill, Source
  <2> HIDE DEF row
  <2> QED
    BY <1>1, <2>1, <2>3, <2>4, CommitEditKeepsIInv
<1> QED
  BY <1>3, <1>4, <1>5

\* Removing an item, and the passing of its deadline, change only its status:
\* its number, text and path stay, so do the reads that match them.
LEMMA StatusKeepsIInv ==
  ASSUME IInv, NEW k \in Item, NEW row \in ItemRow, Exists(k),
         row.status = "REMOVED_SOFT", row.version = items[k].version,
         row.content = items[k].content, row.category = items[k].category,
         items' = [items EXCEPT ![k] = row],
         versions' = versions, tasks' = tasks,
         req' \in [Request -> {Idle} \cup Editing \cup Notifying],
         \A q \in Request : req'[q].op \in EditOps => req'[q] = req[q]
  PROVE  IInv'
<1>1. items' \in [Item -> ItemRow \cup {NoRow("ABSENT"), NoRow("PURGED")}]
  BY DEF IInv, TypeOK
<1>2. TypeOK'
  BY <1>1 DEF IInv, TypeOK
<1>3. \A j \in Item : /\ items'[j].status \in Live <=> items[j].status \in Live
                      /\ items'[j].version = items[j].version
                      /\ items'[j].content = items[j].content
                      /\ items'[j].category = items[j].category
                      /\ items[j].status = "REMOVED_SOFT" =>
                           items'[j].status = "REMOVED_SOFT"
                      /\ items[j].status # "ABSENT" => items'[j].status # "ABSENT"
  BY DEF IInv, TypeOK, Exists, Live
<1>4. \A q \in Request : req'[q].op \in EditOps =>
                            req'[q] = req[q] /\ req[q].item \in Item
  BY DEF IInv, TypeOK, EditOps, Idle, Notifying, Editing, EditRequest
<1>5. EqualVersionsAgree'
  BY <1>3, <1>4 DEF IInv, EqualVersionsAgree, Exists
<1>6. LogContiguous' /\ LogHeadIsItem'
  BY <1>3 DEF IInv, LogContiguous, LogHeadIsItem, Exists
<1> QED
  BY <1>2, <1>5, <1>6 DEF IInv

LEMMA PurgeKeepsIInv == IInv /\ PurgeExpiredKnowledge => IInv'
<1> SUFFICES ASSUME IInv, PurgeExpiredKnowledge PROVE IInv'
  OBVIOUS
<1>1. \A j \in Item :
        IF j \in Purgeable
        THEN items'[j] = NoRow("PURGED") /\ versions'[j] = <<>>
        ELSE items'[j] = items[j] /\ versions'[j] = versions[j]
  BY DEF PurgeExpiredKnowledge
<1>2. items' \in [Item -> ItemRow \cup {NoRow("ABSENT"), NoRow("PURGED")}]
  BY DEF PurgeExpiredKnowledge, IInv, TypeOK
<1>3. DOMAIN versions' = Item
  BY DEF PurgeExpiredKnowledge
<1>4. \A j \in Item : versions'[j] \in [DOMAIN versions'[j] -> VersionRow]
  BY <1>1, EmptyLog DEF IInv, TypeOK
<1>5. TypeOK'
  BY <1>2, <1>3, <1>4 DEF IInv, TypeOK, PurgeExpiredKnowledge
<1>6. \A j \in Item : Exists(j)' => items'[j] = items[j] /\ versions'[j] = versions[j]
                                    /\ Exists(j)
  BY <1>1 DEF Exists, NoRow, Live
<1>7. \A j \in Item : ~Exists(j)' => DOMAIN versions'[j] = {}
  BY <1>1, EmptyLog DEF IInv, LogContiguous, Exists
<1>8. \A j \in Item : items[j].status # "ABSENT" => items'[j].status # "ABSENT"
  BY <1>1 DEF NoRow
<1>9. \A q \in Request : req'[q] = req[q]
                         /\ (req[q].op \in EditOps => req[q].item \in Item)
  BY DEF PurgeExpiredKnowledge, IInv, TypeOK, EditOps, Idle, Notifying, Editing,
         EditRequest
<1>10. EqualVersionsAgree'
  BY <1>6, <1>8, <1>9 DEF IInv, EqualVersionsAgree
<1>11. LogContiguous' /\ LogHeadIsItem'
  BY <1>6, <1>7 DEF IInv, LogContiguous, LogHeadIsItem
<1> QED
  BY <1>5, <1>10, <1>11 DEF IInv

LEMMA NextKeepsIInv == IInv /\ [Next]_vars => IInv'
<1> SUFFICES ASSUME IInv, [Next]_vars PROVE IInv'
  OBVIOUS
<1>1. ASSUME NEW r \in Request, RequestStep(r) PROVE IInv'
  <2>1. ASSUME NEW k \in Item, NEW c \in Content \cup {Keep},
               NEW p \in Path \cup {Keep}, BeginUpdate(r, k, c, p)
        PROVE  IInv'
    BY <2>1, BeginEditKeepsIInv DEF BeginUpdate, EditOps
  <2>2. ASSUME NEW k \in Item, BeginRestore(r, k) PROVE IInv'
    BY <2>2, BeginEditKeepsIInv DEF BeginRestore, EditOps
  <2>3. ASSUME NEW k \in Item, NEW c \in Content, BeginBackfill(r, k, c)
        PROVE  IInv'
    BY <2>3, BeginEditKeepsIInv DEF BeginBackfill, EditOps
  <2>4. ASSUME NEW k \in Item, SoftDelete(r, k) PROVE IInv'
    <3> DEFINE row == [items[k] EXCEPT !.status = "REMOVED_SOFT", !.expired = FALSE]
    <3>1. items[k] \in ItemRow
      BY <2>4 DEF SoftDelete, IInv, TypeOK, NoRow
    <3>2. /\ row \in ItemRow
          /\ row.status = "REMOVED_SOFT"
          /\ row.version = items[k].version
          /\ row.content = items[k].content
          /\ row.category = items[k].category
      BY <3>1 DEF ItemRow, Live
    <3>3. items' = [items EXCEPT ![k] = row]
      BY <2>4 DEF SoftDelete, IInv, TypeOK
    <3>4. [op |-> "notify", item |-> k] \in Notifying
      BY DEF Notifying
    <3>5. /\ req' \in [Request -> {Idle} \cup Editing \cup Notifying]
          /\ \A q \in Request : req'[q].op \in EditOps => req'[q] = req[q]
      BY <2>4, <3>4 DEF SoftDelete, IInv, TypeOK, EditOps
    <3>6. Exists(k) /\ versions' = versions /\ tasks' = tasks
      BY <2>4 DEF SoftDelete, Exists, Live
    <3> HIDE DEF row
    <3> QED
      BY <3>2, <3>3, <3>5, <3>6, StatusKeepsIInv
  <2>5. CASE CommitUpdate(r) \/ CommitRestore(r) \/ CommitBackfill(r)
    BY <2>5, CommitKeepsIInv
  <2>6. CASE RollBack(r) \/ Abandon(r)
    BY <2>6, ReleaseKeepsIInv DEF RollBack, Abandon, IInv, TypeOK
  <2>7. CASE NotifyRemoved(r)
    <3>1. req[r].item \in Item
      BY <2>7 DEF NotifyRemoved, IInv, TypeOK, Idle, Notifying, Editing, EditRequest
    <3> QED
      BY <2>7, <3>1, EnqueueType, ReleaseKeepsIInv DEF NotifyRemoved, IInv
  <2> QED
    BY <1>1, <2>1, <2>2, <2>3, <2>4, <2>5, <2>6, <2>7 DEF RequestStep
<1>2. ASSUME NEW k \in Item, NEW c \in Content, NEW p \in Path,
             CreateKnowledgeFromDraft(k, c, p)
      PROVE  IInv'
  BY <1>2, CreateKeepsIInv
<1>3. ASSUME NEW k \in Item, TriggerSync(k) PROVE IInv'
  <2>1. TypeOK'
    BY <1>3, EnqueueType DEF TriggerSync, IInv, TypeOK
  <2> QED
    BY <1>3, <2>1 DEF TriggerSync, IInv, LogContiguous, LogHeadIsItem,
                      EqualVersionsAgree, Exists
<1>4. ASSUME NEW k \in Item, RetentionElapses(k) PROVE IInv'
  <2> DEFINE row == [items[k] EXCEPT !.expired = TRUE]
  <2>1. items[k] \in ItemRow /\ items[k].status = "REMOVED_SOFT"
    BY <1>4 DEF RetentionElapses, IInv, TypeOK, NoRow
  <2>2. /\ row \in ItemRow
        /\ row.status = "REMOVED_SOFT"
        /\ row.version = items[k].version
        /\ row.content = items[k].content
        /\ row.category = items[k].category
    BY <2>1 DEF ItemRow
  <2>3. items' = [items EXCEPT ![k] = row]
    BY <1>4 DEF RetentionElapses
  <2>4. Exists(k) /\ versions' = versions /\ tasks' = tasks /\ req' = req
    BY <1>4, <2>1 DEF RetentionElapses, Exists, Live
  <2>5. req' \in [Request -> {Idle} \cup Editing \cup Notifying]
    BY <2>4 DEF IInv, TypeOK
  <2> HIDE DEF row
  <2> QED
    BY <2>2, <2>3, <2>4, <2>5, StatusKeepsIInv
<1>5. CASE PurgeExpiredKnowledge
  BY <1>5, PurgeKeepsIInv
<1>6. CASE UNCHANGED vars
  BY <1>6 DEF vars, IInv, TypeOK, LogContiguous, LogHeadIsItem,
              EqualVersionsAgree, Exists
<1> QED
  BY <1>1, <1>2, <1>3, <1>4, <1>5, <1>6 DEF Next, ServerStep

\* Every reachable state satisfies the inductive invariant.
THEOREM Invariance == Spec => []IInv
<1>1. Init => IInv
  BY InitEstablishesIInv
<1>2. IInv /\ [Next]_vars => IInv'
  BY NextKeepsIInv
<1> QED
  BY <1>1, <1>2, PTL DEF Spec

\* Every table and every request in flight keeps its type.
THEOREM TypeCorrect == Spec => []TypeOK
<1>1. IInv => TypeOK
  BY DEF IInv
<1> QED
  BY <1>1, Invariance, PTL

\* The version log of an existing item is exactly 1..current_version and its
\* newest row is the item, whatever edits, removals, restores and purges
\* interleave.
THEOREM VersionLogCorrect == Spec => []LogMatchesItem
<1>1. IInv => LogMatchesItem
  BY DEF IInv, LogMatchesItem
<1> QED
  BY <1>1, Invariance, PTL

\* A request in flight whose version number is current read a current row.
THEOREM VersionNumbersIdentifyReads == Spec => []EqualVersionsAgree
<1>1. IInv => EqualVersionsAgree
  BY DEF IInv
<1> QED
  BY <1>1, Invariance, PTL

-----------------------------------------------------------------------------
(* Action properties.                                                      *)

\* The step in which request r commits is the transaction of r's own edit.
LEMMA CommitIsOwnTransaction ==
  ASSUME IInv, Next, NEW r \in Request, Commits(r)
  PROVE  CommitUpdate(r) \/ CommitRestore(r) \/ CommitBackfill(r)
<1>1. /\ req[r] # Idle
      /\ req'[r] = Idle
      /\ versions' # versions
      /\ req' # req
  BY DEF Commits, EditOps, Idle
<1>2. PICK q \in Request : RequestStep(q)
  BY <1>1 DEF Next, ServerStep, CreateKnowledgeFromDraft, TriggerSync, RetentionElapses,
              PurgeExpiredKnowledge
<1>3. CommitUpdate(q) \/ CommitRestore(q) \/ CommitBackfill(q)
  BY <1>1, <1>2 DEF RequestStep, BeginUpdate, BeginRestore, BeginBackfill, BeginEdit,
              SoftDelete, RollBack, NotifyRemoved, Abandon
<1>4. req' = [req EXCEPT ![q] = Idle]
  BY <1>3 DEF CommitUpdate, CommitRestore, CommitBackfill, CommitEdit, Release
<1>5. q = r
  BY <1>1, <1>4 DEF IInv, TypeOK
<1> QED
  BY <1>3, <1>5

\* A field the request left empty is not changed by its commit.
THEOREM NoLostUpdateHolds == Spec => NoLostUpdate
<1>1. ASSUME IInv, Next, NEW r \in Request, Commits(r)
      PROVE  LET k == req[r].item IN
             /\ req[r].content = Keep => items'[k].content = items[k].content
             /\ req[r].category = Keep => items'[k].category = items[k].category
  <2> DEFINE k == req[r].item
  <2>1. CommitUpdate(r) \/ CommitRestore(r) \/ CommitBackfill(r)
    BY <1>1, CommitIsOwnTransaction
  <2>2. /\ req[r].op \in EditOps
        /\ Insertable(k, NextVersion(r))
    BY <2>1 DEF CommitUpdate, CommitRestore, CommitBackfill, CommitEdit, EditOps
  <2>3. /\ k \in Item
        /\ items[k] \in ItemRow
        /\ req[r].seen.content = items[k].content
        /\ req[r].seen.category = items[k].category
    BY <1>1, <2>2, InsertableReadIsFresh
  <2>4. /\ req[r].content = Keep => Written(r).content = items[k].content
        /\ req[r].category = Keep => Written(r).category = items[k].category
    BY <2>3 DEF Written
  <2>5. k \in DOMAIN items
    BY <1>1, <2>3 DEF IInv, TypeOK
  <2>6. CASE CommitUpdate(r)
    <3>1. items'[k] = [items[k] EXCEPT !.content = Written(r).content,
                                       !.category = Written(r).category,
                                       !.version = NextVersion(r)]
      BY <2>5, <2>6 DEF CommitUpdate, CommitEdit
    <3> QED
      BY <2>3, <2>4, <3>1 DEF ItemRow
  <2>7. CASE CommitRestore(r)
    <3>1. items'[k] = [items[k] EXCEPT !.status = "ACTIVE",
                                       !.expired = FALSE,
                                       !.version = NextVersion(r)]
      BY <2>5, <2>7 DEF CommitRestore, CommitEdit
    <3> QED
      BY <2>3, <3>1 DEF ItemRow
  <2>8. CASE CommitBackfill(r)
    <3>1. items'[k] = [items[k] EXCEPT !.content = Written(r).content,
                                       !.version = NextVersion(r)]
      BY <2>5, <2>8 DEF CommitBackfill, CommitEdit
    <3> QED
      BY <2>3, <2>4, <3>1 DEF ItemRow
  <2> QED
    BY <2>1, <2>6, <2>7, <2>8
<1>2. IInv /\ [Next]_vars =>
        [\A r \in Request : Commits(r) =>
           LET k == req[r].item IN
           /\ req[r].content = Keep => items'[k].content = items[k].content
           /\ req[r].category = Keep => items'[k].category = items[k].category]_vars
  BY <1>1
<1> QED
  BY <1>2, Invariance, PTL DEF Spec, NoLostUpdate

\* A restore commits only on an item that is removed at that moment.
THEOREM RestoreOnlyRemovedHolds == Spec => RestoreOnlyRemoved
<1>1. ASSUME IInv, Next, NEW r \in Request, Commits(r), req[r].op = "restore"
      PROVE  items[req[r].item].status = "REMOVED_SOFT"
  <2>1. CommitUpdate(r) \/ CommitRestore(r) \/ CommitBackfill(r)
    BY <1>1, CommitIsOwnTransaction
  <2>2. /\ req[r].op \in EditOps
        /\ Insertable(req[r].item, NextVersion(r))
    BY <2>1 DEF CommitUpdate, CommitRestore, CommitBackfill, CommitEdit, EditOps
  <2> QED
    BY <1>1, <2>2, InsertableReadIsFresh
<1>2. IInv /\ [Next]_vars =>
        [\A r \in Request : Commits(r) /\ req[r].op = "restore" =>
           items[req[r].item].status = "REMOVED_SOFT"]_vars
  BY <1>1
<1> QED
  BY <1>2, Invariance, PTL DEF Spec, RestoreOnlyRemoved

\* Every step other than a purge keeps the version rows there are, and every
\* purge takes away only rows of items it deletes.
LEMMA StepKeepsRows ==
  ASSUME IInv, Next, NEW j \in Item, NEW n \in DOMAIN versions[j]
  PROVE  \/ n \in DOMAIN versions'[j] /\ versions'[j][n] = versions[j][n]
         \/ Exists(j) /\ items'[j].status = "PURGED"
<1> DEFINE Kept == n \in DOMAIN versions'[j] /\ versions'[j][n] = versions[j][n]
<1>1. Exists(j)
  BY DEF IInv, LogContiguous
<1>2. ASSUME NEW k \in Item, NEW m, NEW row, InsertVersion(k, m, row),
             m \notin DOMAIN versions[k]
      PROVE  Kept
  <2> DEFINE log == [i \in DOMAIN versions[k] \cup {m} |->
                       IF i = m THEN row ELSE versions[k][i]]
  <2>1. /\ \A i \in Item \ {k} : versions'[i] = versions[i]
        /\ versions'[k] = log
    BY <1>2 DEF InsertVersion, IInv, TypeOK
  <2>2. CASE j = k
    <3>1. /\ n \in DOMAIN log
          /\ log[n] = versions[k][n]
      BY <1>2, <2>2
    <3> QED
      BY <2>1, <2>2, <3>1
  <2>3. CASE j # k
    BY <2>1, <2>3
  <2> QED
    BY <2>2, <2>3
<1>3. CASE versions' = versions
  BY <1>3
<1>4. ASSUME NEW k \in Item, NEW c \in Content, NEW p \in Path,
             CreateKnowledgeFromDraft(k, c, p)
      PROVE  Kept
  <2>1. 1 \notin DOMAIN versions[k]
    BY <1>4 DEF CreateKnowledgeFromDraft, IInv, LogContiguous, Exists, Live
  <2> QED
    BY <1>2, <1>4, <2>1 DEF CreateKnowledgeFromDraft
<1>5. ASSUME NEW r \in Request, CommitUpdate(r) \/ CommitRestore(r) \/ CommitBackfill(r)
      PROVE  Kept
  <2>1. /\ req[r].op \in EditOps
        /\ Insertable(req[r].item, NextVersion(r))
    BY <1>5 DEF CommitUpdate, CommitRestore, CommitBackfill, CommitEdit, EditOps
  <2>2. req[r].item \in Item
    BY <2>1, InsertableReadIsFresh
  <2>3. NextVersion(r) \notin DOMAIN versions[req[r].item]
    BY <2>1 DEF Insertable
  <2>4. PICK row : InsertVersion(req[r].item, NextVersion(r), row)
    BY <1>5 DEF CommitUpdate, CommitRestore, CommitBackfill, CommitEdit
  <2> QED
    BY <1>2, <2>2, <2>3, <2>4
<1>6. CASE PurgeExpiredKnowledge
  <2>1. CASE j \in Purgeable
    BY <1>1, <1>6, <2>1 DEF PurgeExpiredKnowledge, NoRow
  <2>2. CASE j \notin Purgeable
    BY <1>6, <2>2 DEF PurgeExpiredKnowledge
  <2> QED
    BY <2>1, <2>2
<1>7. \/ versions' = versions
      \/ \E k \in Item, c \in Content, p \in Path : CreateKnowledgeFromDraft(k, c, p)
      \/ \E r \in Request : CommitUpdate(r) \/ CommitRestore(r) \/ CommitBackfill(r)
      \/ PurgeExpiredKnowledge
  BY DEF Next, ServerStep, RequestStep, BeginUpdate, BeginRestore, BeginBackfill, BeginEdit,
         SoftDelete, RollBack, NotifyRemoved, Abandon, TriggerSync, RetentionElapses
<1> QED
  BY <1>3, <1>4, <1>5, <1>6, <1>7

\* A version row, once committed, changes never and disappears only with its
\* item.
THEOREM LogIsAppendOnlyHolds == Spec => LogIsAppendOnly
<1>1. IInv /\ [Next]_vars =>
        [\A k \in Item : \A n \in DOMAIN versions[k] :
           \/ n \in DOMAIN versions'[k] /\ versions'[k][n] = versions[k][n]
           \/ Exists(k) /\ items'[k].status = "PURGED"]_vars
  BY StepKeepsRows
<1> QED
  BY <1>1, Invariance, PTL DEF Spec, LogIsAppendOnly

\* No transaction begun before a purge brings the item or a row of it back.
THEOREM PurgeIsFinalHolds == Spec => PurgeIsFinal
<1>1. ASSUME IInv, Next, NEW j \in Item, items[j].status = "PURGED"
      PROVE  items'[j].status = "PURGED" /\ versions'[j] = <<>>
  <2>1. ~Exists(j) /\ items[j].status # "ABSENT"
    BY <1>1 DEF Exists, Live
  <2>2. items'[j] = items[j] /\ versions'[j] = versions[j]
    <3>1. ASSUME NEW k \in Item, NEW c \in Content, NEW p \in Path,
                 CreateKnowledgeFromDraft(k, c, p)
          PROVE  items'[j] = items[j] /\ versions'[j] = versions[j]
      BY <1>1, <2>1, <3>1 DEF CreateKnowledgeFromDraft, InsertVersion, IInv, TypeOK
    <3>2. ASSUME NEW r \in Request,
                 CommitUpdate(r) \/ CommitRestore(r) \/ CommitBackfill(r)
          PROVE  items'[j] = items[j] /\ versions'[j] = versions[j]
      <4>1. Exists(req[r].item)
        BY <3>2 DEF CommitUpdate, CommitRestore, CommitBackfill, CommitEdit, Insertable
      <4>2. req[r].item # j
        BY <2>1, <4>1
      <4>3. PICK row, vrow : /\ items' = [items EXCEPT ![req[r].item] = row]
                             /\ InsertVersion(req[r].item, NextVersion(r), vrow)
        BY <3>2 DEF CommitUpdate, CommitRestore, CommitBackfill, CommitEdit
      <4> QED
        BY <4>2, <4>3 DEF InsertVersion, IInv, TypeOK
    <3>3. CASE PurgeExpiredKnowledge
      BY <1>1, <2>1, <3>3 DEF PurgeExpiredKnowledge, Purgeable
    <3>4. ASSUME NEW r \in Request, NEW k \in Item, SoftDelete(r, k)
          PROVE  items'[j] = items[j] /\ versions'[j] = versions[j]
      <4>1. k # j
        BY <1>1, <3>4 DEF SoftDelete
      <4>2. items' = [items EXCEPT ![k] = [items[k] EXCEPT !.status = "REMOVED_SOFT",
                                                           !.expired = FALSE]]
        BY <1>1, <3>4 DEF SoftDelete, IInv, TypeOK
      <4> QED
        BY <1>1, <3>4, <4>1, <4>2 DEF SoftDelete, IInv, TypeOK
    <3>5. ASSUME NEW k \in Item, RetentionElapses(k)
          PROVE  items'[j] = items[j] /\ versions'[j] = versions[j]
      BY <1>1, <3>5 DEF RetentionElapses
    <3>6. \/ UNCHANGED <<items, versions>>
          \/ \E k \in Item, c \in Content, p \in Path : CreateKnowledgeFromDraft(k, c, p)
          \/ \E r \in Request : CommitUpdate(r) \/ CommitRestore(r) \/ CommitBackfill(r)
          \/ PurgeExpiredKnowledge
          \/ \E r \in Request, k \in Item : SoftDelete(r, k)
          \/ \E k \in Item : RetentionElapses(k)
      BY <1>1 DEF Next, ServerStep, RequestStep, BeginUpdate, BeginRestore, BeginBackfill,
                  BeginEdit, RollBack, NotifyRemoved, Abandon, TriggerSync
    <3> QED
      BY <3>1, <3>2, <3>3, <3>4, <3>5, <3>6
  <2>3. versions[j] = <<>>
    <3>1. DOMAIN versions[j] = {}
      BY <1>1, <2>1 DEF IInv, LogContiguous
    <3>2. versions[j] \in [{} -> VersionRow]
      BY <1>1, <3>1 DEF IInv, TypeOK
    <3>3. <<>> \in [{} -> VersionRow]
      BY EmptyLog
    <3>4. \A f, g \in [{} -> VersionRow] : f = g
      OBVIOUS
    <3> QED
      BY <3>2, <3>3, <3>4
  <2> QED
    BY <1>1, <2>2, <2>3
<1>2. IInv /\ [Next]_vars =>
        [\A k \in Item : items[k].status = "PURGED" =>
           items'[k].status = "PURGED" /\ versions'[k] = <<>>]_vars
  BY <1>1
<1> QED
  BY <1>2, Invariance, PTL DEF Spec, PurgeIsFinal

-----------------------------------------------------------------------------
(* The refinement of KnowledgeHistory.                                     *)

\* A list given by its rows.
LEMMA RowsAreList ==
  ASSUME NEW S, NEW n \in Nat, NEW b \in [1..n -> S]
  PROVE  b \in Seq(S) /\ Len(b) = n
OBVIOUS

LEMMA ListIsRows == ASSUME NEW S, NEW q \in Seq(S) PROVE q \in [1..Len(q) -> S]
OBVIOUS

\* One more row at the end is an Append.
LEMMA AppendByRows ==
  ASSUME NEW S, NEW n \in Nat, NEW a \in [1..n -> S], NEW b \in [1..(n + 1) -> S],
         \A i \in 1..n : b[i] = a[i]
  PROVE  b = Append(a, b[n + 1])
<1>1. a \in Seq(S) /\ Len(a) = n
  BY RowsAreList
<1>2. n + 1 \in 1..(n + 1)
  OBVIOUS
<1> DEFINE s == b[n + 1]
<1>3. s \in S
  BY <1>2
<1> HIDE DEF s
<1>4. /\ DOMAIN Append(a, s) = 1..(n + 1)
      /\ \A i \in 1..(n + 1) : Append(a, s)[i] = IF i = n + 1 THEN s ELSE a[i]
  BY <1>1, <1>3
<1>5. \A i \in 1..(n + 1) : i # n + 1 => i \in 1..n
  OBVIOUS
<1>6. \A i \in 1..(n + 1) : Append(a, s)[i] = b[i]
  BY <1>4, <1>5 DEF s
<1>7. Append(a, s) \in Seq(S) /\ Len(Append(a, s)) = n + 1
  BY <1>1, <1>3
<1>8. Append(a, s) \in [1..(n + 1) -> S]
  BY <1>7, ListIsRows
<1>9. Append(a, s) = b
  BY <1>6, <1>8
<1> QED
  BY <1>9 DEF s

\* The history of an existing item: one snapshot per version, the newest being
\* the item itself.
LEMMA HistoryIsList ==
  ASSUME IInv, NEW k \in Item, Exists(k)
  PROVE  /\ items[k].version \in Nat \ {0}
         /\ historyBar[k] \in [1..items[k].version -> History!Snapshot]
         /\ History!Newest(k) = SnapshotOf(items[k])
<1> DEFINE v == items[k].version
<1>1. items[k] \in ItemRow /\ v \in Nat \ {0}
  BY BoundAssumption DEF IInv, TypeOK, ItemRow, NoRow, Exists, Live
<1>2. DOMAIN versions[k] = 1..v
  BY DEF IInv, LogContiguous
<1>3. \A n \in 1..v : SnapshotOf(versions[k][n]) \in History!Snapshot
  BY <1>2 DEF IInv, TypeOK, VersionRow, SnapshotOf, History!Snapshot
<1>4. historyBar[k] \in [1..v -> History!Snapshot]
  BY <1>2, <1>3 DEF historyBar
<1>5. Len(historyBar[k]) = v
  BY <1>1, <1>4, RowsAreList
<1>6. historyBar[k][v] = SnapshotOf(versions[k][v])
  BY <1>1, <1>2 DEF historyBar
<1>7. SnapshotOf(versions[k][v]) = SnapshotOf(items[k])
  BY DEF IInv, LogHeadIsItem, SnapshotOf
<1> QED
  BY <1>1, <1>4, <1>5, <1>6, <1>7 DEF History!Newest

\* A step that writes no version row and no status is no step of the history.
LEMMA Stutters ==
  ASSUME versions' = versions, \A k \in Item : items'[k].status = items[k].status
  PROVE  UNCHANGED History!hvars
<1>1. lifeBar' = lifeBar
  BY DEF lifeBar
<1>2. historyBar' = historyBar
  BY DEF historyBar
<1> QED
  BY <1>1, <1>2 DEF History!hvars

\* A version row numbered after the newest one is one more snapshot.
LEMMA OneMoreSnapshot ==
  ASSUME IInv, NEW k \in Item, Exists(k), NEW row \in VersionRow,
         NEW n \in Nat, n = items[k].version + 1, InsertVersion(k, n, row)
  PROVE  historyBar' = [historyBar EXCEPT ![k] = Append(@, SnapshotOf(row))]
<1> DEFINE v == items[k].version
<1>1. v \in Nat /\ historyBar[k] \in [1..v -> History!Snapshot]
  BY HistoryIsList
<1>2. /\ DOMAIN versions[k] = 1..v
      /\ DOMAIN versions = Item
  BY DEF IInv, LogContiguous, TypeOK
<1>3. /\ \A j \in Item \ {k} : versions'[j] = versions[j]
      /\ DOMAIN versions'[k] = 1..(v + 1)
      /\ versions'[k][v + 1] = row
      /\ \A i \in 1..v : versions'[k][i] = versions[k][i]
  <2>1. 1..v \cup {v + 1} = 1..(v + 1)
    BY <1>1
  <2>2. \A i \in 1..v : i \in DOMAIN versions[k] \ {n}
    BY <1>1, <1>2
  <2> QED
    BY <1>2, <2>1, <2>2, InsertVersionEffect DEF IInv
<1> DEFINE b == historyBar'[k]
<1>4. b = [i \in 1..(v + 1) |-> SnapshotOf(versions'[k][i])]
  BY <1>3 DEF historyBar
<1>5. SnapshotOf(row) \in History!Snapshot
  BY DEF VersionRow, SnapshotOf, History!Snapshot
<1>6. \A i \in 1..v : b[i] = historyBar[k][i]
  BY <1>1, <1>2, <1>3, <1>4 DEF historyBar
<1>7. b[v + 1] = SnapshotOf(row)
  BY <1>1, <1>3, <1>4
<1>8. \A i \in 1..(v + 1) : i # v + 1 => i \in 1..v
  BY <1>1
<1>9. b \in [1..(v + 1) -> History!Snapshot]
  BY <1>1, <1>4, <1>5, <1>6, <1>7, <1>8
<1>10. b = Append(historyBar[k], SnapshotOf(row))
  BY <1>1, <1>6, <1>7, <1>9, AppendByRows
<1>11. \A j \in Item \ {k} : historyBar'[j] = historyBar[j]
  BY <1>3 DEF historyBar
<1>12. /\ historyBar = [j \in Item |-> historyBar[j]]
       /\ historyBar' = [j \in Item |-> historyBar'[j]]
  BY DEF historyBar
<1> QED
  BY <1>10, <1>11, <1>12

\* The lives the four statuses stand for.
LEMMA Lives ==
  /\ LifeOf("ABSENT") = "none" /\ LifeOf("ACTIVE") = "active"
  /\ LifeOf("REMOVED_SOFT") = "removed" /\ LifeOf("PURGED") = "gone"
BY DEF LifeOf

\* A step that changes one item changes one life.
LEMMA OneLifeChanges ==
  ASSUME NEW k \in Item, \A j \in Item \ {k} : items'[j] = items[j]
  PROVE  /\ lifeBar[k] = LifeOf(items[k].status)
         /\ lifeBar' = [lifeBar EXCEPT ![k] = LifeOf(items'[k].status)]
BY DEF lifeBar

LEMMA CreateIsPublish ==
  ASSUME IInv, NEW k \in Item, NEW c \in Content, NEW p \in Path,
         CreateKnowledgeFromDraft(k, c, p)
  PROVE  History!HNext
<1> DEFINE row == [source |-> "DRAFT_APPROVE", content |-> c, category |-> p]
           s == [content |-> c, category |-> p]
<1>1. /\ items[k].status = "ABSENT"
      /\ items'[k].status = "ACTIVE"
      /\ \A j \in Item \ {k} : items'[j] = items[j]
  BY DEF CreateKnowledgeFromDraft, IInv, TypeOK
<1>2. row \in VersionRow /\ SnapshotOf(row) = s /\ s \in History!Snapshot
  BY DEF VersionRow, Source, SnapshotOf, History!Snapshot
<1>3. DOMAIN versions[k] = {}
  BY <1>1 DEF IInv, LogContiguous, Exists, Live
<1>4. InsertVersion(k, 1, row)
  BY DEF CreateKnowledgeFromDraft
<1> HIDE DEF row, s
<1>5. /\ \A j \in Item \ {k} : versions'[j] = versions[j]
      /\ DOMAIN versions'[k] = {1}
      /\ versions'[k][1] = row
  BY <1>2, <1>3, <1>4, InsertVersionEffect DEF IInv
<1>6. historyBar'[k] = [n \in {1} |-> s]
  BY <1>2, <1>5 DEF historyBar
<1>7. historyBar'[k] = <<s>>
  <2>1. historyBar'[k] \in [1..1 -> {s}]
    BY <1>6
  <2>2. <<s>> \in Seq({s}) /\ Len(<<s>>) = 1 /\ <<s>>[1] = s
    OBVIOUS
  <2>3. <<s>> \in [1..1 -> {s}]
    BY <2>2, ListIsRows
  <2> QED
    BY <2>1, <2>3
<1>8. historyBar' = [historyBar EXCEPT ![k] = <<s>>]
  <2>1. \A j \in Item \ {k} : historyBar'[j] = historyBar[j]
    BY <1>5 DEF historyBar
  <2>2. /\ historyBar = [j \in Item |-> historyBar[j]]
        /\ historyBar' = [j \in Item |-> historyBar'[j]]
    BY DEF historyBar
  <2> QED
    BY <1>7, <2>1, <2>2
<1>9. lifeBar[k] = "none" /\ lifeBar' = [lifeBar EXCEPT ![k] = "active"]
  BY <1>1, OneLifeChanges, Lives
<1>10. History!Publish(k, s)
  BY <1>8, <1>9 DEF History!Publish
<1> QED
  BY <1>2, <1>10 DEF History!HNext

\* The transaction of an edit is an edit of the newest snapshot: what the
\* request read is still what the newest version row says.
LEMMA CommitIsEdit ==
  ASSUME IInv, NEW r \in Request,
         CommitUpdate(r) \/ CommitRestore(r) \/ CommitBackfill(r)
  PROVE  History!HNext
<1> DEFINE k == req[r].item
<1>1. /\ req[r].op \in EditOps
      /\ Insertable(k, NextVersion(r))
  BY DEF CommitUpdate, CommitRestore, CommitBackfill, CommitEdit, EditOps
<1>2. /\ req[r] \in Editing
      /\ k \in Item
      /\ items[k] \in ItemRow
      /\ req[r].seen.content = items[k].content
      /\ req[r].seen.category = items[k].category
      /\ req[r].op = "restore" => items[k].status = "REMOVED_SOFT"
      /\ NextVersion(r) = items[k].version + 1
  BY <1>1, InsertableReadIsFresh
<1>3. /\ Exists(k)
      /\ req[r].content \in Content \cup {Keep}
      /\ req[r].category \in Path \cup {Keep}
      /\ req[r].op = "restore" => req[r].content = Keep /\ req[r].category = Keep
  BY <1>1, <1>2 DEF Insertable, Editing, EditRequest
<1> DEFINE source == CASE req[r].op = "update" -> "MANUAL_UPDATE"
                       [] req[r].op = "restore" -> "RESTORE"
                       [] req[r].op = "backfill" -> "DOC_SYNC_BACKFILL"
           row == [source |-> source, content |-> Written(r).content,
                   category |-> Written(r).category]
<1>4. /\ InsertVersion(k, NextVersion(r), row)
      /\ source \in Source
  BY DEF CommitUpdate, CommitRestore, CommitBackfill, CommitEdit, Source
<1>5. /\ Written(r).content \in Content
      /\ Written(r).category \in Path
  BY <1>2, <1>3 DEF Written, ItemRow
<1>6. row \in VersionRow
  BY <1>4, <1>5 DEF VersionRow
<1>7. SnapshotOf(row)
        = History!Applied(SnapshotOf(items[k]), req[r].content, req[r].category)
  BY <1>2 DEF SnapshotOf, Written, History!Applied
<1> HIDE DEF row, source
<1>8. /\ NextVersion(r) \in Nat
      /\ History!Newest(k) = SnapshotOf(items[k])
  BY <1>2, <1>3, HistoryIsList
<1> DEFINE newest == History!Applied(History!Newest(k), req[r].content, req[r].category)
<1>9. historyBar' = [historyBar EXCEPT ![k] = Append(@, newest)]
  BY <1>2, <1>3, <1>4, <1>6, <1>7, <1>8, OneMoreSnapshot
<1> HIDE DEF newest
<1>10. /\ \A j \in Item \ {k} : items'[j] = items[j]
       /\ CommitRestore(r) => items'[k].status = "ACTIVE"
       /\ ~CommitRestore(r) => items'[k].status = items[k].status
  <2>1. DOMAIN items = Item
    BY DEF IInv, TypeOK
  <2>2. ASSUME NEW new, items' = [items EXCEPT ![k] = new]
        PROVE  items'[k] = new /\ \A j \in Item \ {k} : items'[j] = items[j]
    BY <1>2, <2>1, <2>2
  <2>3. CASE CommitUpdate(r)
    <3> DEFINE new == [items[k] EXCEPT !.content = Written(r).content,
                                       !.category = Written(r).category,
                                       !.version = NextVersion(r)]
    <3>1. items' = [items EXCEPT ![k] = new] /\ ~CommitRestore(r)
      BY <2>3 DEF CommitUpdate, CommitRestore, CommitEdit
    <3>2. new.status = items[k].status
      BY <1>2 DEF ItemRow
    <3> QED
      BY <2>2, <3>1, <3>2
  <2>4. CASE CommitRestore(r)
    <3> DEFINE new == [items[k] EXCEPT !.status = "ACTIVE", !.expired = FALSE,
                                       !.version = NextVersion(r)]
    <3>1. items' = [items EXCEPT ![k] = new]
      BY <2>4 DEF CommitRestore, CommitEdit
    <3>2. new.status = "ACTIVE"
      BY <1>2 DEF ItemRow
    <3> QED
      BY <2>2, <2>4, <3>1, <3>2
  <2>5. CASE CommitBackfill(r)
    <3> DEFINE new == [items[k] EXCEPT !.content = Written(r).content,
                                       !.version = NextVersion(r)]
    <3>1. items' = [items EXCEPT ![k] = new] /\ ~CommitRestore(r)
      BY <2>5 DEF CommitBackfill, CommitRestore, CommitEdit
    <3>2. new.status = items[k].status
      BY <1>2 DEF ItemRow
    <3> QED
      BY <2>2, <3>1, <3>2
  <2> QED
    BY <2>3, <2>4, <2>5
<1>11. lifeBar[k] = LifeOf(items[k].status) /\ items[k].status \in Live
  BY <1>2 DEF lifeBar, ItemRow
<1>12. CASE CommitRestore(r)
  <2>1. lifeBar[k] = "removed" /\ lifeBar' = [lifeBar EXCEPT ![k] = "active"]
    BY <1>2, <1>10, <1>12, OneLifeChanges, Lives DEF CommitRestore
  <2>2. newest = History!Newest(k)
    BY <1>3, <1>8, <1>12 DEF newest, History!Applied, CommitRestore, SnapshotOf
  <2>3. History!Restore(k)
    BY <1>9, <2>1, <2>2 DEF History!Restore
  <2> QED
    BY <1>2, <2>3 DEF History!HNext
<1>13. CASE ~CommitRestore(r)
  <2>1. lifeBar[k] \in {"active", "removed"}
    BY <1>11 DEF LifeOf, Live
  <2>2. lifeBar' = lifeBar
    BY <1>2, <1>10, <1>13 DEF lifeBar
  <2>3. History!Edit(k, req[r].content, req[r].category)
    BY <1>9, <2>1, <2>2 DEF History!Edit, newest
  <2> QED
    BY <1>2, <1>3, <2>3 DEF History!HNext
<1> QED
  BY <1>12, <1>13

LEMMA SoftDeleteIsRemove ==
  ASSUME IInv, NEW r \in Request, NEW k \in Item, SoftDelete(r, k)
  PROVE  History!HNext
<1>1. /\ items[k].status = "ACTIVE"
      /\ items'[k].status = "REMOVED_SOFT"
      /\ \A j \in Item \ {k} : items'[j] = items[j]
      /\ versions' = versions
  BY DEF SoftDelete, IInv, TypeOK, ItemRow, NoRow
<1>2. lifeBar[k] = "active" /\ lifeBar' = [lifeBar EXCEPT ![k] = "removed"]
  BY <1>1, OneLifeChanges, Lives
<1>3. historyBar' = historyBar
  BY <1>1 DEF historyBar
<1> QED
  BY <1>2, <1>3 DEF History!HNext, History!Remove

LEMMA PurgeIsPurge == IInv /\ PurgeExpiredKnowledge => History!HNext
<1> SUFFICES ASSUME IInv, PurgeExpiredKnowledge PROVE History!HNext
  OBVIOUS
<1>1. \A j \in Item :
        IF j \in Purgeable
        THEN items'[j] = NoRow("PURGED") /\ versions'[j] = <<>>
        ELSE items'[j] = items[j] /\ versions'[j] = versions[j]
  BY DEF PurgeExpiredKnowledge
<1>2. \A j \in Purgeable : lifeBar[j] = "removed"
  BY DEF Purgeable, lifeBar, LifeOf
<1>3. lifeBar' = [j \in Item |-> IF j \in Purgeable THEN "gone" ELSE lifeBar[j]]
  <2>1. \A j \in Item : lifeBar'[j] = LifeOf(items'[j].status)
                       /\ lifeBar[j] = LifeOf(items[j].status)
    BY DEF lifeBar
  <2>2. \A j \in Item : lifeBar'[j] = IF j \in Purgeable THEN "gone" ELSE lifeBar[j]
    BY <1>1, <2>1, Lives DEF NoRow
  <2>3. lifeBar' = [j \in Item |-> lifeBar'[j]]
    BY DEF lifeBar
  <2> QED
    BY <2>2, <2>3
<1>4. historyBar' = [j \in Item |-> IF j \in Purgeable THEN <<>> ELSE historyBar[j]]
  <2>1. ASSUME NEW j \in Purgeable PROVE historyBar'[j] = <<>>
    <3>1. j \in Item /\ versions'[j] = <<>>
      BY <1>1 DEF Purgeable
    <3>2. historyBar'[j] = [n \in {} |-> SnapshotOf(versions'[j][n])]
      BY <3>1, EmptyLog DEF historyBar
    <3> QED
      BY <3>2, EmptyLog
  <2>2. \A j \in Item \ Purgeable : historyBar'[j] = historyBar[j]
    BY <1>1 DEF historyBar
  <2>3. historyBar' = [j \in Item |-> historyBar'[j]]
    BY DEF historyBar
  <2> QED
    BY <2>1, <2>2, <2>3
<1>5. Purgeable \in SUBSET Item
  BY DEF Purgeable
<1>6. History!Purge(Purgeable)
  BY <1>2, <1>3, <1>4 DEF History!Purge
<1> QED
  BY <1>5, <1>6 DEF History!HNext

\* Every step of the store is one step of the history, or none.
LEMMA StepRefines == IInv /\ [Next]_vars => [History!HNext]_(History!hvars)
<1> SUFFICES ASSUME IInv, [Next]_vars PROVE [History!HNext]_(History!hvars)
  OBVIOUS
<1>1. ASSUME NEW r \in Request, RequestStep(r)
      PROVE  [History!HNext]_(History!hvars)
  <2>1. ASSUME NEW k \in Item, SoftDelete(r, k)
        PROVE  [History!HNext]_(History!hvars)
    BY <2>1, SoftDeleteIsRemove
  <2>2. CASE CommitUpdate(r) \/ CommitRestore(r) \/ CommitBackfill(r)
    BY <2>2, CommitIsEdit
  <2>3. ASSUME items' = items, versions' = versions
        PROVE  [History!HNext]_(History!hvars)
    BY <2>3, Stutters
  <2> QED
    BY <1>1, <2>1, <2>2, <2>3
    DEF RequestStep, BeginUpdate, BeginRestore, BeginBackfill, BeginEdit, RollBack,
        NotifyRemoved, Abandon
<1>2. ASSUME NEW k \in Item, NEW c \in Content, NEW p \in Path,
             CreateKnowledgeFromDraft(k, c, p)
      PROVE  [History!HNext]_(History!hvars)
  BY <1>2, CreateIsPublish
<1>3. ASSUME NEW k \in Item, TriggerSync(k) \/ RetentionElapses(k)
      PROVE  [History!HNext]_(History!hvars)
  <2>1. versions' = versions /\ \A j \in Item : items'[j].status = items[j].status
    BY <1>3 DEF TriggerSync, RetentionElapses, IInv, TypeOK, ItemRow, NoRow
  <2> QED
    BY <2>1, Stutters
<1>4. CASE PurgeExpiredKnowledge
  BY <1>4, PurgeIsPurge
<1>5. CASE UNCHANGED vars
  BY <1>5, Stutters DEF vars
<1> QED
  BY <1>1, <1>2, <1>3, <1>4, <1>5 DEF Next, ServerStep

LEMMA InitRefines == Init => History!HInit
<1> SUFFICES ASSUME Init PROVE History!HInit
  OBVIOUS
<1>1. lifeBar = [k \in Item |-> "none"]
  BY DEF Init, lifeBar, LifeOf, NoRow
<1>2. ASSUME NEW k \in Item PROVE historyBar[k] = <<>>
  <2>1. versions[k] = <<>>
    BY DEF Init
  <2>2. historyBar[k] = [n \in {} |-> SnapshotOf(versions[k][n])]
    BY <2>1, EmptyLog DEF historyBar
  <2> QED
    BY <2>2, EmptyLog
<1>3. historyBar = [k \in Item |-> historyBar[k]]
  BY DEF historyBar
<1> QED
  BY <1>1, <1>2, <1>3 DEF History!HInit

\* Requests that read a row and write it later, with nothing but a unique index
\* between them, behave as indivisible edits of one history per item.
THEOREM RefinesHistoryHolds == Spec => RefinesHistory
<1>1. Init => History!HInit
  BY InitRefines
<1>2. IInv /\ [Next]_vars => [History!HNext]_(History!hvars)
  BY StepRefines
<1> QED
  BY <1>1, <1>2, Invariance, PTL DEF Spec, RefinesHistory, History!HSpec
=============================================================================
