--------------------------- MODULE KnowledgeStore ---------------------------
(***************************************************************************)
(* Knowledge items, their version log and the sync tasks every change       *)
(* enqueues: internal/repository/store.go under the service operations of   *)
(* internal/service/services.go.                                            *)
(*                                                                          *)
(* An editing request READS the item outside any transaction and later      *)
(* writes in a transaction of three statements: UPDATE the item (by id      *)
(* only: neither status nor version is in its WHERE), INSERT the version    *)
(* row numbered "version read + 1", INSERT a sync task.  The UPDATE takes   *)
(* the row lock, so transactions on one item are serial and each is one     *)
(* step here; the time between the read and the transaction is visible, and *)
(* any other request may commit in it.  What stops a stale request is       *)
(* UNIQUE(knowledge_id, version_no) and, for a purged item, the foreign key *)
(* of knowledge_versions: either rolls the transaction back.                *)
(*                                                                          *)
(* Title and body travel together as "content"; users are left out (all     *)
(* statements carry the same user id).  Time is abstracted to whether the   *)
(* purge deadline of a removed item has passed.                             *)
(***************************************************************************)
EXTENDS Naturals, Sequences

CONSTANTS
  Item,        \* knowledge_items ids; BIGSERIAL never hands one out twice
  Request,     \* requests being served at the same time
  Content,     \* title and body of an item
  Path,        \* category paths EnsureCategoryPath accepts
  Keep,        \* an empty argument of a request: keep what was read
  MaxVersion,  \* bound: an edit starts only below this version
  MaxTasks     \* bound: a manual sync starts only below this queue length

ASSUME KeepAssumption == Keep \notin Content \cup Path
ASSUME BoundAssumption == MaxVersion \in Nat \ {0} /\ MaxTasks \in Nat

VARIABLES
  items,     \* the table knowledge_items
  versions,  \* the table knowledge_versions: versions[k][n] is k's row n
  tasks,     \* the table sync_tasks in id order; rows are never deleted
  req        \* what each request holds between its statements

vars == <<items, versions, tasks, req>>

-----------------------------------------------------------------------------

Live == {"ACTIVE", "REMOVED_SOFT"}

\* An id without a row: not yet handed out, or deleted by the purge.
NoRow(status) == [status |-> status, content |-> Keep, category |-> Keep,
                  version |-> 0, expired |-> FALSE]

ItemRow == [status : Live, content : Content, category : Path,
            version : 1..MaxVersion, expired : BOOLEAN]

Source == {"DRAFT_APPROVE", "MANUAL_UPDATE", "RESTORE", "DOC_SYNC_BACKFILL"}
VersionRow == [source : Source, content : Content, category : Path]

MaxAttempts == 3
Task == [target : Item,
         status : {"QUEUED", "RUNNING", "RETRYING", "SUCCESS", "FAILED"},
         retries : 0..MaxAttempts, due : BOOLEAN]

\* A row of sync_tasks as INSERT leaves it: the column defaults.
NewTask(k) == [target |-> k, status |-> "QUEUED", retries |-> 0, due |-> TRUE]

Idle == [op |-> "idle"]
Snapshot == [version : 1..(MaxVersion - 1), content : Content, category : Path]
EditOps == {"update", "restore", "backfill"}
EditRequest(op, cs, ps) ==
  [op : {op}, item : Item, seen : Snapshot, content : cs, category : ps]
Editing == EditRequest("update", Content \cup {Keep}, Path \cup {Keep})
             \cup EditRequest("restore", {Keep}, {Keep})
             \cup EditRequest("backfill", Content, {Keep})
Notifying == [op : {"notify"}, item : Item]

TypeOK ==
  /\ items \in [Item -> ItemRow \cup {NoRow("ABSENT"), NoRow("PURGED")}]
  /\ \A k \in Item : versions[k] \in [DOMAIN versions[k] -> VersionRow]
  /\ DOMAIN versions = Item
  /\ tasks \in Seq(Task)
  /\ req \in [Request -> {Idle} \cup Editing \cup Notifying]

-----------------------------------------------------------------------------

Init ==
  /\ items = [k \in Item |-> NoRow("ABSENT")]
  /\ versions = [k \in Item |-> <<>>]
  /\ tasks = <<>>
  /\ req = [r \in Request |-> Idle]

Exists(k) == items[k].status \in Live

Enqueue(k) == tasks' = Append(tasks, NewTask(k))

\* The INSERT into knowledge_versions goes through: the item's row is there
\* (foreign key) and the number is free (unique index).
Insertable(k, n) == Exists(k) /\ n \notin DOMAIN versions[k]

InsertVersion(k, n, row) ==
  versions' = [versions EXCEPT ![k] =
                 [i \in DOMAIN versions[k] \cup {n} |->
                    IF i = n THEN row ELSE versions[k][i]]]

Release(r) == req' = [req EXCEPT ![r] = Idle]

-----------------------------------------------------------------------------

\* CreateKnowledgeFromDraft: item, version 1 and task in one transaction.
CreateKnowledgeFromDraft(k, c, p) ==
  /\ items[k].status = "ABSENT"
  /\ items' = [items EXCEPT ![k] =
                 [status |-> "ACTIVE", content |-> c, category |-> p,
                  version |-> 1, expired |-> FALSE]]
  /\ InsertVersion(k, 1, [source |-> "DRAFT_APPROVE", content |-> c,
                          category |-> p])
  /\ Enqueue(k)
  /\ UNCHANGED req

\* Fault variants (here and below, named <definition>_<fault>): the definition
\* with a plausible bug; only mutation runs use them.
BeginEdit_UnknownId(r, op, k, c, p) ==
  /\ req[r] = Idle
  /\ items[k].version < MaxVersion
  /\ req' = [req EXCEPT ![r] =
               [op |-> op, item |-> k, content |-> c, category |-> p,
                seen |-> [version |-> items[k].version,
                          content |-> items[k].content,
                          category |-> items[k].category]]]
  /\ UNCHANGED <<items, versions, tasks>>

\* The read every edit starts with (GetKnowledge: any status), and what the
\* caller asked for.
BeginEdit(r, op, k, c, p) ==
  /\ req[r] = Idle
  /\ Exists(k)
  /\ items[k].version < MaxVersion
  /\ req' = [req EXCEPT ![r] =
               [op |-> op, item |-> k, content |-> c, category |-> p,
                seen |-> [version |-> items[k].version,
                          content |-> items[k].content,
                          category |-> items[k].category]]]
  /\ UNCHANGED <<items, versions, tasks>>

\* UpdateKnowledge; MoveKnowledge is the case c = Keep.
BeginUpdate(r, k, c, p) == BeginEdit(r, "update", k, c, p)

\* RestoreKnowledge refuses an item that is not removed or is past its
\* purge deadline, both judged on what it read.
BeginRestore(r, k) ==
  /\ items[k].status = "REMOVED_SOFT"
  /\ ~items[k].expired
  /\ BeginEdit(r, "restore", k, Keep, Keep)

\* BackfillFromDoc refuses a text equal to the one it read.
BeginBackfill(r, k, c) ==
  /\ c # items[k].content
  /\ BeginEdit(r, "backfill", k, c, Keep)

\* The fields the request writes, with the empty ones filled from the read.
Written(r) ==
  [content |-> IF req[r].content = Keep THEN req[r].seen.content
                                        ELSE req[r].content,
   category |-> IF req[r].category = Keep THEN req[r].seen.category
                                          ELSE req[r].category]

NextVersion_FromCurrentRow(r) == items[req[r].item].version + 1

\* Numbered after the version the request read, not the version the row has.
NextVersion(r) == req[r].seen.version + 1

\* The transaction of an edit, once the item row has become "row".
CommitEdit(r, source, row) ==
  LET k == req[r].item IN
  /\ Insertable(k, NextVersion(r))
  /\ items' = [items EXCEPT ![k] = row]
  /\ InsertVersion(k, NextVersion(r),
                   [source |-> source, content |-> Written(r).content,
                    category |-> Written(r).category])
  /\ Enqueue(k)
  /\ Release(r)

\* UPDATE ... SET title, content_markdown, category, current_version.
CommitUpdate(r) ==
  /\ req[r].op = "update"
  /\ CommitEdit(r, "MANUAL_UPDATE",
                [items[req[r].item] EXCEPT !.content = Written(r).content,
                                           !.category = Written(r).category,
                                           !.version = NextVersion(r)])

\* UPDATE ... SET status='ACTIVE', purge_at=NULL, current_version.
CommitRestore(r) ==
  /\ req[r].op = "restore"
  /\ CommitEdit(r, "RESTORE",
                [items[req[r].item] EXCEPT !.status = "ACTIVE",
                                           !.expired = FALSE,
                                           !.version = NextVersion(r)])

\* UPDATE ... SET content_markdown, current_version.
CommitBackfill(r) ==
  /\ req[r].op = "backfill"
  /\ CommitEdit(r, "DOC_SYNC_BACKFILL",
                [items[req[r].item] EXCEPT !.content = Written(r).content,
                                           !.version = NextVersion(r)])

\* The version INSERT fails and the whole transaction rolls back.
RollBack(r) ==
  /\ req[r].op \in EditOps
  /\ ~Insertable(req[r].item, NextVersion(r))
  /\ Release(r)
  /\ UNCHANGED <<items, versions, tasks>>

\* SoftDeleteKnowledge, first statement: guarded by status='ACTIVE'; it
\* writes no version row.
SoftDelete(r, k) ==
  /\ req[r] = Idle
  /\ items[k].status = "ACTIVE"
  /\ items' = [items EXCEPT ![k].status = "REMOVED_SOFT",
                            ![k].expired = FALSE]
  /\ req' = [req EXCEPT ![r] = [op |-> "notify", item |-> k]]
  /\ UNCHANGED <<versions, tasks>>

\* SoftDeleteKnowledge, second statement, in no transaction with the first.
NotifyRemoved(r) ==
  /\ req[r].op = "notify"
  /\ Enqueue(req[r].item)
  /\ Release(r)
  /\ UNCHANGED <<items, versions>>

\* The process dies, the context is cancelled, or a statement fails for a
\* reason of its own (NotifyRemoved ignores its error): nothing more is
\* written for this request.
Abandon(r) ==
  /\ req[r] # Idle
  /\ Release(r)
  /\ UNCHANGED <<items, versions, tasks>>

\* TriggerSync inserts a task without looking whether the item exists.
TriggerSync(k) ==
  /\ Len(tasks) < MaxTasks
  /\ Enqueue(k)
  /\ UNCHANGED <<items, versions, req>>

\* purge_at of a removed item passes.
RetentionElapses(k) ==
  /\ items[k].status = "REMOVED_SOFT"
  /\ ~items[k].expired
  /\ items' = [items EXCEPT ![k].expired = TRUE]
  /\ UNCHANGED <<versions, tasks, req>>

Purgeable == {k \in Item : items[k].status = "REMOVED_SOFT" /\ items[k].expired}

\* PurgeExpiredKnowledge: one DELETE; the version rows go with the item
\* (ON DELETE CASCADE), its tasks stay.
PurgeExpiredKnowledge ==
  /\ Purgeable # {}
  /\ items' = [k \in Item |-> IF k \in Purgeable THEN NoRow("PURGED")
                                                 ELSE items[k]]
  /\ versions' = [k \in Item |-> IF k \in Purgeable THEN <<>>
                                                    ELSE versions[k]]
  /\ UNCHANGED <<tasks, req>>

RequestStep(r) ==
  \/ \E k \in Item :
       \/ \E c \in Content \cup {Keep}, p \in Path \cup {Keep} :
            BeginUpdate(r, k, c, p)
       \/ BeginRestore(r, k)
       \/ \E c \in Content : BeginBackfill(r, k, c)
       \/ SoftDelete(r, k)
  \/ CommitUpdate(r)
  \/ CommitRestore(r)
  \/ CommitBackfill(r)
  \/ RollBack(r)
  \/ NotifyRemoved(r)
  \/ Abandon(r)

\* Everything but the purge, which app-worker runs.
ServerStep ==
  \/ \E r \in Request : RequestStep(r)
  \/ \E k \in Item, c \in Content, p \in Path : CreateKnowledgeFromDraft(k, c, p)
  \/ \E k \in Item : TriggerSync(k) \/ RetentionElapses(k)

Next == ServerStep \/ PurgeExpiredKnowledge

Spec == Init /\ [][Next]_vars

-----------------------------------------------------------------------------
(* Invariants.                                                             *)

\* An existing item has exactly the version rows 1..current_version, and an
\* id without a row has none: no edit, restore or backfill skips, repeats or
\* orphans a version number, whatever commits between its read and its write
\* (UpdateKnowledge, RestoreKnowledge, BackfillFromDoc, the purge cascade).
LogContiguous ==
  \A k \in Item :
    DOMAIN versions[k] = IF Exists(k) THEN 1..items[k].version ELSE {}

\* The newest version row says what the item says: although the three edits
\* update different columns and fill the row from what they read, the log's
\* head and the item never drift apart.
LogHeadIsItem ==
  \A k \in Item : Exists(k) =>
    /\ items[k].version \in DOMAIN versions[k]
    /\ versions[k][items[k].version].content = items[k].content
    /\ versions[k][items[k].version].category = items[k].category

\* The two together.
LogMatchesItem == LogContiguous /\ LogHeadIsItem

\* What a request in flight read is either still current or provably stale:
\* equal version numbers mean equal texts and categories, and for a restore
\* that the item is still removed.  (No operation returns to an old number;
\* SoftDeleteKnowledge, which keeps the number, changes none of these.)
EqualVersionsAgree ==
  \A r \in Request : req[r].op \in EditOps =>
    LET k == req[r].item
        seen == req[r].seen
    IN /\ items[k].status # "ABSENT"
       /\ Exists(k) => seen.version <= items[k].version
       /\ Exists(k) /\ seen.version = items[k].version =>
            /\ seen.content = items[k].content
            /\ seen.category = items[k].category
            /\ req[r].op = "restore" => items[k].status = "REMOVED_SOFT"

-----------------------------------------------------------------------------
(* Action properties.                                                      *)

\* Request r's transaction commits in this step.
Commits(r) ==
  /\ req[r].op \in EditOps
  /\ req'[r] = Idle
  /\ versions'[req[r].item] # versions[req[r].item]

\* No lost update: a field the request did not ask to change comes out of its
\* commit as it went in, so a move never brings back an old text and a text
\* edit never undoes a move (UpdateKnowledge fills empty arguments from its
\* early read).
NoLostUpdate ==
  [][\A r \in Request : Commits(r) =>
       LET k == req[r].item IN
       /\ req[r].content = Keep => items'[k].content = items[k].content
       /\ req[r].category = Keep => items'[k].category = items[k].category]_vars

\* A restore takes effect only on an item that is removed at that moment:
\* two restores, or a restore delayed over restore and a second removal,
\* never count twice (RestoreKnowledge tests the status on its early read).
RestoreOnlyRemoved ==
  [][\A r \in Request : Commits(r) /\ req[r].op = "restore" =>
       items[req[r].item].status = "REMOVED_SOFT"]_vars

\* Version rows are written once: a committed row never changes, and only
\* the purge of its item takes it away.
LogIsAppendOnly ==
  [][\A k \in Item : \A n \in DOMAIN versions[k] :
       \/ n \in DOMAIN versions'[k] /\ versions'[k][n] = versions[k][n]
       \/ Exists(k) /\ items'[k].status = "PURGED"]_vars

\* A purged item stays purged: no transaction begun before the purge brings
\* back the item or a version row of it.
PurgeIsFinal ==
  [][\A k \in Item : items[k].status = "PURGED" =>
       items'[k].status = "PURGED" /\ versions'[k] = <<>>]_vars

-----------------------------------------------------------------------------
(* The abstract history this module implements.                            *)

LifeOf(status) ==
  CASE status = "ABSENT" -> "none"
    [] status = "ACTIVE" -> "active"
    [] status = "REMOVED_SOFT" -> "removed"
    [] status = "PURGED" -> "gone"

SnapshotOf(row) == [content |-> row.content, category |-> row.category]

\* The refinement mapping: an item's life is its status, its history the
\* texts and paths of its version rows.
lifeBar == [k \in Item |-> LifeOf(items[k].status)]
historyBar == [k \in Item |->
                 [n \in DOMAIN versions[k] |-> SnapshotOf(versions[k][n])]]

History == INSTANCE KnowledgeHistory WITH life <- lifeBar, history <- historyBar

\* Read-then-write edits guarded by a unique index behave as indivisible
\* edits of one linear history per item.
RefinesHistory == History!HSpec
=============================================================================
