---------------------------- MODULE DocSyncProofs ----------------------------
(***************************************************************************)
(* The theorems of DocSync, for any number of workers, items, requests and  *)
(* tasks, any batches and any number of faults.                             *)
(***************************************************************************)
EXTENDS DocSync, KnowledgeStoreProofs, FiniteSetTheorems

-----------------------------------------------------------------------------
(* The inductive invariant.                                                *)

\* A task that is not finished has attempts left.
AttemptsLeft ==
  \A t \in 1..Len(tasks) :
    tasks[t].status \in {"QUEUED", "RETRYING", "RUNNING"} => tasks[t].retries < MaxAttempts

\* What a worker holds at each of its stages.
BatchesFit ==
  \A w \in Worker :
    /\ Len(worker[w].batch) <= BatchLimit
    /\ worker[w].stage \in {"claim", "sweep"} <=> worker[w].batch = <<>>
    /\ worker[w].stage \in {"send", "map"} => worker[w].version # 0

\* The three parts of TaskHeldOnce.
HandsRun ==
  \A w \in Worker : \A i \in DOMAIN worker[w].batch :
    tasks[worker[w].batch[i]].status = "RUNNING"

HandsApart ==
  \A v, w \in Worker :
    \A i \in DOMAIN worker[v].batch : \A j \in DOMAIN worker[w].batch :
      worker[v].batch[i] = worker[w].batch[j] => v = w /\ i = j

OrphansBounded == Cardinality(Orphans) <= faults * BatchLimit

Hands == HandsRun /\ HandsApart /\ OrphansBounded

QueueInv == IInv /\ SyncTypeOK /\ AttemptsLeft /\ BatchesFit /\ Hands

\* v is a version of item k, which may have been purged since.
Known(k, v) == \/ items[k].status = "PURGED"
               \/ Exists(k) /\ v <= items[k].version

\* What a worker has read stays a version of its item, and what it is about to
\* map is in the document, unless it simulates.
Knows(w) ==
  worker[w].stage \in {"send", "map"} =>
    /\ Known(CurrentItem(w), worker[w].version)
    /\ worker[w].stage = "map" /\ w \in credentials =>
         worker[w].version \in document[CurrentItem(w)]

WorkersKnow == \A w \in Worker : Knows(w)

\* A mapping leaves with its item.
MappingsHaveItems == \A k \in Item : mapping[k] # 0 => Exists(k)

SyncInv == QueueInv /\ WorkersKnow /\ MappingsHaveItems /\ MappingIsWritten

-----------------------------------------------------------------------------
(* What the steps of the server do to what workers see.                    *)

Grown == tasks' = tasks \/ \E k \in Item : tasks' = Append(tasks, NewTask(k))

RowsGrow ==
  \A k \in Item :
    /\ items[k].status = "PURGED" => items'[k].status = "PURGED"
    /\ Exists(k) => Exists(k)' /\ items'[k].version >= items[k].version

LEMMA CommitGrows ==
  ASSUME IInv, NEW r \in Request, req[r].op \in EditOps, NEW source, NEW row,
         row.status \in Live, row.version = NextVersion(r), CommitEdit(r, source, row)
  PROVE  Grown /\ RowsGrow
<1>1. req[r].item \in Item /\ req[r].seen.version \in Nat
  BY DEF IInv, TypeOK, Idle, Notifying, Editing, EditRequest, EditOps, Snapshot
<1>2. items'[req[r].item] = row /\ \A k \in Item \ {req[r].item} : items'[k] = items[k]
  BY <1>1 DEF CommitEdit, IInv, TypeOK
<1> Insertable(req[r].item, NextVersion(r))
  BY DEF CommitEdit
<1>3. Exists(req[r].item) /\ items[req[r].item].version = req[r].seen.version
  BY InsertableReadIsFresh DEF Insertable
<1>4. row.version >= items[req[r].item].version
  BY <1>1, <1>3 DEF NextVersion
<1>5. RowsGrow
  BY <1>1, <1>2, <1>3, <1>4 DEF RowsGrow, Exists, Live, IInv, TypeOK, NoRow, ItemRow
<1>6. Grown
  BY <1>1 DEF CommitEdit, Enqueue, Grown
<1> QED
  BY <1>5, <1>6

LEMMA EditGrows ==
  ASSUME IInv, NEW r \in Request,
         CommitUpdate(r) \/ CommitRestore(r) \/ CommitBackfill(r)
  PROVE  Grown /\ RowsGrow
<1> DEFINE k == req[r].item
           updated == [items[k] EXCEPT !.content = Written(r).content,
                                       !.category = Written(r).category,
                                       !.version = NextVersion(r)]
           restored == [items[k] EXCEPT !.status = "ACTIVE", !.expired = FALSE,
                                        !.version = NextVersion(r)]
           backfilled == [items[k] EXCEPT !.content = Written(r).content,
                                          !.version = NextVersion(r)]
<1>1. /\ req[r].op \in EditOps
      /\ Insertable(k, NextVersion(r))
  BY DEF CommitUpdate, CommitRestore, CommitBackfill, CommitEdit, EditOps
<1>2. items[k] \in ItemRow
  BY <1>1, InsertableReadIsFresh
<1>3. \A row \in {updated, restored, backfilled} :
        row.status \in Live /\ row.version = NextVersion(r)
  BY <1>2 DEF ItemRow, Live
<1>4. \E source, row : /\ row \in {updated, restored, backfilled}
                       /\ CommitEdit(r, source, row)
  BY DEF CommitUpdate, CommitRestore, CommitBackfill
<1> HIDE DEF updated, restored, backfilled
<1> QED
  BY <1>1, <1>3, <1>4, CommitGrows

\* A step of the server adds a task at most, and takes no existing item back to
\* an earlier version nor a purged one to life.
LEMMA ServerGrows == ASSUME IInv, ServerStep PROVE Grown /\ RowsGrow
<1>1. items' = items => RowsGrow
  BY DEF RowsGrow, Exists, IInv, TypeOK, NoRow, ItemRow, Live
<1>2. ASSUME NEW k \in Item, NEW row, row.status \in Live, Exists(k),
             row.version = items[k].version, items' = [items EXCEPT ![k] = row],
             tasks' = tasks
      PROVE  Grown /\ RowsGrow
  BY <1>2 DEF Grown, RowsGrow, Exists, IInv, TypeOK, NoRow, ItemRow, Live
<1>3. ASSUME NEW r \in Request, RequestStep(r) PROVE Grown /\ RowsGrow
  <2>1. ASSUME NEW k \in Item, NEW op, NEW c, NEW p, BeginEdit(r, op, k, c, p)
        PROVE  UNCHANGED <<items, tasks>>
    BY <2>1 DEF BeginEdit
  <2>2. ASSUME NEW k \in Item, SoftDelete(r, k) PROVE Grown /\ RowsGrow
    <3> DEFINE row == [items[k] EXCEPT !.status = "REMOVED_SOFT", !.expired = FALSE]
    <3>1. items[k] \in ItemRow /\ Exists(k)
      BY <2>2 DEF SoftDelete, Exists, IInv, TypeOK, NoRow, Live
    <3>2. row.status \in Live /\ row.version = items[k].version
      BY <3>1 DEF ItemRow, Live
    <3>3. items' = [items EXCEPT ![k] = row] /\ tasks' = tasks
      BY <2>2 DEF SoftDelete, IInv, TypeOK
    <3> HIDE DEF row
    <3> QED
      BY <1>2, <3>1, <3>2, <3>3
  <2>3. CASE CommitUpdate(r) \/ CommitRestore(r) \/ CommitBackfill(r)
    BY <2>3, EditGrows
  <2>4. CASE RollBack(r) \/ Abandon(r)
    BY <1>1, <2>4 DEF RollBack, Abandon, Grown
  <2>5. CASE NotifyRemoved(r)
    <3>1. req[r].item \in Item
      BY <2>5 DEF NotifyRemoved, IInv, TypeOK, Idle, Notifying, Editing, EditRequest
    <3> QED
      BY <1>1, <2>5, <3>1 DEF NotifyRemoved, Enqueue, Grown
  <2> QED
    BY <1>1, <1>3, <2>1, <2>2, <2>3, <2>4, <2>5
       DEF RequestStep, BeginUpdate, BeginRestore, BeginBackfill, Grown
<1>4. ASSUME NEW k \in Item, NEW c \in Content, NEW p \in Path,
             CreateKnowledgeFromDraft(k, c, p)
      PROVE  Grown /\ RowsGrow
  BY <1>4 DEF CreateKnowledgeFromDraft, Enqueue, Grown, RowsGrow, Exists, IInv,
              TypeOK, NoRow, ItemRow, Live
<1>5. ASSUME NEW k \in Item, TriggerSync(k) PROVE Grown /\ RowsGrow
  BY <1>1, <1>5 DEF TriggerSync, Enqueue, Grown
<1>6. ASSUME NEW k \in Item, RetentionElapses(k) PROVE Grown /\ RowsGrow
  <2> DEFINE row == [items[k] EXCEPT !.expired = TRUE]
  <2>1. items[k] \in ItemRow /\ Exists(k)
    BY <1>6 DEF RetentionElapses, Exists, IInv, TypeOK, NoRow, Live
  <2>2. row.status \in Live /\ row.version = items[k].version
    BY <2>1 DEF ItemRow, Live
  <2>3. items' = [items EXCEPT ![k] = row] /\ tasks' = tasks
    BY <1>6 DEF RetentionElapses
  <2> HIDE DEF row
  <2> QED
    BY <1>2, <2>1, <2>2, <2>3
<1> QED
  BY <1>3, <1>4, <1>5, <1>6 DEF ServerStep

-----------------------------------------------------------------------------
(* Tasks and batches.                                                      *)

LEMMA HandsMeanHeldOnce == SyncTypeOK /\ Hands => TaskHeldOnce
<1> SUFFICES ASSUME SyncTypeOK, Hands PROVE TaskHeldOnce
  OBVIOUS
<1>1. ASSUME NEW t \in 1..Len(tasks), Holders(t) # {} PROVE tasks[t].status = "RUNNING"
  BY <1>1 DEF Holders, Hands, HandsRun
<1> QED
  BY <1>1 DEF Hands, HandsApart, OrphansBounded, TaskHeldOnce

\* Types of what a worker holds.
LEMMA BatchType ==
  ASSUME QueueInv, NEW w \in Worker
  PROVE  /\ Len(tasks) \in Nat
         /\ \A t \in 1..Len(tasks) : tasks[t] \in Task
         /\ worker[w] \in [stage : Stage, batch : Seq(1..Len(tasks)), version : 0..MaxVersion]
         /\ worker[w].batch \in Seq(1..Len(tasks))
         /\ Len(worker[w].batch) \in Nat
         /\ DOMAIN worker[w].batch = 1..Len(worker[w].batch)
         /\ \A i \in DOMAIN worker[w].batch : worker[w].batch[i] \in 1..Len(tasks)
BY DEF QueueInv, IInv, TypeOK, SyncTypeOK

\* What a worker with a task in hand is about to work on.
LEMMA CurrentType ==
  ASSUME QueueInv, NEW w \in Worker, worker[w].stage \notin {"claim", "sweep"}
  PROVE  /\ Current(w) \in 1..Len(tasks)
         /\ 1 \in DOMAIN worker[w].batch
         /\ Current(w) = worker[w].batch[1]
         /\ tasks[Current(w)].status = "RUNNING"
         /\ tasks[Current(w)].retries + 1 \in 1..MaxAttempts
         /\ CurrentItem(w) \in Item
<1>1. worker[w].batch # <<>> /\ worker[w].batch \in Seq(1..Len(tasks))
  BY BatchType DEF QueueInv, BatchesFit
<1>2. 1 \in DOMAIN worker[w].batch /\ Current(w) = worker[w].batch[1]
  BY <1>1 DEF Current
<1>3. Current(w) \in 1..Len(tasks)
  BY <1>2, BatchType
<1>4. tasks[Current(w)].status = "RUNNING"
  BY <1>2 DEF QueueInv, Hands, HandsRun
<1>5. tasks[Current(w)] \in Task
  BY <1>3, BatchType
<1>6. tasks[Current(w)].retries + 1 \in 1..MaxAttempts
  BY <1>3, <1>4, <1>5 DEF QueueInv, AttemptsLeft, Task, MaxAttempts
<1> QED
  BY <1>2, <1>3, <1>4, <1>5, <1>6 DEF CurrentItem, Task

LEMMA OrphansFinite == QueueInv => IsFiniteSet(Orphans) /\ Cardinality(Orphans) \in Nat
<1> SUFFICES ASSUME QueueInv PROVE IsFiniteSet(Orphans)
  BY FS_CardinalityType
<1>1. Len(tasks) \in Nat
  BY DEF QueueInv, IInv, TypeOK
<1>2. IsFiniteSet(1..Len(tasks))
  BY <1>1, FS_Interval
<1> QED
  BY <1>2, FS_Subset DEF Orphans

\* A step that orphans no task keeps their bound.
LEMMA NoNewOrphans ==
  ASSUME QueueInv, Orphans' \subseteq Orphans, faults' = faults
  PROVE  OrphansBounded'
<1>1. Cardinality(Orphans') <= Cardinality(Orphans) /\ Cardinality(Orphans') \in Nat
  BY OrphansFinite, FS_Subset, FS_CardinalityType
<1>2. Cardinality(Orphans) <= faults * BatchLimit
  BY DEF QueueInv, Hands, OrphansBounded
<1>3. faults \in Nat /\ BatchLimit \in Nat /\ faults * BatchLimit \in Nat
  BY BatchAssumption, FaultAssumption DEF QueueInv, SyncTypeOK
<1>4. Cardinality(Orphans') <= faults * BatchLimit
  BY <1>1, <1>2, <1>3, OrphansFinite
<1> QED
  BY <1>4 DEF OrphansBounded

\* A fault that drops a batch, or less, keeps it.
LEMMA OrphansOfOneFault ==
  ASSUME QueueInv, faults' = faults + 1, NEW D, IsFiniteSet(D),
         Cardinality(D) <= BatchLimit, Orphans' \subseteq Orphans \cup D
  PROVE  OrphansBounded'
<1>1. /\ IsFiniteSet(Orphans \cup D)
      /\ Cardinality(Orphans \cup D) <= Cardinality(Orphans) + Cardinality(D)
      /\ Cardinality(D) \in Nat
      /\ Cardinality(Orphans \cup D) \in Nat
  <2>1. Cardinality(Orphans \cup D) =
          Cardinality(Orphans) + Cardinality(D) - Cardinality(Orphans \cap D)
    BY OrphansFinite, FS_Union
  <2>2. IsFiniteSet(Orphans \cup D) /\ IsFiniteSet(Orphans \cap D)
    BY OrphansFinite, FS_Union, FS_Intersection
  <2> QED
    BY <2>1, <2>2, OrphansFinite, FS_CardinalityType
<1>2. Cardinality(Orphans') <= Cardinality(Orphans \cup D) /\ Cardinality(Orphans') \in Nat
  BY <1>1, FS_Subset, FS_CardinalityType
<1>3. Cardinality(Orphans) <= faults * BatchLimit
  BY DEF QueueInv, Hands, OrphansBounded
<1>4. faults \in Nat /\ BatchLimit \in Nat /\ faults * BatchLimit \in Nat
  BY BatchAssumption, FaultAssumption DEF QueueInv, SyncTypeOK
<1>5. (faults + 1) * BatchLimit = faults * BatchLimit + BatchLimit
  BY <1>4
<1>6. Cardinality(Orphans') <= (faults + 1) * BatchLimit
  BY <1>1, <1>2, <1>3, <1>4, <1>5, OrphansFinite
<1> QED
  BY <1>6 DEF OrphansBounded

-----------------------------------------------------------------------------
(* What the steps do to the tasks in hand.                                 *)

Unmoved == \A v \in Worker : worker'[v].batch = worker[v].batch

\* No batch moves and no task comes to run or stops running.
LEMMA HandsStay ==
  ASSUME QueueInv, Unmoved, faults' = faults, Len(tasks') \in Nat,
         Len(tasks') >= Len(tasks),
         \A t \in 1..Len(tasks) : tasks'[t].status = tasks[t].status,
         \A t \in 1..Len(tasks') : t > Len(tasks) => tasks'[t].status # "RUNNING"
  PROVE  Hands'
<1>1. Len(tasks) \in Nat
  BY DEF QueueInv, IInv, TypeOK
<1>2. HandsRun'
  <2>1. \A w \in Worker : \A i \in DOMAIN worker[w].batch :
          worker[w].batch[i] \in 1..Len(tasks)
    BY BatchType
  <2> QED
    BY <2>1 DEF Unmoved, HandsRun, QueueInv, Hands
<1>3. HandsApart'
  BY DEF Unmoved, HandsApart, QueueInv, Hands
<1>4. Orphans' \subseteq Orphans
  BY <1>1 DEF Orphans, Holders, Unmoved
<1> QED
  BY <1>2, <1>3, <1>4, NoNewOrphans DEF Hands

LEMMA ListOf ==
  ASSUME NEW S, NEW n \in Nat, NEW b \in [1..n -> S]
  PROVE  b \in Seq(S) /\ Len(b) = n /\ DOMAIN b = 1..n /\ \A i \in 1..n : b[i] \in S
OBVIOUS

LEMMA ListInMore == ASSUME NEW S, NEW T, S \subseteq T PROVE Seq(S) \subseteq Seq(T)
<1> SUFFICES ASSUME NEW b \in Seq(S) PROVE b \in Seq(T)
  OBVIOUS
<1>1. Len(b) \in Nat /\ b \in [1..Len(b) -> S]
  OBVIOUS
<1>2. b \in [1..Len(b) -> T]
  BY <1>1
<1> QED
  BY <1>1, <1>2, ListOf

LEMMA EmptyList == ASSUME NEW S, NEW b \in Seq(S) PROVE b = <<>> <=> Len(b) = 0
OBVIOUS

\* What is left of a sequence without its head.
LEMMA TailOf ==
  ASSUME NEW S, NEW b \in Seq(S), b # <<>>
  PROVE  /\ Tail(b) \in Seq(S)
         /\ Len(Tail(b)) = Len(b) - 1
         /\ DOMAIN Tail(b) = 1..(Len(b) - 1)
         /\ \A i \in DOMAIN Tail(b) : i + 1 \in DOMAIN b /\ Tail(b)[i] = b[i + 1]
<1>1. Len(b) \in Nat /\ DOMAIN b = 1..Len(b) /\ Len(b) # 0
  OBVIOUS
<1>2. Tail(b) \in Seq(S)
  OBVIOUS
<1>3. Len(Tail(b)) = Len(b) - 1
  BY <1>1
<1>4. DOMAIN Tail(b) = 1..(Len(b) - 1)
  BY <1>2, <1>3
<1>5. ASSUME NEW i \in 1..(Len(b) - 1) PROVE i + 1 \in DOMAIN b /\ Tail(b)[i] = b[i + 1]
  BY <1>1
<1> QED
  BY <1>2, <1>3, <1>4, <1>5

LEMMA Dropped ==
  ASSUME QueueInv, NEW w \in Worker, worker[w].stage \notin {"claim", "sweep"}
  PROVE  LET b == worker[w].batch IN
         /\ Tail(b) \in Seq(1..Len(tasks))
         /\ Len(Tail(b)) = Len(b) - 1
         /\ DOMAIN Tail(b) = 1..(Len(b) - 1)
         /\ \A i \in DOMAIN Tail(b) : i + 1 \in DOMAIN b /\ Tail(b)[i] = b[i + 1]
<1>1. worker[w].batch # <<>> /\ worker[w].batch \in Seq(1..Len(tasks))
  BY BatchType DEF QueueInv, BatchesFit
<1> QED
  BY <1>1, TailOf

\* The head of a batch is dropped with a mark, or without one by a fault.
LEMMA HandsDropHead ==
  ASSUME QueueInv, NEW w \in Worker, worker[w].stage \notin {"claim", "sweep"},
         \A v \in Worker \ {w} : worker'[v].batch = worker[v].batch,
         worker'[w].batch = Tail(worker[w].batch),
         Len(tasks') = Len(tasks),
         \A t \in 1..Len(tasks) : t # Current(w) => tasks'[t].status = tasks[t].status,
         \/ faults' = faults /\ tasks'[Current(w)].status # "RUNNING"
         \/ faults' = faults + 1 /\ tasks' = tasks
  PROVE  Hands'
<1> DEFINE b == worker[w].batch
<1>1. /\ Len(tasks) \in Nat /\ Len(b) \in Nat /\ DOMAIN b = 1..Len(b)
      /\ \A v \in Worker : \A i \in DOMAIN worker[v].batch :
           worker[v].batch[i] \in 1..Len(tasks)
  BY BatchType
<1>2. /\ 1 \in DOMAIN b /\ Current(w) = b[1] /\ Current(w) \in 1..Len(tasks)
  BY CurrentType
<1>3. /\ DOMAIN Tail(b) = 1..(Len(b) - 1)
      /\ \A i \in DOMAIN Tail(b) : i + 1 \in DOMAIN b /\ i + 1 # 1 /\ Tail(b)[i] = b[i + 1]
  BY <1>1, Dropped
<1>4. HandsRun /\ HandsApart
  BY DEF QueueInv, Hands
<1>5. \A v \in Worker : \A i \in DOMAIN worker'[v].batch :
        \E j \in DOMAIN worker[v].batch :
          /\ worker'[v].batch[i] = worker[v].batch[j]
          /\ v = w => j = i + 1 /\ j # 1 /\ i \in Nat
          /\ v # w => j = i
  <2> SUFFICES ASSUME NEW v \in Worker, NEW i \in DOMAIN worker'[v].batch
               PROVE  \E j \in DOMAIN worker[v].batch :
                        /\ worker'[v].batch[i] = worker[v].batch[j]
                        /\ v = w => j = i + 1 /\ j # 1 /\ i \in Nat
                        /\ v # w => j = i
    OBVIOUS
  <2>1. CASE v = w
    <3>1. i \in 1..(Len(b) - 1) /\ worker'[v].batch[i] = b[i + 1] /\ i + 1 \in DOMAIN b
      BY <1>3, <2>1
    <3> QED
      BY <1>1, <2>1, <3>1
  <2>2. CASE v # w
    BY <2>2
  <2> QED
    BY <2>1, <2>2
<1>6. \A v \in Worker : \A i \in DOMAIN worker'[v].batch :
        worker'[v].batch[i] # Current(w)
  <2> SUFFICES ASSUME NEW v \in Worker, NEW i \in DOMAIN worker'[v].batch
               PROVE  worker'[v].batch[i] # Current(w)
    OBVIOUS
  <2>1. PICK j \in DOMAIN worker[v].batch :
          worker'[v].batch[i] = worker[v].batch[j] /\ (v = w => j # 1)
    BY <1>5
  <2>2. worker[v].batch[j] = worker[w].batch[1] => v = w /\ j = 1
    BY <1>2, <1>4 DEF HandsApart
  <2> QED
    BY <1>2, <2>1, <2>2
<1>7. HandsRun'
  BY <1>1, <1>4, <1>5, <1>6 DEF HandsRun
<1>8. HandsApart'
  <2> SUFFICES ASSUME NEW u \in Worker, NEW v \in Worker,
                      NEW i \in DOMAIN worker'[u].batch, NEW j \in DOMAIN worker'[v].batch,
                      worker'[u].batch[i] = worker'[v].batch[j]
               PROVE  u = v /\ i = j
    BY DEF HandsApart
  <2>1. PICK m \in DOMAIN worker[u].batch : /\ worker'[u].batch[i] = worker[u].batch[m]
                                            /\ u = w => m = i + 1 /\ i \in Nat
                                            /\ u # w => m = i
    BY <1>5
  <2>2. PICK n \in DOMAIN worker[v].batch : /\ worker'[v].batch[j] = worker[v].batch[n]
                                            /\ v = w => n = j + 1 /\ j \in Nat
                                            /\ v # w => n = j
    BY <1>5
  <2>3. worker[u].batch[m] = worker[v].batch[n]
    BY <2>1, <2>2
  <2>4. u = v /\ m = n
    BY <1>4, <2>3 DEF HandsApart
  <2> QED
    BY <2>1, <2>2, <2>4
<1>9. Orphans' \subseteq Orphans \cup {Current(w)}
  <2> SUFFICES ASSUME NEW t \in Orphans', t # Current(w) PROVE t \in Orphans
    OBVIOUS
  <2>1. t \in 1..Len(tasks) /\ tasks[t].status = "RUNNING"
    BY DEF Orphans
  <2>2. ASSUME NEW v \in Worker, NEW j \in DOMAIN worker[v].batch, worker[v].batch[j] = t
        PROVE  FALSE
    <3>1. CASE v # w
      BY <2>2, <3>1 DEF Orphans, Holders
    <3>2. CASE v = w
      <4>1. j # 1 /\ j - 1 \in DOMAIN Tail(b) /\ (j - 1) + 1 = j
        BY <1>1, <1>2, <1>3, <2>2, <3>2
      <4>2. worker'[w].batch[j - 1] = t
        BY <1>3, <2>2, <3>2, <4>1
      <4> QED
        BY <4>1, <4>2 DEF Orphans, Holders
    <3> QED
      BY <3>1, <3>2
  <2> QED
    BY <2>1, <2>2 DEF Orphans, Holders
<1>10. CASE faults' = faults /\ tasks'[Current(w)].status # "RUNNING"
  <2>1. Orphans' \subseteq Orphans
    BY <1>9, <1>10 DEF Orphans
  <2> QED
    BY <1>7, <1>8, <1>10, <2>1, NoNewOrphans DEF Hands
<1>11. CASE faults' = faults + 1
  <2>1. IsFiniteSet({Current(w)}) /\ Cardinality({Current(w)}) = 1
    BY FS_Singleton
  <2> QED
    BY <1>7, <1>8, <1>9, <1>11, <2>1, OrphansOfOneFault, BatchAssumption DEF Hands
<1> QED
  BY <1>10, <1>11

\* A worker dies with its batch.
LEMMA HandsLost ==
  ASSUME QueueInv, NEW w \in Worker, faults' = faults + 1, tasks' = tasks,
         \A v \in Worker \ {w} : worker'[v].batch = worker[v].batch,
         worker'[w].batch = <<>>
  PROVE  Hands'
<1> DEFINE b == worker[w].batch
           D == {t \in 1..Len(tasks) : \E i \in DOMAIN b : b[i] = t}
<1>1. /\ Len(tasks) \in Nat /\ Len(b) \in Nat /\ DOMAIN b = 1..Len(b)
      /\ b \in Seq(1..Len(tasks))
      /\ \A i \in DOMAIN b : b[i] \in 1..Len(tasks)
  BY BatchType
<1>2. DOMAIN worker'[w].batch = {}
  BY EmptyLog
<1>3. HandsRun' /\ HandsApart'
  BY <1>2 DEF HandsRun, HandsApart, QueueInv, Hands
<1>4. Orphans' \subseteq Orphans \cup D
  BY DEF Orphans, Holders
<1>5. IsFiniteSet(D) /\ Cardinality(D) <= BatchLimit
  <2>1. b \in Surjection(1..Len(b), D)
    BY <1>1 DEF Surjection
  <2>2. IsFiniteSet(1..Len(b)) /\ Cardinality(1..Len(b)) = Len(b)
    <3>1. ASSUME NEW n \in Nat PROVE IsFiniteSet(1..n) /\ Cardinality(1..n) = n
      BY FS_Interval
    <3> QED
      BY <1>1, <3>1
  <2>3. IsFiniteSet(D) /\ Cardinality(D) <= Len(b)
    <3> HIDE DEF D, b
    <3> QED
      BY <2>1, <2>2, FS_Surjection
  <2>4. Len(b) <= BatchLimit /\ Cardinality(D) \in Nat
    BY <2>3, FS_CardinalityType DEF QueueInv, BatchesFit
  <2> QED
    BY <1>1, <2>3, <2>4, BatchAssumption
<1> HIDE DEF D
<1>6. OrphansBounded'
  BY <1>4, <1>5, OrphansOfOneFault
<1> QED
  BY <1>3, <1>6 DEF Hands

\* The rows taken by a claim are in its batch, each once, and no more of them
\* than the limit.
LEMMA ClaimedBatch ==
  ASSUME QueueInv, NEW b \in [1..Cardinality(Taken) -> Taken], Lists(b)
  PROVE  /\ b \in Seq(1..Len(tasks))
         /\ Len(b) \in Nat /\ DOMAIN b = 1..Len(b) /\ Len(b) <= BatchLimit
         /\ \A t : t \in Taken <=> \E i \in DOMAIN b : b[i] = t
         /\ \A i, j \in DOMAIN b : b[i] = b[j] => i = j
<1> DEFINE n == Cardinality(Taken)
<1>1. Len(tasks) \in Nat /\ IsFiniteSet(1..Len(tasks))
  <2>1. Len(tasks) \in Nat
    BY DEF QueueInv, IInv, TypeOK
  <2>2. ASSUME NEW m \in Nat PROVE IsFiniteSet(1..m)
    BY FS_Interval
  <2> QED
    BY <2>1, <2>2
<1>2. Taken \subseteq Runnable /\ Runnable \subseteq 1..Len(tasks)
  BY DEF Taken, Runnable
<1>3. IsFiniteSet(Taken) /\ IsFiniteSet(Runnable) /\ n \in Nat
  BY <1>1, <1>2, FS_Subset, FS_CardinalityType
<1> HIDE DEF n
<1>4. /\ b \in Seq(1..Len(tasks)) /\ Len(b) = n /\ DOMAIN b = 1..n
      /\ \A i \in 1..n : b[i] \in 1..Len(tasks)
  <2>1. b \in [1..n -> 1..Len(tasks)]
    BY <1>2 DEF n
  <2> QED
    BY <1>3, <2>1, ListOf
<1>5. \A t : t \in Taken <=> \E i \in DOMAIN b : b[i] = t
  BY DEF Lists
<1>6. \A i, j \in DOMAIN b : b[i] \in Nat /\ (i < j => b[i] < b[j])
  <2>1. \A m \in 1..Len(tasks) : m \in Nat
    BY <1>1
  <2>2. \A i \in DOMAIN b : b[i] \in 1..Len(tasks)
    BY <1>4
  <2> QED
    BY <2>1, <2>2 DEF Lists
<1>7. \A i, j \in DOMAIN b : b[i] = b[j] => i = j
  <2> SUFFICES ASSUME NEW i \in DOMAIN b, NEW j \in DOMAIN b, b[i] = b[j] PROVE i = j
    OBVIOUS
  <2>1. i \in Nat /\ j \in Nat /\ b[i] \in Nat
    BY <1>3, <1>4, <1>6
  <2>2. ~(i < j) /\ ~(j < i)
    BY <1>6, <2>1
  <2> QED
    BY <2>1, <2>2
<1>8. n <= BatchLimit
  <2>1. CASE n = 0
    BY <2>1, BatchAssumption
  <2>2. CASE n # 0
    <3>1. n \in DOMAIN b /\ b[n] \in Taken
      BY <1>3, <1>4, <1>5, <2>2
    <3>2. \A t \in Taken : t <= b[n]
      <4> SUFFICES ASSUME NEW i \in DOMAIN b PROVE b[i] <= b[n]
        BY <1>5
      <4>1. i \in Nat /\ i <= n
        BY <1>3, <1>4
      <4> QED
        BY <1>3, <1>6, <3>1, <4>1
    <3> DEFINE Below == {u \in Runnable : u <= b[n]}
    <3>3. Taken \subseteq Below
      BY <1>2, <3>2
    <3>4. Cardinality(Below) <= BatchLimit
      BY <3>1 DEF Taken
    <3>5. IsFiniteSet(Below)
      BY <1>3, FS_Subset
    <3> HIDE DEF Below
    <3>6. n <= Cardinality(Below) /\ Cardinality(Below) \in Nat
      BY <3>3, <3>5, FS_Subset, FS_CardinalityType DEF n
    <3> QED
      BY <1>3, <3>4, <3>6, BatchAssumption
  <2> QED
    BY <2>1, <2>2
<1> QED
  BY <1>3, <1>4, <1>5, <1>7, <1>8

LEMMA ClaimedTasks ==
  ASSUME QueueInv, NEW w \in Worker, Claim(w)
  PROVE  /\ Len(tasks) \in Nat /\ Len(tasks') = Len(tasks)
         /\ \A t \in 1..Len(tasks) :
              /\ tasks'[t] = IF t \in Taken THEN [tasks[t] EXCEPT !.status = "RUNNING"]
                                            ELSE tasks[t]
              /\ tasks'[t].status = IF t \in Taken THEN "RUNNING" ELSE tasks[t].status
         /\ tasks' \in Seq(Task)
<1>1. Len(tasks) \in Nat /\ \A t \in 1..Len(tasks) : tasks[t] \in Task
  BY DEF QueueInv, IInv, TypeOK
<1>2. tasks' = [t \in 1..Len(tasks) |->
                  IF t \in Taken THEN [tasks[t] EXCEPT !.status = "RUNNING"] ELSE tasks[t]]
  BY DEF Claim
<1> HIDE DEF Taken
<1>3. Len(tasks') = Len(tasks)
  BY <1>1, <1>2
<1>4. ASSUME NEW t \in 1..Len(tasks)
      PROVE  /\ tasks'[t] = IF t \in Taken THEN [tasks[t] EXCEPT !.status = "RUNNING"]
                                            ELSE tasks[t]
             /\ tasks'[t].status = IF t \in Taken THEN "RUNNING" ELSE tasks[t].status
             /\ tasks'[t] \in Task
  BY <1>1, <1>2 DEF Task
<1>5. tasks' \in [1..Len(tasks) -> Task]
  BY <1>2, <1>4
<1> QED
  BY <1>1, <1>3, <1>4, <1>5

\* A claim takes tasks nobody holds and marks what it takes.
LEMMA HandsClaim ==
  ASSUME QueueInv, NEW w \in Worker, Claim(w)
  PROVE  Hands'
<1>1. PICK b \in [1..Cardinality(Taken) -> Taken] : Lists(b) /\ Receives(w, b)
  BY DEF Claim
<1>2. /\ b \in Seq(1..Len(tasks)) /\ Len(b) \in Nat /\ DOMAIN b = 1..Len(b)
      /\ \A t : t \in Taken <=> \E i \in DOMAIN b : b[i] = t
      /\ \A i, j \in DOMAIN b : b[i] = b[j] => i = j
  BY <1>1, ClaimedBatch
<1>3. /\ worker'[w].batch = b
      /\ \A v \in Worker \ {w} : worker'[v].batch = worker[v].batch
      /\ worker[w].batch = <<>>
  BY <1>1 DEF Receives, Claim, QueueInv, SyncTypeOK, BatchesFit
<1>4. /\ Len(tasks) \in Nat /\ Len(tasks') = Len(tasks)
      /\ \A t \in 1..Len(tasks) :
           tasks'[t].status = IF t \in Taken THEN "RUNNING" ELSE tasks[t].status
  BY ClaimedTasks
<1>5. \A t \in Taken : t \in 1..Len(tasks) /\ tasks[t].status # "RUNNING"
  BY DEF Taken, Runnable
<1>6. /\ HandsRun /\ HandsApart
      /\ \A v \in Worker : \A i \in DOMAIN worker[v].batch :
           worker[v].batch[i] \in 1..Len(tasks)
  BY BatchType DEF QueueInv, Hands
<1>7. \A v \in Worker : \A i \in DOMAIN worker[v].batch : worker[v].batch[i] \notin Taken
  BY <1>5, <1>6 DEF HandsRun
<1>8. HandsRun'
  <2> SUFFICES ASSUME NEW v \in Worker, NEW i \in DOMAIN worker'[v].batch
               PROVE  tasks'[worker'[v].batch[i]].status = "RUNNING"
    BY DEF HandsRun
  <2>1. CASE v = w
    BY <1>2, <1>3, <1>4, <1>5, <2>1
  <2>2. CASE v # w
    BY <1>3, <1>4, <1>6, <2>2 DEF HandsRun
  <2> QED
    BY <2>1, <2>2
<1>9. HandsApart'
  <2> SUFFICES ASSUME NEW u \in Worker, NEW v \in Worker,
                      NEW i \in DOMAIN worker'[u].batch, NEW j \in DOMAIN worker'[v].batch,
                      worker'[u].batch[i] = worker'[v].batch[j]
               PROVE  u = v /\ i = j
    BY DEF HandsApart
  <2>1. CASE u = w /\ v = w
    BY <1>2, <1>3, <2>1
  <2>2. CASE u # w /\ v # w
    BY <1>3, <1>6, <2>2 DEF HandsApart
  <2>3. \A x \in Worker : \A m \in DOMAIN worker'[x].batch :
          worker'[x].batch[m] \in Taken <=> x = w
    <3>1. ASSUME NEW m \in DOMAIN worker'[w].batch PROVE worker'[w].batch[m] \in Taken
      BY <1>2, <1>3
    <3>2. ASSUME NEW x \in Worker \ {w}, NEW m \in DOMAIN worker'[x].batch
          PROVE  worker'[x].batch[m] \notin Taken
      BY <1>3, <1>7
    <3> QED
      BY <3>1, <3>2
  <2>4. CASE ~(u = w <=> v = w)
    BY <2>3, <2>4
  <2> QED
    BY <2>1, <2>2, <2>4
<1>10. Orphans' \subseteq Orphans
  <2> SUFFICES ASSUME NEW t \in Orphans' PROVE t \in Orphans
    OBVIOUS
  <2>1. t \in 1..Len(tasks) /\ tasks'[t].status = "RUNNING" /\ Holders(t)' = {}
    BY <1>4 DEF Orphans
  <2>2. t \notin Taken
    <3>1. \A i \in DOMAIN worker'[w].batch : worker'[w].batch[i] # t
      BY <2>1 DEF Holders
    <3> QED
      BY <1>2, <1>3, <3>1
  <2>3. \A v \in Worker \ {w} : v \notin Holders(t)
    BY <1>3, <2>1 DEF Holders
  <2>4. w \notin Holders(t)
    BY <1>3, EmptyLog DEF Holders
  <2>5. Holders(t) = {}
    BY <2>3, <2>4 DEF Holders
  <2> QED
    BY <1>4, <2>1, <2>2, <2>5 DEF Orphans
<1>11. faults' = faults
  BY DEF Claim
<1> QED
  BY <1>8, <1>9, <1>10, <1>11, NoNewOrphans DEF Hands

-----------------------------------------------------------------------------
(* The invariant of the queue holds.                                       *)

LEMMA SyncInitEstablishesQueueInv == SyncInit => QueueInv
<1> SUFFICES ASSUME SyncInit PROVE QueueInv
  OBVIOUS
<1>1. IInv
  BY InitEstablishesIInv DEF SyncInit
<1>2. tasks = <<>> /\ Len(tasks) = 0 /\ tasks \in Seq(Task)
  BY DEF SyncInit, Init
<1>3. \A w \in Worker : worker[w] = Claiming
  BY DEF SyncInit
<1>4. DOMAIN Claiming.batch = {} /\ Len(Claiming.batch) = 0
  BY EmptyLog DEF Claiming
<1>5. SyncTypeOK
  <2>1. Claiming \in [stage : Stage, batch : Seq(1..Len(tasks)), version : 0..MaxVersion]
    BY BoundAssumption DEF Claiming, Stage
  <2> HIDE DEF Claiming
  <2> QED
    BY <2>1, BoundAssumption, FaultAssumption DEF SyncInit, SyncTypeOK
<1>6. AttemptsLeft
  BY <1>2 DEF AttemptsLeft
<1>7. BatchesFit
  BY <1>3, <1>4, BatchAssumption DEF BatchesFit, Claiming
<1>8. Hands
  <2>1. HandsRun /\ HandsApart
    BY <1>3, <1>4 DEF HandsRun, HandsApart
  <2>2. Orphans = {}
    BY <1>2 DEF Orphans
  <2>3. faults * BatchLimit = 0 /\ Cardinality(Orphans) = 0
    BY <2>2, FS_EmptySet, BatchAssumption DEF SyncInit
  <2> QED
    BY <2>1, <2>3 DEF Hands, OrphansBounded
<1> QED
  BY <1>1, <1>5, <1>6, <1>7, <1>8 DEF QueueInv

\* Marking tasks leaves the store's own invariant alone.
LEMMA MarkingKeepsIInv ==
  ASSUME IInv, UNCHANGED <<items, versions, req>>, tasks' \in Seq(Task)
  PROVE  IInv'
<1>1. TypeOK'
  BY DEF IInv, TypeOK
<1> QED
  BY <1>1 DEF IInv, LogContiguous, LogHeadIsItem, EqualVersionsAgree, Exists

\* A worker moves on to a place where it may be.
WorkerPlace == [stage : Stage, batch : Seq(1..Len(tasks)), version : 0..MaxVersion]

LEMMA WorkerMoves ==
  ASSUME QueueInv, NEW w \in Worker, worker' \in [Worker -> WorkerPlace],
         \A v \in Worker \ {w} : worker'[v] = worker[v],
         Len(tasks') = Len(tasks),
         Len(worker'[w].batch) <= BatchLimit,
         worker'[w].stage \in {"claim", "sweep"} <=> worker'[w].batch = <<>>,
         worker'[w].stage \in {"send", "map"} => worker'[w].version # 0
  PROVE  worker' \in [Worker -> WorkerPlace'] /\ BatchesFit'
<1>1. worker' \in [Worker -> WorkerPlace']
  BY DEF WorkerPlace
<1>2. BatchesFit'
  BY DEF QueueInv, BatchesFit
<1> QED
  BY <1>1, <1>2

LEMMA ServerKeepsQueue ==
  ASSUME QueueInv, ServerStep, UNCHANGED syncVars
  PROVE  QueueInv'
<1>1. IInv'
  BY NextKeepsIInv DEF QueueInv, Next
<1>2. Grown /\ tasks \in Seq(Task) /\ tasks' \in Seq(Task)
  BY <1>1, ServerGrows DEF QueueInv, IInv, TypeOK
<1>3. /\ Len(tasks) \in Nat /\ Len(tasks') \in Nat /\ Len(tasks') >= Len(tasks)
      /\ \A t \in 1..Len(tasks) : tasks'[t] = tasks[t]
      /\ \A t \in 1..Len(tasks') : t > Len(tasks) =>
           tasks'[t].status = "QUEUED" /\ tasks'[t].retries = 0
  <2>1. CASE tasks' = tasks
    BY <1>2, <2>1
  <2>2. ASSUME NEW k \in Item, tasks' = Append(tasks, NewTask(k))
        PROVE  /\ Len(tasks') = Len(tasks) + 1
               /\ \A t \in 1..Len(tasks) : tasks'[t] = tasks[t]
               /\ tasks'[Len(tasks) + 1] = NewTask(k)
    BY <1>2, <2>2
  <2>3. ASSUME NEW k \in Item, tasks' = Append(tasks, NewTask(k))
        PROVE  <1>3!:
    BY <1>2, <2>2, <2>3 DEF NewTask
  <2> QED
    BY <1>2, <2>1, <2>3 DEF Grown
<1>4. SyncTypeOK'
  <2>1. 1..Len(tasks) \subseteq 1..Len(tasks')
    BY <1>3
  <2>2. Seq(1..Len(tasks)) \subseteq Seq(1..Len(tasks'))
    BY <2>1, ListInMore
  <2> QED
    BY <2>2 DEF QueueInv, SyncTypeOK, syncVars
<1>5. AttemptsLeft'
  BY <1>3 DEF QueueInv, AttemptsLeft, MaxAttempts
<1>6. BatchesFit'
  BY DEF QueueInv, BatchesFit, syncVars
<1>7. Hands'
  BY <1>3, HandsStay DEF Unmoved, syncVars
<1> QED
  BY <1>1, <1>4, <1>5, <1>6, <1>7 DEF QueueInv

\* The steps of a worker that leave the tables of the store alone.
LEMMA WorkingKeepsQueue ==
  ASSUME QueueInv, NEW w \in Worker,
         ReadItem(w) \/ Send(w) \/ SendFails(w) \/ WriteMapping(w) \/ DocLinkFails(w)
  PROVE  QueueInv'
<1>1. /\ UNCHANGED <<items, versions, tasks, req, faults>>
      /\ worker[w].stage \in {"read", "send", "map", "succeeded"}
  BY DEF ReadItem, Send, SendFails, WriteMapping, DocLinkFails, vars
<1>2. /\ Current(w) \in 1..Len(tasks) /\ CurrentItem(w) \in Item
      /\ worker[w].batch # <<>>
  BY <1>1, CurrentType DEF QueueInv, BatchesFit
<1>3. /\ items[CurrentItem(w)].version \in 0..MaxVersion
      /\ Exists(CurrentItem(w)) => items[CurrentItem(w)].version # 0
  BY <1>2, BoundAssumption DEF QueueInv, IInv, TypeOK, ItemRow, NoRow, Exists, Live
<1>4. /\ worker' \in [Worker -> WorkerPlace]
      /\ \A v \in Worker \ {w} : worker'[v] = worker[v]
      /\ worker'[w].batch = worker[w].batch
      /\ worker'[w].stage \notin {"claim", "sweep"}
      /\ worker'[w].stage \in {"send", "map"} => worker'[w].version # 0
  <2>1. /\ worker \in [Worker -> WorkerPlace]
        /\ worker[w].stage \in {"send", "map"} => worker[w].version # 0
    BY DEF QueueInv, SyncTypeOK, BatchesFit, WorkerPlace
  <2>2. CASE ReadItem(w)
    BY <1>3, <2>1, <2>2 DEF ReadItem, WorkerPlace, Stage
  <2>3. ASSUME NEW s \in Stage, To(w, s), s \notin {"claim", "sweep"},
               s \in {"send", "map"} => worker[w].version # 0
        PROVE  <1>4!:
    BY <2>1, <2>3 DEF To, WorkerPlace
  <2>4. CASE Send(w)
    BY <2>1, <2>3, <2>4 DEF Send, Stage
  <2>5. CASE To(w, "failed") \/ To(w, "succeeded")
    BY <2>3, <2>5 DEF Stage
  <2> QED
    BY <2>2, <2>4, <2>5 DEF SendFails, WriteMapping, DocLinkFails
<1>5. worker' \in [Worker -> WorkerPlace'] /\ BatchesFit'
  BY <1>1, <1>2, <1>4, WorkerMoves DEF QueueInv, BatchesFit
<1>6. SyncTypeOK'
  <2>1. document' \in [Item -> SUBSET (1..MaxVersion)]
    <3>1. CASE UNCHANGED document
      BY <3>1 DEF QueueInv, SyncTypeOK
    <3>2. CASE worker[w].stage = "send" /\ AppendBlocks(w)
      <4>1. worker[w].version \in 1..MaxVersion
        BY <3>2, BatchType, BoundAssumption DEF QueueInv, BatchesFit
      <4> QED
        BY <1>2, <3>2, <4>1 DEF AppendBlocks, QueueInv, SyncTypeOK
    <3> QED
      BY <3>1, <3>2 DEF ReadItem, Send, SendFails, WriteMapping, DocLinkFails
  <2>2. mapping' \in [Item -> 0..MaxVersion]
    BY <1>2, BatchType
       DEF QueueInv, SyncTypeOK, ReadItem, Send, SendFails, WriteMapping, DocLinkFails
  <2>3. simulated' \subseteq Item /\ credentials' = credentials
    BY <1>2
       DEF QueueInv, SyncTypeOK, ReadItem, Send, SendFails, WriteMapping, DocLinkFails
  <2> QED
    BY <1>1, <1>5, <2>1, <2>2, <2>3 DEF QueueInv, SyncTypeOK, WorkerPlace
<1>7. Hands'
  <2>1. Unmoved
    BY <1>4 DEF Unmoved
  <2>2. /\ Len(tasks) \in Nat /\ tasks' = tasks /\ faults' = faults
        /\ \A t \in 1..Len(tasks') : ~(t > Len(tasks))
    BY <1>1 DEF QueueInv, IInv, TypeOK
  <2> QED
    BY <2>1, <2>2, HandsStay
<1>8. IInv'
  BY <1>1, MarkingKeepsIInv DEF QueueInv, IInv, TypeOK
<1>9. AttemptsLeft'
  BY <1>1 DEF QueueInv, AttemptsLeft
<1> QED
  BY <1>5, <1>6, <1>7, <1>8, <1>9 DEF QueueInv

\* What a mark does to the table.
LEMMA MarkedTasks ==
  ASSUME QueueInv, NEW w \in Worker,
         MarkTaskSuccess(w) \/ MarkTaskFailure(w)
  PROVE  /\ Len(tasks') = Len(tasks) /\ tasks' \in Seq(Task)
         /\ \A t \in 1..Len(tasks) : t # Current(w) => tasks'[t] = tasks[t]
         /\ tasks'[Current(w)].target = tasks[Current(w)].target
         /\ \/ tasks'[Current(w)].status \in {"SUCCESS", "FAILED"}
            \/ /\ tasks'[Current(w)].status = "RETRYING"
               /\ tasks'[Current(w)].retries < MaxAttempts
<1> DEFINE n == tasks[Current(w)].retries + 1
           succeeded == [tasks[Current(w)] EXCEPT !.status = "SUCCESS"]
           result == IF n >= MaxAttempts THEN "FAILED" ELSE "RETRYING"
           failed == [tasks[Current(w)] EXCEPT !.retries = n, !.due = FALSE,
                                               !.status = result]
<1>1. /\ tasks \in Seq(Task) /\ Current(w) \in 1..Len(tasks) /\ n \in 1..MaxAttempts
      /\ tasks[Current(w)] \in Task
  <2>1. worker[w].stage \notin {"claim", "sweep"}
    BY DEF MarkTaskSuccess, MarkTaskFailure
  <2> QED
    BY <2>1, CurrentType, BatchType DEF QueueInv, IInv, TypeOK
<1>2. /\ succeeded \in Task /\ succeeded.target = tasks[Current(w)].target
      /\ succeeded.status = "SUCCESS"
  BY <1>1 DEF Task
<1>3. /\ failed \in Task /\ failed.target = tasks[Current(w)].target
      /\ \/ failed.status = "FAILED"
         \/ failed.status = "RETRYING" /\ failed.retries < MaxAttempts
  <2>1. /\ n \in 0..MaxAttempts
        /\ result = "FAILED" \/ (result = "RETRYING" /\ n < MaxAttempts)
    BY <1>1 DEF MaxAttempts
  <2> HIDE DEF n, result
  <2> QED
    BY <1>1, <2>1 DEF Task
<1>4. CASE MarkTaskSuccess(w)
  <2>1. tasks' = [tasks EXCEPT ![Current(w)] = succeeded]
    BY <1>4 DEF MarkTaskSuccess
  <2> HIDE DEF succeeded
  <2> QED
    BY <1>1, <1>2, <2>1
<1>5. CASE MarkTaskFailure(w)
  <2>1. tasks' = [tasks EXCEPT ![Current(w)] = failed]
    BY <1>5 DEF MarkTaskFailure
  <2> HIDE DEF failed
  <2> QED
    BY <1>1, <1>3, <2>1
<1> QED
  BY <1>4, <1>5

\* A worker goes on to its next task.
LEMMA AdvanceMoves ==
  ASSUME QueueInv, NEW w \in Worker, worker[w].stage \notin {"claim", "sweep"},
         Advance(w), Len(tasks') = Len(tasks)
  PROVE  /\ worker' \in [Worker -> WorkerPlace'] /\ BatchesFit'
         /\ \A v \in Worker \ {w} : worker'[v] = worker[v]
         /\ worker'[w].batch = Tail(worker[w].batch)
         /\ worker'[w].stage \in {"read", "sweep"}
<1> DEFINE b == worker[w].batch
           place == [stage |-> IF Len(b) = 1 THEN "sweep" ELSE "read",
                     batch |-> Tail(b), version |-> 0]
<1>1. /\ Tail(b) \in Seq(1..Len(tasks)) /\ Len(Tail(b)) = Len(b) - 1
      /\ Len(b) \in Nat /\ Len(b) <= BatchLimit
  BY Dropped, BatchType DEF QueueInv, BatchesFit
<1>2. Tail(b) = <<>> <=> Len(b) = 1
  <2>1. Tail(b) = <<>> <=> Len(Tail(b)) = 0
    BY <1>1, EmptyList
  <2> QED
    BY <1>1, <2>1
<1>3. /\ place \in WorkerPlace
      /\ Len(place.batch) <= BatchLimit
      /\ place.stage \in {"claim", "sweep"} <=> place.batch = <<>>
      /\ place.stage \in {"read", "sweep"}
      /\ place.batch = Tail(b)
  BY <1>1, <1>2, BatchAssumption, BoundAssumption DEF WorkerPlace, Stage
<1>4. worker' = [worker EXCEPT ![w] = place]
  BY DEF Advance
<1> HIDE DEF place
<1>5. /\ worker' \in [Worker -> WorkerPlace] /\ worker'[w] = place
      /\ \A v \in Worker \ {w} : worker'[v] = worker[v]
  BY <1>3, <1>4 DEF QueueInv, SyncTypeOK, WorkerPlace
<1> QED
  BY <1>3, <1>5, WorkerMoves

LEMMA MarkKeepsQueue ==
  ASSUME QueueInv, NEW w \in Worker,
         MarkTaskSuccess(w) \/ MarkTaskFailure(w) \/ MarkLost(w)
  PROVE  QueueInv'
<1>1. /\ UNCHANGED <<items, versions, req, mapping, simulated, document,
                  credentials>>
      /\ Advance(w)
      /\ worker[w].stage \notin {"claim", "sweep"}
  BY DEF MarkTaskSuccess, MarkTaskFailure, MarkLost, vars
<1>2. /\ Len(tasks) \in Nat /\ tasks \in Seq(Task)
      /\ Current(w) \in 1..Len(tasks) /\ Current(w) = worker[w].batch[1]
  BY <1>1, CurrentType DEF QueueInv, IInv, TypeOK
<1>3. /\ Len(tasks') = Len(tasks) /\ tasks' \in Seq(Task)
      /\ \A t \in 1..Len(tasks) : t # Current(w) => tasks'[t] = tasks[t]
      /\ \/ /\ faults' = faults
            /\ tasks'[Current(w)].status \in {"SUCCESS", "FAILED", "RETRYING"}
            /\ tasks'[Current(w)].status = "RETRYING" =>
                 tasks'[Current(w)].retries < MaxAttempts
         \/ faults' = faults + 1 /\ tasks' = tasks /\ faults < MaxFaults
  <2>1. CASE MarkTaskSuccess(w) \/ MarkTaskFailure(w)
    <3>1. faults' = faults
      BY <2>1 DEF MarkTaskSuccess, MarkTaskFailure
    <3> QED
      BY <2>1, <3>1, MarkedTasks
  <2>2. CASE MarkLost(w)
    BY <1>2, <2>2 DEF MarkLost, vars
  <2> QED
    BY <2>1, <2>2
<1>4. /\ worker' \in [Worker -> WorkerPlace'] /\ BatchesFit'
      /\ \A v \in Worker \ {w} : worker'[v] = worker[v]
      /\ worker'[w].batch = Tail(worker[w].batch)
  BY <1>1, <1>3, AdvanceMoves
<1>5. IInv'
  BY <1>1, <1>3, MarkingKeepsIInv DEF QueueInv
<1>6. SyncTypeOK'
  BY <1>1, <1>3, <1>4, FaultAssumption DEF QueueInv, SyncTypeOK, WorkerPlace
<1>7. AttemptsLeft'
  BY <1>2, <1>3 DEF QueueInv, AttemptsLeft
<1>8. Hands'
  BY <1>1, <1>2, <1>3, <1>4, HandsDropHead
<1> QED
  BY <1>4, <1>5, <1>6, <1>7, <1>8 DEF QueueInv

\* Back to the start of the loop.
LEMMA StartingOver ==
  ASSUME QueueInv, NEW w \in Worker, worker' = [worker EXCEPT ![w] = Claiming],
         tasks' = tasks
  PROVE  /\ worker' \in [Worker -> WorkerPlace'] /\ BatchesFit'
         /\ \A v \in Worker \ {w} : worker'[v] = worker[v]
         /\ worker'[w].batch = <<>> /\ worker'[w].stage = "claim"
<1>1. /\ Claiming \in WorkerPlace /\ Claiming.stage = "claim"
      /\ Claiming.batch = <<>> /\ Len(Claiming.batch) = 0
  BY BoundAssumption, EmptyLog DEF Claiming, WorkerPlace, Stage
<1>2. /\ worker' \in [Worker -> WorkerPlace] /\ worker'[w] = Claiming
      /\ \A v \in Worker \ {w} : worker'[v] = worker[v]
  BY <1>1 DEF QueueInv, SyncTypeOK, WorkerPlace
<1> QED
  BY <1>1, <1>2, WorkerMoves, BatchAssumption

LEMMA SweepKeepsQueue == ASSUME QueueInv, NEW w \in Worker, Sweep(w) PROVE QueueInv'
<1>1. /\ UNCHANGED <<tasks, req, document, credentials, faults>> /\ worker[w].batch = <<>>
      /\ worker' = [worker EXCEPT ![w] = Claiming]
  BY DEF Sweep, PurgeExpiredKnowledge, vars, QueueInv, BatchesFit
<1>2. /\ worker' \in [Worker -> WorkerPlace'] /\ BatchesFit'
      /\ \A v \in Worker \ {w} : worker'[v] = worker[v]
      /\ worker'[w].batch = <<>>
  BY <1>1, StartingOver
<1>3. IInv'
  BY NextKeepsIInv, PurgeKeepsIInv DEF Sweep, QueueInv
<1>4. SyncTypeOK'
  BY <1>1, <1>2, BoundAssumption DEF Sweep, QueueInv, SyncTypeOK, WorkerPlace
<1>5. AttemptsLeft'
  BY <1>1 DEF QueueInv, AttemptsLeft
<1>6. Hands'
  <2>1. /\ Len(tasks) \in Nat
        /\ \A t \in 1..Len(tasks') : ~(t > Len(tasks))
    BY <1>1 DEF QueueInv, IInv, TypeOK
  <2>2. Unmoved
    BY <1>1, <1>2 DEF Unmoved
  <2> QED
    BY <1>1, <2>1, <2>2, HandsStay
<1> QED
  BY <1>2, <1>3, <1>4, <1>5, <1>6 DEF QueueInv

LEMMA CrashKeepsQueue == ASSUME QueueInv, NEW w \in Worker, Crash(w) PROVE QueueInv'
<1>1. /\ UNCHANGED <<items, versions, tasks, req, mapping, simulated, document>>
      /\ faults' = faults + 1 /\ faults < MaxFaults
      /\ worker' = [worker EXCEPT ![w] = Claiming]
      /\ credentials' \subseteq Worker
  BY DEF Crash, vars, QueueInv, SyncTypeOK
<1>2. /\ worker' \in [Worker -> WorkerPlace'] /\ BatchesFit'
      /\ \A v \in Worker \ {w} : worker'[v] = worker[v]
      /\ worker'[w].batch = <<>>
  BY <1>1, StartingOver
<1>3. IInv'
  BY <1>1, MarkingKeepsIInv DEF QueueInv, IInv, TypeOK
<1>4. SyncTypeOK'
  BY <1>1, <1>2, FaultAssumption DEF QueueInv, SyncTypeOK, WorkerPlace
<1>5. AttemptsLeft'
  BY <1>1 DEF QueueInv, AttemptsLeft
<1>6. Hands'
  BY <1>1, <1>2, HandsLost
<1> QED
  BY <1>2, <1>3, <1>4, <1>5, <1>6 DEF QueueInv

LEMMA ClaimKeepsQueue == ASSUME QueueInv, NEW w \in Worker, Claim(w) PROVE QueueInv'
<1>1. PICK b \in [1..Cardinality(Taken) -> Taken] : Lists(b) /\ Receives(w, b)
  BY DEF Claim
<1>2. b \in Seq(1..Len(tasks)) /\ Len(b) <= BatchLimit
  BY <1>1, ClaimedBatch
<1>3. /\ Len(tasks) \in Nat /\ Len(tasks') = Len(tasks)
      /\ \A t \in 1..Len(tasks) :
           tasks'[t] = IF t \in Taken THEN [tasks[t] EXCEPT !.status = "RUNNING"]
                                      ELSE tasks[t]
      /\ tasks' \in Seq(Task)
  BY ClaimedTasks
<1>4. UNCHANGED <<items, versions, req, mapping, simulated, document, credentials,
                  faults>>
  BY DEF Claim
<1>5. worker' \in [Worker -> WorkerPlace'] /\ BatchesFit'
  <2> DEFINE place == [stage |-> IF b = <<>> THEN "sweep" ELSE "read",
                       batch |-> b, version |-> 0]
  <2>1. /\ place \in WorkerPlace /\ place.batch = b
        /\ place.stage \in {"claim", "sweep"} <=> b = <<>>
        /\ place.stage \notin {"send", "map"}
    BY <1>2, BoundAssumption DEF WorkerPlace, Stage
  <2>2. worker' = [worker EXCEPT ![w] = place]
    BY <1>1 DEF Receives
  <2> HIDE DEF place
  <2>3. /\ worker' \in [Worker -> WorkerPlace] /\ worker'[w] = place
        /\ \A v \in Worker \ {w} : worker'[v] = worker[v]
    BY <2>1, <2>2 DEF QueueInv, SyncTypeOK, WorkerPlace
  <2> QED
    BY <1>2, <1>3, <2>1, <2>3, WorkerMoves
<1>6. IInv'
  BY <1>3, <1>4, MarkingKeepsIInv DEF QueueInv
<1>7. SyncTypeOK'
  BY <1>3, <1>4, <1>5 DEF QueueInv, SyncTypeOK, WorkerPlace
<1>8. AttemptsLeft'
  <2> SUFFICES ASSUME NEW t \in 1..Len(tasks),
                      tasks'[t].status \in {"QUEUED", "RETRYING", "RUNNING"}
               PROVE  tasks'[t].retries < MaxAttempts
    BY <1>3 DEF AttemptsLeft
  <2>1. tasks[t] \in Task /\ (t \in Taken => tasks[t].status \in {"QUEUED", "RETRYING"})
    BY DEF QueueInv, IInv, TypeOK, Taken, Runnable
  <2>2. tasks'[t].retries = tasks[t].retries
    BY <1>3, <2>1 DEF Task
  <2>3. t \notin Taken => tasks'[t] = tasks[t]
    BY <1>3
  <2> QED
    BY <2>1, <2>2, <2>3 DEF QueueInv, AttemptsLeft
<1>9. Hands'
  BY HandsClaim
<1> QED
  BY <1>5, <1>6, <1>7, <1>8, <1>9 DEF QueueInv

LEMMA BackoffKeepsQueue ==
  ASSUME QueueInv, NEW t \in 1..Len(tasks), BackoffElapses(t)
  PROVE  QueueInv'
<1> DEFINE row == [tasks[t] EXCEPT !.due = TRUE]
<1>1. /\ UNCHANGED <<items, versions, req, mapping, simulated, document, credentials,
                  worker, faults>>
      /\ tasks' = [tasks EXCEPT ![t] = row]
      /\ tasks \in Seq(Task) /\ tasks[t] \in Task /\ Len(tasks) \in Nat
  BY DEF BackoffElapses, syncVars, QueueInv, IInv, TypeOK
<1>2. row \in Task /\ row.status = tasks[t].status /\ row.retries = tasks[t].retries
  BY <1>1 DEF Task
<1> HIDE DEF row
<1>3. /\ Len(tasks') = Len(tasks) /\ tasks' \in Seq(Task)
      /\ \A u \in 1..Len(tasks) : /\ tasks'[u].status = tasks[u].status
                                  /\ tasks'[u].retries = tasks[u].retries
      /\ \A u \in 1..Len(tasks') : ~(u > Len(tasks))
  BY <1>1, <1>2
<1>4. IInv'
  BY <1>1, <1>3, MarkingKeepsIInv DEF QueueInv
<1>5. SyncTypeOK' /\ BatchesFit'
  BY <1>1, <1>3 DEF QueueInv, SyncTypeOK, BatchesFit
<1>6. AttemptsLeft'
  BY <1>3 DEF QueueInv, AttemptsLeft
<1>7. Hands'
  BY <1>1, <1>3, HandsStay DEF Unmoved
<1> QED
  BY <1>4, <1>5, <1>6, <1>7 DEF QueueInv

LEMMA NextKeepsQueue == QueueInv /\ [SyncNext]_allVars => QueueInv'
<1> SUFFICES ASSUME QueueInv, [SyncNext]_allVars PROVE QueueInv'
  OBVIOUS
<1>1. ASSUME NEW w \in Worker, WorkerStep(w) \/ MarkLost(w) \/ Crash(w) PROVE QueueInv'
  BY <1>1, ClaimKeepsQueue, WorkingKeepsQueue, MarkKeepsQueue, SweepKeepsQueue,
     CrashKeepsQueue DEF WorkerStep
<1>2. CASE UNCHANGED allVars
  <2>1. /\ UNCHANGED <<items, versions, tasks, req, mapping, simulated, document,
                    credentials, worker, faults>>
        /\ Len(tasks) \in Nat /\ tasks \in Seq(Task)
        /\ \A t \in 1..Len(tasks') : ~(t > Len(tasks))
    BY <1>2 DEF allVars, vars, syncVars, QueueInv, IInv, TypeOK
  <2>2. IInv'
    BY <2>1, MarkingKeepsIInv DEF QueueInv
  <2>3. SyncTypeOK' /\ AttemptsLeft' /\ BatchesFit'
    BY <2>1 DEF QueueInv, SyncTypeOK, AttemptsLeft, BatchesFit
  <2>4. Hands'
    BY <2>1, HandsStay DEF Unmoved
  <2> QED
    BY <2>2, <2>3, <2>4 DEF QueueInv
<1> QED
  BY <1>1, <1>2, ServerKeepsQueue, BackoffKeepsQueue DEF SyncNext

-----------------------------------------------------------------------------
(* The mappings.                                                           *)

\* What may become of the items in a step: RowsGrow, or a purge.
RowsMove ==
  \A k \in Item :
    /\ items[k].status = "PURGED" => items'[k].status = "PURGED"
    /\ Exists(k) => \/ Exists(k)' /\ items'[k].version >= items[k].version
                    \/ items'[k].status = "PURGED"

LEMMA SameRowsMove == QueueInv /\ items' = items => RowsGrow /\ RowsMove
BY DEF RowsGrow, RowsMove, Exists, QueueInv, IInv, TypeOK, NoRow, ItemRow, Live

\* A worker that stands still keeps knowing.
LEMMA KnowsOn ==
  ASSUME QueueInv, QueueInv', RowsMove, NEW w \in Worker, Knows(w),
         worker'[w] = worker[w], w \in credentials' => w \in credentials,
         \A t \in 1..Len(tasks) : tasks'[t].target = tasks[t].target,
         \A k \in Item : document[k] \subseteq document'[k]
  PROVE  Knows(w)'
<1>1. CASE worker[w].stage \in {"send", "map"}
  <2>1. /\ Current(w) \in 1..Len(tasks) /\ CurrentItem(w) \in Item
        /\ worker[w].version \in 0..MaxVersion
    BY <1>1, CurrentType, BatchType
  <2>2. Current(w)' = Current(w) /\ CurrentItem(w)' = CurrentItem(w)
    BY <2>1 DEF Current, CurrentItem
  <2> PICK k \in Item : k = CurrentItem(w)
    BY <2>1
  <2>3. /\ items[k] \in ItemRow \cup {NoRow("ABSENT"), NoRow("PURGED")}
        /\ items'[k] \in ItemRow \cup {NoRow("ABSENT"), NoRow("PURGED")}
    BY <2>1 DEF QueueInv, IInv, TypeOK
  <2>4. Known(k, worker[w].version)
    BY <1>1 DEF Knows
  <2>5. items'[k].status = "PURGED" \/ (Exists(k)' /\ worker[w].version <= items'[k].version)
    <3>1. CASE items[k].status = "PURGED"
      BY <2>1, <3>1 DEF RowsMove
    <3>2. CASE Exists(k) /\ worker[w].version <= items[k].version
      <4>1. \/ items'[k].status = "PURGED"
            \/ Exists(k)' /\ items'[k].version >= items[k].version
        BY <2>1, <3>2 DEF RowsMove
      <4>2. items[k].version \in Nat /\ items'[k].version \in Nat /\ worker[w].version \in Nat
        BY <2>1, <2>3, BoundAssumption DEF ItemRow, NoRow
      <4> QED
        BY <3>2, <4>1, <4>2
    <3> QED
      BY <2>4, <3>1, <3>2 DEF Known
  <2>6. worker[w].stage = "map" /\ w \in credentials' => worker[w].version \in document'[k]
    BY <1>1, <2>1 DEF Knows
  <2> QED
    BY <2>2, <2>5, <2>6 DEF Knows, Known, Exists
<1>2. CASE worker[w].stage \notin {"send", "map"}
  BY <1>2 DEF Knows
<1> QED
  BY <1>1, <1>2

\* Workers that stand still, or leave for a stage that has read nothing.
LEMMA AllKnowOn ==
  ASSUME QueueInv, QueueInv', RowsMove, WorkersKnow,
         \A w \in Worker : \/ /\ worker'[w] = worker[w]
                              /\ w \in credentials' => w \in credentials
                           \/ worker'[w].stage \notin {"send", "map"},
         \A t \in 1..Len(tasks) : tasks'[t].target = tasks[t].target,
         \A k \in Item : document[k] \subseteq document'[k]
  PROVE  WorkersKnow'
<1> SUFFICES ASSUME NEW w \in Worker PROVE Knows(w)'
  BY DEF WorkersKnow
<1>1. CASE worker'[w] = worker[w] /\ (w \in credentials' => w \in credentials)
  BY <1>1, KnowsOn DEF WorkersKnow
<1>2. CASE worker'[w].stage \notin {"send", "map"}
  BY <1>2 DEF Knows
<1> QED
  BY <1>1, <1>2

\* Mappings nobody writes, of items nobody purges.
LEMMA MappingsKept ==
  ASSUME QueueInv, QueueInv', RowsGrow, MappingsHaveItems, MappingIsWritten,
         mapping' = mapping, simulated' = simulated,
         \A k \in Item : document[k] \subseteq document'[k]
  PROVE  MappingsHaveItems' /\ MappingIsWritten'
<1> SUFFICES ASSUME NEW k \in Item, mapping[k] # 0
             PROVE  /\ Exists(k)'
                    /\ k \notin simulated => mapping[k] \in document'[k]
                    /\ mapping[k] <= items'[k].version
  BY DEF MappingsHaveItems, MappingIsWritten
<1>1. /\ Exists(k) /\ mapping[k] <= items[k].version
      /\ k \notin simulated => mapping[k] \in document[k]
  BY DEF MappingsHaveItems, MappingIsWritten
<1>2. Exists(k)' /\ items'[k].version >= items[k].version
  BY <1>1 DEF RowsGrow
<1>3. mapping[k] \in Nat /\ items[k].version \in Nat /\ items'[k].version \in Nat
  <2>1. /\ items[k] \in ItemRow \cup {NoRow("ABSENT"), NoRow("PURGED")}
        /\ items'[k] \in ItemRow \cup {NoRow("ABSENT"), NoRow("PURGED")}
    BY DEF QueueInv, IInv, TypeOK
  <2>2. mapping[k] \in 0..MaxVersion
    BY DEF QueueInv, SyncTypeOK
  <2> QED
    BY <2>1, <2>2, BoundAssumption DEF ItemRow, NoRow
<1> QED
  BY <1>1, <1>2, <1>3

LEMMA WorkingKeepsMappings ==
  ASSUME SyncInv, QueueInv', NEW w \in Worker,
         ReadItem(w) \/ Send(w) \/ SendFails(w) \/ WriteMapping(w) \/ DocLinkFails(w)
  PROVE  WorkersKnow' /\ MappingsHaveItems' /\ MappingIsWritten'
<1>1. /\ UNCHANGED <<items, versions, tasks, req, credentials, faults>>
      /\ worker[w].stage \in {"read", "send", "map", "succeeded"}
      /\ QueueInv
  BY DEF ReadItem, Send, SendFails, WriteMapping, DocLinkFails, vars, SyncInv
<1>2. /\ Current(w) \in 1..Len(tasks) /\ CurrentItem(w) \in Item
      /\ worker \in [Worker -> WorkerPlace]
  BY <1>1, CurrentType DEF QueueInv, SyncTypeOK, WorkerPlace
<1>3. /\ \A v \in Worker \ {w} : worker'[v] = worker[v]
      /\ worker'[w].batch = worker[w].batch
  <2>1. CASE ReadItem(w)
    BY <1>2, <2>1 DEF ReadItem, WorkerPlace
  <2>2. ASSUME NEW s, To(w, s) PROVE <1>3!:
    BY <1>2, <2>2 DEF To, WorkerPlace
  <2> QED
    BY <2>1, <2>2 DEF Send, SendFails, WriteMapping, DocLinkFails
<1>4. Current(w)' = Current(w) /\ CurrentItem(w)' = CurrentItem(w)
  BY <1>1, <1>3 DEF Current, CurrentItem
<1>5. \A k \in Item : document[k] \subseteq document'[k]
  BY <1>1 DEF ReadItem, Send, SendFails, WriteMapping, DocLinkFails, AppendBlocks,
              QueueInv, SyncTypeOK
<1>6. RowsGrow /\ RowsMove
  BY <1>1, SameRowsMove
<1>7. Knows(w)'
  <2>1. CASE ReadItem(w)
    <3>1. /\ worker'[w].version = items[CurrentItem(w)].version
          /\ worker'[w].stage = IF Exists(CurrentItem(w)) THEN "send" ELSE "failed"
      BY <1>2, <2>1 DEF ReadItem, WorkerPlace
    <3>2. items[CurrentItem(w)].version \in Nat
      BY <1>1, <1>2, BoundAssumption DEF QueueInv, IInv, TypeOK, ItemRow, NoRow
    <3> QED
      BY <1>1, <1>4, <3>1, <3>2 DEF Knows, Known, Exists
  <2>2. CASE Send(w)
    <3>1. /\ worker'[w].version = worker[w].version /\ worker[w].stage = "send"
          /\ w \in credentials => worker[w].version \in document'[CurrentItem(w)]
      BY <1>1, <1>2, <2>2 DEF Send, To, AppendBlocks, WorkerPlace, QueueInv, SyncTypeOK
    <3>2. Known(CurrentItem(w), worker[w].version)
      BY <3>1 DEF SyncInv, WorkersKnow, Knows
    <3> QED
      BY <1>1, <1>4, <3>1, <3>2 DEF Knows, Known, Exists
  <2>3. CASE To(w, "failed") \/ To(w, "succeeded")
    BY <1>2, <2>3 DEF To, Knows, WorkerPlace
  <2> QED
    BY <2>1, <2>2, <2>3 DEF SendFails, WriteMapping, DocLinkFails
<1>8. WorkersKnow'
  <2> SUFFICES ASSUME NEW v \in Worker, v # w PROVE Knows(v)'
    BY <1>7 DEF WorkersKnow
  <2>1. Knows(v)
    BY DEF SyncInv, WorkersKnow
  <2> QED
    BY <1>1, <1>3, <1>5, <1>6, <2>1, KnowsOn
<1>9. CASE mapping' = mapping /\ simulated' = simulated
  BY <1>1, <1>5, <1>6, <1>8, <1>9, MappingsKept DEF SyncInv
<1>10. CASE WriteMapping(w) /\ Exists(CurrentItem(w))
  <2> DEFINE j == CurrentItem(w)
             n == worker[w].version
  <2>1. /\ mapping' = [mapping EXCEPT ![j] = n] /\ document' = document
        /\ \A k \in Item : k # j => (k \in simulated' <=> k \in simulated)
        /\ j \notin simulated' => w \in credentials
    BY <1>10 DEF WriteMapping
  <2>2. /\ w \in credentials => n \in document[j]
        /\ n <= items[j].version
    BY <1>10 DEF WriteMapping, SyncInv, WorkersKnow, Knows, Known, Exists, Live
  <2>3. \A k \in Item : mapping'[k] = IF k = j THEN n ELSE mapping[k]
    BY <1>1, <1>2, <2>1 DEF QueueInv, SyncTypeOK
  <2> HIDE DEF j, n
  <2>4. Exists(j)
    BY <1>10 DEF j
  <2>5. MappingsHaveItems'
    BY <1>1, <2>3, <2>4 DEF SyncInv, MappingsHaveItems, Exists
  <2>6. MappingIsWritten'
    BY <1>1, <2>1, <2>2, <2>3 DEF SyncInv, MappingIsWritten
  <2> QED
    BY <1>8, <2>5, <2>6
<1> QED
  BY <1>9, <1>10 DEF ReadItem, Send, SendFails, WriteMapping, DocLinkFails

LEMMA SweepKeepsMappings ==
  ASSUME SyncInv, QueueInv', NEW w \in Worker, Sweep(w)
  PROVE  WorkersKnow' /\ MappingsHaveItems' /\ MappingIsWritten'
<1>1. /\ UNCHANGED <<tasks, document, credentials>>
      /\ worker' = [worker EXCEPT ![w] = Claiming]
      /\ \A k \in Item : mapping'[k] = IF k \in Purgeable THEN 0 ELSE mapping[k]
      /\ QueueInv
  BY DEF Sweep, PurgeExpiredKnowledge, vars, SyncInv
<1>2. \A k \in Item : items'[k] = IF k \in Purgeable THEN NoRow("PURGED") ELSE items[k]
  BY DEF Sweep, PurgeExpiredKnowledge, vars
<1>3. RowsMove
  <2> SUFFICES ASSUME NEW k \in Item
               PROVE  /\ items[k].status = "PURGED" => items'[k].status = "PURGED"
                      /\ Exists(k) => \/ Exists(k)' /\ items'[k].version >= items[k].version
                                      \/ items'[k].status = "PURGED"
    BY DEF RowsMove
  <2>1. CASE k \in Purgeable
    BY <1>2, <2>1 DEF NoRow
  <2>2. CASE k \notin Purgeable
    <3>1. items[k] \in ItemRow \cup {NoRow("ABSENT"), NoRow("PURGED")}
      BY <1>1 DEF QueueInv, IInv, TypeOK
    <3>2. items[k].version >= items[k].version
      BY <3>1, BoundAssumption DEF ItemRow, NoRow
    <3> QED
      BY <1>2, <2>2, <3>2 DEF Exists
  <2> QED
    BY <2>1, <2>2
<1>4. \A v \in Worker : worker'[v] = worker[v] \/ worker'[v].stage \notin {"send", "map"}
  <2>1. worker'[w].stage = "claim" /\ \A v \in Worker \ {w} : worker'[v] = worker[v]
    BY <1>1, StartingOver
  <2> QED
    BY <2>1
<1>5. WorkersKnow'
  BY <1>1, <1>3, <1>4, AllKnowOn DEF SyncInv
<1>6. ASSUME NEW k \in Item, mapping'[k] # 0
      PROVE  /\ mapping'[k] = mapping[k] /\ items'[k] = items[k]
             /\ k \notin simulated' => k \notin simulated
  BY <1>1, <1>2, <1>6 DEF Sweep
<1>7. MappingsHaveItems'
  BY <1>6 DEF SyncInv, MappingsHaveItems, Exists
<1>8. MappingIsWritten'
  BY <1>1, <1>6 DEF SyncInv, MappingIsWritten
<1> QED
  BY <1>5, <1>7, <1>8

\* The rest touches neither mappings nor documents.
LEMMA OthersKeepMappings ==
  ASSUME SyncInv, QueueInv',
         \/ ServerStep /\ UNCHANGED syncVars
         \/ \E w \in Worker : \/ Claim(w) \/ Crash(w) \/ MarkLost(w)
                              \/ MarkTaskSuccess(w) \/ MarkTaskFailure(w)
         \/ \E t \in 1..Len(tasks) : BackoffElapses(t)
         \/ UNCHANGED allVars
  PROVE  WorkersKnow' /\ MappingsHaveItems' /\ MappingIsWritten'
<1>1. /\ mapping' = mapping /\ simulated' = simulated /\ document' = document
      /\ QueueInv
      /\ \A k \in Item : document[k] \subseteq document'[k]
  BY DEF syncVars, allVars, Claim, Crash, MarkLost, MarkTaskSuccess, MarkTaskFailure,
         BackoffElapses, SyncInv
<1>2. RowsGrow
  <2>1. CASE ServerStep
    BY <1>1, <2>1, ServerGrows DEF QueueInv
  <2>2. CASE items' = items
    BY <1>1, <2>2, SameRowsMove
  <2> QED
    BY <2>1, <2>2 DEF allVars, vars, Claim, Crash, MarkLost, MarkTaskSuccess,
                      MarkTaskFailure, BackoffElapses
<1>3. RowsMove
  BY <1>2 DEF RowsGrow, RowsMove
<1>4. \A t \in 1..Len(tasks) : tasks'[t].target = tasks[t].target
  <2>1. CASE tasks' = tasks
    BY <2>1
  <2>2. CASE ServerStep
    <3>1. Grown /\ tasks \in Seq(Task)
      BY <1>1, <2>2, ServerGrows DEF QueueInv, IInv, TypeOK
    <3> QED
      BY <3>1 DEF Grown
  <2>3. ASSUME NEW w \in Worker, Claim(w) PROVE <1>4!:
    <3> SUFFICES ASSUME NEW t \in 1..Len(tasks) PROVE tasks'[t].target = tasks[t].target
      OBVIOUS
    <3>1. tasks'[t] = IF t \in Taken THEN [tasks[t] EXCEPT !.status = "RUNNING"]
                                     ELSE tasks[t]
      BY <1>1, <2>3, ClaimedTasks
    <3>2. tasks[t] \in Task
      BY <1>1 DEF QueueInv, IInv, TypeOK
    <3> QED
      BY <3>1, <3>2 DEF Task
  <2>4. ASSUME NEW w \in Worker, MarkTaskSuccess(w) \/ MarkTaskFailure(w) PROVE <1>4!:
    BY <1>1, <2>4, MarkedTasks
  <2>5. ASSUME NEW t \in 1..Len(tasks), BackoffElapses(t) PROVE <1>4!:
    BY <1>1, <2>5 DEF BackoffElapses, QueueInv, IInv, TypeOK, Task
  <2> QED
    BY <2>1, <2>2, <2>3, <2>4, <2>5 DEF allVars, vars, Crash, MarkLost
<1>5. \A w \in Worker : \/ /\ worker'[w] = worker[w]
                           /\ w \in credentials' => w \in credentials
                        \/ worker'[w].stage \notin {"send", "map"}
  <2>1. CASE worker' = worker /\ credentials' = credentials
    BY <2>1
  <2>2. ASSUME NEW w \in Worker, Claim(w) PROVE <1>5!:
    BY <1>1, <2>2 DEF Claim, Receives, QueueInv, SyncTypeOK
  <2>3. ASSUME NEW w \in Worker, Crash(w) PROVE <1>5!:
    BY <1>1, <2>3 DEF Crash, Claiming, QueueInv, SyncTypeOK
  <2>4. ASSUME NEW w \in Worker,
               MarkTaskSuccess(w) \/ MarkTaskFailure(w) \/ MarkLost(w)
        PROVE  <1>5!:
    <3>1. Advance(w) /\ worker[w].stage \notin {"claim", "sweep"}
      BY <2>4 DEF MarkTaskSuccess, MarkTaskFailure, MarkLost
    <3>2. Len(tasks') = Len(tasks)
      BY <1>1, <2>4, MarkedTasks DEF MarkLost, vars
    <3>3. credentials' = credentials
      BY <2>4 DEF MarkTaskSuccess, MarkTaskFailure, MarkLost
    <3> QED
      BY <1>1, <3>1, <3>2, <3>3, AdvanceMoves
  <2> QED
    BY <2>1, <2>2, <2>3, <2>4 DEF syncVars, allVars, BackoffElapses
<1> QED
  BY <1>1, <1>2, <1>3, <1>4, <1>5, AllKnowOn, MappingsKept DEF SyncInv

LEMMA NextKeepsSyncInv == SyncInv /\ [SyncNext]_allVars => SyncInv'
<1> SUFFICES ASSUME SyncInv, [SyncNext]_allVars PROVE SyncInv'
  OBVIOUS
<1>1. QueueInv'
  BY NextKeepsQueue DEF SyncInv
<1>2. ASSUME NEW w \in Worker,
             ReadItem(w) \/ Send(w) \/ SendFails(w) \/ WriteMapping(w) \/ DocLinkFails(w)
      PROVE  SyncInv'
  BY <1>1, <1>2, WorkingKeepsMappings DEF SyncInv
<1>3. ASSUME NEW w \in Worker, Sweep(w) PROVE SyncInv'
  BY <1>1, <1>3, SweepKeepsMappings DEF SyncInv
<1>4. CASE \/ ServerStep /\ UNCHANGED syncVars
           \/ \E w \in Worker : \/ Claim(w) \/ Crash(w) \/ MarkLost(w)
                                \/ MarkTaskSuccess(w) \/ MarkTaskFailure(w)
           \/ \E t \in 1..Len(tasks) : BackoffElapses(t)
           \/ UNCHANGED allVars
  BY <1>1, <1>4, OthersKeepMappings DEF SyncInv
<1> QED
  BY <1>2, <1>3, <1>4 DEF SyncNext, WorkerStep

LEMMA SyncInitEstablishesSyncInv == SyncInit => SyncInv
<1> SUFFICES ASSUME SyncInit PROVE SyncInv
  OBVIOUS
<1>1. QueueInv
  BY SyncInitEstablishesQueueInv
<1>2. /\ \A k \in Item : mapping[k] = 0
      /\ \A w \in Worker : worker[w].stage = "claim"
  BY DEF SyncInit, Claiming
<1> QED
  BY <1>1, <1>2 DEF SyncInv, WorkersKnow, Knows, MappingsHaveItems, MappingIsWritten

-----------------------------------------------------------------------------

\* Every reachable state of the store, the queue, the workers and the mappings
\* satisfies the inductive invariant.
THEOREM SyncInvariance == SyncSpec => []SyncInv
<1>1. SyncInit => SyncInv
  BY SyncInitEstablishesSyncInv
<1>2. SyncInv /\ [SyncNext]_allVars => SyncInv'
  BY NextKeepsSyncInv
<1> QED
  BY <1>1, <1>2, PTL DEF SyncSpec

\* Mappings, documents and the place of every worker keep their types.
THEOREM SyncTypeCorrect == SyncSpec => []SyncTypeOK
<1>1. SyncInv => SyncTypeOK
  BY DEF SyncInv, QueueInv
<1> QED
  BY <1>1, SyncInvariance, PTL

\* However many workers claim from the queue and die with their batches, a task
\* is in one pair of hands at most, and a fault orphans a batch of them at most.
THEOREM TaskHeldOnceHolds == SyncSpec => []TaskHeldOnce
<1>1. SyncInv => TaskHeldOnce
  BY HandsMeanHeldOnce DEF SyncInv, QueueInv
<1> QED
  BY <1>1, SyncInvariance, PTL

\* However edits, purges, several workers' calls and restarts with other
\* credentials interleave, a mapping names a version its item has reached, and
\* one its document was sent unless it says SIMULATED.
THEOREM MappingIsWrittenHolds == SyncSpec => []MappingIsWritten
<1>1. SyncInv => MappingIsWritten
  BY DEF SyncInv
<1> QED
  BY <1>1, SyncInvariance, PTL

\* No claim, mark, retry or edit takes up a finished task, whichever worker it
\* comes from: who marks a task holds it, and what is held is RUNNING.
THEOREM FinishedStaysFinishedHolds == SyncSpec => FinishedStaysFinished
<1>1. ASSUME QueueInv, SyncNext, NEW t \in 1..Len(tasks)
      PROVE  /\ t \in 1..Len(tasks')
             /\ Finished(t) => tasks'[t].status = tasks[t].status
  <2> DEFINE Kept == /\ t \in 1..Len(tasks')
                     /\ Finished(t) => tasks'[t].status = tasks[t].status
  <2>1. Len(tasks) \in Nat /\ tasks \in Seq(Task)
    BY <1>1 DEF QueueInv, IInv, TypeOK
  <2>2. CASE tasks' = tasks
    BY <2>2
  <2>3. CASE ServerStep
    <3>1. Grown
      BY <1>1, <2>3, ServerGrows DEF QueueInv
    <3>2. ASSUME NEW k \in Item, tasks' = Append(tasks, NewTask(k))
          PROVE  t \in 1..Len(tasks') /\ tasks'[t] = tasks[t]
      BY <2>1, <3>2
    <3> QED
      BY <2>2, <3>1, <3>2 DEF Grown
  <2>4. ASSUME NEW w \in Worker, Claim(w)
        PROVE  Kept
    BY <1>1, <2>4, ClaimedTasks DEF Finished, Taken, Runnable
  <2>5. ASSUME NEW w \in Worker, MarkTaskSuccess(w) \/ MarkTaskFailure(w)
        PROVE  Kept
    <3>1. worker[w].stage \notin {"claim", "sweep"}
      BY <2>5 DEF MarkTaskSuccess, MarkTaskFailure
    <3>2. tasks[Current(w)].status = "RUNNING"
      BY <1>1, <3>1, CurrentType
    <3> QED
      BY <1>1, <2>5, <3>2, MarkedTasks DEF Finished
  <2>6. ASSUME NEW u \in 1..Len(tasks), BackoffElapses(u)
        PROVE  Kept
    BY <2>1, <2>6 DEF BackoffElapses, Finished, Task
  <2> QED
    BY <1>1, <2>2, <2>3, <2>4, <2>5, <2>6
       DEF SyncNext, WorkerStep, ReadItem, Send, SendFails, WriteMapping, DocLinkFails,
           MarkLost, Sweep, PurgeExpiredKnowledge, Crash, vars
<1>2. SyncInv /\ [SyncNext]_allVars =>
        [\A t \in 1..Len(tasks) :
           /\ t \in 1..Len(tasks')
           /\ Finished(t) => tasks'[t].status = tasks[t].status]_allVars
  BY <1>1 DEF SyncInv
<1> QED
  BY <1>2, SyncInvariance, PTL DEF SyncSpec, FinishedStaysFinished

-----------------------------------------------------------------------------
(* One worker: no edit's sync is forgotten, and no text is sent backwards.  *)

Alone == Cardinality(Worker) = 1

\* Item k has a task, other than t, that did not succeed.
OwedBeside(k, t) ==
  \E u \in 1..Len(tasks) :
    u # t /\ tasks[u].target = k /\ tasks[u].status # "SUCCESS"

Owed(k) ==
  \E u \in 1..Len(tasks) : tasks[u].target = k /\ tasks[u].status # "SUCCESS"

Debts ==
  \A k \in Item : Exists(k) /\ mapping[k] < items[k].version => Owed(k)

\* Documents never run ahead of their item, and an id not yet handed out has none.
DocumentsBehind ==
  \A k \in Item :
    /\ items[k].status = "ABSENT" => document[k] = {}
    /\ Exists(k) => \A m \in document[k] : m <= items[k].version

\* While the one worker is between its read and its mark, its item is not purged,
\* an edit since the read has a task of its own, and what it has read is not
\* older than anything sent or mapped before.
Covered(w) ==
  worker[w].stage \in {"send", "map", "succeeded"} =>
    LET k == CurrentItem(w)
        v == worker[w].version
    IN /\ Exists(k)
       /\ v <= items[k].version
       /\ v < items[k].version => OwedBeside(k, Current(w))
       /\ \A m \in document[k] : m <= v
       /\ mapping[k] <= v
       /\ worker[w].stage = "succeeded" => mapping[k] = v

AloneInv == Alone => Debts /\ DocumentsBehind /\ \A w \in Worker : Covered(w)

\* The one worker there is.
LEMMA OneWorker == ASSUME Alone, NEW w \in Worker PROVE Worker = {w}
<1>1. \E v : Worker = {v}
  BY WorkerAssumption, FS_Singleton DEF Alone
<1> QED
  BY <1>1

\* Whoever changes an item's version, or brings an item about, enqueues a task
\* for it in the same step.
Announced(k) ==
  \/ tasks' = Append(tasks, NewTask(k))
  \/ /\ items'[k].version = items[k].version
     /\ Exists(k)' => Exists(k)

Announces ==
  \A k \in Item :
    /\ Announced(k)
    /\ items'[k].status = "ABSENT" => items[k].status = "ABSENT"
    /\ Exists(k)' => Exists(k) \/ items[k].status = "ABSENT"

LEMMA OneRowAnnounces ==
  ASSUME IInv, NEW k \in Item, NEW row, row.status \in Live,
         items' = [items EXCEPT ![k] = row],
         Exists(k) \/ items[k].status = "ABSENT",
         \/ tasks' = Append(tasks, NewTask(k))
         \/ Exists(k) /\ row.version = items[k].version
  PROVE  Announces
<1>1. items'[k] = row /\ \A j \in Item \ {k} : items'[j] = items[j]
  BY DEF IInv, TypeOK
<1>2. row.status # "ABSENT"
  BY DEF Live
<1> QED
  BY <1>1, <1>2 DEF Announces, Announced, Exists

LEMMA ServerAnnounces == ASSUME IInv, ServerStep PROVE Announces
<1>1. items' = items => Announces
  BY DEF Announces, Announced, Exists
<1>2. ASSUME NEW r \in Request, RequestStep(r) PROVE Announces
  <2>1. ASSUME NEW k \in Item, NEW op, NEW c, NEW p, BeginEdit(r, op, k, c, p)
        PROVE  Announces
    BY <1>1, <2>1 DEF BeginEdit
  <2>2. ASSUME NEW k \in Item, SoftDelete(r, k) PROVE Announces
    <3> DEFINE row == [items[k] EXCEPT !.status = "REMOVED_SOFT", !.expired = FALSE]
    <3>1. items[k] \in ItemRow /\ Exists(k)
      BY <2>2 DEF SoftDelete, Exists, IInv, TypeOK, NoRow, Live
    <3>2. row.status \in Live /\ row.version = items[k].version
      BY <3>1 DEF ItemRow, Live
    <3>3. items' = [items EXCEPT ![k] = row]
      BY <2>2 DEF SoftDelete, IInv, TypeOK
    <3> HIDE DEF row
    <3> QED
      BY <3>1, <3>2, <3>3, OneRowAnnounces
  <2>3. ASSUME NEW source, NEW row, req[r].op \in EditOps, row.status \in Live,
               CommitEdit(r, source, row)
        PROVE  Announces
    <3>1. req[r].item \in Item
      BY <2>3 DEF IInv, TypeOK, Idle, Notifying, Editing, EditRequest, EditOps
    <3>2. Exists(req[r].item)
      BY <2>3 DEF CommitEdit, Insertable
    <3> QED
      BY <2>3, <3>1, <3>2, OneRowAnnounces DEF CommitEdit, Enqueue
  <2>4. CASE CommitUpdate(r) \/ CommitRestore(r) \/ CommitBackfill(r)
    <3> DEFINE k == req[r].item
               updated == [items[k] EXCEPT !.content = Written(r).content,
                                           !.category = Written(r).category,
                                           !.version = NextVersion(r)]
               restored == [items[k] EXCEPT !.status = "ACTIVE", !.expired = FALSE,
                                            !.version = NextVersion(r)]
               backfilled == [items[k] EXCEPT !.content = Written(r).content,
                                              !.version = NextVersion(r)]
    <3>1. req[r].op \in EditOps /\ Insertable(k, NextVersion(r))
      BY <2>4 DEF CommitUpdate, CommitRestore, CommitBackfill, CommitEdit, EditOps
    <3>2. items[k] \in ItemRow
      BY <3>1, InsertableReadIsFresh
    <3>3. \A row \in {updated, restored, backfilled} : row.status \in Live
      BY <3>2 DEF ItemRow, Live
    <3>4. \E source, row : /\ row \in {updated, restored, backfilled}
                           /\ CommitEdit(r, source, row)
      BY <2>4 DEF CommitUpdate, CommitRestore, CommitBackfill
    <3> HIDE DEF updated, restored, backfilled
    <3> QED
      BY <2>3, <3>1, <3>3, <3>4
  <2>5. CASE RollBack(r) \/ Abandon(r) \/ NotifyRemoved(r)
    BY <1>1, <2>5 DEF RollBack, Abandon, NotifyRemoved
  <2> QED
    BY <1>2, <2>1, <2>2, <2>4, <2>5
       DEF RequestStep, BeginUpdate, BeginRestore, BeginBackfill
<1>3. ASSUME NEW k \in Item, NEW c \in Content, NEW p \in Path,
             CreateKnowledgeFromDraft(k, c, p)
      PROVE  Announces
  <2> DEFINE row == [status |-> "ACTIVE", content |-> c, category |-> p,
                     version |-> 1, expired |-> FALSE]
  <2>1. row.status \in Live
    BY DEF Live
  <2>2. items' = [items EXCEPT ![k] = row] /\ tasks' = Append(tasks, NewTask(k))
        /\ items[k].status = "ABSENT"
    BY <1>3 DEF CreateKnowledgeFromDraft, Enqueue
  <2> HIDE DEF row
  <2> QED
    BY <2>1, <2>2, OneRowAnnounces
<1>4. ASSUME NEW k \in Item, TriggerSync(k) PROVE Announces
  BY <1>1, <1>4 DEF TriggerSync
<1>5. ASSUME NEW k \in Item, RetentionElapses(k) PROVE Announces
  <2> DEFINE row == [items[k] EXCEPT !.expired = TRUE]
  <2>1. items[k] \in ItemRow /\ Exists(k)
    BY <1>5 DEF RetentionElapses, Exists, IInv, TypeOK, NoRow, Live
  <2>2. row.status \in Live /\ row.version = items[k].version
    BY <2>1 DEF ItemRow, Live
  <2>3. items' = [items EXCEPT ![k] = row]
    BY <1>5 DEF RetentionElapses
  <2> HIDE DEF row
  <2> QED
    BY <2>1, <2>2, <2>3, OneRowAnnounces
<1> QED
  BY <1>2, <1>3, <1>4, <1>5 DEF ServerStep

-----------------------------------------------------------------------------
(* What keeps the debts on the books.                                       *)

TasksStay ==
  /\ Len(tasks') >= Len(tasks)
  /\ \A u \in 1..Len(tasks) :
       /\ tasks'[u].target = tasks[u].target
       /\ tasks[u].status # "SUCCESS" => tasks'[u].status # "SUCCESS"

LEMMA SameTasksStay == ASSUME QueueInv, tasks' = tasks PROVE TasksStay
BY DEF TasksStay, QueueInv, IInv, TypeOK

LEMMA StillOwed ==
  ASSUME QueueInv, QueueInv', TasksStay, NEW k, NEW t, OwedBeside(k, t)
  PROVE  OwedBeside(k, t)'
<1>1. PICK u \in 1..Len(tasks) :
        u # t /\ tasks[u].target = k /\ tasks[u].status # "SUCCESS"
  BY DEF OwedBeside
<1>2. Len(tasks) \in Nat /\ Len(tasks') \in Nat
  BY DEF QueueInv, IInv, TypeOK
<1>3. u \in 1..Len(tasks')
  BY <1>2 DEF TasksStay
<1> QED
  BY <1>1, <1>3 DEF TasksStay, OwedBeside

LEMMA OwedStays ==
  ASSUME QueueInv, QueueInv', TasksStay, NEW k, Owed(k)
  PROVE  Owed(k)'
<1>1. PICK u \in 1..Len(tasks) : tasks[u].target = k /\ tasks[u].status # "SUCCESS"
  BY DEF Owed
<1>2. Len(tasks) \in Nat /\ Len(tasks') \in Nat
  BY DEF QueueInv, IInv, TypeOK
<1>3. u \in 1..Len(tasks')
  BY <1>2 DEF TasksStay
<1> QED
  BY <1>1, <1>3 DEF TasksStay, Owed

\* A task just enqueued is owed, beside every older one.
LEMMA NewlyOwed ==
  ASSUME QueueInv, NEW k \in Item, tasks' = Append(tasks, NewTask(k))
  PROVE  /\ Owed(k)'
         /\ \A t \in 1..Len(tasks) : OwedBeside(k, t)'
<1> DEFINE n == Len(tasks) + 1
<1>1. tasks \in Seq(Task) /\ Len(tasks) \in Nat
  BY DEF QueueInv, IInv, TypeOK
<1>2. Len(tasks') = n /\ tasks'[n] = NewTask(k)
  BY <1>1
<1>3. n \in 1..Len(tasks') /\ tasks'[n].target = k /\ tasks'[n].status # "SUCCESS"
  BY <1>1, <1>2 DEF NewTask
<1>4. \A t \in 1..Len(tasks) : n # t
  BY <1>1
<1> HIDE DEF n
<1> QED
  BY <1>3, <1>4 DEF Owed, OwedBeside

LEMMA VersionsCount ==
  ASSUME QueueInv, QueueInv', NEW k \in Item
  PROVE  items[k].version \in Nat /\ items'[k].version \in Nat /\ mapping[k] \in Nat
<1>1. /\ items[k] \in ItemRow \cup {NoRow("ABSENT"), NoRow("PURGED")}
      /\ items'[k] \in ItemRow \cup {NoRow("ABSENT"), NoRow("PURGED")}
  BY DEF QueueInv, IInv, TypeOK
<1>2. mapping[k] \in 0..MaxVersion
  BY DEF QueueInv, SyncTypeOK
<1> QED
  BY <1>1, <1>2, BoundAssumption DEF ItemRow, NoRow

LEMMA DocumentsCount ==
  QueueInv => \A k \in Item : \A m \in document[k] : m \in Nat
BY BoundAssumption DEF QueueInv, SyncTypeOK

\* Mappings stay, no task is closed, and items change with a task: debts stay
\* covered.
LEMMA DebtsKept ==
  ASSUME QueueInv, QueueInv', Debts, TasksStay, Announces, mapping' = mapping
  PROVE  Debts'
<1> SUFFICES ASSUME NEW k \in Item, Exists(k)', mapping[k] < items'[k].version
             PROVE  Owed(k)'
  BY DEF Debts
<1>1. CASE tasks' = Append(tasks, NewTask(k))
  BY <1>1, NewlyOwed
<1>2. CASE items'[k].version = items[k].version /\ (Exists(k)' => Exists(k))
  <2>1. Owed(k)
    BY <1>2 DEF Debts
  <2> QED
    BY <2>1, OwedStays
<1> QED
  BY <1>1, <1>2 DEF Announces, Announced

LEMMA DocumentsKept ==
  ASSUME QueueInv, QueueInv', DocumentsBehind, RowsGrow, Announces,
         document' = document
  PROVE  DocumentsBehind'
<1> SUFFICES ASSUME NEW k \in Item
             PROVE  /\ items'[k].status = "ABSENT" => document[k] = {}
                    /\ Exists(k)' => \A m \in document[k] : m <= items'[k].version
  BY DEF DocumentsBehind
<1>1. items'[k].status = "ABSENT" => document[k] = {}
  BY DEF Announces, DocumentsBehind
<1>2. items[k].version \in Nat /\ items'[k].version \in Nat
  BY VersionsCount
<1>3. ASSUME Exists(k)', NEW m \in document[k] PROVE m <= items'[k].version
  <2>1. Exists(k)
    BY <1>3 DEF Announces, DocumentsBehind
  <2>2. m <= items[k].version /\ items'[k].version >= items[k].version /\ m \in Nat
    BY <2>1, <1>3, DocumentsCount DEF RowsGrow, DocumentsBehind
  <2> QED
    BY <1>2, <2>2
<1> QED
  BY <1>1, <1>3

\* A worker that stands still while others edit stays covered.
LEMMA CoveredOn ==
  ASSUME QueueInv, QueueInv', TasksStay, RowsGrow, Announces, NEW w \in Worker,
         Covered(w), worker'[w] = worker[w], document' = document, mapping' = mapping
  PROVE  Covered(w)'
<1> SUFFICES ASSUME worker[w].stage \in {"send", "map", "succeeded"} PROVE Covered(w)'
  BY DEF Covered
<1>1. /\ Current(w) \in 1..Len(tasks) /\ CurrentItem(w) \in Item
      /\ worker[w].version \in Nat
  BY CurrentType, BatchType, BoundAssumption
<1>2. Current(w)' = Current(w) /\ CurrentItem(w)' = CurrentItem(w)
  BY <1>1 DEF Current, CurrentItem, TasksStay
<1> PICK k \in Item, t \in 1..Len(tasks), v \in Nat :
      k = CurrentItem(w) /\ t = Current(w) /\ v = worker[w].version
  BY <1>1
<1>3. /\ Exists(k) /\ v <= items[k].version
      /\ v < items[k].version => OwedBeside(k, t)
      /\ \A m \in document[k] : m <= v
      /\ mapping[k] <= v
      /\ worker[w].stage = "succeeded" => mapping[k] = v
  BY DEF Covered
<1>4. items[k].version \in Nat /\ items'[k].version \in Nat
  BY VersionsCount
<1>5. Exists(k)' /\ v <= items'[k].version
  BY <1>3, <1>4 DEF RowsGrow
<1>6. v < items'[k].version => OwedBeside(k, t)'
  BY <1>3, StillOwed, NewlyOwed DEF Announces, Announced
<1>7. /\ CurrentItem(w)' = k /\ Current(w)' = t /\ worker'[w].version = v
      /\ worker'[w].stage = worker[w].stage
  BY <1>2
<1> QED
  BY <1>3, <1>5, <1>6, <1>7 DEF Covered

-----------------------------------------------------------------------------
(* The steps of the one worker.                                             *)

AloneParts == Debts /\ DocumentsBehind /\ \A w \in Worker : Covered(w)

\* A step that writes neither a mapping nor a document, closes no task and
\* purges nothing, and at which the worker stands still or has nothing sent.
LEMMA QuietKeepsAlone ==
  ASSUME QueueInv, QueueInv', AloneParts, TasksStay, RowsGrow, Announces,
         mapping' = mapping, document' = document,
         \A w \in Worker :
           \/ worker'[w] = worker[w]
           \/ worker'[w].stage \notin {"send", "map", "succeeded"}
  PROVE  AloneParts'
<1>1. Debts' /\ DocumentsBehind'
  BY DebtsKept, DocumentsKept DEF AloneParts
<1>2. ASSUME NEW w \in Worker PROVE Covered(w)'
  <2>1. CASE worker'[w] = worker[w]
    BY <2>1, CoveredOn DEF AloneParts
  <2>2. CASE worker'[w].stage \notin {"send", "map", "succeeded"}
    BY <2>2 DEF Covered
  <2> QED
    BY <2>1, <2>2
<1> QED
  BY <1>1, <1>2 DEF AloneParts

LEMMA SameRowsAnnounce == items' = items => Announces
BY DEF Announces, Announced, Exists

LEMMA WorkerTypes ==
  QueueInv => /\ worker \in [Worker -> WorkerPlace]
              /\ document \in [Item -> SUBSET (1..MaxVersion)]
              /\ mapping \in [Item -> 0..MaxVersion]
BY DEF QueueInv, SyncTypeOK, WorkerPlace

LEMMA ReadKeepsAlone ==
  ASSUME QueueInv, QueueInv', MappingIsWritten, AloneParts, NEW w \in Worker,
         Worker = {w}, ReadItem(w)
  PROVE  AloneParts'
<1>1. /\ UNCHANGED <<items, tasks, mapping, document>> /\ worker[w].stage = "read"
      /\ worker \in [Worker -> WorkerPlace]
  BY WorkerTypes DEF ReadItem, vars
<1>2. /\ worker'[w].version = items[CurrentItem(w)].version
      /\ worker'[w].stage = IF Exists(CurrentItem(w)) THEN "send" ELSE "failed"
      /\ worker'[w].batch = worker[w].batch
  BY <1>1 DEF ReadItem, WorkerPlace
<1>3. CurrentItem(w) \in Item /\ CurrentItem(w)' = CurrentItem(w)
  BY <1>1, <1>2, CurrentType DEF CurrentItem, Current
<1>4. Debts' /\ DocumentsBehind'
  BY <1>1, SameRowsMove, SameRowsAnnounce, SameTasksStay, DebtsKept, DocumentsKept
     DEF AloneParts
<1>5. Covered(w)'
  <2> PICK k \in Item : k = CurrentItem(w)
    BY <1>3
  <2>1. items[k].version \in Nat
    BY VersionsCount
  <2>2. Exists(k) => /\ \A m \in document[k] : m <= items[k].version
                     /\ mapping[k] <= items[k].version
    BY <2>1 DEF AloneParts, DocumentsBehind, MappingIsWritten
  <2>3. CASE Exists(k)
    BY <1>1, <1>2, <1>3, <2>1, <2>2, <2>3 DEF Covered, Exists
  <2>4. CASE ~Exists(k)
    BY <1>2, <2>4 DEF Covered
  <2> QED
    BY <2>3, <2>4
<1> QED
  BY <1>4, <1>5 DEF AloneParts

LEMMA SendKeepsAlone ==
  ASSUME QueueInv, QueueInv', AloneParts, NEW w \in Worker, Worker = {w},
         Send(w) \/ SendFails(w)
  PROVE  AloneParts'
<1>1. /\ UNCHANGED <<items, tasks, mapping>> /\ worker[w].stage = "send"
      /\ worker \in [Worker -> WorkerPlace]
      /\ document \in [Item -> SUBSET (1..MaxVersion)]
  BY WorkerTypes DEF Send, SendFails, vars
<1>2. CurrentItem(w) \in Item /\ worker[w].version \in 0..MaxVersion
  BY <1>1, CurrentType DEF WorkerPlace
<1> PICK k \in Item, v \in 0..MaxVersion : k = CurrentItem(w) /\ v = worker[w].version
  BY <1>2
<1>3. /\ Exists(k) /\ v <= items[k].version /\ v \in Nat
      /\ v < items[k].version => OwedBeside(k, Current(w))
      /\ \A m \in document[k] : m <= v
      /\ mapping[k] <= v
  BY <1>1, BoundAssumption DEF AloneParts, Covered
<1>4. /\ \A j \in Item : j # k => document'[j] = document[j]
      /\ document'[k] = document[k] \cup {v} \/ document'[k] = document[k]
  BY <1>1 DEF Send, SendFails, AppendBlocks
<1>5. Debts'
  BY <1>1, SameRowsAnnounce, SameTasksStay, DebtsKept DEF AloneParts
<1>6. DocumentsBehind'
  BY <1>1, <1>3, <1>4 DEF AloneParts, DocumentsBehind, Exists, Live
<1>7. Covered(w)'
  <2>1. CASE Send(w)
    <3>1. /\ worker'[w].stage = "map" /\ worker'[w].version = v
          /\ worker'[w].batch = worker[w].batch
      BY <1>1, <2>1 DEF Send, To, WorkerPlace
    <3>2. Current(w)' = Current(w) /\ CurrentItem(w)' = k
      BY <1>1, <3>1 DEF Current, CurrentItem
    <3>3. \A m \in document'[k] : m <= v
      BY <1>3, <1>4
    <3>4. v < items[k].version => OwedBeside(k, Current(w))'
      BY <1>1, <1>3, <3>2 DEF OwedBeside
    <3> QED
      BY <1>1, <1>3, <3>1, <3>2, <3>3, <3>4 DEF Covered, Exists
  <2>2. CASE SendFails(w)
    BY <1>1, <2>2 DEF SendFails, To, WorkerPlace, Covered
  <2> QED
    BY <2>1, <2>2
<1> QED
  BY <1>5, <1>6, <1>7 DEF AloneParts

LEMMA MappingKeepsAlone ==
  ASSUME QueueInv, QueueInv', AloneParts, NEW w \in Worker, Worker = {w}, WriteMapping(w)
  PROVE  AloneParts'
<1>1. /\ UNCHANGED <<items, tasks, document>> /\ worker[w].stage = "map"
      /\ worker \in [Worker -> WorkerPlace] /\ mapping \in [Item -> 0..MaxVersion]
  BY WorkerTypes DEF WriteMapping, vars
<1>2. /\ CurrentItem(w) \in Item /\ worker[w].version \in 0..MaxVersion
      /\ Current(w) \in 1..Len(tasks) /\ tasks[Current(w)].status = "RUNNING"
  BY <1>1, CurrentType DEF WorkerPlace
<1> PICK k \in Item, v \in 0..MaxVersion : k = CurrentItem(w) /\ v = worker[w].version
  BY <1>2
<1>3. /\ Exists(k) /\ v <= items[k].version
      /\ v < items[k].version => OwedBeside(k, Current(w))
      /\ \A m \in document[k] : m <= v
  BY <1>1 DEF AloneParts, Covered
<1>4. mapping' = [mapping EXCEPT ![k] = v] /\ To(w, "succeeded")
  BY <1>3 DEF WriteMapping
<1>5. /\ worker'[w].stage = "succeeded" /\ worker'[w].version = v
      /\ worker'[w].batch = worker[w].batch
  BY <1>1, <1>4 DEF To, WorkerPlace
<1>6. Current(w)' = Current(w) /\ CurrentItem(w)' = k
  BY <1>1, <1>5 DEF Current, CurrentItem
<1>7. DocumentsBehind'
  BY <1>1 DEF AloneParts, DocumentsBehind, Exists
<1>8. Owed(k)'
  BY <1>1, <1>2 DEF Owed, CurrentItem
<1>9. Debts'
  <2>1. \A j \in Item : j # k => mapping'[j] = mapping[j]
    BY <1>1, <1>4
  <2>2. ASSUME NEW j \in Item, j # k, Exists(j), mapping[j] < items[j].version
        PROVE  Owed(j)'
    BY <1>1, <2>2 DEF AloneParts, Debts, Owed
  <2> QED
    BY <1>1, <1>8, <2>1, <2>2 DEF Debts, Exists
<1>10. Covered(w)'
  <2>1. mapping'[k] = v
    BY <1>1, <1>4
  <2>2. v < items[k].version => OwedBeside(k, Current(w))'
    BY <1>1, <1>3, <1>6 DEF OwedBeside
  <2> QED
    BY <1>1, <1>3, <1>5, <1>6, <2>1, <2>2 DEF Covered, Exists
<1> QED
  BY <1>7, <1>9, <1>10 DEF AloneParts

\* The mark that closes a debt: what it leaves open another task covers.
LEMMA SuccessKeepsAlone ==
  ASSUME QueueInv, QueueInv', AloneParts, NEW w \in Worker, Worker = {w},
         MarkTaskSuccess(w)
  PROVE  AloneParts'
<1>1. /\ UNCHANGED <<items, mapping, document>> /\ Advance(w)
      /\ worker[w].stage = "succeeded"
      /\ tasks' = [tasks EXCEPT ![Current(w)].status = "SUCCESS"]
      /\ worker \in [Worker -> WorkerPlace]
  BY WorkerTypes DEF MarkTaskSuccess
<1>2. /\ CurrentItem(w) \in Item /\ worker[w].version \in 0..MaxVersion
      /\ Current(w) \in 1..Len(tasks)
  BY <1>1, CurrentType DEF WorkerPlace
<1> PICK k \in Item, t \in 1..Len(tasks) : k = CurrentItem(w) /\ t = Current(w)
  BY <1>2
<1>3. k = tasks[t].target
  BY DEF CurrentItem
<1>4. mapping[k] < items[k].version => OwedBeside(k, t)
  BY <1>1 DEF AloneParts, Covered
<1>5. Len(tasks') = Len(tasks) /\ \A u \in 1..Len(tasks) : u # t => tasks'[u] = tasks[u]
  BY MarkedTasks
<1>6. worker'[w].stage \in {"read", "sweep"}
  BY <1>1, <1>5, AdvanceMoves
<1>7. Debts'
  <2> SUFFICES ASSUME NEW j \in Item, Exists(j), mapping[j] < items[j].version
               PROVE  Owed(j)'
    BY <1>1 DEF Debts, Exists
  <2>1. OwedBeside(j, t)
    <3>1. CASE j = k
      BY <1>4, <3>1
    <3>2. CASE j # k
      BY <1>3, <3>2 DEF AloneParts, Debts, Owed, OwedBeside
    <3> QED
      BY <3>1, <3>2
  <2> QED
    BY <1>5, <2>1 DEF OwedBeside, Owed
<1>8. DocumentsBehind'
  BY <1>1 DEF AloneParts, DocumentsBehind, Exists
<1> QED
  BY <1>6, <1>7, <1>8 DEF AloneParts, Covered

LEMMA SweepKeepsAlone ==
  ASSUME QueueInv, QueueInv', AloneParts, NEW w \in Worker, Worker = {w}, Sweep(w)
  PROVE  AloneParts'
<1>1. /\ UNCHANGED <<tasks, document>>
      /\ worker' = [worker EXCEPT ![w] = Claiming]
      /\ \A k \in Item : mapping'[k] = IF k \in Purgeable THEN 0 ELSE mapping[k]
      /\ \A k \in Item : items'[k] = IF k \in Purgeable THEN NoRow("PURGED") ELSE items[k]
  BY DEF Sweep, PurgeExpiredKnowledge, vars
<1>2. ASSUME NEW k \in Item, Exists(k)' \/ items'[k].status = "ABSENT"
      PROVE  items'[k] = items[k] /\ mapping'[k] = mapping[k]
  BY <1>1, <1>2 DEF Exists, Live, NoRow
<1>3. Debts'
  BY <1>1, <1>2 DEF AloneParts, Debts, Exists, Owed
<1>4. DocumentsBehind'
  BY <1>1, <1>2 DEF AloneParts, DocumentsBehind, Exists
<1>5. Covered(w)'
  BY <1>1, StartingOver DEF Covered
<1> QED
  BY <1>3, <1>4, <1>5 DEF AloneParts

LEMMA OthersKeepAlone ==
  ASSUME QueueInv, QueueInv', AloneParts,
         \/ ServerStep /\ UNCHANGED syncVars
         \/ \E w \in Worker : \/ Claim(w) \/ Crash(w) \/ MarkLost(w)
                              \/ DocLinkFails(w) \/ MarkTaskFailure(w)
         \/ \E t \in 1..Len(tasks) : BackoffElapses(t)
         \/ UNCHANGED allVars
  PROVE  AloneParts'
<1>1. mapping' = mapping /\ document' = document
  BY DEF syncVars, allVars, Claim, Crash, MarkLost, DocLinkFails, MarkTaskFailure,
         BackoffElapses
<1>2. RowsGrow /\ Announces
  <2>1. CASE ServerStep
    BY <2>1, ServerGrows, ServerAnnounces DEF QueueInv
  <2>2. CASE items' = items
    BY <2>2, SameRowsMove, SameRowsAnnounce
  <2> QED
    BY <2>1, <2>2 DEF allVars, vars, Claim, Crash, MarkLost, DocLinkFails,
                      MarkTaskFailure, BackoffElapses
<1>3. TasksStay
  <2>1. CASE tasks' = tasks
    BY <2>1, SameTasksStay
  <2>2. CASE ServerStep
    <3>1. Grown /\ tasks \in Seq(Task)
      BY <2>2, ServerGrows DEF QueueInv, IInv, TypeOK
    <3>2. ASSUME NEW k \in Item, tasks' = Append(tasks, NewTask(k)) PROVE TasksStay
      BY <3>1, <3>2 DEF TasksStay
    <3> QED
      BY <2>1, <3>1, <3>2 DEF Grown
  <2>3. ASSUME NEW w \in Worker, Claim(w) PROVE TasksStay
    <3> SUFFICES ASSUME NEW t \in 1..Len(tasks)
                 PROVE  /\ tasks'[t].target = tasks[t].target
                        /\ tasks[t].status # "SUCCESS" => tasks'[t].status # "SUCCESS"
      BY <2>3, ClaimedTasks DEF TasksStay
    <3>1. tasks'[t] = IF t \in Taken THEN [tasks[t] EXCEPT !.status = "RUNNING"]
                                     ELSE tasks[t]
      BY <2>3, ClaimedTasks
    <3>2. tasks[t] \in Task
      BY DEF QueueInv, IInv, TypeOK
    <3> QED
      BY <3>1, <3>2 DEF Task
  <2>4. ASSUME NEW w \in Worker, MarkTaskFailure(w) PROVE TasksStay
    <3>1. /\ Len(tasks') = Len(tasks) /\ Len(tasks) \in Nat
          /\ \A t \in 1..Len(tasks) : t # Current(w) => tasks'[t] = tasks[t]
          /\ tasks'[Current(w)].target = tasks[Current(w)].target
      BY <2>4, MarkedTasks DEF QueueInv, IInv, TypeOK
    <3>2. Current(w) \in 1..Len(tasks) /\ tasks \in Seq(Task)
      <4>1. worker[w].stage \notin {"claim", "sweep"}
        BY <2>4 DEF MarkTaskFailure
      <4> QED
        BY <4>1, CurrentType DEF QueueInv, IInv, TypeOK
    <3>3. tasks'[Current(w)].status \in {"FAILED", "RETRYING"}
      <4> DEFINE result == IF tasks[Current(w)].retries + 1 >= MaxAttempts
                           THEN "FAILED" ELSE "RETRYING"
                 row == [tasks[Current(w)] EXCEPT !.retries = tasks[Current(w)].retries + 1,
                                                  !.due = FALSE, !.status = result]
      <4>1. tasks[Current(w)] \in Task
        BY <3>2
      <4>2. row.status = result
        BY <4>1 DEF Task
      <4>3. tasks' = [tasks EXCEPT ![Current(w)] = row]
        BY <2>4 DEF MarkTaskFailure
      <4>4. result \in {"FAILED", "RETRYING"}
        OBVIOUS
      <4> HIDE DEF row, result
      <4>5. tasks'[Current(w)] = row
        BY <3>2, <4>3
      <4> QED
        BY <4>2, <4>4, <4>5
    <3> QED
      BY <3>1, <3>3 DEF TasksStay
  <2>5. ASSUME NEW t \in 1..Len(tasks), BackoffElapses(t) PROVE TasksStay
    BY <2>5 DEF BackoffElapses, TasksStay, QueueInv, IInv, TypeOK, Task
  <2> QED
    BY <2>1, <2>2, <2>3, <2>4, <2>5 DEF allVars, vars, Crash, MarkLost, DocLinkFails
<1>4. \A w \in Worker :
        worker'[w] = worker[w] \/ worker'[w].stage \notin {"send", "map", "succeeded"}
  <2>1. CASE worker' = worker
    BY <2>1
  <2>2. ASSUME NEW w \in Worker, Claim(w) PROVE <1>4!:
    BY <2>2 DEF Claim, Receives, QueueInv, SyncTypeOK
  <2>3. ASSUME NEW w \in Worker, Crash(w) PROVE <1>4!:
    BY <2>3 DEF Crash, Claiming, QueueInv, SyncTypeOK
  <2>4. ASSUME NEW w \in Worker, DocLinkFails(w) PROVE <1>4!:
    BY <2>4, WorkerTypes DEF DocLinkFails, To, WorkerPlace
  <2>5. ASSUME NEW w \in Worker, MarkTaskFailure(w) \/ MarkLost(w) PROVE <1>4!:
    <3>1. Advance(w) /\ worker[w].stage \notin {"claim", "sweep"}
      BY <2>5 DEF MarkTaskFailure, MarkLost
    <3>2. Len(tasks') = Len(tasks)
      BY <2>5, MarkedTasks DEF MarkLost, vars
    <3> QED
      BY <3>1, <3>2, AdvanceMoves
  <2> QED
    BY <2>1, <2>2, <2>3, <2>4, <2>5 DEF syncVars, allVars, BackoffElapses
<1> QED
  BY <1>1, <1>2, <1>3, <1>4, QuietKeepsAlone

LEMMA NextKeepsAlone ==
  ASSUME QueueInv, QueueInv', MappingIsWritten, AloneInv, [SyncNext]_allVars
  PROVE  AloneInv'
<1> SUFFICES ASSUME Alone, AloneParts PROVE AloneParts'
  BY DEF AloneInv, AloneParts
<1>1. ASSUME NEW w \in Worker, WorkerStep(w) PROVE AloneParts'
  <2>1. Worker = {w}
    BY OneWorker
  <2> QED
    BY <1>1, <2>1, ReadKeepsAlone, SendKeepsAlone, MappingKeepsAlone, SuccessKeepsAlone,
       SweepKeepsAlone, OthersKeepAlone DEF WorkerStep
<1> QED
  BY <1>1, OthersKeepAlone DEF SyncNext

-----------------------------------------------------------------------------

\* With one worker, what it has read, the debts of the items and the documents
\* stay as the inductive invariant of this part says.
THEOREM AloneInvariance == SyncSpec => []AloneInv
<1>1. SyncInit => AloneInv
  <2> SUFFICES ASSUME SyncInit PROVE AloneParts
    BY DEF AloneInv, AloneParts
  <2>1. \A k \in Item : items[k].status = "ABSENT" /\ document[k] = {}
    BY DEF SyncInit, Init, NoRow
  <2>2. \A w \in Worker : worker[w].stage = "claim"
    BY DEF SyncInit, Claiming
  <2> QED
    BY <2>1, <2>2 DEF AloneParts, Debts, DocumentsBehind, Covered, Exists, Live
<1>2. QueueInv /\ QueueInv' /\ MappingIsWritten /\ AloneInv /\ [SyncNext]_allVars => AloneInv'
  BY NextKeepsAlone
<1>3. SyncInv => QueueInv /\ MappingIsWritten
  BY DEF SyncInv
<1> QED
  BY <1>1, <1>2, <1>3, SyncInvariance, PTL DEF SyncSpec

\* No edit's sync is forgotten by a single worker, whatever edits, faults and
\* purges fall between its read of the item and its mark: an item whose newest
\* version is not in its mapping has a task that did not succeed.
THEOREM SyncDebtHolds == SyncSpec => []SyncDebt
<1>1. AloneInv => SyncDebt
  BY DEF AloneInv, Alone, SyncDebt, Debts, Owed
<1> QED
  BY <1>1, AloneInvariance, PTL

\* A single worker sends texts and writes mappings in the order of their
\* versions, retries and restarts included.
THEOREM NeverBackwardsHolds == SyncSpec => NeverBackwards
<1>1. ASSUME SyncInv, SyncInv', AloneInv, Alone, SyncNext, NEW k \in Item
      PROVE  /\ \A n \in document'[k] \ document[k] : \A m \in document[k] : m < n
             /\ mapping'[k] < mapping[k] => ~Exists(k)'
  <2> DEFINE Forward == /\ \A n \in document'[k] \ document[k] :
                             \A m \in document[k] : m < n
                        /\ mapping'[k] < mapping[k] => ~Exists(k)'
  <2>1. QueueInv /\ QueueInv' /\ AloneParts /\ MappingIsWritten
    BY <1>1 DEF SyncInv, AloneInv, AloneParts
  <2>2. /\ mapping[k] \in Nat /\ \A m \in document[k] : m \in Nat
        /\ document \in [Item -> SUBSET (1..MaxVersion)]
        /\ mapping \in [Item -> 0..MaxVersion]
    BY <2>1, VersionsCount, DocumentsCount, WorkerTypes
  <2>3. mapping' = mapping /\ document' = document => Forward
    BY <2>2
  <2>4. ASSUME NEW w \in Worker, Send(w) \/ SendFails(w)
        PROVE  Forward
    <3>1. worker[w].stage = "send" /\ mapping' = mapping
      BY <2>4 DEF Send, SendFails
    <3>2. CurrentItem(w) \in Item /\ worker[w].version \in Nat
      BY <2>1, <3>1, CurrentType, BatchType, BoundAssumption
    <3> PICK j \in Item, v \in Nat : j = CurrentItem(w) /\ v = worker[w].version
      BY <3>2
    <3>3. \A m \in document[j] : m <= v
      BY <2>1, <3>1 DEF AloneParts, Covered
    <3>4. /\ \A i \in Item : i # j => document'[i] = document[i]
          /\ document'[j] = document[j] \cup {v} \/ document'[j] = document[j]
      BY <2>2, <2>4 DEF Send, SendFails, AppendBlocks
    <3>5. ASSUME NEW n \in document'[k] \ document[k], NEW m \in document[k]
          PROVE  m < n
      <4>1. k = j /\ n = v
        BY <3>4, <3>5
      <4>2. m \in Nat /\ m <= v /\ m # n
        BY <2>2, <3>3, <3>5, <4>1
      <4> QED
        BY <4>1, <4>2
    <3> QED
      BY <2>2, <3>1, <3>5
  <2>5. ASSUME NEW w \in Worker, WriteMapping(w)
        PROVE  Forward
    <3>1. worker[w].stage = "map" /\ document' = document
      BY <2>5 DEF WriteMapping
    <3>2. CurrentItem(w) \in Item /\ worker[w].version \in Nat
      BY <2>1, <3>1, CurrentType, BatchType, BoundAssumption
    <3> PICK j \in Item, v \in Nat : j = CurrentItem(w) /\ v = worker[w].version
      BY <3>2
    <3>3. mapping[j] <= v
      BY <2>1, <3>1 DEF AloneParts, Covered
    <3>4. \/ mapping' = [mapping EXCEPT ![j] = v]
          \/ mapping' = mapping
      BY <2>5 DEF WriteMapping
    <3>5. ~(mapping'[k] < mapping[k])
      <4>1. mapping'[k] = mapping[k] \/ (k = j /\ mapping'[k] = v)
        BY <2>2, <3>4
      <4> QED
        BY <2>2, <3>3, <4>1
    <3> QED
      BY <3>1, <3>5
  <2>6. ASSUME NEW w \in Worker, Sweep(w)
        PROVE  Forward
    <3>1. /\ document' = document
          /\ mapping'[k] = IF k \in Purgeable THEN 0 ELSE mapping[k]
      BY <2>6 DEF Sweep
    <3>2. k \in Purgeable => items'[k] = NoRow("PURGED")
      BY <2>6 DEF Sweep, PurgeExpiredKnowledge
    <3>3. k \in Purgeable => ~Exists(k)'
      BY <3>2 DEF Exists, NoRow, Live
    <3> QED
      BY <2>2, <3>1, <3>3
  <2> HIDE DEF Forward
  <2>7. CASE \E w \in Worker : \/ Send(w) \/ SendFails(w) \/ WriteMapping(w) \/ Sweep(w)
    BY <2>4, <2>5, <2>6, <2>7 DEF Forward
  <2>8. CASE mapping' = mapping /\ document' = document
    BY <2>3, <2>8 DEF Forward
  <2> QED
    BY <1>1, <2>7, <2>8
       DEF SyncNext, WorkerStep, Claim, ReadItem, DocLinkFails, MarkTaskSuccess,
           MarkTaskFailure, MarkLost, Crash, BackoffElapses, syncVars
<1>2. SyncInv /\ SyncInv' /\ AloneInv /\ [SyncNext]_allVars =>
        [Cardinality(Worker) = 1 =>
           \A k \in Item :
             /\ \A n \in document'[k] \ document[k] : \A m \in document[k] : m < n
             /\ mapping'[k] < mapping[k] => ~Exists(k)']_allVars
  BY <1>1 DEF Alone
<1> QED
  BY <1>2, SyncInvariance, AloneInvariance, PTL DEF SyncSpec, NeverBackwards

-----------------------------------------------------------------------------
(* The store under its workers.                                            *)

\* app-worker moves no item and no version row but by the purge, so with any
\* number of workers beside the requests the store still implements one linear
\* history per item.
THEOREM SyncRefinesHistory == SyncSpec => RefinesHistory
<1>1. SyncInit => History!HInit
  BY InitRefines DEF SyncInit
<1>2. SyncInv /\ [SyncNext]_allVars => [History!HNext]_(History!hvars)
  <2> SUFFICES ASSUME IInv, [SyncNext]_allVars PROVE [History!HNext]_(History!hvars)
    BY DEF SyncInv, QueueInv
  <2>1. CASE ServerStep \/ PurgeExpiredKnowledge
    BY <2>1, StepRefines DEF Next
  <2>2. CASE items' = items /\ versions' = versions
    BY <2>2, Stutters
  <2> QED
    BY <2>1, <2>2 DEF SyncNext, WorkerStep, Claim, ReadItem, Send, SendFails, WriteMapping,
       DocLinkFails, MarkTaskSuccess, MarkTaskFailure, Sweep, MarkLost, Crash,
       BackoffElapses, vars, allVars
<1> QED
  BY <1>1, <1>2, SyncInvariance, PTL DEF SyncSpec, RefinesHistory, History!HSpec

\* The version log matches its item while workers read, map, mark and purge.
THEOREM SyncLogCorrect == SyncSpec => []LogMatchesItem
<1>1. SyncInv => LogMatchesItem
  BY DEF SyncInv, QueueInv, IInv, LogMatchesItem
<1> QED
  BY <1>1, SyncInvariance, PTL
-----------------------------------------------------------------------------
(* Catching up.                                                            *)

\* With one worker, if every task finishes or is orphaned, which TLC checks under
\* the fairness of the worker's loop, mappings catch up with the edits: an item
\* left behind owes a task (SyncDebt), and what is owed in the end has failed for
\* good or been orphaned.
THEOREM MappingsCatchUpHolds ==
  ASSUME Cardinality(Worker) = 1
  PROVE  SyncSpec /\ EveryTaskFinishes => MappingsCatchUp
<1>1. SyncDebt /\ AllFinished => CaughtUp
  BY DEF SyncDebt, AllFinished, CaughtUp, Finished
<1> QED
  BY <1>1, SyncDebtHolds, PTL DEF EveryTaskFinishes, MappingsCatchUp
=============================================================================
