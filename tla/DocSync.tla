------------------------------- MODULE DocSync -------------------------------
(***************************************************************************)
(* app-worker bringing knowledge items into Feishu documents: the sync      *)
(* tasks the knowledge store enqueues (KnowledgeStore, extended here), the  *)
(* worker loop Services.ProcessTasks, the table doc_sync_mappings and the   *)
(* remote document.                                                         *)
(*                                                                          *)
(* A worker claims a batch of due tasks in one transaction, then works them *)
(* off one by one: read the item, append blocks to the document over HTTP,  *)
(* write the mapping, mark the task.  The claimed tasks are RUNNING and     *)
(* nothing but the worker holding them in memory ever looks at a RUNNING    *)
(* task again.                                                              *)
(*                                                                          *)
(* The document is external: the client only ever appends children to it    *)
(* (internal/feishu/docsync.go); a call may fail before or after taking     *)
(* effect (before the worker goes on).  Of it the model keeps which         *)
(* versions of an item it has blocks of.  A worker whose environment has no *)
(* credentials of Feishu, or placeholders, makes no call: it simulates, and *)
(* writes the mapping with the status SIMULATED.                            *)
(***************************************************************************)
EXTENDS KnowledgeStore, FiniteSets

CONSTANTS
  Worker,     \* app-worker processes
  BatchLimit, \* tasks one claim takes
  MaxFaults   \* bound: worker crashes and lost marks

ASSUME WorkerAssumption == IsFiniteSet(Worker)
ASSUME BatchAssumption == BatchLimit \in Nat \ {0}
ASSUME FaultAssumption == MaxFaults \in Nat

VARIABLES
  mapping,     \* doc_sync_mappings: last_sync_version of each item, 0 without a row
  simulated,   \* items whose mapping has sync_status SIMULATED
  document,    \* document[k]: the versions of k the remote documents have
  credentials, \* workers whose environment has credentials of Feishu
  worker,      \* where each worker is in ProcessTasks
  faults       \* faults so far

syncVars == <<mapping, simulated, document, credentials, worker, faults>>
allVars == <<vars, syncVars>>

-----------------------------------------------------------------------------

Stage == {"claim", "read", "send", "map", "succeeded", "failed", "sweep"}

SyncTypeOK ==
  /\ mapping \in [Item -> 0..MaxVersion]
  /\ simulated \subseteq Item
  /\ credentials \subseteq Worker
  /\ document \in [Item -> SUBSET (1..MaxVersion)]
  /\ worker \in [Worker -> [stage : Stage, batch : Seq(1..Len(tasks)),
                            version : 0..MaxVersion]]
  /\ faults \in 0..MaxFaults

Claiming == [stage |-> "claim", batch |-> <<>>, version |-> 0]

SyncInit ==
  /\ Init
  /\ mapping = [k \in Item |-> 0]
  /\ simulated = {}
  /\ document = [k \in Item |-> {}]
  /\ credentials \in SUBSET Worker
  /\ worker = [w \in Worker |-> Claiming]
  /\ faults = 0

-----------------------------------------------------------------------------

Current(w) == Head(worker[w].batch)
CurrentItem(w) == tasks[Current(w)].target

To(w, stage) == worker' = [worker EXCEPT ![w].stage = stage]

\* Fault variants (here and below, named <definition>_<fault>): the definition
\* with a plausible bug; only mutation runs use them.
Runnable_NotRunning ==
  {t \in 1..Len(tasks) : tasks[t].status # "RUNNING" /\ tasks[t].due}

\* WHERE status IN ('QUEUED','RETRYING') AND run_after <= NOW()
Runnable ==
  {t \in 1..Len(tasks) : /\ tasks[t].status \in {"QUEUED", "RETRYING"}
                         /\ tasks[t].due}

Taken == {t \in Runnable : Cardinality({u \in Runnable : u <= t}) <= BatchLimit}

\* b lists the rows taken by the claim: ORDER BY id LIMIT BatchLimit.
Lists(b) ==
  /\ {b[i] : i \in DOMAIN b} = Taken
  /\ \A i, j \in DOMAIN b : i < j => b[i] < b[j]

Receives(w, b) ==
  worker' = [worker EXCEPT ![w] =
               [stage |-> IF b = <<>> THEN "sweep" ELSE "read",
                batch |-> b, version |-> 0]]

Claim_NotMarked(w) ==
  /\ worker[w].stage = "claim"
  /\ \E b \in [1..Cardinality(Taken) -> Taken] : Lists(b) /\ Receives(w, b)
  /\ UNCHANGED <<vars, mapping, simulated, document, credentials, faults>>

\* ClaimRunnableTasks.  Rows another claim has locked are skipped and are
\* RUNNING when they are unlocked, so claims are indivisible.
Claim(w) ==
  /\ worker[w].stage = "claim"
  /\ tasks' = [t \in 1..Len(tasks) |->
                 IF t \in Taken THEN [tasks[t] EXCEPT !.status = "RUNNING"]
                                ELSE tasks[t]]
  /\ \E b \in [1..Cardinality(Taken) -> Taken] : Lists(b) /\ Receives(w, b)
  /\ UNCHANGED <<items, versions, req, mapping, simulated, document, credentials, faults>>

ReadItem_MissingIgnored(w) ==
  /\ worker[w].stage = "read"
  /\ worker' = [worker EXCEPT ![w] =
                  [@ EXCEPT !.stage = "send", !.version = items[CurrentItem(w)].version]]
  /\ UNCHANGED <<vars, mapping, simulated, document, credentials, faults>>

\* processTask reads the item, in any state.
ReadItem(w) ==
  /\ worker[w].stage = "read"
  /\ worker' = [worker EXCEPT ![w] =
                  [@ EXCEPT !.stage = IF Exists(CurrentItem(w)) THEN "send" ELSE "failed",
                            !.version = items[CurrentItem(w)].version]]
  /\ UNCHANGED <<vars, mapping, simulated, document, credentials, faults>>

AppendBlocks(w) ==
  document' = [document EXCEPT ![CurrentItem(w)] = @ \cup {worker[w].version}]

\* SyncKnowledge: the call succeeds; without credentials none is made and the
\* answer is a success all the same, ...
Send(w) ==
  /\ worker[w].stage = "send"
  /\ IF w \in credentials THEN AppendBlocks(w) ELSE UNCHANGED document
  /\ To(w, "map")
  /\ UNCHANGED <<vars, mapping, simulated, credentials, faults>>

\* ... or it fails, and the document may have the blocks all the same.
SendFails(w) ==
  /\ worker[w].stage = "send"
  /\ w \in credentials
  /\ AppendBlocks(w) \/ UNCHANGED document
  /\ To(w, "failed")
  /\ UNCHANGED <<vars, mapping, simulated, credentials, faults>>

WriteMapping_StatusKept(w) ==
  /\ worker[w].stage = "map"
  /\ IF Exists(CurrentItem(w))
     THEN /\ mapping' = [mapping EXCEPT ![CurrentItem(w)] = worker[w].version]
          /\ simulated' = IF w \in credentials \/ mapping[CurrentItem(w)] # 0
                          THEN simulated
                          ELSE simulated \cup {CurrentItem(w)}
          /\ To(w, "succeeded")
     ELSE /\ To(w, "failed")
          /\ UNCHANGED <<mapping, simulated>>
  /\ UNCHANGED <<vars, document, credentials, faults>>

\* UpsertDocMapping with the version the worker read and the status of the
\* answer; the foreign key fails if the item is gone.
WriteMapping(w) ==
  /\ worker[w].stage = "map"
  /\ IF Exists(CurrentItem(w))
     THEN /\ mapping' = [mapping EXCEPT ![CurrentItem(w)] = worker[w].version]
          /\ simulated' = IF w \in credentials THEN simulated \ {CurrentItem(w)}
                                               ELSE simulated \cup {CurrentItem(w)}
          /\ To(w, "succeeded")
     ELSE /\ To(w, "failed")
          /\ UNCHANGED <<mapping, simulated>>
  /\ UNCHANGED <<vars, document, credentials, faults>>

\* UPDATE of the item's doc_link fails after the mapping was written.
DocLinkFails(w) ==
  /\ worker[w].stage = "succeeded"
  /\ To(w, "failed")
  /\ UNCHANGED <<vars, mapping, simulated, document, credentials, faults>>

\* On to the next task of the batch.
Advance(w) ==
  worker' = [worker EXCEPT ![w] =
               [stage |-> IF Len(worker[w].batch) = 1 THEN "sweep" ELSE "read",
                batch |-> Tail(worker[w].batch), version |-> 0]]

MarkTaskSuccess(w) ==
  /\ worker[w].stage = "succeeded"
  /\ tasks' = [tasks EXCEPT ![Current(w)].status = "SUCCESS"]
  /\ Advance(w)
  /\ UNCHANGED <<items, versions, req, mapping, simulated, document, credentials, faults>>

MarkTaskFailure_AsSuccess(w) ==
  /\ worker[w].stage = "failed"
  /\ tasks' = [tasks EXCEPT ![Current(w)].status = "SUCCESS"]
  /\ Advance(w)
  /\ UNCHANGED <<items, versions, req, mapping, simulated, document, credentials, faults>>

MarkTaskFailure_NotCounted(w) ==
  /\ worker[w].stage = "failed"
  /\ tasks' = [tasks EXCEPT ![Current(w)] = [@ EXCEPT !.due = FALSE, !.status = "RETRYING"]]
  /\ Advance(w)
  /\ UNCHANGED <<items, versions, req, mapping, simulated, document, credentials, faults>>

\* MarkTaskFailure: FAILED at the third attempt, else RETRYING a minute later.
MarkTaskFailure(w) ==
  /\ worker[w].stage = "failed"
  /\ LET n == tasks[Current(w)].retries + 1 IN
     tasks' = [tasks EXCEPT ![Current(w)] =
                 [@ EXCEPT !.retries = n, !.due = FALSE,
                           !.status = IF n >= MaxAttempts THEN "FAILED"
                                                          ELSE "RETRYING"]]
  /\ Advance(w)
  /\ UNCHANGED <<items, versions, req, mapping, simulated, document, credentials, faults>>

\* Either mark fails; ProcessTasks ignores its error.
MarkLost(w) ==
  /\ worker[w].stage \in {"succeeded", "failed"}
  /\ faults < MaxFaults
  /\ faults' = faults + 1
  /\ Advance(w)
  /\ UNCHANGED <<vars, mapping, simulated, document, credentials>>

Sweep_BeforeDeadline(w) ==
  /\ worker[w].stage = "sweep"
  /\ \/ PurgeExpiredKnowledge
     \/ Purgeable = {} /\ UNCHANGED vars
  /\ mapping' = [k \in Item |-> IF items[k].status = "REMOVED_SOFT" THEN 0
                                                                   ELSE mapping[k]]
  /\ simulated' = {k \in simulated : items[k].status # "REMOVED_SOFT"}
  /\ worker' = [worker EXCEPT ![w] = Claiming]
  /\ UNCHANGED <<document, credentials, faults>>

\* The end of ProcessTasks: the purge, whose cascade takes mappings along.
Sweep(w) ==
  /\ worker[w].stage = "sweep"
  /\ \/ PurgeExpiredKnowledge
     \/ Purgeable = {} /\ UNCHANGED vars
  /\ mapping' = [k \in Item |-> IF k \in Purgeable THEN 0 ELSE mapping[k]]
  /\ simulated' = simulated \ Purgeable
  /\ worker' = [worker EXCEPT ![w] = Claiming]
  /\ UNCHANGED <<document, credentials, faults>>

\* The worker dies or is stopped, and is started again with the environment
\* the deployment has by then.
Crash(w) ==
  /\ faults < MaxFaults
  /\ worker[w].stage # "claim"
  /\ faults' = faults + 1
  /\ worker' = [worker EXCEPT ![w] = Claiming]
  /\ credentials' \in {credentials \ {w}, credentials \cup {w}}
  /\ UNCHANGED <<vars, mapping, simulated, document>>

\* run_after of a task waiting for its retry passes.
BackoffElapses(t) ==
  /\ t \in 1..Len(tasks)
  /\ tasks[t].status = "RETRYING"
  /\ ~tasks[t].due
  /\ tasks' = [tasks EXCEPT ![t].due = TRUE]
  /\ UNCHANGED <<items, versions, req, syncVars>>

WorkerStep(w) ==
  \/ Claim(w)
  \/ ReadItem(w)
  \/ Send(w)
  \/ SendFails(w)
  \/ WriteMapping(w)
  \/ DocLinkFails(w)
  \/ MarkTaskSuccess(w)
  \/ MarkTaskFailure(w)
  \/ Sweep(w)

SyncNext ==
  \/ ServerStep /\ UNCHANGED syncVars
  \/ \E w \in Worker : WorkerStep(w) \/ MarkLost(w) \/ Crash(w)
  \/ \E t \in 1..Len(tasks) : BackoffElapses(t)

SyncSpec == SyncInit /\ [][SyncNext]_allVars

-----------------------------------------------------------------------------
(* Invariants.                                                             *)

\* A mapping never names a version newer than the item's, and, unless it says
\* SIMULATED, none the document was not sent: the worker writes it after the
\* call, with what it read before, and edits, the purge, and a restart with
\* other credentials may come at any point.
MappingIsWritten ==
  \A k \in Item : mapping[k] # 0 =>
    /\ mapping[k] <= items[k].version
    /\ k \notin simulated => mapping[k] \in document[k]

Holders(t) ==
  {w \in Worker : \E i \in DOMAIN worker[w].batch : worker[w].batch[i] = t}

Orphans == {t \in 1..Len(tasks) : tasks[t].status = "RUNNING" /\ Holders(t) = {}}

\* However many workers claim, a task is in the hands of one of them at most
\* and only once, and is RUNNING while it is (ClaimRunnableTasks: FOR UPDATE
\* SKIP LOCKED and the status update in one transaction).  The RUNNING tasks
\* nobody holds, which nobody will take up again, come from faults: a batch at
\* most from each.
TaskHeldOnce ==
  /\ Cardinality(Orphans) <= faults * BatchLimit
  /\ \A t \in 1..Len(tasks) : Holders(t) # {} => tasks[t].status = "RUNNING"
  /\ \A v, w \in Worker :
       \A i \in DOMAIN worker[v].batch : \A j \in DOMAIN worker[w].batch :
         worker[v].batch[i] = worker[w].batch[j] => v = w /\ i = j

\* With one worker, an item whose newest version is not in its mapping has a
\* task that did not succeed: no edit's sync is forgotten, whatever edits
\* fall between the worker's read of the item and its writing the mapping.
SyncDebt ==
  Cardinality(Worker) = 1 =>
    \A k \in Item : Exists(k) /\ mapping[k] < items[k].version =>
      \E t \in 1..Len(tasks) : tasks[t].target = k /\ tasks[t].status # "SUCCESS"

-----------------------------------------------------------------------------
(* Action and temporal properties.                                         *)

Finished(t) == tasks[t].status \in {"SUCCESS", "FAILED"}

\* A finished task is never taken up again, and no task leaves the queue.
FinishedStaysFinished ==
  [][\A t \in 1..Len(tasks) :
       /\ t \in 1..Len(tasks')
       /\ Finished(t) => tasks'[t].status = tasks[t].status]_allVars

\* With one worker, an older text is never sent after a newer one, retries
\* included, and the mapping never steps back while the item exists.
NeverBackwards ==
  [][Cardinality(Worker) = 1 =>
       \A k \in Item :
         /\ \A n \in document'[k] \ document[k] : \A m \in document[k] : m < n
         /\ mapping'[k] < mapping[k] => ~Exists(k)']_allVars

\* Each worker's loop goes on (calls time out, the container restarts) and
\* back-offs pass; nothing is assumed of requests.
SyncFairness ==
  /\ \A w \in Worker : WF_allVars(WorkerStep(w))
  /\ WF_allVars(\E t \in 1..Len(tasks) : BackoffElapses(t))

FairSyncSpec == SyncSpec /\ SyncFairness

AllFinished == \A t \in 1..Len(tasks) : Finished(t) \/ t \in Orphans

\* Every task ends in SUCCESS or FAILED, but for those a fault has orphaned
\* (TaskHeldOnce says how many these are): once the edits stop (their bounds end
\* them here), no task is left queued, in hand or retrying, also when calls keep
\* failing and items are removed and purged under the worker.
EveryTaskFinishes == <>[]AllFinished

CaughtUp ==
  \A k \in Item : Exists(k) /\ mapping[k] < items[k].version =>
    \E t \in 1..Len(tasks) :
      tasks[t].target = k /\ (tasks[t].status = "FAILED" \/ t \in Orphans)

\* Once the edits stop, every item's newest version is in its mapping, or a
\* task of it has failed for good or was orphaned by a fault.  With one worker
\* this follows from SyncDebt and EveryTaskFinishes (DocSyncProofs).
MappingsCatchUp == <>[]CaughtUp

=============================================================================
