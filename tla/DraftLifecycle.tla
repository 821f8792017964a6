--------------------------- MODULE DraftLifecycle ---------------------------
(***************************************************************************)
(* The life of a knowledge draft from creation to its decision: the service *)
(* operations on drafts (internal/service), the statements they issue       *)
(* (internal/repository) and the worker's sweep that expires drafts and     *)
(* reminds their owners.                                                    *)
(*                                                                          *)
(* Approving, rejecting and revising a draft READ its row first and test    *)
(* status and deadline on that copy; the write comes later.  The rejecting  *)
(* UPDATE repeats the status in its WHERE, the approving transaction does   *)
(* not.  Expiring is one statement with a sub-select: under READ COMMITTED  *)
(* the sub-select sees the snapshot the statement started with, and a row   *)
(* another transaction decided in between is updated all the same, for only *)
(* "id IN (...)" is tested again on it.  So choosing the rows and writing   *)
(* them are two steps here.                                                 *)
(*                                                                          *)
(* A draft's texts are left out (no operation changes them).  Of the clock  *)
(* a pending draft keeps its age: fresh, within the reminder window         *)
(* ("soon"), or past its deadline ("overdue").                              *)
(***************************************************************************)
EXTENDS Naturals, Sequences, FiniteSets

CONSTANTS
  Draft,      \* knowledge_drafts ids; BIGSERIAL never hands one out twice
  Request,    \* requests being served at the same time
  Path,       \* category paths
  Keep,       \* an empty category argument: keep the draft's
  None,       \* a draft that revises no other
  SweepLimit, \* rows one statement of the sweep may take (its LIMIT)
  MaxFaults   \* bound: worker crashes, lost answers and lost marks

ASSUME KeepAssumption == Keep \notin Path
ASSUME NoneAssumption == None \notin Draft
ASSUME LimitAssumption == SweepLimit \in Nat \ {0}
ASSUME FaultAssumption == MaxFaults \in Nat

VARIABLES
  drafts,    \* the table knowledge_drafts
  revises,   \* revises[d]: the draft d was made from by a revision
  made,      \* made[d]: paths of the knowledge items made from d, in order
  req,       \* what each request holds between its statements
  worker,    \* where app-worker's loop is and the rows it is working on
  reminders, \* reminders[d]: reminder messages the owner of d received
  faults     \* faults so far

vars == <<drafts, revises, made, req, worker, reminders, faults>>

-----------------------------------------------------------------------------

Decided == {"APPROVED", "REJECTED", "DEFERRED", "EXPIRED"}
Status == {"NONE", "PENDING_CONFIRMATION"} \cup Decided

DraftRow == [status : Status, category : Path \cup {Keep},
             age : {"fresh", "soon", "overdue"}, reminded : BOOLEAN]

Idle == [op |-> "idle"]
\* "revise" has read the old draft, "discard" is about to reject it and
\* "recreate" has rejected it and is writing the new one.
Serving == [op : {"approve", "reject", "revise", "discard", "recreate"},
            draft : Draft, path : Path \cup {Keep}]
Sweeping == [op : {"sweep"}, rows : SUBSET Draft]

TypeOK ==
  /\ drafts \in [Draft -> DraftRow]
  /\ revises \in [Draft -> Draft \cup {None}]
  /\ made \in [Draft -> Seq(Path \cup {Keep})]
  /\ req \in [Request -> {Idle} \cup Serving \cup Sweeping]
  /\ worker \in [stage : {"tick", "expire", "list", "send", "mark"},
                 rows : SUBSET Draft, at : Draft \cup {None}]
  /\ reminders \in [Draft -> Nat]
  /\ faults \in 0..MaxFaults

-----------------------------------------------------------------------------

Unborn == [status |-> "NONE", category |-> Keep, age |-> "fresh",
           reminded |-> FALSE]

At(stage, rows) == [stage |-> stage, rows |-> rows, at |-> None]

Init ==
  /\ drafts = [d \in Draft |-> Unborn]
  /\ revises = [d \in Draft |-> None]
  /\ made = [d \in Draft |-> <<>>]
  /\ req = [r \in Request |-> Idle]
  /\ worker = At("tick", {})
  /\ reminders = [d \in Draft |-> 0]
  /\ faults = 0

Pending(d) == drafts[d].status = "PENDING_CONFIRMATION"
Settled(d) == drafts[d].status \in Decided

\* What ApproveDraft and RejectDraft test on the row they read.
Open(d) == Pending(d) /\ drafts[d].age # "overdue"

Hold(r, op, d, p) == req' = [req EXCEPT ![r] = [op |-> op, draft |-> d, path |-> p]]
Release(r) == req' = [req EXCEPT ![r] = Idle]

\* The path an operation files under: the argument, or the draft's own.
Chosen(d, p) == IF p = Keep THEN drafts[d].category ELSE p

\* INSERT of a draft: pending, its deadline an hour away.
Insert(d, p) ==
  /\ drafts[d].status = "NONE"
  /\ drafts' = [drafts EXCEPT ![d] =
                  [status |-> "PENDING_CONFIRMATION", category |-> p,
                   age |-> "fresh", reminded |-> FALSE]]

\* UpdateDraftStatus: ... WHERE id AND status='PENDING_CONFIRMATION'.
SetStatus(d, s) ==
  /\ Pending(d)
  /\ drafts' = [drafts EXCEPT ![d].status = s]

-----------------------------------------------------------------------------
(* Requests: HTTP handlers, card buttons, MCP tools, agent tools, messages. *)

CreateDraft(r, d, p) ==
  /\ req[r] = Idle
  /\ Insert(d, p)
  /\ UNCHANGED <<revises, made, req, worker, reminders, faults>>

\* Fault variants (here and below, named <definition>_<fault>): the definition
\* with a plausible bug; only mutation runs use them.
BeginApprove_AnyStatus(r, d, p) ==
  /\ req[r] = Idle
  /\ drafts[d].status # "NONE"
  /\ Hold(r, "approve", d, Chosen(d, p))
  /\ UNCHANGED <<drafts, revises, made, worker, reminders, faults>>

\* ApproveDraft, up to the call of CreateKnowledgeFromDraft.
BeginApprove(r, d, p) ==
  /\ req[r] = Idle
  /\ Open(d)
  /\ Hold(r, "approve", d, Chosen(d, p))
  /\ UNCHANGED <<drafts, revises, made, worker, reminders, faults>>

CommitApprove_NoStatusUpdate(r) ==
  /\ req[r].op = "approve"
  /\ made' = [made EXCEPT ![req[r].draft] = Append(@, req[r].path)]
  /\ Release(r)
  /\ UNCHANGED <<drafts, revises, worker, reminders, faults>>

\* CreateKnowledgeFromDraft's transaction: a knowledge item, and the draft
\* set to APPROVED whatever its status is by now.
CommitApprove(r) ==
  /\ req[r].op = "approve"
  /\ made' = [made EXCEPT ![req[r].draft] = Append(@, req[r].path)]
  /\ drafts' = [drafts EXCEPT ![req[r].draft].status = "APPROVED"]
  /\ Release(r)
  /\ UNCHANGED <<revises, worker, reminders, faults>>

\* RejectDraft, up to its UPDATE.
BeginReject(r, d) ==
  /\ req[r] = Idle
  /\ Open(d)
  /\ Hold(r, "reject", d, Keep)
  /\ UNCHANGED <<drafts, revises, made, worker, reminders, faults>>

CommitReject(r) ==
  /\ req[r].op = "reject"
  /\ SetStatus(req[r].draft, "REJECTED")
  /\ Release(r)
  /\ UNCHANGED <<revises, made, worker, reminders, faults>>

\* IgnoreDraft and LaterDraft read nothing and look at no deadline.
IgnoreDraft(r, d) ==
  /\ req[r] = Idle
  /\ SetStatus(d, "REJECTED")
  /\ UNCHANGED <<revises, made, req, worker, reminders, faults>>

LaterDraft(r, d) ==
  /\ req[r] = Idle
  /\ SetStatus(d, "DEFERRED")
  /\ UNCHANGED <<revises, made, req, worker, reminders, faults>>

\* UpdateDraftCategory: guarded by the status alone.
UpdateDraftCategory(r, d, p) ==
  /\ req[r] = Idle
  /\ Pending(d)
  /\ drafts' = [drafts EXCEPT ![d].category = p]
  /\ UNCHANGED <<revises, made, req, worker, reminders, faults>>

\* ReviseDraftForAgent: read the old draft (in any status) ...
BeginRevise(r, d, p) ==
  /\ req[r] = Idle
  /\ drafts[d].status # "NONE"
  /\ Hold(r, "revise", d, Chosen(d, p))
  /\ UNCHANGED <<drafts, revises, made, worker, reminders, faults>>

\* ... call RejectDraft on it: its test ...
BeginDiscard(r) ==
  /\ req[r].op = "revise"
  /\ Open(req[r].draft)
  /\ req' = [req EXCEPT ![r].op = "discard"]
  /\ UNCHANGED <<drafts, revises, made, worker, reminders, faults>>

CommitDiscard_IgnoringRowCount(r) ==
  /\ req[r].op = "discard"
  /\ drafts' = IF Pending(req[r].draft)
               THEN [drafts EXCEPT ![req[r].draft].status = "REJECTED"]
               ELSE drafts
  /\ req' = [req EXCEPT ![r].op = "recreate"]
  /\ UNCHANGED <<revises, made, worker, reminders, faults>>

\* ... and its UPDATE ...
CommitDiscard(r) ==
  /\ req[r].op = "discard"
  /\ SetStatus(req[r].draft, "REJECTED")
  /\ req' = [req EXCEPT ![r].op = "recreate"]
  /\ UNCHANGED <<revises, made, worker, reminders, faults>>

\* ... and create the draft that takes its place.
Recreate(r, e) ==
  /\ req[r].op = "recreate"
  /\ Insert(e, req[r].path)
  /\ revises' = [revises EXCEPT ![e] = req[r].draft]
  /\ Release(r)
  /\ UNCHANGED <<made, worker, reminders, faults>>

\* A test or a guarded UPDATE refuses, the client goes away, a statement
\* fails or app-server dies: the request writes no more.
Abandon(r) ==
  /\ req[r] # Idle
  /\ Release(r)
  /\ UNCHANGED <<drafts, revises, made, worker, reminders, faults>>

-----------------------------------------------------------------------------
(* Expiring, by app-worker's loop or by the MCP tool expire_pending_drafts. *)

Overdue == {d \in Draft : Pending(d) /\ drafts[d].age = "overdue"}

\* ORDER BY expires_at LIMIT n over the rows; which ones come first follows
\* from deadlines the model does not keep.
Batches(rows) ==
  {S \in SUBSET rows :
     \/ Cardinality(S) = SweepLimit
     \/ S = rows /\ Cardinality(S) < SweepLimit}

Expired(S) ==
  [d \in Draft |-> IF d \in S THEN [drafts[d] EXCEPT !.status = "EXPIRED"]
                              ELSE drafts[d]]

BeginSweep(r) ==
  /\ req[r] = Idle
  /\ \E S \in Batches(Overdue) \ {{}} :
       req' = [req EXCEPT ![r] = [op |-> "sweep", rows |-> S]]
  /\ UNCHANGED <<drafts, revises, made, worker, reminders, faults>>

CommitSweep(r) ==
  /\ req[r].op = "sweep"
  /\ drafts' = Expired(req[r].rows)
  /\ Release(r)
  /\ UNCHANGED <<revises, made, worker, reminders, faults>>

\* ProcessTasks, after the sync tasks: ExpirePendingDrafts ...
WorkerBeginSweep ==
  /\ worker.stage = "tick"
  /\ \E S \in Batches(Overdue) : worker' = At("expire", S)
  /\ UNCHANGED <<drafts, revises, made, req, reminders, faults>>

WorkerCommitSweep ==
  /\ worker.stage = "expire"
  /\ drafts' = Expired(worker.rows)
  /\ worker' = At("list", {})
  /\ UNCHANGED <<revises, made, req, reminders, faults>>

\* ListDraftsNeedingReminder has no lower bound on the deadline.
NeedReminder ==
  {d \in Draft : Pending(d) /\ drafts[d].age # "fresh" /\ ~drafts[d].reminded}

\* ... then RemindPendingDrafts: list the drafts once ...
WorkerListReminders ==
  /\ worker.stage = "list"
  /\ \E S \in Batches(NeedReminder) : worker' = At("send", S)
  /\ UNCHANGED <<drafts, revises, made, req, reminders, faults>>

\* ... and for each of them reply to its message or, if that fails, write to
\* its chat; both may fail, or messaging be off ...
WorkerRemind(d) ==
  /\ worker.stage = "send"
  /\ d \in worker.rows
  /\ worker' = [worker EXCEPT !.stage = "mark", !.at = d]
  /\ \/ reminders' = [reminders EXCEPT ![d] = @ + 1]
     \/ UNCHANGED reminders
  /\ UNCHANGED <<drafts, revises, made, req, faults>>

\* (the reply arrives but its answer is lost, so the chat gets one as well)
WorkerReplyAnswerLost(d) ==
  /\ worker.stage = "send"
  /\ d \in worker.rows
  /\ faults < MaxFaults
  /\ faults' = faults + 1
  /\ worker' = [worker EXCEPT !.stage = "mark", !.at = d]
  /\ reminders' = [reminders EXCEPT ![d] = @ + 2]
  /\ UNCHANGED <<drafts, revises, made, req>>

WorkerMark_Forgotten ==
  /\ worker.stage = "mark"
  /\ worker' = At("send", worker.rows \ {worker.at})
  /\ UNCHANGED <<drafts, revises, made, req, reminders, faults>>

\* ... and mark it, whatever became of the message or of the draft.
WorkerMark ==
  /\ worker.stage = "mark"
  /\ drafts' = [drafts EXCEPT ![worker.at].reminded = TRUE]
  /\ worker' = At("send", worker.rows \ {worker.at})
  /\ UNCHANGED <<revises, made, req, reminders, faults>>

\* MarkDraftReminded fails; its error is only not counted.
WorkerMarkFails ==
  /\ worker.stage = "mark"
  /\ faults < MaxFaults
  /\ faults' = faults + 1
  /\ worker' = At("send", worker.rows \ {worker.at})
  /\ UNCHANGED <<drafts, revises, made, req, reminders>>

WorkerFinish_ReturnsFromLoop ==
  /\ worker.stage = "send"
  /\ worker.rows = {}
  /\ worker' = At("stopped", {})
  /\ UNCHANGED <<drafts, revises, made, req, reminders, faults>>

\* The loop waits for the next tick of its ticker.
WorkerFinish ==
  /\ worker.stage = "send"
  /\ worker.rows = {}
  /\ worker' = At("tick", {})
  /\ UNCHANGED <<drafts, revises, made, req, reminders, faults>>

\* app-worker dies and its container is started again.
WorkerCrash ==
  /\ faults < MaxFaults
  /\ worker.stage # "tick"
  /\ faults' = faults + 1
  /\ worker' = At("tick", {})
  /\ UNCHANGED <<drafts, revises, made, req, reminders>>

\* A pending draft grows older (the age of a settled one is never read).
TimePasses(d) ==
  /\ Pending(d)
  /\ drafts[d].age # "overdue"
  /\ drafts' = [drafts EXCEPT ![d].age = IF @ = "fresh" THEN "soon" ELSE "overdue"]
  /\ UNCHANGED <<revises, made, req, worker, reminders, faults>>

-----------------------------------------------------------------------------

RequestStep(r) ==
  \/ \E d \in Draft :
       \/ BeginReject(r, d)
       \/ IgnoreDraft(r, d)
       \/ LaterDraft(r, d)
       \/ Recreate(r, d)
       \/ \E p \in Path : CreateDraft(r, d, p) \/ UpdateDraftCategory(r, d, p)
       \/ \E p \in Path \cup {Keep} : BeginApprove(r, d, p) \/ BeginRevise(r, d, p)
  \/ CommitApprove(r)
  \/ CommitReject(r)
  \/ BeginDiscard(r)
  \/ CommitDiscard(r)
  \/ BeginSweep(r)
  \/ CommitSweep(r)
  \/ Abandon(r)

WorkerStep ==
  \/ WorkerBeginSweep
  \/ WorkerCommitSweep
  \/ WorkerListReminders
  \/ \E d \in Draft : WorkerRemind(d)
  \/ WorkerMark
  \/ WorkerFinish

Next ==
  \/ \E r \in Request : RequestStep(r)
  \/ WorkerStep
  \/ WorkerMarkFails
  \/ WorkerCrash
  \/ \E d \in Draft : WorkerReplyAnswerLost(d) \/ TimePasses(d)

Spec == Init /\ [][Next]_vars

\* The clock runs and the worker's loop goes on (its container restarts, its
\* ticker fires, its statements return); nothing is assumed of requests.
Fairness == WF_vars(WorkerStep) /\ \A d \in Draft : WF_vars(TimePasses(d))
FairSpec == Spec /\ Fairness

-----------------------------------------------------------------------------
(* Invariants.                                                             *)

\* A draft is APPROVED only with a knowledge item made from it, a pending one
\* has none, and a user's later rejection or deferral never hides an item
\* that exists (the approving transaction writes both or neither; only
\* expiring may overwrite APPROVED).
ItemsMatchStatus ==
  \A d \in Draft :
    /\ drafts[d].status = "APPROVED" => made[d] # <<>>
    /\ made[d] # <<>> => drafts[d].status \in {"APPROVED", "EXPIRED"}

Approving(d) == {r \in Request : req[r].op = "approve" /\ req[r].draft = d}

Recreating(d) == {r \in Request : req[r].op = "recreate" /\ req[r].draft = d}
RevisionsOf(d) == {e \in Draft : revises[e] = d}

\* However many revisions of a draft race, one of them at most gets to write
\* its successor, and not before the draft has left PENDING_CONFIRMATION: a
\* user never faces the old and the new text both awaiting confirmation
\* (ReviseDraftForAgent rejects first and stops if that touches no row).
OneRevision ==
  \A d \in Draft :
    /\ Cardinality(RevisionsOf(d)) + Cardinality(Recreating(d)) <= 1
    /\ RevisionsOf(d) \cup Recreating(d) # {} => Settled(d)

\* A draft's owner is reminded once, and once more at most for each time the
\* worker dies, loses an answer or fails to mark, wherever it is then and
\* whatever is decided between listing and sending.
AtMostOneReminder ==
  \A d \in Draft : reminders[d] <= 1 + faults

-----------------------------------------------------------------------------
(* Action properties.                                                      *)

\* No request or sweep still holds d in a way that can overwrite a decision.
Quiet(d) ==
  /\ Approving(d) = {}
  /\ \A r \in Request : req[r].op = "sweep" => d \notin req[r].rows
  /\ ~(worker.stage = "expire" /\ d \in worker.rows)

\* A decision is final once the approvals and sweeps that had read the draft
\* before it are through: no later request changes its status or makes an
\* item of it, and none can start that would.
QuietDecisionIsFinal ==
  [][\A d \in Draft : Settled(d) /\ Quiet(d) =>
       /\ drafts'[d].status = drafts[d].status
       /\ made'[d] = made[d]
       /\ Quiet(d)']_vars

\* A rejection, a deferral and a revision decide pending drafts only, however
\* late they come after their test: what overwrites a decision is an approval
\* or an expiry.
GuardedDecisionsOnlyOnce ==
  [][\A d \in Draft :
       /\ drafts'[d].status \in {"REJECTED", "DEFERRED"}
       /\ drafts'[d].status # drafts[d].status
       => Pending(d)]_vars

-----------------------------------------------------------------------------
(* Liveness.                                                               *)

\* Every draft is decided in the end, by its owner or by expiring, even if
\* the worker crashes at any of its steps.
EveryDraftIsDecided ==
  \A d \in Draft : Pending(d) ~> Settled(d)

-----------------------------------------------------------------------------
(* What the documents say of drafts and the code does not keep.            *)

\* "Confirming must avoid abnormal states from repeated submission"
\* (log/prd_mvp_revision_feishu.md): one draft, one knowledge item.
OneItemPerDraft ==
  \A d \in Draft : Len(made[d]) <= 1

=============================================================================
