------------------------ MODULE DraftLifecycleProofs ------------------------
(***************************************************************************)
(* The theorems of DraftLifecycle, for any drafts, requests and paths, any  *)
(* LIMIT and any number of faults.                                          *)
(***************************************************************************)
EXTENDS DraftLifecycle, FiniteSetTheorems, TLAPS

IInv == TypeOK /\ ItemsMatchStatus

-----------------------------------------------------------------------------
(* What the statements do to the tables.                                   *)

LEMMA AtType ==
  ASSUME NEW stage \in {"tick", "expire", "list", "send", "mark"},
         NEW rows \in SUBSET Draft
  PROVE  /\ At(stage, rows) \in [stage : {"tick", "expire", "list", "send", "mark"},
                                 rows : SUBSET Draft, at : Draft \cup {None}]
         /\ At(stage, rows).stage = stage
         /\ At(stage, rows).rows = rows
BY DEF At

\* Taking up and dropping work keeps the requests well typed.
LEMMA HoldType ==
  ASSUME TypeOK, NEW r \in Request,
         NEW op \in {"approve", "reject", "revise", "discard", "recreate"},
         NEW d \in Draft, NEW p \in Path \cup {Keep}, Hold(r, op, d, p)
  PROVE  req' \in [Request -> {Idle} \cup Serving \cup Sweeping]
<1>1. [op |-> op, draft |-> d, path |-> p] \in Serving
  BY DEF Serving
<1> QED
  BY <1>1 DEF Hold, TypeOK

LEMMA ReleaseType ==
  ASSUME TypeOK, NEW r \in Request, Release(r)
  PROVE  req' \in [Request -> {Idle} \cup Serving \cup Sweeping]
BY DEF Release, TypeOK

LEMMA ChosenType ==
  ASSUME TypeOK, NEW d \in Draft, NEW p \in Path \cup {Keep}
  PROVE  Chosen(d, p) \in Path \cup {Keep}
BY DEF Chosen, TypeOK, DraftRow

\* A request of the serving kinds names a draft.
LEMMA ServedDraft ==
  ASSUME TypeOK, NEW r \in Request,
         req[r].op \in {"approve", "reject", "revise", "discard", "recreate"}
  PROVE  req[r] \in Serving /\ req[r].draft \in Draft /\ req[r].path \in Path \cup {Keep}
BY DEF TypeOK, Idle, Serving, Sweeping

\* The statements that insert a draft, decide one and expire several keep the
\* table well typed.
LEMMA InsertType ==
  ASSUME TypeOK, NEW d \in Draft, NEW p \in Path \cup {Keep}, Insert(d, p)
  PROVE  drafts' \in [Draft -> DraftRow]
<1>1. [status |-> "PENDING_CONFIRMATION", category |-> p, age |-> "fresh",
       reminded |-> FALSE] \in DraftRow
  BY DEF DraftRow, Status
<1> QED
  BY <1>1 DEF Insert, TypeOK

LEMMA RowType ==
  ASSUME TypeOK, NEW d \in Draft, NEW row \in DraftRow
  PROVE  [drafts EXCEPT ![d] = row] \in [Draft -> DraftRow]
<1> HIDE DEF DraftRow
<1> QED
  BY DEF TypeOK

LEMMA FieldType ==
  ASSUME TypeOK, NEW d \in Draft
  PROVE  /\ \A s \in Status : [drafts EXCEPT ![d].status = s] \in [Draft -> DraftRow]
         /\ \A p \in Path : [drafts EXCEPT ![d].category = p] \in [Draft -> DraftRow]
         /\ \A a \in {"fresh", "soon", "overdue"} :
              [drafts EXCEPT ![d].age = a] \in [Draft -> DraftRow]
         /\ [drafts EXCEPT ![d].reminded = TRUE] \in [Draft -> DraftRow]
<1>1. drafts[d] \in DraftRow
  BY DEF TypeOK
<1>2. ASSUME NEW s \in Status PROVE [drafts[d] EXCEPT !.status = s] \in DraftRow
  BY <1>1 DEF DraftRow
<1>3. ASSUME NEW p \in Path PROVE [drafts[d] EXCEPT !.category = p] \in DraftRow
  BY <1>1 DEF DraftRow
<1>4. ASSUME NEW a \in {"fresh", "soon", "overdue"}
      PROVE  [drafts[d] EXCEPT !.age = a] \in DraftRow
  BY <1>1 DEF DraftRow
<1>5. [drafts[d] EXCEPT !.reminded = TRUE] \in DraftRow
  BY <1>1 DEF DraftRow
<1> QED
  BY <1>2, <1>3, <1>4, <1>5, RowType

LEMMA StatusType ==
  ASSUME TypeOK, NEW d \in Draft, NEW s \in Status,
         drafts' = [drafts EXCEPT ![d].status = s]
  PROVE  drafts' \in [Draft -> DraftRow]
BY FieldType

LEMMA ExpiredType ==
  ASSUME TypeOK, NEW S \in SUBSET Draft
  PROVE  Expired(S) \in [Draft -> DraftRow]
<1>1. "EXPIRED" \in Status
  BY DEF Status, Decided
<1>2. ASSUME NEW d \in Draft
      PROVE  /\ drafts[d] \in DraftRow
             /\ [drafts[d] EXCEPT !.status = "EXPIRED"] \in DraftRow
  BY <1>1 DEF TypeOK, DraftRow
<1> QED
  BY <1>2 DEF Expired

-----------------------------------------------------------------------------
(* What a step can do to one draft.                                        *)

\* Some sweep has chosen d and not written yet.
InSweep(d) ==
  \/ \E r \in Request : req[r].op = "sweep" /\ d \in req[r].rows
  \/ worker.stage = "expire" /\ d \in worker.rows

Approved(d) ==
  \E r \in Approving(d) : /\ drafts'[d].status = "APPROVED"
                          /\ made'[d] = Append(made[d], req[r].path)

StatusStep(d) ==
  \/ Approved(d)
  \/ /\ made'[d] = made[d]
     /\ \/ drafts'[d].status = drafts[d].status
        \/ drafts[d].status = "NONE" /\ drafts'[d].status = "PENDING_CONFIRMATION"
        \/ Pending(d) /\ drafts'[d].status \in {"REJECTED", "DEFERRED"}
        \/ InSweep(d) /\ drafts'[d].status = "EXPIRED"

LEMMA InsertStep ==
  ASSUME TypeOK, NEW e \in Draft, NEW p, Insert(e, p), made' = made, NEW d \in Draft
  PROVE  StatusStep(d)
BY DEF Insert, StatusStep, TypeOK

LEMMA SetStatusStep ==
  ASSUME TypeOK, NEW e \in Draft, NEW s \in {"REJECTED", "DEFERRED"},
         SetStatus(e, s), made' = made, NEW d \in Draft
  PROVE  StatusStep(d)
<1>1. Pending(e) /\ drafts' = [drafts EXCEPT ![e].status = s]
  BY DEF SetStatus
<1>2. drafts[e] \in DraftRow
  BY DEF TypeOK
<1>3. CASE d = e
  <2>1. drafts'[d].status = s
    BY <1>1, <1>2, <1>3 DEF TypeOK, DraftRow
  <2> QED
    BY <1>1, <1>3, <2>1 DEF StatusStep
<1>4. CASE d # e
  BY <1>1, <1>4 DEF StatusStep, TypeOK
<1> QED
  BY <1>3, <1>4

LEMMA ExpiredStep ==
  ASSUME TypeOK, NEW S, drafts' = Expired(S), made' = made,
         \A d \in S : InSweep(d), NEW d \in Draft
  PROVE  StatusStep(d)
<1>1. drafts[d] \in DraftRow
  BY DEF TypeOK
<1>2. CASE d \in S
  <2>1. drafts'[d].status = "EXPIRED"
    BY <1>1, <1>2 DEF Expired, DraftRow
  <2> QED
    BY <1>2, <2>1 DEF StatusStep
<1>3. CASE d \notin S
  BY <1>3 DEF Expired, StatusStep
<1> QED
  BY <1>2, <1>3

LEMMA CommitApproveStep ==
  ASSUME TypeOK, NEW r \in Request, CommitApprove(r), NEW d \in Draft
  PROVE  StatusStep(d)
<1> DEFINE e == req[r].draft
<1>1. e \in Draft
  BY ServedDraft DEF CommitApprove
<1>2. /\ made' = [made EXCEPT ![e] = Append(@, req[r].path)]
      /\ drafts' = [drafts EXCEPT ![e].status = "APPROVED"]
  BY DEF CommitApprove
<1>3. CASE d = e
  <2>1. drafts[d] \in DraftRow
    BY DEF TypeOK
  <2>2. drafts'[d].status = "APPROVED"
    BY <1>2, <1>3, <2>1 DEF TypeOK, DraftRow
  <2>3. made'[d] = Append(made[d], req[r].path)
    BY <1>2, <1>3 DEF TypeOK
  <2>4. r \in Approving(d)
    BY <1>3 DEF Approving, CommitApprove
  <2> QED
    BY <2>2, <2>3, <2>4 DEF StatusStep, Approved
<1>4. CASE d # e
  BY <1>1, <1>2, <1>4 DEF StatusStep, TypeOK
<1> QED
  BY <1>3, <1>4

\* A step that writes a field of a row other than the status.
LEMMA FieldStep ==
  ASSUME TypeOK, made' = made, NEW d \in Draft,
         \/ drafts' = drafts
         \/ \E e \in Draft, p \in Path : drafts' = [drafts EXCEPT ![e].category = p]
         \/ \E e \in Draft : drafts' = [drafts EXCEPT ![e].reminded = TRUE]
         \/ \E e \in Draft : TimePasses(e)
  PROVE  StatusStep(d)
<1>1. drafts[d] \in DraftRow
  BY DEF TypeOK
<1>2. drafts'[d].status = drafts[d].status
  <2>1. CASE drafts' = drafts
    BY <2>1
  <2>2. ASSUME NEW e \in Draft, NEW p \in Path, drafts' = [drafts EXCEPT ![e].category = p]
        PROVE  drafts'[d].status = drafts[d].status
    BY <1>1, <2>2 DEF TypeOK, DraftRow
  <2>3. ASSUME NEW e \in Draft, drafts' = [drafts EXCEPT ![e].reminded = TRUE]
        PROVE  drafts'[d].status = drafts[d].status
    BY <1>1, <2>3 DEF TypeOK, DraftRow
  <2>4. ASSUME NEW e \in Draft, TimePasses(e)
        PROVE  drafts'[d].status = drafts[d].status
    <3>1. PICK a : drafts' = [drafts EXCEPT ![e].age = a]
      BY <2>4 DEF TimePasses
    <3> QED
      BY <1>1, <3>1 DEF TypeOK, DraftRow
  <2> QED
    BY <2>1, <2>2, <2>3, <2>4
<1> QED
  BY <1>2 DEF StatusStep

LEMMA StepChanges ==
  ASSUME TypeOK, [Next]_vars, NEW d \in Draft
  PROVE  StatusStep(d)
<1>1. ASSUME NEW r \in Request, RequestStep(r) PROVE StatusStep(d)
  <2>1. ASSUME NEW e \in Draft, NEW p \in Path, CreateDraft(r, e, p) PROVE StatusStep(d)
    BY <2>1, InsertStep DEF CreateDraft
  <2>2. ASSUME NEW e \in Draft, Recreate(r, e) PROVE StatusStep(d)
    BY <2>2, InsertStep DEF Recreate
  <2>3. ASSUME NEW e \in Draft, IgnoreDraft(r, e) \/ LaterDraft(r, e) PROVE StatusStep(d)
    BY <2>3, SetStatusStep DEF IgnoreDraft, LaterDraft
  <2>4. CASE CommitReject(r) \/ CommitDiscard(r)
    <3>1. req[r].draft \in Draft
      BY <2>4, ServedDraft DEF CommitReject, CommitDiscard
    <3> QED
      BY <2>4, <3>1, SetStatusStep DEF CommitReject, CommitDiscard
  <2>5. CASE CommitApprove(r)
    BY <2>5, CommitApproveStep
  <2>6. CASE CommitSweep(r)
    <3>1. \A e \in req[r].rows : InSweep(e)
      BY <2>6 DEF CommitSweep, InSweep
    <3> QED
      BY <2>6, <3>1, ExpiredStep DEF CommitSweep
  <2>7. ASSUME NEW e \in Draft, NEW p \in Path, UpdateDraftCategory(r, e, p)
        PROVE  StatusStep(d)
    BY <2>7, FieldStep DEF UpdateDraftCategory
  <2>8. CASE drafts' = drafts /\ made' = made
    BY <2>8, FieldStep
  <2> QED
    BY <1>1, <2>1, <2>2, <2>3, <2>4, <2>5, <2>6, <2>7, <2>8
    DEF RequestStep, BeginReject, BeginApprove, BeginRevise, BeginDiscard, BeginSweep,
        Abandon
<1>2. CASE WorkerCommitSweep
  <2>1. \A e \in worker.rows : InSweep(e)
    BY <1>2 DEF WorkerCommitSweep, InSweep
  <2> QED
    BY <1>2, <2>1, ExpiredStep DEF WorkerCommitSweep
<1>3. CASE WorkerMark
  <2>1. CASE worker.at \in Draft
    BY <1>3, <2>1, FieldStep DEF WorkerMark
  <2>2. CASE worker.at \notin Draft
    <3>1. drafts' = drafts
      BY <1>3, <2>2 DEF WorkerMark, TypeOK
    <3> QED
      BY <1>3, <3>1, FieldStep DEF WorkerMark
  <2> QED
    BY <2>1, <2>2
<1>4. CASE \E e \in Draft : TimePasses(e)
  BY <1>4, FieldStep DEF TimePasses
<1>5. CASE drafts' = drafts /\ made' = made
  BY <1>5, FieldStep
<1> QED
  BY <1>1, <1>2, <1>3, <1>4, <1>5
  DEF Next, WorkerStep, WorkerBeginSweep, WorkerListReminders, WorkerRemind, WorkerFinish,
      WorkerMarkFails, WorkerCrash, WorkerReplyAnswerLost, vars

-----------------------------------------------------------------------------
(* Type correctness.                                                       *)

LEMMA RequestType ==
  ASSUME TypeOK, NEW r \in Request, RequestStep(r)
  PROVE  TypeOK'
<1> USE DEF TypeOK
<1>0. {"REJECTED", "DEFERRED", "APPROVED", "EXPIRED"} \subseteq Status
  BY DEF Status, Decided
<1>1. ASSUME NEW d \in Draft, BeginReject(r, d) PROVE TypeOK'
  BY <1>1, HoldType DEF BeginReject
<1>2. ASSUME NEW d \in Draft, IgnoreDraft(r, d) PROVE TypeOK'
  BY <1>0, <1>2, StatusType DEF IgnoreDraft, SetStatus
<1>3. ASSUME NEW d \in Draft, LaterDraft(r, d) PROVE TypeOK'
  BY <1>0, <1>3, StatusType DEF LaterDraft, SetStatus
<1>4. ASSUME NEW d \in Draft, Recreate(r, d) PROVE TypeOK'
  <2>1. req[r].draft \in Draft /\ req[r].path \in Path \cup {Keep}
    BY <1>4, ServedDraft DEF Recreate
  <2>2. drafts' \in [Draft -> DraftRow]
    BY <1>4, <2>1, InsertType DEF Recreate
  <2>3. req' \in [Request -> {Idle} \cup Serving \cup Sweeping]
    BY <1>4, ReleaseType DEF Recreate
  <2>4. revises' \in [Draft -> Draft \cup {None}]
    BY <1>4, <2>1 DEF Recreate
  <2> QED
    BY <1>4, <2>2, <2>3, <2>4 DEF Recreate
<1>5. ASSUME NEW d \in Draft, NEW p \in Path, CreateDraft(r, d, p) PROVE TypeOK'
  BY <1>5, InsertType DEF CreateDraft
<1>6. ASSUME NEW d \in Draft, NEW p \in Path, UpdateDraftCategory(r, d, p)
      PROVE  TypeOK'
  <2>1. drafts' \in [Draft -> DraftRow]
    BY <1>6, FieldType DEF UpdateDraftCategory
  <2> QED
    BY <1>6, <2>1 DEF UpdateDraftCategory
<1>7. ASSUME NEW d \in Draft, NEW p \in Path \cup {Keep}, BeginApprove(r, d, p)
      PROVE  TypeOK'
  BY <1>7, HoldType, ChosenType DEF BeginApprove
<1>8. ASSUME NEW d \in Draft, NEW p \in Path \cup {Keep}, BeginRevise(r, d, p)
      PROVE  TypeOK'
  BY <1>8, HoldType, ChosenType DEF BeginRevise
<1>9. CASE CommitApprove(r)
  <2>1. req[r].draft \in Draft /\ req[r].path \in Path \cup {Keep}
    BY <1>9, ServedDraft DEF CommitApprove
  <2>2. drafts' \in [Draft -> DraftRow]
    BY <1>0, <1>9, <2>1, StatusType DEF CommitApprove
  <2>3. made' \in [Draft -> Seq(Path \cup {Keep})]
    BY <1>9, <2>1 DEF CommitApprove
  <2>4. req' \in [Request -> {Idle} \cup Serving \cup Sweeping]
    BY <1>9, ReleaseType DEF CommitApprove
  <2> QED
    BY <1>9, <2>2, <2>3, <2>4 DEF CommitApprove
<1>10. CASE CommitReject(r)
  <2>1. req[r].draft \in Draft
    BY <1>10, ServedDraft DEF CommitReject
  <2>2. drafts' \in [Draft -> DraftRow]
    BY <1>0, <1>10, <2>1, StatusType DEF CommitReject, SetStatus
  <2> QED
    BY <1>10, <2>2, ReleaseType DEF CommitReject
<1>11. CASE BeginDiscard(r)
  <2>1. req[r] \in Serving
    BY <1>11, ServedDraft DEF BeginDiscard
  <2>2. [req[r] EXCEPT !.op = "discard"] \in Serving
    BY <2>1 DEF Serving
  <2> QED
    BY <1>11, <2>2 DEF BeginDiscard
<1>12. CASE CommitDiscard(r)
  <2>1. req[r] \in Serving /\ req[r].draft \in Draft
    BY <1>12, ServedDraft DEF CommitDiscard
  <2>2. [req[r] EXCEPT !.op = "recreate"] \in Serving
    BY <2>1 DEF Serving
  <2>3. drafts' \in [Draft -> DraftRow]
    BY <1>0, <1>12, <2>1, StatusType DEF CommitDiscard, SetStatus
  <2> QED
    BY <1>12, <2>2, <2>3 DEF CommitDiscard
<1>13. CASE BeginSweep(r)
  <2>1. PICK S \in Batches(Overdue) : req' = [req EXCEPT ![r] = [op |-> "sweep", rows |-> S]]
    BY <1>13 DEF BeginSweep
  <2>2. [op |-> "sweep", rows |-> S] \in Sweeping
    BY <2>1 DEF Batches, Overdue, Sweeping
  <2> QED
    BY <1>13, <2>1, <2>2 DEF BeginSweep
<1>14. CASE CommitSweep(r)
  <2>1. req[r] \in Sweeping
    BY <1>14 DEF CommitSweep, Idle, Serving
  <2>2. req[r].rows \in SUBSET Draft
    BY <2>1 DEF Sweeping
  <2> QED
    BY <1>14, <2>2, ExpiredType, ReleaseType DEF CommitSweep
<1>15. CASE Abandon(r)
  BY <1>15, ReleaseType DEF Abandon
<1> QED
  BY <1>1, <1>2, <1>3, <1>4, <1>5, <1>6, <1>7, <1>8, <1>9, <1>10, <1>11, <1>12, <1>13,
     <1>14, <1>15
  DEF RequestStep

LEMMA TypeStep ==
  ASSUME TypeOK, [Next]_vars
  PROVE  TypeOK'
<1> USE DEF TypeOK
<1>1. ASSUME NEW r \in Request, RequestStep(r) PROVE TypeOK'
  BY <1>1, RequestType
<1>2. CASE WorkerBeginSweep
  BY <1>2, AtType DEF WorkerBeginSweep, Batches, Overdue
<1>3. CASE WorkerCommitSweep
  <2>1. worker.rows \in SUBSET Draft
    OBVIOUS
  <2>2. drafts' \in [Draft -> DraftRow]
    BY <1>3, <2>1, ExpiredType DEF WorkerCommitSweep
  <2> QED
    BY <1>3, <2>2, AtType DEF WorkerCommitSweep
<1>4. CASE WorkerListReminders
  BY <1>4, AtType DEF WorkerListReminders, Batches, NeedReminder
<1>5. ASSUME NEW d \in Draft, WorkerRemind(d) PROVE TypeOK'
  <2>1. worker' \in [stage : {"tick", "expire", "list", "send", "mark"},
                     rows : SUBSET Draft, at : Draft \cup {None}]
    BY <1>5 DEF WorkerRemind
  <2>2. reminders' = [reminders EXCEPT ![d] = reminders[d] + 1] \/ reminders' = reminders
    BY <1>5 DEF WorkerRemind
  <2>3. reminders' \in [Draft -> Nat]
    BY <2>2
  <2> QED
    BY <1>5, <2>1, <2>3 DEF WorkerRemind
<1>6. CASE WorkerMark
  <2>1. drafts' \in [Draft -> DraftRow]
    <3>1. CASE worker.at \in Draft
      BY <1>6, <3>1, FieldType DEF WorkerMark
    <3>2. CASE worker.at \notin Draft
      BY <1>6, <3>2 DEF WorkerMark
    <3> QED
      BY <3>1, <3>2
  <2>2. worker.rows \ {worker.at} \in SUBSET Draft
    OBVIOUS
  <2>3. worker' = At("send", worker.rows \ {worker.at})
    BY <1>6 DEF WorkerMark
  <2> HIDE DEF TypeOK
  <2>4. worker' \in [stage : {"tick", "expire", "list", "send", "mark"},
                     rows : SUBSET Draft, at : Draft \cup {None}]
    BY <2>2, <2>3, AtType
  <2>5. UNCHANGED <<revises, made, req, reminders, faults>>
    BY <1>6 DEF WorkerMark
  <2> QED
    BY <2>1, <2>4, <2>5 DEF TypeOK
<1>7. CASE WorkerFinish
  BY <1>7, AtType DEF WorkerFinish
<1>8. CASE WorkerMarkFails
  <2>1. worker.rows \ {worker.at} \in SUBSET Draft
    OBVIOUS
  <2>2. faults' \in 0..MaxFaults
    BY <1>8, FaultAssumption DEF WorkerMarkFails
  <2> QED
    BY <1>8, <2>1, <2>2, AtType DEF WorkerMarkFails
<1>9. CASE WorkerCrash
  <2>1. faults' \in 0..MaxFaults
    BY <1>9, FaultAssumption DEF WorkerCrash
  <2> QED
    BY <1>9, <2>1, AtType DEF WorkerCrash
<1>10. ASSUME NEW d \in Draft, TimePasses(d) PROVE TypeOK'
  <2>1. drafts' \in [Draft -> DraftRow]
    <3>1. PICK a \in {"fresh", "soon", "overdue"} : drafts' = [drafts EXCEPT ![d].age = a]
      BY <1>10 DEF TimePasses
    <3> QED
      BY <3>1, FieldType
  <2> QED
    BY <1>10, <2>1 DEF TimePasses
<1>11. ASSUME NEW d \in Draft, WorkerReplyAnswerLost(d) PROVE TypeOK'
  <2>1. worker' \in [stage : {"tick", "expire", "list", "send", "mark"},
                     rows : SUBSET Draft, at : Draft \cup {None}]
    BY <1>11 DEF WorkerReplyAnswerLost
  <2>2. reminders' = [reminders EXCEPT ![d] = reminders[d] + 2]
    BY <1>11 DEF WorkerReplyAnswerLost
  <2>3. reminders' \in [Draft -> Nat]
    BY <2>2
  <2>4. faults' \in 0..MaxFaults
    BY <1>11, FaultAssumption DEF WorkerReplyAnswerLost
  <2> QED
    BY <1>11, <2>1, <2>3, <2>4 DEF WorkerReplyAnswerLost
<1>12. CASE UNCHANGED vars
  BY <1>12 DEF vars
<1> QED
  BY <1>1, <1>2, <1>3, <1>4, <1>5, <1>6, <1>7, <1>8, <1>9, <1>10, <1>11, <1>12
  DEF Next, WorkerStep

-----------------------------------------------------------------------------
(* Items and statuses.                                                     *)

\* An APPROVED or made-into-an-item draft can only be approved again or
\* expired: the guarded statements need PENDING_CONFIRMATION, which by the
\* invariant has no item.
LEMMA ItemsStep ==
  ASSUME IInv, [Next]_vars
  PROVE  ItemsMatchStatus'
<1> SUFFICES ASSUME NEW d \in Draft
             PROVE  /\ drafts'[d].status = "APPROVED" => made'[d] # <<>>
                    /\ made'[d] # <<>> => drafts'[d].status \in {"APPROVED", "EXPIRED"}
  BY DEF ItemsMatchStatus
<1>1. /\ drafts[d].status = "APPROVED" => made[d] # <<>>
      /\ made[d] # <<>> => drafts[d].status \in {"APPROVED", "EXPIRED"}
  BY DEF IInv, ItemsMatchStatus
<1>2. StatusStep(d)
  BY StepChanges DEF IInv
<1>3. CASE Approved(d)
  <2>1. PICK r \in Approving(d) : /\ drafts'[d].status = "APPROVED"
                                  /\ made'[d] = Append(made[d], req[r].path)
    BY <1>3 DEF Approved
  <2>2. made[d] \in Seq(Path \cup {Keep}) /\ req[r].path \in Path \cup {Keep}
    BY ServedDraft DEF IInv, TypeOK, Approving
  <2>3. made'[d] # <<>>
    BY <2>1, <2>2
  <2> QED
    BY <2>1, <2>3
<1>4. CASE ~Approved(d)
  BY <1>1, <1>2, <1>4 DEF StatusStep, Pending
<1> QED
  BY <1>3, <1>4

\* The inductive invariant holds in every behaviour.
THEOREM Invariance == Spec => []IInv
<1>1. Init => IInv
  <2> SUFFICES ASSUME Init PROVE IInv
    OBVIOUS
  <2>1. Unborn \in DraftRow
    BY DEF Unborn, DraftRow, Status
  <2>2. TypeOK
    BY <2>1, AtType, FaultAssumption DEF Init, TypeOK
  <2>3. ItemsMatchStatus
    BY DEF Init, Unborn, ItemsMatchStatus
  <2> QED
    BY <2>2, <2>3 DEF IInv
<1>2. IInv /\ [Next]_vars => IInv'
  BY TypeStep, ItemsStep DEF IInv
<1> QED
  BY <1>1, <1>2, PTL DEF Spec

\* Every row, request and worker state the draft operations produce is well
\* typed.
THEOREM TypeCorrect == Spec => []TypeOK
BY Invariance, PTL DEF IInv

\* A draft is APPROVED only with an item, and one with an item is APPROVED or
\* EXPIRED, whatever approvals, rejections and sweeps interleave (ApproveDraft,
\* RejectDraft, IgnoreDraft, LaterDraft, ExpirePendingDrafts).
THEOREM ItemsMatchStatusHolds == Spec => []ItemsMatchStatus
BY Invariance, PTL DEF IInv

\* No late rejection, deferral or revision overwrites a decision
\* (UpdateDraftStatus repeats the status in its WHERE).
THEOREM GuardedDecisionsHold == Spec => GuardedDecisionsOnlyOnce
<1>1. ASSUME TypeOK, [Next]_vars, NEW d \in Draft,
             drafts'[d].status \in {"REJECTED", "DEFERRED"},
             drafts'[d].status # drafts[d].status
      PROVE  Pending(d)
  BY <1>1, StepChanges DEF StatusStep, Approved
<1>2. TypeOK /\ [Next]_vars =>
        [\A d \in Draft : /\ drafts'[d].status \in {"REJECTED", "DEFERRED"}
                          /\ drafts'[d].status # drafts[d].status
                          => Pending(d)]_vars
  BY <1>1
<1> QED
  BY <1>2, TypeCorrect, PTL DEF Spec, GuardedDecisionsOnlyOnce

-----------------------------------------------------------------------------
(* The finality of a decision.                                             *)

\* Request q holds d in a way that can overwrite its status.
Threat(q, d) ==
  \/ req[q].op = "approve" /\ req[q].draft = d
  \/ req[q].op = "sweep" /\ d \in req[q].rows

LEMMA HoldQuiet ==
  ASSUME TypeOK, NEW r \in Request, NEW q \in Request, NEW op, NEW e \in Draft, NEW p,
         NEW d \in Draft, Hold(r, op, e, p), op # "sweep",
         op = "approve" => e # d
  PROVE  Threat(q, d)' => Threat(q, d)
<1>1. req'[q] = IF q = r THEN [op |-> op, draft |-> e, path |-> p] ELSE req[q]
  BY DEF Hold, TypeOK
<1>2. CASE q = r
  <2>1. req'[q].op = op /\ req'[q].draft = e
    BY <1>1, <1>2
  <2> QED
    BY <2>1 DEF Threat
<1>3. CASE q # r
  BY <1>1, <1>3 DEF Threat
<1> QED
  BY <1>2, <1>3

LEMMA ReleaseQuiet ==
  ASSUME TypeOK, NEW r \in Request, NEW q \in Request, NEW d \in Draft, Release(r)
  PROVE  Threat(q, d)' => Threat(q, d)
<1>1. req'[q] = IF q = r THEN Idle ELSE req[q]
  BY DEF Release, TypeOK
<1>2. Idle.op = "idle"
  BY DEF Idle
<1> QED
  BY <1>1, <1>2 DEF Threat

LEMMA ReviseQuiet ==
  ASSUME TypeOK, NEW r \in Request, NEW q \in Request, NEW d \in Draft,
         NEW op \in {"discard", "recreate"}, req' = [req EXCEPT ![r].op = op],
         req[r] \in Serving
  PROVE  Threat(q, d)' => Threat(q, d)
<1>1. req'[q] = IF q = r THEN [req[r] EXCEPT !.op = op] ELSE req[q]
  BY DEF TypeOK
<1>2. [req[r] EXCEPT !.op = op].op = op
  BY DEF Serving
<1> QED
  BY <1>1, <1>2 DEF Threat

LEMMA SweepQuiet ==
  ASSUME TypeOK, NEW r \in Request, NEW q \in Request, NEW d \in Draft,
         BeginSweep(r), ~Pending(d)
  PROVE  Threat(q, d)' => Threat(q, d)
<1>1. PICK S \in Batches(Overdue) : req' = [req EXCEPT ![r] = [op |-> "sweep", rows |-> S]]
  BY DEF BeginSweep
<1>2. d \notin S
  BY DEF Batches, Overdue
<1>3. req'[q] = IF q = r THEN [op |-> "sweep", rows |-> S] ELSE req[q]
  BY <1>1 DEF TypeOK
<1> QED
  BY <1>2, <1>3 DEF Threat

\* No request takes up a decided draft in a way that can overwrite it.
LEMMA ThreatStep ==
  ASSUME TypeOK, [Next]_vars, NEW q \in Request, NEW d \in Draft, Settled(d)
  PROVE  Threat(q, d)' => Threat(q, d)
<1>1. ~Pending(d)
  BY DEF Settled, Decided, Pending
<1>2. CASE UNCHANGED req
  BY <1>2 DEF Threat
<1>3. ASSUME NEW r \in Request, RequestStep(r)
      PROVE  Threat(q, d)' => Threat(q, d)
  <2>1. ASSUME NEW e \in Draft, NEW p \in Path \cup {Keep}, BeginApprove(r, e, p)
        PROVE  Threat(q, d)' => Threat(q, d)
    <3>1. e # d
      BY <1>1, <2>1 DEF BeginApprove, Open
    <3> QED
      BY <2>1, <3>1, HoldQuiet DEF BeginApprove
  <2>2. ASSUME NEW e \in Draft, NEW p \in Path \cup {Keep}, BeginRevise(r, e, p)
        PROVE  Threat(q, d)' => Threat(q, d)
    BY <2>2, HoldQuiet DEF BeginRevise
  <2>3. ASSUME NEW e \in Draft, BeginReject(r, e)
        PROVE  Threat(q, d)' => Threat(q, d)
    BY <2>3, HoldQuiet DEF BeginReject
  <2>4. CASE BeginDiscard(r)
    BY <2>4, ServedDraft, ReviseQuiet DEF BeginDiscard
  <2>5. CASE CommitDiscard(r)
    BY <2>5, ServedDraft, ReviseQuiet DEF CommitDiscard
  <2>6. CASE BeginSweep(r)
    BY <1>1, <2>6, SweepQuiet
  <2>7. CASE Release(r)
    BY <2>7, ReleaseQuiet
  <2> QED
    BY <1>2, <1>3, <2>1, <2>2, <2>3, <2>4, <2>5, <2>6, <2>7
    DEF RequestStep, IgnoreDraft, LaterDraft, Recreate, CreateDraft, UpdateDraftCategory,
        CommitApprove, CommitReject, CommitSweep, Abandon
<1> QED
  BY <1>2, <1>3
  DEF Next, WorkerStep, WorkerBeginSweep, WorkerCommitSweep, WorkerListReminders,
      WorkerRemind, WorkerMark, WorkerFinish, WorkerMarkFails, WorkerCrash,
      WorkerReplyAnswerLost, TimePasses, vars

\* Nor does the worker.
LEMMA WorkerThreatStep ==
  ASSUME TypeOK, [Next]_vars, NEW d \in Draft, Settled(d),
         ~(worker.stage = "expire" /\ d \in worker.rows)
  PROVE  ~(worker.stage = "expire" /\ d \in worker.rows)'
<1>1. CASE WorkerBeginSweep
  <2>1. PICK S \in Batches(Overdue) : worker' = At("expire", S)
    BY <1>1 DEF WorkerBeginSweep
  <2>2. d \notin S
    BY DEF Batches, Overdue, Pending, Settled, Decided
  <2> QED
    BY <2>1, <2>2 DEF At
<1>2. CASE \E e \in Draft : WorkerRemind(e) \/ WorkerReplyAnswerLost(e)
  <2>1. worker'.stage = "mark"
    BY <1>2 DEF WorkerRemind, WorkerReplyAnswerLost, TypeOK
  <2> QED
    BY <2>1
<1>3. CASE WorkerCommitSweep \/ WorkerListReminders \/ WorkerMark \/ WorkerFinish
           \/ WorkerMarkFails \/ WorkerCrash
  <2>1. worker'.stage # "expire"
    BY <1>3 DEF WorkerCommitSweep, WorkerListReminders, WorkerMark, WorkerFinish,
                WorkerMarkFails, WorkerCrash, At
  <2> QED
    BY <2>1
<1>4. CASE UNCHANGED worker
  BY <1>4
<1>5. ASSUME NEW r \in Request, RequestStep(r)
      PROVE  UNCHANGED worker
  BY <1>5
  DEF RequestStep, BeginReject, IgnoreDraft, LaterDraft, Recreate, CreateDraft,
      UpdateDraftCategory, BeginApprove, BeginRevise, CommitApprove, CommitReject,
      BeginDiscard, CommitDiscard, BeginSweep, CommitSweep, Abandon
<1> QED
  BY <1>1, <1>2, <1>3, <1>4, <1>5 DEF Next, WorkerStep, TimePasses, vars

LEMMA QuietMeans ==
  ASSUME NEW d \in Draft
  PROVE  Quiet(d) <=> /\ \A q \in Request : ~Threat(q, d)
                      /\ ~(worker.stage = "expire" /\ d \in worker.rows)
BY DEF Quiet, Threat, Approving

\* A decision is final once the approvals and sweeps that read the draft
\* before it are through (ApproveDraft's and the sub-select's early tests).
THEOREM QuietDecisionHolds == Spec => QuietDecisionIsFinal
<1>1. ASSUME TypeOK, [Next]_vars, NEW d \in Draft, Settled(d), Quiet(d)
      PROVE  /\ drafts'[d].status = drafts[d].status
             /\ made'[d] = made[d]
             /\ Quiet(d)'
  <2>1. ~Approved(d) /\ ~InSweep(d)
    BY <1>1 DEF Quiet, Approved, InSweep
  <2>2. ~Pending(d) /\ drafts[d].status # "NONE"
    BY <1>1 DEF Settled, Decided, Pending
  <2>3. StatusStep(d)
    BY <1>1, StepChanges
  <2>4. \A q \in Request : ~Threat(q, d)'
    BY <1>1, ThreatStep, QuietMeans
  <2>5. ~(worker.stage = "expire" /\ d \in worker.rows)'
    BY <1>1, WorkerThreatStep, QuietMeans
  <2>6. Quiet(d)'
    BY <2>4, <2>5 DEF Quiet, Threat, Approving
  <2> QED
    BY <2>1, <2>2, <2>3, <2>6 DEF StatusStep
<1>2. TypeOK /\ [Next]_vars =>
        [\A d \in Draft : Settled(d) /\ Quiet(d) =>
           /\ drafts'[d].status = drafts[d].status
           /\ made'[d] = made[d]
           /\ Quiet(d)']_vars
  BY <1>1
<1> QED
  BY <1>2, TypeCorrect, PTL DEF Spec, QuietDecisionIsFinal

-----------------------------------------------------------------------------
(* One revision per draft.                                                 *)

\* Between them, at most one successor of d and at most one request about to
\* write one; and d is decided as soon as there is either.
RevisionInv ==
  \A d \in Draft :
    /\ \A a, b \in RevisionsOf(d) : a = b
    /\ \A q, r \in Recreating(d) : q = r
    /\ RevisionsOf(d) = {} \/ Recreating(d) = {}
    /\ RevisionsOf(d) \cup Recreating(d) # {} => Settled(d)

LEMMA AtMostOne ==
  ASSUME NEW S, \A a, b \in S : a = b
  PROVE  Cardinality(S) \in {0, 1} /\ (S = {} => Cardinality(S) = 0)
<1>1. CASE S = {}
  BY <1>1, FS_EmptySet
<1>2. CASE S # {}
  <2>1. PICK x : x \in S
    BY <1>2
  <2>2. S = {x}
    BY <2>1
  <2> QED
    BY <2>2, FS_Singleton
<1> QED
  BY <1>1, <1>2

LEMMA RevisionInvSuffices == RevisionInv => OneRevision
<1> SUFFICES ASSUME RevisionInv, NEW d \in Draft
             PROVE  Cardinality(RevisionsOf(d)) + Cardinality(Recreating(d)) <= 1
  BY DEF RevisionInv, OneRevision
<1>1. /\ \A a, b \in RevisionsOf(d) : a = b
      /\ \A q, r \in Recreating(d) : q = r
      /\ RevisionsOf(d) = {} \/ Recreating(d) = {}
  BY DEF RevisionInv
<1>2. /\ Cardinality(RevisionsOf(d)) \in {0, 1}
      /\ RevisionsOf(d) = {} => Cardinality(RevisionsOf(d)) = 0
  BY <1>1, AtMostOne
<1>3. /\ Cardinality(Recreating(d)) \in {0, 1}
      /\ Recreating(d) = {} => Cardinality(Recreating(d)) = 0
  BY <1>1, AtMostOne
<1> QED
  BY <1>1, <1>2, <1>3

\* A decided draft stays decided, though not as what.
LEMMA SettledStays ==
  ASSUME TypeOK, [Next]_vars, NEW d \in Draft, Settled(d)
  PROVE  Settled(d)'
<1>1. StatusStep(d)
  BY StepChanges
<1> QED
  BY <1>1 DEF StatusStep, Approved, Settled, Decided, Pending

\* Only the guarded UPDATE of a revision lets it write a successor.
LEMMA RecreatingStep ==
  ASSUME TypeOK, [Next]_vars, NEW d \in Draft,
         ~\E r \in Request : CommitDiscard(r) /\ req[r].draft = d
  PROVE  Recreating(d)' \subseteq Recreating(d)
<1> SUFFICES ASSUME NEW q \in Request, req'[q].op = "recreate", req'[q].draft = d
             PROVE  req[q].op = "recreate" /\ req[q].draft = d
  BY DEF Recreating
<1>1. CASE UNCHANGED req
  BY <1>1
<1>2. ASSUME NEW r \in Request, RequestStep(r), q # r
      PROVE  req'[q] = req[q]
  BY <1>2
  DEF TypeOK, RequestStep, BeginReject, IgnoreDraft, LaterDraft, Recreate, CreateDraft,
      UpdateDraftCategory, BeginApprove, BeginRevise, CommitApprove, CommitReject,
      BeginDiscard, CommitDiscard, BeginSweep, CommitSweep, Abandon, Hold, Release
<1>3. ASSUME NEW r \in Request, RequestStep(r), q = r, req' # req
      PROVE  FALSE
  <2>1. ASSUME NEW op \in {"approve", "reject", "revise"}, NEW e, NEW p,
               Hold(r, op, e, p)
        PROVE  FALSE
    <3>1. req'[q] = [op |-> op, draft |-> e, path |-> p]
      BY <1>3, <2>1 DEF Hold, TypeOK
    <3>2. req'[q].op = op
      BY <3>1
    <3> QED
      BY <3>2
  <2>2. CASE Release(r)
    BY <1>3, <2>2 DEF Release, TypeOK, Idle
  <2>3. CASE BeginDiscard(r)
    <3>1. req[r] \in Serving
      BY <2>3, ServedDraft DEF BeginDiscard
    <3> QED
      BY <1>3, <2>3, <3>1 DEF BeginDiscard, Serving, TypeOK
  <2>4. CASE CommitDiscard(r)
    <3>1. req[r] \in Serving
      BY <2>4, ServedDraft DEF CommitDiscard
    <3>2. req'[q].draft = req[r].draft
      BY <1>3, <2>4, <3>1 DEF CommitDiscard, Serving, TypeOK
    <3> QED
      BY <2>4, <3>2
  <2>5. CASE BeginSweep(r)
    <3>1. PICK S : req' = [req EXCEPT ![r] = [op |-> "sweep", rows |-> S]]
      BY <2>5 DEF BeginSweep
    <3>2. req'[q] = [op |-> "sweep", rows |-> S]
      BY <1>3, <3>1 DEF TypeOK
    <3>3. req'[q].op = "sweep"
      BY <3>2
    <3> QED
      BY <3>3
  <2> QED
    BY <1>3, <2>1, <2>2, <2>3, <2>4, <2>5
    DEF RequestStep, BeginReject, IgnoreDraft, LaterDraft, Recreate, CreateDraft,
        UpdateDraftCategory, BeginApprove, BeginRevise, CommitApprove, CommitReject,
        CommitSweep, Abandon
<1> QED
  BY <1>1, <1>2, <1>3
  DEF Next, WorkerStep, WorkerBeginSweep, WorkerCommitSweep, WorkerListReminders,
      WorkerRemind, WorkerMark, WorkerFinish, WorkerMarkFails, WorkerCrash,
      WorkerReplyAnswerLost, TimePasses, vars

\* Only writing the successor makes a draft the revision of another.
LEMMA RevisesStep ==
  ASSUME [Next]_vars, ~\E r \in Request, e \in Draft : Recreate(r, e)
  PROVE  revises' = revises
BY DEF Next, RequestStep, BeginReject, IgnoreDraft, LaterDraft, CreateDraft,
       UpdateDraftCategory, BeginApprove, BeginRevise, CommitApprove, CommitReject,
       BeginDiscard, CommitDiscard, BeginSweep, CommitSweep, Abandon,
       WorkerStep, WorkerBeginSweep, WorkerCommitSweep, WorkerListReminders,
       WorkerRemind, WorkerMark, WorkerFinish, WorkerMarkFails, WorkerCrash,
       WorkerReplyAnswerLost, TimePasses, vars

\* The UPDATE that opens the way to a successor finds the draft pending, so no
\* other revision of it has come this far; the INSERT of the successor finds
\* no other, and takes the request's turn away.
LEMMA RevisionStep ==
  ASSUME TypeOK, RevisionInv, [Next]_vars
  PROVE  RevisionInv'
<1> SUFFICES ASSUME NEW d \in Draft
             PROVE  /\ \A a, b \in RevisionsOf(d)' : a = b
                    /\ \A q, r \in Recreating(d)' : q = r
                    /\ RevisionsOf(d)' = {} \/ Recreating(d)' = {}
                    /\ RevisionsOf(d)' \cup Recreating(d)' # {} => Settled(d)'
  BY DEF RevisionInv
<1>1. /\ \A a, b \in RevisionsOf(d) : a = b
      /\ \A q, r \in Recreating(d) : q = r
      /\ RevisionsOf(d) = {} \/ Recreating(d) = {}
      /\ RevisionsOf(d) \cup Recreating(d) # {} => Settled(d)
  BY DEF RevisionInv
<1>2. Settled(d) => Settled(d)'
  BY SettledStays
<1>3. ASSUME NEW r \in Request, CommitDiscard(r), req[r].draft = d
      PROVE  /\ RevisionsOf(d)' = {}
             /\ Recreating(d)' \subseteq {r}
             /\ Settled(d)'
  <2>1. Pending(d) /\ drafts' = [drafts EXCEPT ![d].status = "REJECTED"]
    BY <1>3 DEF CommitDiscard, SetStatus
  <2>2. RevisionsOf(d) = {} /\ Recreating(d) = {}
    BY <1>1, <2>1 DEF Settled, Decided, Pending
  <2>3. revises' = revises
    BY <1>3 DEF CommitDiscard
  <2>4. ASSUME NEW q \in Recreating(d)' PROVE q = r
    <3>1. q \in Request /\ (q # r => req'[q] = req[q])
      BY <1>3, <2>4 DEF CommitDiscard, TypeOK, Recreating
    <3> QED
      BY <2>2, <2>4, <3>1 DEF Recreating
  <2>5. drafts[d] \in DraftRow
    BY DEF TypeOK
  <2>6. drafts'[d].status = "REJECTED"
    BY <2>1, <2>5 DEF TypeOK, DraftRow
  <2> QED
    BY <2>2, <2>3, <2>4, <2>6 DEF RevisionsOf, Settled, Decided
<1>4. ASSUME NEW r \in Request, NEW e \in Draft, Recreate(r, e), req[r].draft = d
      PROVE  /\ RevisionsOf(d)' \subseteq {e}
             /\ Recreating(d)' = {}
             /\ Settled(d)'
  <2>1. r \in Recreating(d)
    BY <1>4 DEF Recreate, Recreating
  <2>2. RevisionsOf(d) = {} /\ Recreating(d) = {r} /\ Settled(d)
    BY <1>1, <2>1
  <2>3. \A a \in Draft \ {e} : revises'[a] = revises[a]
    BY <1>4 DEF Recreate, TypeOK
  <2>4. RevisionsOf(d)' \subseteq {e}
    BY <2>2, <2>3 DEF RevisionsOf
  <2>5. req' = [req EXCEPT ![r] = Idle]
    BY <1>4 DEF Recreate, Release
  <2>6. ASSUME NEW q \in Recreating(d)' PROVE FALSE
    <3>1. q \in Request /\ req'[q].op = "recreate" /\ req'[q].draft = d
      BY <2>6 DEF Recreating
    <3>2. q # r
      BY <2>5, <3>1 DEF TypeOK, Idle
    <3>3. req'[q] = req[q]
      BY <2>5, <3>1, <3>2 DEF TypeOK
    <3> QED
      BY <2>2, <3>1, <3>2, <3>3 DEF Recreating
  <2> QED
    BY <1>2, <2>2, <2>4, <2>6
<1>5. ASSUME ~\E r \in Request : CommitDiscard(r) /\ req[r].draft = d,
             ~\E r \in Request, e \in Draft : Recreate(r, e) /\ req[r].draft = d
      PROVE  RevisionsOf(d)' \subseteq RevisionsOf(d)
             /\ Recreating(d)' \subseteq Recreating(d)
  <2>1. Recreating(d)' \subseteq Recreating(d)
    BY <1>5, RecreatingStep
  <2>2. ASSUME NEW r \in Request, NEW e \in Draft, Recreate(r, e)
        PROVE  RevisionsOf(d)' \subseteq RevisionsOf(d)
    <3>1. \A a \in Draft : a # e => revises'[a] = revises[a]
      BY <2>2 DEF Recreate, TypeOK
    <3>2. revises'[e] = req[r].draft /\ req[r].draft # d
      BY <1>5, <2>2 DEF Recreate, TypeOK
    <3> QED
      BY <3>1, <3>2 DEF RevisionsOf
  <2>3. CASE ~\E r \in Request, e \in Draft : Recreate(r, e)
    BY <2>1, <2>3, RevisesStep DEF RevisionsOf
  <2> QED
    BY <2>1, <2>2, <2>3
<1> QED
  BY <1>1, <1>2, <1>3, <1>4, <1>5

\* However many revisions of a draft race, one successor at most is ever
\* written, and none while the draft is pending (ReviseDraftForAgent).
THEOREM OneRevisionHolds == Spec => []OneRevision
<1>1. Init => RevisionInv
  <2> SUFFICES ASSUME Init, NEW d \in Draft
               PROVE  RevisionsOf(d) = {} /\ Recreating(d) = {}
    BY DEF RevisionInv
  <2> QED
    BY NoneAssumption DEF Init, RevisionsOf, Recreating, Idle
<1>2. TypeOK /\ RevisionInv /\ [Next]_vars => RevisionInv'
  BY RevisionStep
<1> QED
  BY <1>1, <1>2, TypeCorrect, RevisionInvSuffices, PTL DEF Spec

-----------------------------------------------------------------------------
(* One reminder per draft.                                                 *)

Reminding(d) == worker.stage = "mark" /\ worker.at = d
Listed(d) == worker.stage \in {"send", "mark"} /\ d \in worker.rows

\* Every reminder but one is a fault's, and every one if the draft is neither
\* marked nor about to be, or still to be sent a reminder.
ReminderInv ==
  \A d \in Draft :
    /\ reminders[d] <= 1 + faults
    /\ reminders[d] <= faults \/ drafts[d].reminded \/ Reminding(d)
    /\ reminders[d] > 0 \/ Listed(d) => drafts[d].status # "NONE"
    /\ Listed(d) /\ ~Reminding(d) => reminders[d] <= faults
    /\ Reminding(d) => Listed(d)

\* A draft that exists goes on existing, and its mark is never taken back.
LEMMA MarksStay ==
  ASSUME TypeOK, [Next]_vars, NEW d \in Draft, drafts[d].status # "NONE"
  PROVE  /\ drafts'[d].status # "NONE"
         /\ drafts[d].reminded => drafts'[d].reminded
<1>1. drafts'[d].status # "NONE"
  BY StepChanges DEF StatusStep, Approved, Pending
<1>2. drafts[d] \in DraftRow
  BY DEF TypeOK
<1> DEFINE Kept == drafts[d].reminded => drafts'[d].reminded
<1>3. ASSUME NEW e \in Draft, NEW p, Insert(e, p) PROVE Kept
  BY <1>3 DEF Insert, TypeOK
<1>4. ASSUME NEW e, NEW s, SetStatus(e, s) PROVE Kept
  BY <1>2, <1>4 DEF SetStatus, TypeOK, DraftRow
<1>5. ASSUME NEW S, drafts' = Expired(S) PROVE Kept
  BY <1>2, <1>5 DEF Expired, DraftRow
<1>6. ASSUME NEW e, drafts' = [drafts EXCEPT ![e].status = "APPROVED"] PROVE Kept
  BY <1>2, <1>6 DEF TypeOK, DraftRow
<1>7. ASSUME NEW e, NEW p, drafts' = [drafts EXCEPT ![e].category = p] PROVE Kept
  BY <1>2, <1>7 DEF TypeOK, DraftRow
<1>8. ASSUME NEW e, drafts' = [drafts EXCEPT ![e].reminded = TRUE] PROVE Kept
  BY <1>2, <1>8 DEF TypeOK, DraftRow
<1>9. ASSUME NEW e, TimePasses(e) PROVE Kept
  <2>1. PICK a : drafts' = [drafts EXCEPT ![e].age = a]
    BY <1>9 DEF TimePasses
  <2> QED
    BY <1>2, <2>1 DEF TypeOK, DraftRow
<1>10. CASE UNCHANGED drafts
  BY <1>10
<1>11. ASSUME NEW r \in Request, RequestStep(r) PROVE Kept
  BY <1>3, <1>4, <1>5, <1>6, <1>7, <1>10, <1>11
  DEF RequestStep, BeginReject, IgnoreDraft, LaterDraft, Recreate, CreateDraft,
      UpdateDraftCategory, BeginApprove, BeginRevise, CommitApprove, CommitReject,
      BeginDiscard, CommitDiscard, BeginSweep, CommitSweep, Abandon
<1>12. Kept
  BY <1>5, <1>8, <1>9, <1>10, <1>11
  DEF Next, WorkerStep, WorkerBeginSweep, WorkerCommitSweep, WorkerListReminders,
      WorkerRemind, WorkerMark, WorkerFinish, WorkerMarkFails, WorkerCrash,
      WorkerReplyAnswerLost, vars
<1> QED
  BY <1>1, <1>12

\* A step of anyone but the worker, or its sweep, sends nothing and leaves the
\* worker's list alone.
LEMMA ReminderQuiet ==
  ASSUME TypeOK, ReminderInv, [Next]_vars, faults' = faults, reminders' = reminders,
         \A d \in Draft : /\ Reminding(d)' <=> Reminding(d)
                          /\ Listed(d)' <=> Listed(d)
  PROVE  ReminderInv'
<1>1. ASSUME NEW d \in Draft
      PROVE  /\ drafts[d].status # "NONE" => drafts'[d].status # "NONE"
             /\ drafts[d].status # "NONE" /\ drafts[d].reminded => drafts'[d].reminded
  BY MarksStay
<1>2. \A d \in Draft : reminders[d] \in Nat /\ faults \in Nat
  BY FaultAssumption DEF TypeOK
<1>3. ASSUME NEW d \in Draft
      PROVE  reminders[d] <= faults \/ drafts'[d].reminded \/ Reminding(d)
  <2>1. reminders[d] <= faults \/ reminders[d] > 0
    BY <1>2
  <2> QED
    BY <1>1, <2>1 DEF ReminderInv
<1> QED
  BY <1>1, <1>3 DEF ReminderInv

LEMMA RequestLeavesWorker ==
  ASSUME NEW r \in Request, RequestStep(r)
  PROVE  UNCHANGED <<worker, reminders, faults>>
BY DEF RequestStep, BeginReject, IgnoreDraft, LaterDraft, Recreate, CreateDraft,
       UpdateDraftCategory, BeginApprove, BeginRevise, CommitApprove, CommitReject,
       BeginDiscard, CommitDiscard, BeginSweep, CommitSweep, Abandon

LEMMA ReminderStep ==
  ASSUME TypeOK, ReminderInv, [Next]_vars
  PROVE  ReminderInv'
<1>1. CASE UNCHANGED <<worker, reminders, faults>>
  BY <1>1, ReminderQuiet DEF Reminding, Listed
<1>2. CASE WorkerBeginSweep \/ WorkerCommitSweep
  <2>1. \A d \in Draft : /\ ~Reminding(d) /\ ~Listed(d)
                         /\ ~Reminding(d)' /\ ~Listed(d)'
    BY <1>2 DEF WorkerBeginSweep, WorkerCommitSweep, At, Reminding, Listed
  <2> QED
    BY <1>2, <2>1, ReminderQuiet DEF WorkerBeginSweep, WorkerCommitSweep
<1>3. CASE WorkerListReminders
  <2>1. PICK S \in Batches(NeedReminder) : worker' = At("send", S)
    BY <1>3 DEF WorkerListReminders
  <2>2. \A d \in S : ~drafts[d].reminded /\ drafts[d].status # "NONE"
    BY <2>1 DEF Batches, NeedReminder, Pending
  <2>3. \A d \in Draft : /\ ~Reminding(d) /\ ~Reminding(d)'
                         /\ Listed(d)' <=> d \in S
    BY <1>3, <2>1 DEF WorkerListReminders, At, Reminding, Listed
  <2>4. UNCHANGED <<drafts, reminders, faults>>
    BY <1>3 DEF WorkerListReminders
  <2>5. \A d \in Draft : reminders[d] \in Nat
    BY DEF TypeOK
  <2> QED
    BY <2>2, <2>3, <2>4, <2>5 DEF ReminderInv
<1>4. ASSUME NEW e \in Draft, WorkerRemind(e) PROVE ReminderInv'
  <2>1. /\ worker.stage = "send"
        /\ e \in worker.rows
        /\ worker'.stage = "mark" /\ worker'.at = e /\ worker'.rows = worker.rows
        /\ UNCHANGED <<drafts, faults>>
    BY <1>4 DEF WorkerRemind, TypeOK
  <2>2. \A d \in Draft : /\ ~Reminding(d)
                         /\ Reminding(d)' <=> d = e
                         /\ Listed(d)' <=> Listed(d)
    BY <2>1 DEF Reminding, Listed
  <2>3. Listed(e) /\ reminders[e] <= faults /\ drafts[e].status # "NONE"
        /\ reminders[e] \in Nat /\ faults \in Nat
    BY <2>1, <2>2, FaultAssumption DEF ReminderInv, Listed, TypeOK
  <2>4. /\ reminders'[e] <= 1 + faults
        /\ \A d \in Draft : d # e => reminders'[d] = reminders[d]
    BY <1>4, <2>3 DEF WorkerRemind, TypeOK
  <2> QED
    BY <2>1, <2>2, <2>3, <2>4 DEF ReminderInv
<1>5. CASE WorkerMark
  <2> DEFINE e == worker.at
  <2>1. /\ drafts' = [drafts EXCEPT ![e].reminded = TRUE]
        /\ worker.stage = "mark"
        /\ worker'.stage = "send" /\ worker'.rows = worker.rows \ {e}
        /\ UNCHANGED <<reminders, faults>>
    BY <1>5 DEF WorkerMark, At
  <2>2. \A d \in Draft : /\ ~Reminding(d)'
                         /\ Reminding(d) <=> d = e
                         /\ Listed(d)' <=> Listed(d) /\ d # e
    BY <2>1 DEF Reminding, Listed
  <2>3. ASSUME NEW d \in Draft, d # e PROVE drafts'[d] = drafts[d]
    BY <2>1, <2>3 DEF TypeOK
  <2>4. e \in Draft => /\ drafts'[e].reminded
                       /\ drafts'[e].status = drafts[e].status
    BY <2>1 DEF TypeOK, DraftRow
  <2> HIDE DEF e
  <2> QED
    BY <2>1, <2>2, <2>3, <2>4 DEF ReminderInv
<1>6. CASE WorkerFinish
  <2>1. \A d \in Draft : /\ ~Reminding(d) /\ ~Listed(d)
                         /\ ~Reminding(d)' /\ ~Listed(d)'
    BY <1>6 DEF WorkerFinish, At, Reminding, Listed
  <2> QED
    BY <1>6, <2>1, ReminderQuiet DEF WorkerFinish
<1>7. CASE WorkerMarkFails \/ WorkerCrash
  <2>1. faults' = faults + 1 /\ UNCHANGED <<drafts, reminders>>
        /\ \A d \in Draft : ~Reminding(d)' /\ (Listed(d)' => Listed(d))
    BY <1>7 DEF WorkerMarkFails, WorkerCrash, At, Reminding, Listed
  <2>2. \A d \in Draft : reminders[d] \in Nat /\ faults \in Nat
    BY FaultAssumption DEF TypeOK
  <2>3. \A d \in Draft : reminders'[d] <= faults' /\ reminders'[d] <= 1 + faults'
    BY <2>1, <2>2 DEF ReminderInv
  <2> QED
    BY <2>1, <2>3 DEF ReminderInv
<1>8. ASSUME NEW e \in Draft, WorkerReplyAnswerLost(e) PROVE ReminderInv'
  <2>1. /\ worker.stage = "send"
        /\ e \in worker.rows
        /\ worker'.stage = "mark" /\ worker'.at = e /\ worker'.rows = worker.rows
        /\ UNCHANGED drafts /\ faults' = faults + 1
    BY <1>8 DEF WorkerReplyAnswerLost, TypeOK
  <2>2. \A d \in Draft : /\ ~Reminding(d)
                         /\ Reminding(d)' <=> d = e
                         /\ Listed(d)' <=> Listed(d)
    BY <2>1 DEF Reminding, Listed
  <2>3. \A d \in Draft : reminders[d] \in Nat /\ faults \in Nat
    BY FaultAssumption DEF TypeOK
  <2>4. Listed(e) /\ reminders[e] <= faults /\ drafts[e].status # "NONE"
    BY <2>1, <2>2 DEF ReminderInv, Listed
  <2>5. /\ reminders'[e] = reminders[e] + 2
        /\ \A d \in Draft : d # e => reminders'[d] = reminders[d]
    BY <1>8 DEF WorkerReplyAnswerLost, TypeOK
  <2>6. reminders'[e] <= 1 + faults'
    BY <2>1, <2>3, <2>4, <2>5
  <2>7. ASSUME NEW d \in Draft, d # e
        PROVE  /\ reminders'[d] <= 1 + faults'
               /\ reminders'[d] <= faults' \/ drafts'[d].reminded
               /\ reminders'[d] > 0 \/ Listed(d)' => drafts'[d].status # "NONE"
               /\ Listed(d)' => reminders'[d] <= faults'
    BY <2>1, <2>2, <2>3, <2>5, <2>7 DEF ReminderInv
  <2> QED
    BY <2>1, <2>2, <2>4, <2>6, <2>7 DEF ReminderInv
<1> QED
  BY <1>1, <1>2, <1>3, <1>4, <1>5, <1>6, <1>7, <1>8, RequestLeavesWorker
  DEF Next, WorkerStep, TimePasses, vars

\* An owner is reminded of a draft once, and once more at most for each time
\* the worker dies, loses an answer or fails to mark (RemindPendingDrafts).
THEOREM AtMostOneReminderHolds == Spec => []AtMostOneReminder
<1>1. Init => ReminderInv
  BY DEF Init, ReminderInv, Unborn, Reminding, Listed, At
<1>2. TypeOK /\ ReminderInv /\ [Next]_vars => ReminderInv'
  BY ReminderStep
<1>3. ReminderInv => AtMostOneReminder
  BY DEF ReminderInv, AtMostOneReminder
<1> QED
  BY <1>1, <1>2, <1>3, TypeCorrect, PTL DEF Spec
=============================================================================
