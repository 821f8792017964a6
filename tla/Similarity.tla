----------------------------- MODULE Similarity -----------------------------
(***************************************************************************)
(* What knowledge a text or a draft resembles: CheckSimilarity              *)
(* (internal/service/conversation_service.go), the judgement by rules or by *)
(* the LLM (llm_tasks.go) and ReplaceDraftSimilarities, which stores the    *)
(* answer of a draft's check (internal/repository/draft_similarity_store.go).*)
(*                                                                          *)
(* A check recalls active items, waits for the LLM, and then replaces the   *)
(* draft's rows in one READ COMMITTED transaction: a DELETE, which sees what *)
(* is committed when it starts, and one INSERT per record.  The table has   *)
(* UNIQUE(draft_id, knowledge_id) and a foreign key to the items with       *)
(* ON DELETE CASCADE.                                                       *)
(*                                                                          *)
(* A text is the set of its bigrams; scores are percents.  Whether a text   *)
(* signals a conflict changes the wording of a relation only and is left    *)
(* out, as are titles, reasons and suggested actions.                       *)
(***************************************************************************)
EXTENDS Naturals, Sequences, FiniteSets, SequencesExt, FiniteSetsExt

CONSTANTS
  Item,
  Draft,
  NoDraft,      \* a check of a bare text (draftID 0)
  Request,      \* checks; each is made once
  About,        \* About[r]: the drafts check r may be of, and NoDraft if any text
  Grams,        \* Grams[t]: the bigrams of an item, a draft or the bare text
  LLMVerdict,   \* what the LLM may say of one candidate: [new, score]
  RecallLimit,  \* candidates recalled at most (5)
  Kept          \* records in an answer at most (3)

\* BIGSERIAL hands out finitely many ids.
ASSUME ItemAssumption == IsFiniteSet(Item)
ASSUME NoDraftAssumption == NoDraft \notin Draft
ASSUME AboutAssumption == About \in [Request -> SUBSET (Draft \cup {NoDraft})]
ASSUME GramsAssumption ==
  \A t \in Item \cup Draft \cup {NoDraft} : IsFiniteSet(Grams[t])
ASSUME VerdictAssumption == LLMVerdict \subseteq [new : BOOLEAN, score : 0..100]
ASSUME LimitAssumption == RecallLimit \in Nat /\ Kept \in Nat \ {0}

VARIABLES
  status,   \* the items' status; PURGED is a row deleted for good
  rows,     \* the committed rows of knowledge_similarity, with the check that
            \* wrote each
  check,    \* the checks
  commits   \* for the properties only: the order in which checks of drafts
            \* were committed

vars == <<status, rows, check, commits>>

-----------------------------------------------------------------------------

\* pc: where the check stands; base: the draft, or NoDraft; found: the recalled
\* candidates; answer: the items of its records, best first; done: how many of
\* them are inserted; gone: the rows its DELETE sees, later those it deleted;
\* at: how many checks were committed when its DELETE started.
Unasked ==
  [pc |-> "start", base |-> NoDraft, found |-> {}, answer |-> <<>>, done |-> 0,
   gone |-> {}, at |-> 0]

Row == [draft : Draft, item : Item, by : Request]

\* Types; a stored row names an item that is there, and a draft has one row per
\* item.
SimilarityTypeOK ==
  /\ status \in [Item -> {"ACTIVE", "DELETED", "PURGED"}]
  /\ rows \subseteq Row
  /\ \A x \in rows : status[x.item] # "PURGED"
  /\ \A x, y \in rows : x.draft = y.draft /\ x.item = y.item => x = y
  /\ check \in [Request ->
       [pc : {"start", "judge", "delete", "insert", "done", "failed"},
        base : Draft \cup {NoDraft}, found : SUBSET Item, answer : Seq(Item), done : Nat,
        gone : SUBSET Row, at : Nat]]
  /\ \A r \in Request :
       /\ Cardinality(check[r].found) <= RecallLimit
       /\ Len(check[r].answer) <= Kept
       /\ IsInjective(check[r].answer)
       /\ check[r].done <= Len(check[r].answer)
       /\ check[r].at <= Len(commits)
  /\ commits \in Seq(Request) /\ IsInjective(commits)

Init ==
  /\ status = [i \in Item |-> "ACTIVE"]
  /\ rows = {}
  /\ check = [r \in Request |-> Unasked]
  /\ commits = <<>>

-----------------------------------------------------------------------------
(* Judging.                                                                  *)

\* ngramSimilarity: shared bigrams among all bigrams, rounded down.
Overlap(t, i) ==
  IF Grams[t] = {} \/ Grams[i] = {} THEN 0
  ELSE (100 * Cardinality(Grams[t] \cap Grams[i])) \div Cardinality(Grams[t] \cup Grams[i])

\* classifyRelation: from 0.58 a merge, from 0.32 a supplement or a conflict.
IsNew(score) == score < 32

\* A record that says "new knowledge" with next to no overlap is left out.
Telling(verdict) == ~verdict.new \/ verdict.score >= 18

\* buildSimilarityRecords and filterSimilarityRecords: the best of the telling
\* records, best first; equal scores come in any order.
Best(verdicts) ==
  LET telling == {i \in DOMAIN verdicts : Telling(verdicts[i])}
      ranked == {s \in SetToSeqs(telling) :
                   \A a, b \in DOMAIN s : a < b => verdicts[s[a]].score >= verdicts[s[b]].score}
  IN  {SubSeq(s, 1, Min({Kept, Len(s)})) : s \in ranked}

RulesVerdict(base, found) ==
  [i \in found |-> [new |-> IsNew(Overlap(base, i)), score |-> Overlap(base, i)]]

LLMAnswers(found) == UNION {Best(verdicts) : verdicts \in [found -> LLMVerdict]}

\* Fault variant (X_Fault is X with a plausible bug, for mutation runs only).
Judged_NoFallback(base, found) == Best(RulesVerdict(base, found)) \cup LLMAnswers(found)

\* judgeSimilarityWithFallback: the rules when there is no LLM, when one of its
\* calls fails or answers nonsense, and when it has nothing telling to say.
Judged(base, found) ==
  Best(RulesVerdict(base, found)) \cup (LLMAnswers(found) \ {<<>>})

\* Every judgement there may be.
Judgements ==
  UNION {[base : {base}, found : {found}, answer : Judged(base, found)] :
           base \in Draft \cup {NoDraft},
           found \in {f \in SUBSET Item : Cardinality(f) <= RecallLimit}}

-----------------------------------------------------------------------------
(* A check.                                                                  *)

\* GetStructuredDraft and FindKnowledgeCandidates: of the active items that match
\* the text, those updated last.
Recall(r) ==
  /\ check[r].pc = "start"
  /\ \E base \in About[r] :
     \E found \in SUBSET {i \in Item : status[i] = "ACTIVE"} :
       /\ Cardinality(found) <= RecallLimit
       /\ check' = [check EXCEPT ![r].pc = "judge", ![r].base = base, ![r].found = found]
  /\ UNCHANGED <<status, rows, commits>>

\* What the transaction of a check holds until it ends.
Inserted(r) == {check[r].answer[k] : k \in 1..check[r].done}
Deleted(r) == {x.item : x \in check[r].gone}

\* The transactions check r waits for: its DELETE for those that have deleted a
\* row it sees, its next INSERT for those that have inserted or deleted its key.
WaitsFor(r) ==
  {q \in Request \ {r} :
     /\ check[q].pc = "insert"
     /\ \/ check[r].pc = "delete" /\ check[q].gone \cap check[r].gone \cap rows # {}
        \/ /\ check[r].pc = "insert" /\ check[r].done < Len(check[r].answer)
           /\ check[q].base = check[r].base
           /\ check[r].answer[check[r].done + 1] \in Inserted(q) \cup Deleted(q)}

Seen_Nothing(base) == {}

\* DELETE ... WHERE draft_id: the rows it is about are those committed when it
\* starts.
Seen(base) == {x \in rows : x.draft = base}

\* The answer, from what was recalled; that to a bare text is not stored, for a
\* draft the transaction begins and its DELETE starts.
Judge(r) ==
  /\ check[r].pc = "judge"
  /\ \E j \in Judgements :
       /\ j.base = check[r].base /\ j.found = check[r].found
       /\ check' = [check EXCEPT ![r].pc = IF j.base = NoDraft THEN "done" ELSE "delete",
                                 ![r].found = {}, ![r].answer = j.answer,
                                 ![r].gone = Seen(j.base), ![r].at = Len(commits)]
  /\ UNCHANGED <<status, rows, commits>>

\* It gets the locks of those that are still there.
FinishDelete(r) ==
  /\ check[r].pc = "delete"
  /\ WaitsFor(r) = {}
  /\ check' = [check EXCEPT ![r].pc = "insert", ![r].gone = @ \cap rows]
  /\ UNCHANGED <<status, rows, commits>>

Refused_NoUniqueKey(r, i) == status[i] = "PURGED"

\* The table, without what check r has deleted, has the key; or the item is gone.
Refused(r, i) ==
  \/ status[i] = "PURGED"
  \/ \E x \in rows \ check[r].gone : x.draft = check[r].base /\ x.item = i

Insert(r) ==
  /\ check[r].pc = "insert" /\ check[r].done < Len(check[r].answer)
  /\ WaitsFor(r) = {}
  /\ ~Refused(r, check[r].answer[check[r].done + 1])
  /\ check' = [check EXCEPT ![r].done = @ + 1]
  /\ UNCHANGED <<status, rows, commits>>

RollBack_NoTransaction(r) ==
  /\ check' = [check EXCEPT ![r] = [Unasked EXCEPT !.pc = "failed"]]
  /\ rows' = (rows \ check[r].gone) \cup [draft : {check[r].base}, item : Inserted(r), by : {r}]
  /\ UNCHANGED <<status, commits>>

\* tx.Rollback: the caller gets an error and the table stays as it was.
RollBack(r) ==
  /\ check' = [check EXCEPT ![r] = [Unasked EXCEPT !.pc = "failed"]]
  /\ UNCHANGED <<status, rows, commits>>

InsertRefused(r) ==
  /\ check[r].pc = "insert" /\ check[r].done < Len(check[r].answer)
  /\ WaitsFor(r) = {}
  /\ Refused(r, check[r].answer[check[r].done + 1])
  /\ RollBack(r)

Commit(r) ==
  /\ check[r].pc = "insert" /\ check[r].done = Len(check[r].answer)
  /\ rows' = (rows \ check[r].gone) \cup [draft : {check[r].base}, item : Inserted(r), by : {r}]
  /\ check' = [check EXCEPT ![r].pc = "done", ![r].gone = {}]
  /\ commits' = Append(commits, r)
  /\ UNCHANGED status

Deadlock_Undetected(r) == FALSE /\ UNCHANGED vars

\* Postgres ends a transaction that waits, through others, for itself: it is in
\* every set that has whom it waits for and whom those wait for.
Deadlock(r) ==
  /\ WaitsFor(r) # {}
  /\ \A W \in SUBSET Request :
       WaitsFor(r) \subseteq W /\ (\A q \in W : WaitsFor(q) \subseteq W) => r \in W
  /\ RollBack(r)

\* A statement fails, the request is cancelled or the server dies.  Before the
\* transaction a check leaves no trace, as if it had not been asked for.
Fail(r) ==
  /\ check[r].pc \in {"delete", "insert"}
  /\ RollBack(r)

-----------------------------------------------------------------------------
(* The items, as the rest of the system changes them.                        *)

\* SoftDeleteKnowledge and RestoreKnowledge; the suggestions stay.
SoftDelete(i) ==
  /\ status[i] = "ACTIVE"
  /\ status' = [status EXCEPT ![i] = "DELETED"]
  /\ UNCHANGED <<rows, check, commits>>

Restore(i) ==
  /\ status[i] = "DELETED"
  /\ status' = [status EXCEPT ![i] = "ACTIVE"]
  /\ UNCHANGED <<rows, check, commits>>

\* PurgeExpiredKnowledge, with the cascade; it waits for transactions that have
\* inserted or deleted a row of the item.
Purge(i) ==
  /\ status[i] = "DELETED"
  /\ \A r \in Request : check[r].pc = "insert" => i \notin Inserted(r) \cup Deleted(r)
  /\ status' = [status EXCEPT ![i] = "PURGED"]
  /\ rows' = {x \in rows : x.item # i}
  /\ UNCHANGED <<check, commits>>

-----------------------------------------------------------------------------

CheckStep(r) ==
  \/ Judge(r) \/ FinishDelete(r) \/ Insert(r) \/ InsertRefused(r)
  \/ Commit(r) \/ Deadlock(r)

Next ==
  \/ \E r \in Request : Recall(r) \/ CheckStep(r) \/ Fail(r)
  \/ \E i \in Item : SoftDelete(i) \/ Restore(i) \/ Purge(i)

Spec == Init /\ [][Next]_vars

\* A check once begun goes on: the LLM call and every statement have a time
\* limit, and Postgres looks for deadlocks.
FairSpec == Spec /\ \A r \in Request : WF_vars(CheckStep(r))

-----------------------------------------------------------------------------

\* Check p was committed, and while check q was replacing: q's DELETE could not
\* see p's rows.
CommittedDuring(p, q) ==
  \E n \in check[q].at + 1..Len(commits) :
    commits[n] = p /\ \A m \in 1..n : commits[m] # q

\* The suggestions of a draft are those of one check, except for checks whose
\* replacements overlapped: nothing of an older answer survives a newer one.
NothingOlderStays ==
  \A x, y \in rows : x.draft = y.draft /\ x.by # y.by =>
    CommittedDuring(x.by, y.by) \/ CommittedDuring(y.by, x.by)

RowsOf(r) == {x.item : x \in {y \in rows : y.by = r}}
Listed(r) == {i \in ToSet(check[r].answer) : status[i] # "PURGED"}

\* An answer is stored whole or not at all, and the one committed last for its
\* draft is all there, whatever fails, rolls back or overlaps; the purge alone
\* takes single records out of it.
StoredWhole ==
  /\ \A r \in Request : RowsOf(r) \in {{}, Listed(r)}
  /\ \A n \in DOMAIN commits :
       (\A m \in n + 1..Len(commits) : check[commits[m]].base # check[commits[n]].base)
         => RowsOf(commits[n]) = Listed(commits[n])

\* However the LLM judges and fails, candidates that clearly overlap the text by
\* the rules leave an answer that is not empty.
RulesNotSilenced ==
  [][\A r \in Request : check[r].pc = "judge" /\ check'[r].pc \in {"delete", "done"} =>
       ((\E i \in check[r].found : Overlap(check[r].base, i) >= 18) => check'[r].answer # <<>>)]_vars

\* Every check ends, also when two checks of a draft insert the same items in
\* different orders and wait for each other.
EveryCheckEnds == <>[](\A r \in Request : check[r].pc \in {"start", "done", "failed"})
=============================================================================
