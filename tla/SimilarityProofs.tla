-------------------------- MODULE SimilarityProofs --------------------------
(***************************************************************************)
(* The theorems of Similarity, for any items, drafts, checks, texts and LLM *)
(* verdicts and any limits.                                                 *)
(***************************************************************************)
EXTENDS Similarity, FiniteSetTheorems, TLAPS

-----------------------------------------------------------------------------
(* Judgements.                                                             *)

\* The first m members of a list.
LEMMA Prefix ==
  ASSUME NEW S, NEW n \in Nat, NEW s \in [1..n -> S], NEW m \in Nat, m <= n
  PROVE  /\ SubSeq(s, 1, m) \in Seq(S)
         /\ Len(SubSeq(s, 1, m)) = m
         /\ DOMAIN SubSeq(s, 1, m) = 1..m
         /\ \A i \in 1..m : i \in 1..n /\ SubSeq(s, 1, m)[i] = s[i]
<1>1. s \in Seq(S) /\ Len(s) = n
  OBVIOUS
<1>2. \A i \in 1..m : i \in 1..n
  OBVIOUS
<1>3. SubSeq(s, 1, m) = [i \in 1..m |-> s[i]]
  BY <1>1
<1>4. \A i \in 1..m : s[i] \in S
  BY <1>2
<1>5. [i \in 1..m |-> s[i]] \in [1..m -> S]
  BY <1>4
<1> QED
  BY <1>2, <1>3, <1>5

LEMMA SmallerOfTwo ==
  ASSUME NEW a \in Nat, NEW b \in Nat
  PROVE  Min({a, b}) \in {a, b} /\ Min({a, b}) <= a /\ Min({a, b}) <= b
<1>1. \E x \in {a, b} : \A y \in {a, b} : x =< y
  OBVIOUS
<1> QED
  BY <1>1 DEF Min

\* An answer lists candidates, each once, not more than are kept; it is empty
\* only if no record is telling.
LEMMA BestAnswer ==
  ASSUME NEW found \in SUBSET Item, NEW verdicts, DOMAIN verdicts = found,
         NEW answer \in Best(verdicts)
  PROVE  /\ answer \in Seq(Item)
         /\ Len(answer) <= Kept
         /\ IsInjective(answer)
         /\ (\E i \in found : Telling(verdicts[i])) => answer # <<>>
<1> DEFINE telling == {i \in DOMAIN verdicts : Telling(verdicts[i])}
           n == Cardinality(telling)
<1>1. PICK s \in SetToSeqs(telling) : answer = SubSeq(s, 1, Min({Kept, Len(s)}))
  BY DEF Best
<1>2. IsFiniteSet(telling) /\ telling \subseteq Item
  BY ItemAssumption, FS_Subset
<1>3. n \in Nat /\ (telling # {} => n # 0)
  BY <1>2, FS_CardinalityType, FS_EmptySet
<1>4. s \in [1..n -> telling] /\ \A i, j \in 1..n : i # j => s[i] # s[j]
  BY DEF SetToSeqs
<1> HIDE DEF n, telling
<1>5. s \in [1..n -> Item] /\ Len(s) = n
  BY <1>2, <1>3, <1>4
<1> DEFINE m == Min({Kept, n})
<1>6. m \in Nat /\ m <= Kept /\ m <= n /\ (n # 0 => m # 0)
  BY <1>3, LimitAssumption, SmallerOfTwo
<1> HIDE DEF m
<1>7. answer = SubSeq(s, 1, m)
  BY <1>1, <1>5 DEF m
<1>8. /\ answer \in Seq(Item) /\ Len(answer) = m
      /\ DOMAIN answer = 1..m
      /\ \A i \in 1..m : i \in 1..n /\ answer[i] = s[i]
  BY <1>3, <1>5, <1>6, <1>7, Prefix
<1>9. IsInjective(answer)
  BY <1>4, <1>8 DEF IsInjective
<1>10. (\E i \in found : Telling(verdicts[i])) => answer # <<>>
  <2>1. (\E i \in found : Telling(verdicts[i])) => telling # {}
    BY DEF telling
  <2>2. answer = <<>> => Len(answer) = 0
    OBVIOUS
  <2> QED
    BY <1>3, <1>6, <1>8, <2>1, <2>2
<1> QED
  BY <1>6, <1>8, <1>9, <1>10

\* The same of what a check may be answered: by the rules, candidates that
\* overlap the text are never passed over in silence.
LEMMA JudgedAnswer ==
  ASSUME NEW base, NEW found \in SUBSET Item, NEW answer \in Judged(base, found)
  PROVE  /\ answer \in Seq(Item)
         /\ Len(answer) <= Kept
         /\ IsInjective(answer)
         /\ (\E i \in found : Overlap(base, i) >= 18) => answer # <<>>
<1>1. CASE answer \in Best(RulesVerdict(base, found))
  <2>1. /\ DOMAIN RulesVerdict(base, found) = found
        /\ \A i \in found : RulesVerdict(base, found)[i].score = Overlap(base, i)
    BY DEF RulesVerdict
  <2>2. \A i \in found : Overlap(base, i) >= 18 => Telling(RulesVerdict(base, found)[i])
    BY <2>1 DEF Telling
  <2> QED
    BY <1>1, <2>1, <2>2, BestAnswer
<1>2. CASE answer \in LLMAnswers(found) \ {<<>>}
  <2>1. PICK verdicts \in [found -> LLMVerdict] : answer \in Best(verdicts)
    BY <1>2 DEF LLMAnswers
  <2> QED
    BY <1>2, <2>1, BestAnswer
<1> QED
  BY <1>1, <1>2 DEF Judged

-----------------------------------------------------------------------------
(* What a step does to the checks.                                         *)

Pc == {"start", "judge", "delete", "insert", "done", "failed"}
CheckRow == [pc : Pc, base : Draft \cup {NoDraft}, found : SUBSET Item,
             answer : Seq(Item), done : Nat, gone : SUBSET Row, at : Nat]

\* Every check but r stays as it is.
OthersKept(r) == \A q \in Request \ {r} : check'[q] = check[q]

LEMMA CheckTypes ==
  ASSUME SimilarityTypeOK, NEW r \in Request
  PROVE  /\ check \in [Request -> CheckRow]
         /\ check[r] \in CheckRow
         /\ check[r].pc \in Pc /\ check[r].base \in Draft \cup {NoDraft}
         /\ check[r].found \in SUBSET Item
         /\ check[r].answer \in Seq(Item) /\ Len(check[r].answer) \in Nat
         /\ check[r].done \in Nat /\ check[r].gone \in SUBSET Row /\ check[r].at \in Nat
BY DEF SimilarityTypeOK, CheckRow, Pc

LEMMA UnaskedType ==
  /\ Unasked \in CheckRow
  /\ [Unasked EXCEPT !.pc = "failed"] \in CheckRow
  /\ Unasked.answer = <<>> /\ Unasked.found = {} /\ Unasked.gone = {}
  /\ Unasked.done = 0 /\ Unasked.at = 0 /\ Unasked.pc = "start"
  /\ Unasked.base = NoDraft
<1>1. <<>> \in Seq(Item) /\ {} \in SUBSET Item /\ {} \in SUBSET Row
  OBVIOUS
<1>2. Unasked \in CheckRow
  BY <1>1 DEF Unasked, CheckRow, Pc
<1>3. [Unasked EXCEPT !.pc = "failed"] \in CheckRow
  BY <1>2 DEF CheckRow, Pc
<1> QED
  BY <1>2, <1>3 DEF Unasked

LEMMA RecallEffect ==
  ASSUME SimilarityTypeOK, NEW r \in Request, Recall(r)
  PROVE  /\ check[r].pc = "start"
         /\ OthersKept(r)
         /\ check' \in [Request -> CheckRow]
         /\ check'[r].pc = "judge"
         /\ Cardinality(check'[r].found) <= RecallLimit
         /\ check'[r].answer = check[r].answer
         /\ check'[r].done = check[r].done
         /\ check'[r].gone = check[r].gone
         /\ check'[r].at = check[r].at
         /\ UNCHANGED <<status, rows, commits>>
<1>1. PICK base \in About[r], found \in SUBSET {i \in Item : status[i] = "ACTIVE"} :
        /\ Cardinality(found) <= RecallLimit
        /\ check' = [check EXCEPT ![r].pc = "judge", ![r].base = base, ![r].found = found]
  BY DEF Recall
<1>2. base \in Draft \cup {NoDraft} /\ found \in SUBSET Item
  BY AboutAssumption
<1>3. check[r] \in CheckRow /\ check \in [Request -> CheckRow]
  BY CheckTypes
<1> DEFINE c == [check[r] EXCEPT !.pc = "judge", !.base = base, !.found = found]
<1>4. /\ c \in CheckRow
      /\ c.pc = "judge" /\ c.found = found /\ c.answer = check[r].answer
      /\ c.done = check[r].done /\ c.gone = check[r].gone /\ c.at = check[r].at
  BY <1>2, <1>3 DEF CheckRow, Pc
<1>5. check'[r] = c /\ OthersKept(r) /\ DOMAIN check' = Request
  BY <1>1, <1>3 DEF OthersKept
<1> QED
  BY <1>1, <1>3, <1>4, <1>5 DEF Recall, OthersKept

LEMMA JudgeEffect ==
  ASSUME SimilarityTypeOK, NEW r \in Request, Judge(r)
  PROVE  /\ check[r].pc = "judge"
         /\ OthersKept(r)
         /\ check' \in [Request -> CheckRow]
         /\ check'[r].pc = IF check[r].base = NoDraft THEN "done" ELSE "delete"
         /\ check'[r].base = check[r].base
         /\ check'[r].found = {}
         /\ check'[r].answer \in Judged(check[r].base, check[r].found)
         /\ check'[r].done = check[r].done
         /\ check'[r].gone = Seen(check[r].base)
         /\ check'[r].at = Len(commits)
         /\ UNCHANGED <<status, rows, commits>>
<1>1. PICK j \in Judgements :
        /\ j.base = check[r].base /\ j.found = check[r].found
        /\ check' = [check EXCEPT ![r].pc = IF j.base = NoDraft THEN "done" ELSE "delete",
                                  ![r].found = {}, ![r].answer = j.answer,
                                  ![r].gone = Seen(j.base), ![r].at = Len(commits)]
  BY DEF Judge
<1>2. check[r] \in CheckRow /\ check \in [Request -> CheckRow]
  BY CheckTypes
<1>3. j.answer \in Judged(j.base, j.found)
  <2> DEFINE Of(b, f) == [base : {b}, found : {f}, answer : Judged(b, f)]
             Small == {f \in SUBSET Item : Cardinality(f) <= RecallLimit}
  <2>1. Judgements = UNION {Of(b, f) : b \in Draft \cup {NoDraft}, f \in Small}
    BY DEF Judgements
  <2> HIDE DEF Of, Small
  <2>2. PICK b \in Draft \cup {NoDraft}, f \in Small : j \in Of(b, f)
    BY <2>1
  <2> QED
    BY <2>2 DEF Of
<1> DEFINE base == j.base
           answer == j.answer
           gone == Seen(base)
           at == Len(commits)
           pc == IF base = NoDraft THEN "done" ELSE "delete"
<1>4. answer \in Seq(Item)
  BY <1>1, <1>2, <1>3, JudgedAnswer DEF CheckRow
<1>5. gone \in SUBSET Row /\ at \in Nat /\ pc \in Pc
  BY DEF SimilarityTypeOK, Seen, Pc
<1> DEFINE c == [check[r] EXCEPT !.pc = pc, !.found = {}, !.answer = answer,
                                 !.gone = gone, !.at = at]
<1>6. /\ check'[r] = c /\ OthersKept(r)
      /\ check' = [q \in Request |-> check'[q]]
  BY <1>1, <1>2 DEF OthersKept
<1>7. base = check[r].base /\ j.found = check[r].found
  BY <1>1
<1> HIDE DEF base, answer, gone, at, pc
<1>8. /\ c \in CheckRow
      /\ c.pc = pc /\ c.base = check[r].base /\ c.found = {} /\ c.answer = answer
      /\ c.done = check[r].done /\ c.gone = gone /\ c.at = at
  BY <1>2, <1>4, <1>5 DEF CheckRow
<1>9. /\ answer \in Judged(check[r].base, check[r].found)
      /\ pc = IF check[r].base = NoDraft THEN "done" ELSE "delete"
      /\ gone = Seen(check[r].base)
      /\ at = Len(commits)
  BY <1>3, <1>7 DEF base, answer, gone, at, pc
<1> HIDE DEF c
<1>10. check' \in [Request -> CheckRow]
  BY <1>2, <1>6, <1>8 DEF OthersKept
<1> QED
  BY <1>6, <1>8, <1>9, <1>10 DEF Judge

LEMMA FinishDeleteEffect ==
  ASSUME SimilarityTypeOK, NEW r \in Request, FinishDelete(r)
  PROVE  /\ check[r].pc = "delete"
         /\ OthersKept(r)
         /\ check' \in [Request -> CheckRow]
         /\ check'[r].pc = "insert"
         /\ check'[r].base = check[r].base
         /\ check'[r].found = check[r].found
         /\ check'[r].answer = check[r].answer
         /\ check'[r].done = check[r].done
         /\ check'[r].gone = check[r].gone \cap rows
         /\ check'[r].at = check[r].at
         /\ UNCHANGED <<status, rows, commits>>
<1>1. check[r] \in CheckRow /\ check \in [Request -> CheckRow]
  BY CheckTypes
<1> DEFINE c == [check[r] EXCEPT !.pc = "insert", !.gone = @ \cap rows]
<1>2. /\ c \in CheckRow
      /\ c.pc = "insert" /\ c.base = check[r].base /\ c.found = check[r].found
      /\ c.answer = check[r].answer /\ c.done = check[r].done
      /\ c.gone = check[r].gone \cap rows /\ c.at = check[r].at
  BY <1>1 DEF CheckRow, Pc
<1>3. check'[r] = c /\ OthersKept(r) /\ DOMAIN check' = Request
  BY <1>1 DEF FinishDelete, OthersKept
<1> QED
  BY <1>1, <1>2, <1>3 DEF FinishDelete, OthersKept

LEMMA InsertEffect ==
  ASSUME SimilarityTypeOK, NEW r \in Request, Insert(r)
  PROVE  /\ check[r].pc = "insert"
         /\ check[r].done < Len(check[r].answer)
         /\ OthersKept(r)
         /\ check' \in [Request -> CheckRow]
         /\ check'[r].pc = "insert"
         /\ check'[r].base = check[r].base
         /\ check'[r].found = check[r].found
         /\ check'[r].answer = check[r].answer
         /\ check'[r].done = check[r].done + 1
         /\ check'[r].gone = check[r].gone
         /\ check'[r].at = check[r].at
         /\ UNCHANGED <<status, rows, commits>>
<1>1. check[r] \in CheckRow /\ check \in [Request -> CheckRow]
  BY CheckTypes
<1> DEFINE done == check[r].done + 1
           c == [check[r] EXCEPT !.done = done]
<1>2. check'[r] = c /\ OthersKept(r) /\ check' = [q \in Request |-> check'[q]]
  BY <1>1 DEF Insert, OthersKept
<1>3. done \in Nat
  BY CheckTypes
<1> HIDE DEF done
<1>4. /\ c \in CheckRow
      /\ c.pc = check[r].pc /\ c.base = check[r].base /\ c.found = check[r].found
      /\ c.answer = check[r].answer /\ c.done = done
      /\ c.gone = check[r].gone /\ c.at = check[r].at
  BY <1>1, <1>3 DEF CheckRow
<1> HIDE DEF c
<1>5. check' \in [Request -> CheckRow]
  BY <1>1, <1>2, <1>4 DEF OthersKept
<1> QED
  BY <1>2, <1>4, <1>5 DEF Insert, done

LEMMA RollBackEffect ==
  ASSUME SimilarityTypeOK, NEW r \in Request, RollBack(r)
  PROVE  /\ OthersKept(r)
         /\ check' \in [Request -> CheckRow]
         /\ check'[r].pc = "failed"
         /\ check'[r].base = NoDraft
         /\ check'[r].found = {}
         /\ check'[r].answer = <<>>
         /\ check'[r].done = 0
         /\ check'[r].gone = {}
         /\ check'[r].at = 0
         /\ UNCHANGED <<status, rows, commits>>
<1>1. check \in [Request -> CheckRow]
  BY CheckTypes
<1> DEFINE c == [Unasked EXCEPT !.pc = "failed"]
<1>2. /\ c.pc = "failed" /\ c.base = NoDraft /\ c.found = {} /\ c.answer = <<>>
      /\ c.done = 0 /\ c.gone = {} /\ c.at = 0
  BY DEF Unasked
<1>3. check'[r] = c /\ OthersKept(r) /\ DOMAIN check' = Request
  BY <1>1 DEF RollBack, OthersKept
<1>4. c \in CheckRow
  BY UnaskedType
<1> HIDE DEF c
<1> QED
  BY <1>1, <1>2, <1>3, <1>4 DEF RollBack, OthersKept

LEMMA CommitEffect ==
  ASSUME SimilarityTypeOK, NEW r \in Request, Commit(r)
  PROVE  /\ check[r].pc = "insert"
         /\ check[r].done = Len(check[r].answer)
         /\ OthersKept(r)
         /\ check' \in [Request -> CheckRow]
         /\ check'[r].pc = "done"
         /\ check'[r].base = check[r].base
         /\ check'[r].found = check[r].found
         /\ check'[r].answer = check[r].answer
         /\ check'[r].done = check[r].done
         /\ check'[r].gone = {}
         /\ check'[r].at = check[r].at
         /\ commits' = Append(commits, r)
         /\ rows' = (rows \ check[r].gone)
                      \cup [draft : {check[r].base}, item : Inserted(r), by : {r}]
         /\ status' = status
<1>1. check[r] \in CheckRow /\ check \in [Request -> CheckRow]
  BY CheckTypes
<1> DEFINE c == [check[r] EXCEPT !.pc = "done", !.gone = {}]
<1>2. /\ c \in CheckRow
      /\ c.pc = "done" /\ c.base = check[r].base /\ c.found = check[r].found
      /\ c.answer = check[r].answer /\ c.done = check[r].done
      /\ c.gone = {} /\ c.at = check[r].at
  BY <1>1 DEF CheckRow, Pc
<1>3. check'[r] = c /\ OthersKept(r) /\ DOMAIN check' = Request
  BY <1>1 DEF Commit, OthersKept
<1> QED
  BY <1>1, <1>2, <1>3 DEF Commit, OthersKept

-----------------------------------------------------------------------------
(* The inductive invariant.                                                *)

Replacing(r) == check[r].pc \in {"delete", "insert"}
Committed == ToSet(commits)

\* What a check has not got to is as it began; a committed check is done, was
\* of a draft and has inserted its whole answer.
StageInv ==
  \A r \in Request :
    /\ check[r].pc = "start" => check[r] = Unasked
    /\ check[r].pc \in {"judge", "delete"} => check[r].done = 0
    /\ Replacing(r) => check[r].base # NoDraft
    /\ r \in Committed =>
         /\ check[r].pc = "done"
         /\ check[r].base # NoDraft
         /\ check[r].done = Len(check[r].answer)

\* A row that is or was there is of a committed check's draft and answer.
RowInv ==
  \A x \in rows \cup UNION {check[r].gone : r \in Request} :
    /\ x.by \in Committed
    /\ x.draft = check[x.by].base
    /\ x.item \in ToSet(check[x.by].answer)

\* The rows the DELETE of a check sees are of its draft, and of any other check
\* all that are left or none; the rows it does not see were committed since.
DeleteInv ==
  \A r \in Request : Replacing(r) =>
    /\ \A x \in check[r].gone : x.draft = check[r].base
    /\ \A x \in check[r].gone, y \in rows : y.by = x.by => y \in check[r].gone
    /\ \A x \in rows : x.draft = check[r].base /\ x \notin check[r].gone =>
         \E n \in check[r].at + 1..Len(commits) : commits[n] = x.by

\* What a transaction has locked by deleting and inserting.
LockInv ==
  \A r \in Request : check[r].pc = "insert" =>
    /\ check[r].gone \subseteq rows
    /\ \A i \in Inserted(r) :
         /\ status[i] # "PURGED"
         /\ \A x \in rows \ check[r].gone : ~(x.draft = check[r].base /\ x.item = i)
    /\ \A q \in Request \ {r} : check[q].pc = "insert" =>
         /\ check[q].gone \cap check[r].gone = {}
         /\ check[q].base = check[r].base => Inserted(q) \cap Inserted(r) = {}

\* StoredWhole, said of each check.
WholeInv ==
  \A p \in Request :
    /\ RowsOf(p) \in {{}, Listed(p)}
    /\ \A n \in DOMAIN commits :
         /\ commits[n] = p
         /\ \A m \in n + 1..Len(commits) : check[commits[m]].base # check[p].base
         => RowsOf(p) = Listed(p)

IInv ==
  /\ SimilarityTypeOK
  /\ StageInv
  /\ RowInv
  /\ DeleteInv
  /\ LockInv
  /\ WholeInv
  /\ NothingOlderStays

\* A row and a check of commits, in the terms the invariants use.
LEMMA CommitsAreRequests ==
  ASSUME SimilarityTypeOK
  PROVE  /\ Len(commits) \in Nat /\ DOMAIN commits = 1..Len(commits)
         /\ \A n \in DOMAIN commits : commits[n] \in Request /\ commits[n] \in Committed
         /\ Committed \subseteq Request
BY DEF SimilarityTypeOK, Committed, ToSet

LEMMA RowTypes ==
  ASSUME SimilarityTypeOK, NEW x \in rows
  PROVE  x \in Row /\ x.draft \in Draft /\ x.item \in Item /\ x.by \in Request
BY DEF SimilarityTypeOK, Row

\* A check that is not done yet has no rows.
LEMMA NoRowsYet ==
  ASSUME StageInv, RowInv, NEW r \in Request, check[r].pc # "done"
  PROVE  r \notin Committed /\ RowsOf(r) = {}
BY DEF StageInv, RowInv, RowsOf

\* A step of one check that writes no table keeps what is said of the tables.
LEMMA QuietKeepsRows ==
  ASSUME IInv, NEW r \in Request, check[r].pc # "done", OthersKept(r),
         UNCHANGED <<status, rows, commits>>,
         check'[r].gone \subseteq check[r].gone \cup rows
  PROVE  RowInv' /\ WholeInv' /\ NothingOlderStays'
<1>1. r \notin Committed /\ RowsOf(r) = {}
  BY NoRowsYet DEF IInv
<1>2. /\ \A n \in DOMAIN commits : commits[n] \in Request /\ commits[n] \in Committed
      /\ Committed \subseteq Request
      /\ Committed' = Committed
  BY CommitsAreRequests DEF IInv, Committed
<1>3. \A p \in Committed : check'[p] = check[p]
  BY <1>1, <1>2 DEF OthersKept
<1>4. RowInv'
  <2> SUFFICES ASSUME NEW x \in rows' \cup UNION {check'[q].gone : q \in Request}
               PROVE  /\ x.by \in Committed
                      /\ x.draft = check[x.by].base
                      /\ x.item \in ToSet(check[x.by].answer)
    BY <1>2, <1>3 DEF RowInv
  <2>1. x \in rows \cup UNION {check[q].gone : q \in Request}
    BY DEF OthersKept
  <2> QED
    BY <2>1 DEF IInv, RowInv
<1>5. /\ \A q \in Request : RowsOf(q)' = RowsOf(q)
      /\ \A q \in Request \ {r} : Listed(q)' = Listed(q)
  BY DEF RowsOf, Listed, OthersKept
<1>6. WholeInv'
  <2> SUFFICES ASSUME NEW p \in Request
               PROVE  /\ RowsOf(p)' \in {{}, Listed(p)'}
                      /\ \A n \in DOMAIN commits :
                           /\ commits[n] = p
                           /\ \A m \in n + 1..Len(commits) :
                                check'[commits[m]].base # check'[p].base
                           => RowsOf(p)' = Listed(p)'
    BY DEF WholeInv
  <2>1. RowsOf(p)' \in {{}, Listed(p)'}
    BY <1>1, <1>5 DEF IInv, WholeInv
  <2>2. ASSUME NEW n \in DOMAIN commits, commits[n] = p,
               \A m \in n + 1..Len(commits) :
                 check'[commits[m]].base # check'[p].base
        PROVE  RowsOf(p)' = Listed(p)'
    <3>1. p \in Committed /\ p # r
      BY <1>1, <1>2, <2>2
    <3>2. \A m \in n + 1..Len(commits) : m \in DOMAIN commits
      BY CommitsAreRequests DEF IInv
    <3>3. \A m \in n + 1..Len(commits) : check[commits[m]].base # check[p].base
      BY <1>2, <1>3, <2>2, <3>1, <3>2
    <3>4. RowsOf(p) = Listed(p)
      BY <2>2, <3>3 DEF IInv, WholeInv
    <3> QED
      BY <1>5, <3>1, <3>4
  <2> QED
    BY <2>1, <2>2
<1>7. NothingOlderStays'
  <2>1. \A p, q \in Committed : CommittedDuring(p, q)' <=> CommittedDuring(p, q)
    BY <1>3 DEF CommittedDuring
  <2>2. \A x \in rows : x.by \in Committed
    BY DEF IInv, RowInv
  <2> SUFFICES ASSUME NEW x \in rows, NEW y \in rows, x.draft = y.draft, x.by # y.by
               PROVE  CommittedDuring(x.by, y.by)' \/ CommittedDuring(y.by, x.by)'
    BY DEF NothingOlderStays
  <2>3. CommittedDuring(x.by, y.by) \/ CommittedDuring(y.by, x.by)
    BY DEF IInv, NothingOlderStays
  <2> QED
    BY <2>1, <2>2, <2>3
<1> QED
  BY <1>4, <1>6, <1>7

\* The same step keeps what is said of the other checks' deletions; what is left
\* to show of it is about its own check.
LEMMA QuietKeepsDeletes ==
  ASSUME IInv, NEW r \in Request, OthersKept(r), UNCHANGED <<rows, commits>>,
         Replacing(r)' =>
           /\ \A x \in check'[r].gone : x.draft = check'[r].base
           /\ \A x \in check'[r].gone, y \in rows : y.by = x.by => y \in check'[r].gone
           /\ \A x \in rows : x.draft = check'[r].base /\ x \notin check'[r].gone =>
                \E n \in check'[r].at + 1..Len(commits) : commits[n] = x.by
  PROVE  DeleteInv'
<1> SUFFICES ASSUME NEW q \in Request, Replacing(q)'
             PROVE  /\ \A x \in check'[q].gone : x.draft = check'[q].base
                    /\ \A x \in check'[q].gone, y \in rows :
                         y.by = x.by => y \in check'[q].gone
                    /\ \A x \in rows :
                         x.draft = check'[q].base /\ x \notin check'[q].gone =>
                           \E n \in check'[q].at + 1..Len(commits) : commits[n] = x.by
  BY DEF DeleteInv
<1>1. CASE q = r
  BY <1>1
<1>2. CASE q # r
  <2>1. check'[q] = check[q] /\ Replacing(q)
    BY <1>2 DEF OthersKept, Replacing
  <2> QED
    BY <2>1 DEF IInv, DeleteInv
<1> QED
  BY <1>1, <1>2

LEMMA QuietKeepsStage ==
  ASSUME IInv, NEW r \in Request, check[r].pc # "done", OthersKept(r),
         UNCHANGED commits, check'[r].pc # "start",
         check'[r].pc \in {"judge", "delete"} => check'[r].done = 0,
         Replacing(r)' => check'[r].base # NoDraft
  PROVE  StageInv'
<1>1. r \notin Committed /\ Committed' = Committed
  BY NoRowsYet DEF IInv, Committed
<1> QED
  BY <1>1 DEF IInv, StageInv, OthersKept, Replacing

LEMMA QuietKeepsTypes ==
  ASSUME IInv, NEW r \in Request, OthersKept(r), check' \in [Request -> CheckRow],
         UNCHANGED <<status, rows, commits>>,
         Cardinality(check'[r].found) <= RecallLimit,
         Len(check'[r].answer) <= Kept, IsInjective(check'[r].answer),
         check'[r].done <= Len(check'[r].answer), check'[r].at <= Len(commits)
  PROVE  SimilarityTypeOK'
<1>1. \A q \in Request :
        /\ Cardinality(check'[q].found) <= RecallLimit
        /\ Len(check'[q].answer) <= Kept
        /\ IsInjective(check'[q].answer)
        /\ check'[q].done <= Len(check'[q].answer)
        /\ check'[q].at <= Len(commits)
  BY DEF IInv, SimilarityTypeOK, OthersKept
<1> QED
  BY <1>1 DEF IInv, SimilarityTypeOK, CheckRow, Pc

\* A check that holds no lock leaves the locks of the others apart.
LEMMA QuietKeepsLocks ==
  ASSUME IInv, NEW r \in Request, OthersKept(r), UNCHANGED <<status, rows>>,
         check'[r].pc # "insert"
  PROVE  LockInv'
<1> SUFFICES ASSUME NEW q \in Request, check'[q].pc = "insert"
             PROVE  /\ check'[q].gone \subseteq rows
                    /\ \A i \in Inserted(q)' :
                         /\ status[i] # "PURGED"
                         /\ \A x \in rows \ check'[q].gone :
                              ~(x.draft = check'[q].base /\ x.item = i)
                    /\ \A p \in Request \ {q} : check'[p].pc = "insert" =>
                         /\ check'[p].gone \cap check'[q].gone = {}
                         /\ check'[p].base = check'[q].base =>
                              Inserted(p)' \cap Inserted(q)' = {}
  BY DEF LockInv
<1>1. \A p \in Request : check'[p].pc = "insert" =>
        p # r /\ check'[p] = check[p] /\ Inserted(p)' = Inserted(p)
  BY DEF OthersKept, Inserted
<1> QED
  BY <1>1 DEF IInv, LockInv

LEMMA CardinalityZero == Cardinality({}) <= RecallLimit
BY FS_EmptySet, LimitAssumption

LEMMA RecallKeepsIInv ==
  ASSUME IInv, NEW r \in Request, Recall(r)
  PROVE  IInv'
<1>1. /\ check[r].pc = "start" /\ check[r] = Unasked
      /\ OthersKept(r)
      /\ check' \in [Request -> CheckRow]
      /\ check'[r].pc = "judge"
      /\ Cardinality(check'[r].found) <= RecallLimit
      /\ check'[r].answer = <<>> /\ check'[r].done = 0
      /\ check'[r].gone = {} /\ check'[r].at = 0
      /\ UNCHANGED <<status, rows, commits>>
  BY RecallEffect, UnaskedType DEF IInv, StageInv
<1>2. /\ Len(commits) \in Nat /\ Len(<<>>) = 0 /\ IsInjective(<<>>)
      /\ Len(<<>>) <= Kept
  BY CommitsAreRequests, LimitAssumption DEF IInv, IsInjective
<1>3. SimilarityTypeOK'
  BY <1>1, <1>2, QuietKeepsTypes
<1>4. StageInv' /\ DeleteInv' /\ LockInv'
  BY <1>1, QuietKeepsStage, QuietKeepsDeletes, QuietKeepsLocks DEF Replacing
<1> QED
  BY <1>1, <1>3, <1>4, QuietKeepsRows DEF IInv

LEMMA JudgeKeepsIInv ==
  ASSUME IInv, NEW r \in Request, Judge(r)
  PROVE  IInv'
<1>1. /\ check[r].pc = "judge" /\ check[r].done = 0
      /\ OthersKept(r)
      /\ check' \in [Request -> CheckRow]
      /\ check'[r].pc = IF check[r].base = NoDraft THEN "done" ELSE "delete"
      /\ check'[r].base = check[r].base
      /\ check'[r].found = {}
      /\ check'[r].answer \in Judged(check[r].base, check[r].found)
      /\ check'[r].done = 0
      /\ check'[r].gone = Seen(check[r].base)
      /\ check'[r].at = Len(commits)
      /\ UNCHANGED <<status, rows, commits>>
  BY JudgeEffect DEF IInv, StageInv
<1>2. /\ Len(check'[r].answer) <= Kept /\ IsInjective(check'[r].answer)
      /\ check'[r].answer \in Seq(Item)
  BY <1>1, JudgedAnswer, CheckTypes DEF IInv
<1>3. Len(commits) \in Nat /\ Len(check'[r].answer) \in Nat
  BY <1>2, CommitsAreRequests DEF IInv
<1>4. SimilarityTypeOK'
  <2>1. Cardinality(check'[r].found) <= RecallLimit
    BY <1>1, CardinalityZero
  <2>2. /\ check'[r].done <= Len(check'[r].answer)
        /\ check'[r].at <= Len(commits)
    BY <1>1, <1>3
  <2> QED
    BY <1>1, <1>2, <2>1, <2>2, QuietKeepsTypes
<1>5. check'[r].gone \subseteq rows
  BY <1>1 DEF Seen
<1>6. \A x \in check'[r].gone, y \in rows : y.by = x.by => y \in check'[r].gone
  BY <1>1 DEF Seen, IInv, RowInv
<1>7. \A x \in rows : x.draft = check[r].base => x \in check'[r].gone
  BY <1>1 DEF Seen
<1>8. \A x \in check'[r].gone : x.draft = check'[r].base
  BY <1>1 DEF Seen
<1>9. StageInv' /\ LockInv'
  BY <1>1, QuietKeepsStage, QuietKeepsLocks DEF Replacing
<1>10. DeleteInv'
  BY <1>1, <1>6, <1>7, <1>8, QuietKeepsDeletes
<1> QED
  BY <1>1, <1>4, <1>5, <1>9, <1>10, QuietKeepsRows DEF IInv

LEMMA RollBackKeepsIInv ==
  ASSUME IInv, NEW r \in Request, Replacing(r), RollBack(r)
  PROVE  IInv'
<1>1. /\ OthersKept(r)
      /\ check' \in [Request -> CheckRow]
      /\ check'[r].pc = "failed"
      /\ check'[r].found = {} /\ check'[r].answer = <<>> /\ check'[r].done = 0
      /\ check'[r].gone = {} /\ check'[r].at = 0
      /\ UNCHANGED <<status, rows, commits>>
      /\ check[r].pc # "done"
  BY RollBackEffect DEF IInv, Replacing
<1>2. /\ Len(commits) \in Nat /\ Len(<<>>) = 0 /\ IsInjective(<<>>)
      /\ Len(<<>>) <= Kept
  BY CommitsAreRequests, LimitAssumption DEF IInv, IsInjective
<1>3. SimilarityTypeOK'
  <2>1. Cardinality(check'[r].found) <= RecallLimit
    BY <1>1, CardinalityZero
  <2>2. /\ Len(check'[r].answer) <= Kept /\ IsInjective(check'[r].answer)
        /\ check'[r].done <= Len(check'[r].answer)
        /\ check'[r].at <= Len(commits)
    BY <1>1, <1>2
  <2> QED
    BY <1>1, <2>1, <2>2, QuietKeepsTypes
<1>4. StageInv' /\ DeleteInv' /\ LockInv'
  BY <1>1, QuietKeepsStage, QuietKeepsDeletes, QuietKeepsLocks DEF Replacing
<1> QED
  BY <1>1, <1>3, <1>4, QuietKeepsRows DEF IInv

LEMMA FinishDeleteKeepsIInv ==
  ASSUME IInv, NEW r \in Request, FinishDelete(r)
  PROVE  IInv'
<1>1. /\ check[r].pc = "delete" /\ check[r].done = 0
      /\ OthersKept(r)
      /\ check' \in [Request -> CheckRow]
      /\ check'[r].pc = "insert"
      /\ check'[r].base = check[r].base /\ check'[r].base # NoDraft
      /\ check'[r].found = check[r].found
      /\ check'[r].answer = check[r].answer
      /\ check'[r].done = 0
      /\ check'[r].gone = check[r].gone \cap rows
      /\ check'[r].at = check[r].at
      /\ UNCHANGED <<status, rows, commits>>
  BY FinishDeleteEffect DEF IInv, StageInv, Replacing
<1>2. SimilarityTypeOK'
  BY <1>1, QuietKeepsTypes DEF IInv, SimilarityTypeOK
<1>3. StageInv'
  BY <1>1, QuietKeepsStage
<1>4. DeleteInv'
  <2>1. /\ \A x \in check[r].gone : x.draft = check[r].base
        /\ \A x \in check[r].gone, y \in rows : y.by = x.by => y \in check[r].gone
        /\ \A x \in rows : x.draft = check[r].base /\ x \notin check[r].gone =>
             \E n \in check[r].at + 1..Len(commits) : commits[n] = x.by
    BY <1>1 DEF IInv, DeleteInv, Replacing
  <2> QED
    BY <1>1, <2>1, QuietKeepsDeletes
<1>5. LockInv'
  <2>1. Inserted(r)' = {}
    BY <1>1 DEF Inserted
  <2>2. \A p \in Request \ {r} : check'[p] = check[p] /\ Inserted(p)' = Inserted(p)
    BY <1>1 DEF OthersKept, Inserted
  <2>3. \A p \in Request \ {r} : check[p].pc = "insert" =>
          check[p].gone \cap check'[r].gone = {}
    BY <1>1 DEF FinishDelete, WaitsFor
  <2>4. check'[r].gone \subseteq rows
    BY <1>1
  <2> QED
    BY <1>1, <2>1, <2>2, <2>3, <2>4 DEF IInv, LockInv
<1> QED
  BY <1>1, <1>2, <1>3, <1>4, <1>5, QuietKeepsRows DEF IInv

LEMMA InsertKeepsIInv ==
  ASSUME IInv, NEW r \in Request, Insert(r)
  PROVE  IInv'
<1>1. /\ check[r].pc = "insert"
      /\ check[r].done < Len(check[r].answer)
      /\ OthersKept(r)
      /\ check' \in [Request -> CheckRow]
      /\ check'[r].pc = "insert"
      /\ check'[r].base = check[r].base /\ check'[r].base # NoDraft
      /\ check'[r].found = check[r].found
      /\ check'[r].answer = check[r].answer
      /\ check'[r].done = check[r].done + 1
      /\ check'[r].gone = check[r].gone
      /\ check'[r].at = check[r].at
      /\ UNCHANGED <<status, rows, commits>>
  BY InsertEffect DEF IInv, StageInv, Replacing
<1>2. check[r].done \in Nat /\ Len(check[r].answer) \in Nat
  BY CheckTypes DEF IInv
<1>3. SimilarityTypeOK'
  <2>1. check'[r].done <= Len(check'[r].answer)
    BY <1>1, <1>2
  <2>2. /\ Cardinality(check'[r].found) <= RecallLimit
        /\ Len(check'[r].answer) <= Kept
        /\ IsInjective(check'[r].answer)
        /\ check'[r].at <= Len(commits)
    BY <1>1 DEF IInv, SimilarityTypeOK
  <2> QED
    BY <1>1, <2>1, <2>2, QuietKeepsTypes
<1>4. StageInv'
  BY <1>1, QuietKeepsStage
<1>5. DeleteInv'
  <2>1. /\ \A x \in check[r].gone : x.draft = check[r].base
        /\ \A x \in check[r].gone, y \in rows : y.by = x.by => y \in check[r].gone
        /\ \A x \in rows : x.draft = check[r].base /\ x \notin check[r].gone =>
             \E n \in check[r].at + 1..Len(commits) : commits[n] = x.by
    BY <1>1 DEF IInv, DeleteInv, Replacing
  <2> QED
    BY <1>1, <2>1, QuietKeepsDeletes
<1>6. LockInv'
  <2> DEFINE i == check[r].answer[check[r].done + 1]
  <2>1. Inserted(r)' = Inserted(r) \cup {i}
    <3>1. 1..check[r].done + 1 = (1..check[r].done) \cup {check[r].done + 1}
      BY <1>2
    <3> QED
      BY <1>1, <3>1 DEF Inserted
  <2>2. \A p \in Request \ {r} : check'[p] = check[p] /\ Inserted(p)' = Inserted(p)
    BY <1>1 DEF OthersKept, Inserted
  <2>3. \A p \in Request \ {r} :
          check[p].pc = "insert" /\ check[p].base = check[r].base => i \notin Inserted(p)
    BY <1>1 DEF Insert, WaitsFor
  <2>4. /\ status[i] # "PURGED"
        /\ \A x \in rows \ check[r].gone : ~(x.draft = check[r].base /\ x.item = i)
    BY <1>1 DEF Insert, Refused
  <2> HIDE DEF i
  <2> QED
    BY <1>1, <2>1, <2>2, <2>3, <2>4 DEF IInv, LockInv
<1> QED
  BY <1>1, <1>3, <1>4, <1>5, <1>6, QuietKeepsRows DEF IInv

\* Restoring and removing an item say nothing of rows.
LEMMA StatusKeepsIInv ==
  ASSUME IInv, NEW i \in Item, SoftDelete(i) \/ Restore(i)
  PROVE  IInv'
<1>1. /\ status[i] \in {"ACTIVE", "DELETED"}
      /\ \E s \in {"ACTIVE", "DELETED"} : status' = [status EXCEPT ![i] = s]
      /\ UNCHANGED <<rows, check, commits>>
  BY DEF SoftDelete, Restore
<1>2. /\ status' \in [Item -> {"ACTIVE", "DELETED", "PURGED"}]
      /\ \A j \in Item : status'[j] = "PURGED" <=> status[j] = "PURGED"
  BY <1>1 DEF IInv, SimilarityTypeOK
<1>3. SimilarityTypeOK'
  BY <1>1, <1>2, RowTypes DEF IInv, SimilarityTypeOK
<1>4. StageInv' /\ RowInv' /\ DeleteInv' /\ NothingOlderStays'
  BY <1>1
  DEF IInv, StageInv, RowInv, DeleteInv, NothingOlderStays, Replacing, Committed,
      CommittedDuring
<1>5. \A r \in Request : /\ Inserted(r)' = Inserted(r) /\ Inserted(r) \subseteq Item
                         /\ ToSet(check[r].answer) \subseteq Item
  BY <1>1 DEF Inserted, ToSet, IInv, SimilarityTypeOK
<1>6. LockInv'
  BY <1>1, <1>2, <1>5 DEF IInv, LockInv
<1>7. \A r \in Request : Listed(r)' = Listed(r) /\ RowsOf(r)' = RowsOf(r)
  BY <1>1, <1>2, <1>5 DEF Listed, RowsOf
<1>8. WholeInv'
  BY <1>1, <1>7 DEF IInv, WholeInv
<1> QED
  BY <1>3, <1>4, <1>6, <1>8 DEF IInv

LEMMA AppendCommit ==
  ASSUME SimilarityTypeOK, NEW r \in Request, commits' = Append(commits, r)
  PROVE  /\ commits' \in Seq(Request)
         /\ Len(commits') = Len(commits) + 1
         /\ DOMAIN commits' = 1..(Len(commits) + 1)
         /\ \A n \in 1..Len(commits) : commits'[n] = commits[n]
         /\ commits'[Len(commits) + 1] = r
         /\ Committed' = Committed \cup {r}
<1>1. commits \in Seq(Request) /\ Len(commits) \in Nat /\ DOMAIN commits = 1..Len(commits)
  BY DEF SimilarityTypeOK
<1>2. /\ commits' \in Seq(Request)
      /\ Len(commits') = Len(commits) + 1
      /\ DOMAIN commits' = 1..(Len(commits) + 1)
      /\ \A n \in 1..Len(commits) : commits'[n] = commits[n]
      /\ commits'[Len(commits) + 1] = r
  BY <1>1
<1>3. 1..(Len(commits) + 1) = (1..Len(commits)) \cup {Len(commits) + 1}
  BY <1>1
<1>4. Committed' = Committed \cup {r}
  BY <1>1, <1>2, <1>3 DEF Committed, ToSet
<1> QED
  BY <1>2, <1>4

\* What a commit writes: the rows its DELETE did not take, and one row for each
\* item of its answer, of which none had a row.
LEMMA CommittedRows ==
  ASSUME IInv, NEW r \in Request, Commit(r)
  PROVE  /\ check[r].base \in Draft
         /\ Inserted(r) = ToSet(check[r].answer)
         /\ Inserted(r) \subseteq Item
         /\ r \notin Committed
         /\ \A i \in Inserted(r) : [draft |-> check[r].base, item |-> i, by |-> r] \in rows'
         /\ \A x \in rows \ check[r].gone : x \in rows'
         /\ \A x \in rows' :
              \/ x \in rows /\ x \notin check[r].gone /\ x.by \in Committed
              \/ /\ x \in Row /\ x.draft = check[r].base /\ x.item \in Inserted(r)
                 /\ x.by = r
<1>1. /\ check[r].pc = "insert"
      /\ check[r].done = Len(check[r].answer)
      /\ rows' = (rows \ check[r].gone)
                   \cup [draft : {check[r].base}, item : Inserted(r), by : {r}]
  BY CommitEffect DEF IInv
<1>2. check[r].base \in Draft
  BY <1>1, CheckTypes DEF IInv, StageInv, Replacing
<1>3. check[r].answer \in Seq(Item)
  BY CheckTypes DEF IInv
<1>4. Inserted(r) = ToSet(check[r].answer) /\ Inserted(r) \subseteq Item
  BY <1>1, <1>3 DEF Inserted, ToSet
<1>5. r \notin Committed
  BY <1>1, NoRowsYet DEF IInv
<1>6. \A x \in rows : x.by \in Committed
  BY DEF IInv, RowInv
<1> DEFINE items == Inserted(r)
           base == check[r].base
<1> HIDE DEF items, base
<1>7. \A x \in [draft : {base}, item : items, by : {r}] :
        /\ x.draft = base /\ x.item \in items /\ x.by = r
        /\ base \in Draft /\ items \subseteq Item => x \in Row
  BY DEF Row
<1>8. \A i \in items : [draft |-> base, item |-> i, by |-> r]
                         \in [draft : {base}, item : items, by : {r}]
  OBVIOUS
<1> QED
  BY <1>1, <1>2, <1>4, <1>5, <1>6, <1>7, <1>8 DEF items, base

LEMMA CommitKeepsTypes ==
  ASSUME IInv, NEW r \in Request, Commit(r)
  PROVE  SimilarityTypeOK'
<1>1. /\ check[r].pc = "insert"
      /\ OthersKept(r)
      /\ check' \in [Request -> CheckRow]
      /\ check'[r].found = check[r].found /\ check'[r].answer = check[r].answer
      /\ check'[r].done = check[r].done /\ check'[r].at = check[r].at
      /\ commits' = Append(commits, r)
      /\ status' = status
  BY CommitEffect DEF IInv
<1>2. rows' \subseteq Row
  BY CommittedRows, RowTypes DEF IInv
<1>3. /\ \A i \in Inserted(r) : status[i] # "PURGED"
      /\ \A i \in Inserted(r), x \in rows \ check[r].gone :
           ~(x.draft = check[r].base /\ x.item = i)
  BY <1>1 DEF IInv, LockInv
<1>4. \A x \in rows' : status'[x.item] # "PURGED"
  BY <1>1, <1>3, CommittedRows DEF IInv, SimilarityTypeOK
<1>5. ASSUME NEW x \in rows', NEW y \in rows', x.draft = y.draft, x.item = y.item
      PROVE  x = y
  <2>1. CASE x \in rows /\ y \in rows
    BY <1>5, <2>1 DEF IInv, SimilarityTypeOK
  <2>2. CASE x.by = r /\ y.by = r
    <3>1. x \in Row /\ y \in Row
      BY <1>2
    <3> QED
      BY <1>5, <2>2, <3>1 DEF Row
  <2> QED
    BY <1>3, <1>5, <2>1, <2>2, CommittedRows
<1>6. /\ commits' \in Seq(Request)
      /\ Len(commits) \in Nat /\ Len(commits') = Len(commits) + 1
      /\ IsInjective(commits')
  <2>1. \A n \in 1..Len(commits) : commits[n] # r
    BY CommittedRows, CommitsAreRequests DEF IInv
  <2>2. IsInjective(commits) /\ DOMAIN commits = 1..Len(commits) /\ Len(commits) \in Nat
    BY CommitsAreRequests DEF IInv, SimilarityTypeOK
  <2>3. \A n \in 1..(Len(commits) + 1) : n # Len(commits) + 1 => n \in 1..Len(commits)
    BY <2>2
  <2>4. IsInjective(commits')
    BY <1>1, <2>1, <2>2, <2>3, AppendCommit DEF IInv, IsInjective
  <2> QED
    BY <1>1, <2>2, <2>4, AppendCommit DEF IInv
<1>7. \A q \in Request :
        /\ Cardinality(check'[q].found) <= RecallLimit
        /\ Len(check'[q].answer) <= Kept
        /\ IsInjective(check'[q].answer)
        /\ check'[q].done <= Len(check'[q].answer)
        /\ check[q].at <= Len(commits) /\ check'[q].at = check[q].at
  BY <1>1 DEF IInv, SimilarityTypeOK, OthersKept
<1>8. \A q \in Request : check'[q].at <= Len(commits')
  BY <1>6, <1>7, CheckTypes DEF IInv
<1>9. status' \in [Item -> {"ACTIVE", "DELETED", "PURGED"}]
  BY <1>1 DEF IInv, SimilarityTypeOK
<1> QED
  BY <1>1, <1>2, <1>4, <1>5, <1>6, <1>7, <1>8, <1>9 DEF SimilarityTypeOK, CheckRow, Pc

LEMMA CommitKeepsRows ==
  ASSUME IInv, NEW r \in Request, Commit(r)
  PROVE  StageInv' /\ RowInv' /\ DeleteInv' /\ LockInv'
<1>1. /\ check[r].pc = "insert"
      /\ check[r].done = Len(check[r].answer)
      /\ OthersKept(r)
      /\ check'[r].pc = "done"
      /\ check'[r].base = check[r].base /\ check'[r].answer = check[r].answer
      /\ check'[r].done = check[r].done
      /\ check'[r].gone = {}
      /\ commits' = Append(commits, r)
      /\ status' = status
  BY CommitEffect DEF IInv
<1>2. /\ check[r].base \in Draft /\ check[r].base # NoDraft
      /\ Inserted(r) = ToSet(check[r].answer)
      /\ r \notin Committed
      /\ \A x \in rows \ check[r].gone : x \in rows'
      /\ \A x \in rows' :
           \/ x \in rows /\ x \notin check[r].gone /\ x.by \in Committed
           \/ /\ x.draft = check[r].base /\ x.item \in Inserted(r)
              /\ x.by = r
  BY CommittedRows, NoDraftAssumption
<1>3. /\ Committed' = Committed \cup {r}
      /\ Len(commits) \in Nat /\ Len(commits') = Len(commits) + 1
      /\ \A n \in 1..Len(commits) : commits'[n] = commits[n]
      /\ commits'[Len(commits) + 1] = r
  BY <1>1, AppendCommit, CommitsAreRequests DEF IInv
<1>4. StageInv'
  BY <1>1, <1>2, <1>3 DEF IInv, StageInv, OthersKept, Replacing
<1>5. RowInv'
  <2> SUFFICES ASSUME NEW x \in rows' \cup UNION {check'[q].gone : q \in Request}
               PROVE  /\ x.by \in Committed'
                      /\ x.draft = check'[x.by].base
                      /\ x.item \in ToSet(check'[x.by].answer)
    BY DEF RowInv
  <2>1. \/ x \in rows \cup UNION {check[q].gone : q \in Request}
        \/ x.draft = check[r].base /\ x.item \in Inserted(r) /\ x.by = r
    BY <1>1, <1>2 DEF OthersKept
  <2>2. CASE x \in rows \cup UNION {check[q].gone : q \in Request}
    <3>1. /\ x.by \in Committed
          /\ x.draft = check[x.by].base
          /\ x.item \in ToSet(check[x.by].answer)
      BY <2>2 DEF IInv, RowInv
    <3>2. check'[x.by] = check[x.by]
      BY <1>1, <1>2, <3>1, CommitsAreRequests DEF IInv, OthersKept
    <3> QED
      BY <1>3, <3>1, <3>2
  <2>3. CASE x.draft = check[r].base /\ x.item \in Inserted(r) /\ x.by = r
    BY <1>1, <1>2, <1>3, <2>3
  <2> QED
    BY <2>1, <2>2, <2>3
<1>6. DeleteInv'
  <2> SUFFICES ASSUME NEW q \in Request, Replacing(q)'
               PROVE  /\ \A x \in check'[q].gone : x.draft = check'[q].base
                      /\ \A x \in check'[q].gone, y \in rows' :
                           y.by = x.by => y \in check'[q].gone
                      /\ \A x \in rows' :
                           x.draft = check'[q].base /\ x \notin check'[q].gone =>
                             \E n \in check'[q].at + 1..Len(commits') : commits'[n] = x.by
    BY DEF DeleteInv
  <2>1. q # r /\ check'[q] = check[q] /\ Replacing(q)
    BY <1>1 DEF Replacing, OthersKept
  <2>2. /\ \A x \in check[q].gone : x.draft = check[q].base /\ x.by \in Committed
        /\ \A x \in check[q].gone, y \in rows : y.by = x.by => y \in check[q].gone
        /\ \A x \in rows : x.draft = check[q].base /\ x \notin check[q].gone =>
             \E n \in check[q].at + 1..Len(commits) : commits[n] = x.by
    BY <2>1 DEF IInv, DeleteInv, RowInv
  <2>3. check[q].at \in Nat /\ check[q].at <= Len(commits)
    BY CheckTypes DEF IInv, SimilarityTypeOK
  <2>4. ASSUME NEW x \in rows', x.draft = check[q].base, x \notin check[q].gone
        PROVE  \E n \in check[q].at + 1..Len(commits') : commits'[n] = x.by
    <3>1. CASE x \in rows
      <4>1. PICK n \in check[q].at + 1..Len(commits) : commits[n] = x.by
        BY <2>2, <2>4, <3>1
      <4>2. n \in 1..Len(commits) /\ n \in check[q].at + 1..Len(commits')
        BY <1>3, <2>3
      <4> QED
        BY <1>3, <4>1, <4>2
    <3>2. CASE x.by = r
      <4>1. Len(commits) + 1 \in check[q].at + 1..Len(commits')
        BY <1>3, <2>3
      <4> QED
        BY <1>3, <3>2, <4>1
    <3> QED
      BY <1>2, <3>1, <3>2
  <2> QED
    BY <1>2, <2>1, <2>2, <2>4
<1>7. LockInv'
  <2> SUFFICES ASSUME NEW q \in Request, check'[q].pc = "insert"
               PROVE  /\ check'[q].gone \subseteq rows'
                      /\ \A i \in Inserted(q)' :
                           /\ status[i] # "PURGED"
                           /\ \A x \in rows' \ check'[q].gone :
                                ~(x.draft = check'[q].base /\ x.item = i)
                      /\ \A p \in Request \ {q} : check'[p].pc = "insert" =>
                           /\ check'[p].gone \cap check'[q].gone = {}
                           /\ check'[p].base = check'[q].base =>
                                Inserted(p)' \cap Inserted(q)' = {}
    BY <1>1 DEF LockInv
  <2>1. \A p \in Request : check'[p].pc = "insert" =>
          p # r /\ check'[p] = check[p] /\ Inserted(p)' = Inserted(p)
    BY <1>1 DEF OthersKept, Inserted
  <2>2. /\ check[q].gone \subseteq rows
        /\ check[q].gone \cap check[r].gone = {}
        /\ check[q].base = check[r].base => Inserted(q) \cap Inserted(r) = {}
        /\ \A i \in Inserted(q) :
             /\ status[i] # "PURGED"
             /\ \A x \in rows \ check[q].gone : ~(x.draft = check[q].base /\ x.item = i)
    BY <1>1, <2>1 DEF IInv, LockInv
  <2>3. check'[q].gone \subseteq rows'
    BY <1>2, <2>1, <2>2
  <2>4. ASSUME NEW i \in Inserted(q), NEW x \in rows', x \notin check[q].gone
        PROVE  ~(x.draft = check[q].base /\ x.item = i)
    BY <1>2, <2>2, <2>4
  <2> QED
    BY <2>1, <2>2, <2>3, <2>4 DEF IInv, LockInv
<1> QED
  BY <1>4, <1>5, <1>6, <1>7

\* The commit stores its answer whole, and of each other one leaves what there
\* was or nothing: a DELETE takes all the rows an answer still has.
LEMMA CommitKeepsWhole ==
  ASSUME IInv, NEW r \in Request, Commit(r)
  PROVE  WholeInv'
<1>1. /\ check[r].pc = "insert"
      /\ OthersKept(r)
      /\ check'[r].base = check[r].base /\ check'[r].answer = check[r].answer
      /\ commits' = Append(commits, r)
      /\ status' = status
  BY CommitEffect DEF IInv
<1>2. /\ Inserted(r) = ToSet(check[r].answer)
      /\ r \notin Committed
      /\ \A i \in Inserted(r) : [draft |-> check[r].base, item |-> i, by |-> r] \in rows'
      /\ \A x \in rows \ check[r].gone : x \in rows'
      /\ \A x \in rows' :
           \/ x \in rows /\ x \notin check[r].gone /\ x.by \in Committed
           \/ x.item \in Inserted(r) /\ x.by = r
  BY CommittedRows
<1>3. /\ Len(commits) \in Nat /\ Len(commits') = Len(commits) + 1
      /\ DOMAIN commits' = 1..(Len(commits) + 1)
      /\ \A n \in 1..Len(commits) : commits'[n] = commits[n]
      /\ commits'[Len(commits) + 1] = r
      /\ \A n \in DOMAIN commits : commits[n] \in Committed
      /\ DOMAIN commits = 1..Len(commits)
  BY <1>1, AppendCommit, CommitsAreRequests DEF IInv
<1>4. RowsOf(r)' = Listed(r)'
  <2>1. RowsOf(r)' = Inserted(r)
    <3>1. \A i \in Inserted(r) : \E x \in rows' : x.by = r /\ x.item = i
      BY <1>2
    <3>2. \A x \in rows' : x.by = r => x.item \in Inserted(r)
      BY <1>2
    <3> QED
      BY <3>1, <3>2 DEF RowsOf
  <2>2. \A i \in Inserted(r) : status[i] # "PURGED"
    BY <1>1 DEF IInv, LockInv
  <2>3. Listed(r)' = ToSet(check[r].answer)
    BY <1>1, <1>2, <2>2 DEF Listed
  <2> QED
    BY <1>2, <2>1, <2>3
<1>5. ASSUME NEW p \in Request, p # r
      PROVE  /\ RowsOf(p)' \in {{}, Listed(p)'}
             /\ check[p].base # check[r].base => RowsOf(p)' = RowsOf(p)
             /\ Listed(p)' = Listed(p)
  <2>1. Listed(p)' = Listed(p)
    BY <1>1, <1>5 DEF Listed, OthersKept
  <2>2. \A x \in rows' : x.by = p => x \in rows /\ x \notin check[r].gone
    BY <1>2, <1>5
  <2>3. CASE \E x \in check[r].gone : x.by = p
    <3>1. /\ \A x \in check[r].gone : x.draft = check[r].base /\ x.draft = check[x.by].base
          /\ \A x \in check[r].gone, y \in rows : y.by = x.by => y \in check[r].gone
      BY <1>1 DEF IInv, DeleteInv, RowInv, Replacing
    <3>2. check[p].base = check[r].base
      BY <2>3, <3>1
    <3>3. RowsOf(p)' = {}
      BY <2>2, <2>3, <3>1 DEF RowsOf
    <3> QED
      BY <2>1, <3>2, <3>3
  <2>4. CASE ~\E x \in check[r].gone : x.by = p
    <3>1. \A x \in rows : x.by = p => x \in rows'
      BY <1>2, <2>4
    <3>2. RowsOf(p)' = RowsOf(p)
      BY <2>2, <3>1 DEF RowsOf
    <3> QED
      BY <2>1, <3>2 DEF IInv, WholeInv
  <2> QED
    BY <2>3, <2>4
<1>6. ASSUME NEW p \in Request, p # r, NEW n \in DOMAIN commits', commits'[n] = p,
             \A m \in n + 1..Len(commits') : check'[commits'[m]].base # check'[p].base
      PROVE  RowsOf(p)' = Listed(p)'
  <2>1. n \in 1..Len(commits) /\ commits[n] = p
    BY <1>3, <1>6
  <2>2. \A q \in Request : check'[q].base = check[q].base
    BY <1>1 DEF OthersKept
  <2>3. ASSUME NEW m \in n + 1..Len(commits)
        PROVE  check[commits[m]].base # check[p].base
    <3>1. m \in n + 1..Len(commits') /\ m \in DOMAIN commits
      BY <1>3, <2>1
    <3>2. commits[m] \in Request /\ commits'[m] = commits[m]
      BY <1>3, <3>1, CommitsAreRequests DEF IInv
    <3> QED
      BY <1>6, <2>2, <3>1, <3>2
  <2>4. RowsOf(p) = Listed(p)
    BY <1>3, <2>1, <2>3 DEF IInv, WholeInv
  <2>5. check[r].base # check[p].base
    <3>1. Len(commits) + 1 \in n + 1..Len(commits')
      BY <1>3, <2>1
    <3> QED
      BY <1>3, <1>6, <2>2, <3>1
  <2> QED
    BY <1>5, <1>6, <2>4, <2>5
<1> QED
  BY <1>4, <1>5, <1>6 DEF WholeInv

\* A row that survives the DELETE of r was committed after it started.
LEMMA CommitKeepsOrder ==
  ASSUME IInv, NEW r \in Request, Commit(r)
  PROVE  NothingOlderStays'
<1>1. /\ check[r].pc = "insert"
      /\ OthersKept(r)
      /\ check'[r].at = check[r].at
      /\ commits' = Append(commits, r)
  BY CommitEffect DEF IInv
<1>2. /\ r \notin Committed
      /\ \A x \in rows' :
           \/ x \in rows /\ x \notin check[r].gone /\ x.by \in Committed
           \/ x.draft = check[r].base /\ x.by = r
  BY CommittedRows
<1>3. /\ Len(commits) \in Nat /\ Len(commits') = Len(commits) + 1
      /\ DOMAIN commits = 1..Len(commits)
      /\ \A n \in 1..Len(commits) : commits'[n] = commits[n] /\ commits[n] \in Committed
  BY <1>1, AppendCommit, CommitsAreRequests DEF IInv
<1>4. \A q \in Request : check'[q].at = check[q].at /\ check[q].at \in Nat
  BY <1>1, CheckTypes DEF IInv, OthersKept
<1>5. ASSUME NEW p \in Request, NEW q \in Request, CommittedDuring(p, q)
      PROVE  CommittedDuring(p, q)'
  <2>1. PICK n \in check[q].at + 1..Len(commits) :
          commits[n] = p /\ \A m \in 1..n : commits[m] # q
    BY <1>5 DEF CommittedDuring
  <2>2. /\ n \in check[q].at + 1..Len(commits') /\ n \in 1..Len(commits)
        /\ \A m \in 1..n : m \in 1..Len(commits)
    BY <1>3, <1>4
  <2>3. commits'[n] = p /\ \A m \in 1..n : commits'[m] # q
    BY <1>3, <2>1, <2>2
  <2> QED
    BY <1>4, <2>2, <2>3 DEF CommittedDuring
<1>6. ASSUME NEW x \in rows, x \notin check[r].gone, x.draft = check[r].base
      PROVE  CommittedDuring(x.by, r)'
  <2>1. PICK n \in check[r].at + 1..Len(commits) : commits[n] = x.by
    BY <1>1, <1>6 DEF IInv, DeleteInv, Replacing
  <2>2. /\ n \in check[r].at + 1..Len(commits') /\ n \in 1..Len(commits)
        /\ \A m \in 1..n : m \in 1..Len(commits)
    BY <1>3, <1>4
  <2>3. commits'[n] = x.by /\ \A m \in 1..n : commits'[m] # r
    BY <1>2, <1>3, <2>1, <2>2
  <2> QED
    BY <1>4, <2>2, <2>3 DEF CommittedDuring
<1> SUFFICES ASSUME NEW x \in rows', NEW y \in rows', x.draft = y.draft, x.by # y.by
             PROVE  CommittedDuring(x.by, y.by)' \/ CommittedDuring(y.by, x.by)'
  BY DEF NothingOlderStays
<1>7. CASE x \in rows /\ y \in rows
  <2>1. x.by \in Request /\ y.by \in Request
    BY <1>7, RowTypes DEF IInv
  <2>2. CommittedDuring(x.by, y.by) \/ CommittedDuring(y.by, x.by)
    BY <1>7 DEF IInv, NothingOlderStays
  <2> QED
    BY <1>5, <2>1, <2>2
<1>8. CASE x.by = r
  BY <1>2, <1>6, <1>8
<1>9. CASE y.by = r
  BY <1>2, <1>6, <1>9
<1> QED
  BY <1>2, <1>7, <1>8, <1>9

LEMMA CommitKeepsIInv ==
  ASSUME IInv, NEW r \in Request, Commit(r)
  PROVE  IInv'
BY CommitKeepsTypes, CommitKeepsRows, CommitKeepsWhole, CommitKeepsOrder DEF IInv

\* The purge takes an item's rows out of every answer and off every list of
\* items an answer should have; it waits for the transactions that hold one.
LEMMA PurgeKeepsIInv ==
  ASSUME IInv, NEW i \in Item, Purge(i)
  PROVE  IInv'
<1>1. /\ \A r \in Request : check[r].pc = "insert" => i \notin Inserted(r) \cup Deleted(r)
      /\ status' = [status EXCEPT ![i] = "PURGED"]
      /\ rows' = {x \in rows : x.item # i}
      /\ UNCHANGED <<check, commits>>
  BY DEF Purge
<1>2. /\ status' \in [Item -> {"ACTIVE", "DELETED", "PURGED"}]
      /\ status'[i] = "PURGED"
      /\ \A j \in Item \ {i} : status'[j] = status[j]
  BY <1>1 DEF IInv, SimilarityTypeOK
<1>3. SimilarityTypeOK'
  <2>1. \A x \in rows' : x \in Row /\ x.item \in Item \ {i} /\ x \in rows
    BY <1>1, RowTypes DEF IInv
  <2>2. \A x \in rows' : status'[x.item] # "PURGED"
    BY <1>2, <2>1 DEF IInv, SimilarityTypeOK
  <2> QED
    BY <1>1, <1>2, <2>1, <2>2 DEF IInv, SimilarityTypeOK
<1>4. StageInv' /\ RowInv' /\ DeleteInv'
  BY <1>1 DEF IInv, StageInv, RowInv, DeleteInv, Replacing, Committed
<1>5. NothingOlderStays'
  BY <1>1 DEF IInv, NothingOlderStays, CommittedDuring
<1>6. \A r \in Request : /\ Inserted(r)' = Inserted(r) /\ Inserted(r) \subseteq Item
                         /\ ToSet(check[r].answer) \subseteq Item
  BY <1>1 DEF Inserted, ToSet, IInv, SimilarityTypeOK
<1>7. LockInv'
  <2> SUFFICES ASSUME NEW r \in Request, check[r].pc = "insert"
               PROVE  /\ check[r].gone \subseteq rows'
                      /\ \A j \in Inserted(r) :
                           /\ status'[j] # "PURGED"
                           /\ \A x \in rows' \ check[r].gone :
                                ~(x.draft = check[r].base /\ x.item = j)
                      /\ \A q \in Request \ {r} : check[q].pc = "insert" =>
                           /\ check[q].gone \cap check[r].gone = {}
                           /\ check[q].base = check[r].base =>
                                Inserted(q) \cap Inserted(r) = {}
    BY <1>1, <1>6 DEF LockInv
  <2>1. \A x \in check[r].gone : x.item # i
    BY <1>1 DEF Deleted
  <2>2. \A j \in Inserted(r) : j \in Item \ {i}
    BY <1>1, <1>6
  <2> QED
    BY <1>1, <1>2, <2>1, <2>2 DEF IInv, LockInv
<1>8. \A r \in Request : /\ Listed(r)' = Listed(r) \ {i}
                         /\ RowsOf(r)' = RowsOf(r) \ {i}
  BY <1>1, <1>2, <1>6 DEF Listed, RowsOf
<1>9. WholeInv'
  BY <1>1, <1>8 DEF IInv, WholeInv
<1> QED
  BY <1>3, <1>4, <1>5, <1>7, <1>9 DEF IInv

LEMMA NextKeepsIInv == IInv /\ [Next]_vars => IInv'
<1> SUFFICES ASSUME IInv, [Next]_vars PROVE IInv'
  OBVIOUS
<1>1. ASSUME NEW r \in Request, Recall(r) PROVE IInv'
  BY <1>1, RecallKeepsIInv
<1>2. ASSUME NEW r \in Request, CheckStep(r) PROVE IInv'
  <2>1. CASE Judge(r)
    BY <2>1, JudgeKeepsIInv
  <2>2. CASE FinishDelete(r)
    BY <2>2, FinishDeleteKeepsIInv
  <2>3. CASE Insert(r)
    BY <2>3, InsertKeepsIInv
  <2>4. CASE InsertRefused(r)
    BY <2>4, RollBackKeepsIInv DEF InsertRefused, Replacing
  <2>5. CASE Commit(r)
    BY <2>5, CommitKeepsIInv
  <2>6. CASE Deadlock(r)
    BY <2>6, RollBackKeepsIInv DEF Deadlock, WaitsFor, Replacing
  <2> QED
    BY <1>2, <2>1, <2>2, <2>3, <2>4, <2>5, <2>6 DEF CheckStep
<1>3. ASSUME NEW r \in Request, Fail(r) PROVE IInv'
  BY <1>3, RollBackKeepsIInv DEF Fail, Replacing
<1>4. ASSUME NEW i \in Item, SoftDelete(i) \/ Restore(i) PROVE IInv'
  BY <1>4, StatusKeepsIInv
<1>5. ASSUME NEW i \in Item, Purge(i) PROVE IInv'
  BY <1>5, PurgeKeepsIInv
<1>6. CASE UNCHANGED vars
  <2>1. status' = status /\ rows' = rows /\ check' = check /\ commits' = commits
    BY <1>6 DEF vars
  <2>2. SimilarityTypeOK'
    BY <2>1 DEF IInv, SimilarityTypeOK
  <2>3. StageInv'
    BY <2>1 DEF IInv, StageInv, Replacing, Committed
  <2>4. RowInv'
    BY <2>1 DEF IInv, RowInv, Committed
  <2>5. DeleteInv'
    BY <2>1 DEF IInv, DeleteInv, Replacing
  <2>6. LockInv'
    <3>1. \A r \in Request : Inserted(r)' = Inserted(r)
      BY <2>1 DEF Inserted
    <3> QED
      BY <2>1, <3>1 DEF IInv, LockInv
  <2>7. \A r \in Request : RowsOf(r)' = RowsOf(r) /\ Listed(r)' = Listed(r)
    BY <2>1 DEF RowsOf, Listed
  <2>8. WholeInv'
    BY <2>1, <2>7 DEF IInv, WholeInv
  <2>9. NothingOlderStays'
    BY <2>1 DEF IInv, NothingOlderStays, CommittedDuring
  <2> QED
    BY <2>2, <2>3, <2>4, <2>5, <2>6, <2>8, <2>9 DEF IInv
<1> QED
  BY <1>1, <1>2, <1>3, <1>4, <1>5, <1>6 DEF Next

-----------------------------------------------------------------------------
(* The theorems.                                                           *)

\* The inductive invariant holds in every behaviour.
THEOREM Invariance == Spec => []IInv
<1>1. Init => IInv
  <2> SUFFICES ASSUME Init PROVE IInv
    OBVIOUS
  <2>1. \A r \in Request : check[r] = Unasked
    BY DEF Init
  <2>2. check \in [Request -> CheckRow]
    BY UnaskedType DEF Init
  <2>3. Cardinality(Unasked.found) <= RecallLimit
    BY CardinalityZero, UnaskedType
  <2>4. /\ commits = <<>> /\ commits \in Seq(Request) /\ Len(commits) = 0
        /\ IsInjective(<<>>) /\ DOMAIN <<>> = {} /\ Len(<<>>) = 0
    BY DEF Init, IsInjective
  <2>5. SimilarityTypeOK
    <3>1. status \in [Item -> {"ACTIVE", "DELETED", "PURGED"}] /\ rows = {}
      BY DEF Init
    <3>2. \A r \in Request :
            /\ Cardinality(check[r].found) <= RecallLimit
            /\ Len(check[r].answer) <= Kept
            /\ IsInjective(check[r].answer)
            /\ check[r].done <= Len(check[r].answer)
            /\ check[r].at <= Len(commits)
      <4>1. \A r \in Request : Cardinality(check[r].found) <= RecallLimit
        BY <2>1, <2>3
      <4>2. \A r \in Request : check[r].answer = <<>> /\ check[r].done = 0 /\ check[r].at = 0
        BY <2>1, UnaskedType
      <4> QED
        BY <2>4, <4>1, <4>2, LimitAssumption
    <3> QED
      BY <2>2, <2>4, <3>1, <3>2 DEF SimilarityTypeOK, CheckRow, Pc
  <2>6. Committed = {}
    BY <2>4 DEF Committed, ToSet
  <2>7. StageInv /\ RowInv /\ DeleteInv /\ LockInv
    BY <2>1, <2>6, UnaskedType
    DEF Init, StageInv, RowInv, DeleteInv, LockInv, Replacing
  <2>8. WholeInv /\ NothingOlderStays
    BY <2>4 DEF Init, WholeInv, NothingOlderStays, RowsOf
  <2> QED
    BY <2>5, <2>7, <2>8 DEF IInv
<1>2. IInv /\ [Next]_vars => IInv'
  BY NextKeepsIInv
<1> QED
  BY <1>1, <1>2, PTL DEF Spec

\* Checks, items and rows keep their types; no row outlives its item and no
\* draft has two rows for one, though nothing but locks and the unique index
\* keeps the transactions of different checks apart.
THEOREM TypeCorrect == Spec => []SimilarityTypeOK
BY Invariance, PTL DEF IInv

\* An answer is stored whole or not at all, and the newest of a draft is there
\* (ReplaceDraftSimilarities).
THEOREM StoredWholeHolds == Spec => []StoredWhole
<1>1. IInv => StoredWhole
  <2> SUFFICES ASSUME IInv PROVE StoredWhole
    OBVIOUS
  <2>1. \A r \in Request : RowsOf(r) \in {{}, Listed(r)}
    BY DEF IInv, WholeInv
  <2>2. ASSUME NEW n \in DOMAIN commits,
               \A m \in n + 1..Len(commits) :
                 check[commits[m]].base # check[commits[n]].base
        PROVE  RowsOf(commits[n]) = Listed(commits[n])
    <3>1. PICK p \in Request : p = commits[n]
      BY CommitsAreRequests DEF IInv
    <3>2. \A m \in n + 1..Len(commits) : check[commits[m]].base # check[p].base
      BY <2>2, <3>1
    <3>3. RowsOf(p) = Listed(p)
      BY <3>1, <3>2 DEF IInv, WholeInv
    <3> QED
      BY <3>1, <3>3
  <2> QED
    BY <2>1, <2>2 DEF StoredWhole
<1> QED
  BY <1>1, Invariance, PTL

\* Rows of two checks stand side by side only if their replacements overlapped.
THEOREM NothingOlderStaysHolds == Spec => []NothingOlderStays
BY Invariance, PTL DEF IInv

\* Whatever the LLM says, candidates that clearly overlap the text are answered
\* with something (judgeSimilarityWithFallback).
THEOREM RulesNotSilencedHolds == Spec => RulesNotSilenced
<1>1. ASSUME IInv, Next, NEW r \in Request, check[r].pc = "judge",
             check'[r].pc \in {"delete", "done"}, NEW i \in check[r].found,
             Overlap(check[r].base, i) >= 18
      PROVE  check'[r].answer # <<>>
  <2>1. Judge(r)
    <3>1. ASSUME NEW q \in Request, OthersKept(q), check'[q].pc \notin {"delete", "done"}
          PROVE  FALSE
      BY <1>1, <3>1 DEF OthersKept
    <3>2. ASSUME NEW q \in Request, OthersKept(q), check[q].pc # "judge"
          PROVE  FALSE
      BY <1>1, <3>2 DEF OthersKept
    <3>3. ASSUME NEW q \in Request, RollBack(q) PROVE FALSE
      BY <1>1, <3>1, <3>3, RollBackEffect DEF IInv
    <3>4. check' # check
      BY <1>1
    <3>5. ASSUME NEW q \in Request, Recall(q) PROVE FALSE
      BY <3>1, <3>5, RecallEffect, <1>1 DEF IInv
    <3>6. ASSUME NEW q \in Request, FinishDelete(q) \/ Insert(q) \/ Commit(q) PROVE FALSE
      BY <1>1, <3>2, <3>6, FinishDeleteEffect, InsertEffect, CommitEffect DEF IInv
    <3>7. ASSUME NEW q \in Request, Judge(q) PROVE q = r
      BY <1>1, <3>7, JudgeEffect DEF IInv, OthersKept
    <3> QED
      BY <1>1, <3>3, <3>4, <3>5, <3>6, <3>7
      DEF Next, CheckStep, InsertRefused, Deadlock, Fail, SoftDelete, Restore, Purge
  <2>2. check'[r].answer \in Judged(check[r].base, check[r].found)
    BY <1>1, <2>1, JudgeEffect DEF IInv
  <2>3. check[r].found \in SUBSET Item
    BY <1>1, CheckTypes DEF IInv
  <2> QED
    BY <1>1, <2>2, <2>3, JudgedAnswer
<1>2. IInv /\ [Next]_vars =>
        [\A r \in Request : check[r].pc = "judge" /\ check'[r].pc \in {"delete", "done"} =>
           ((\E i \in check[r].found : Overlap(check[r].base, i) >= 18)
              => check'[r].answer # <<>>)]_vars
  BY <1>1
<1> QED
  BY <1>2, Invariance, PTL DEF Spec, RulesNotSilenced
=============================================================================
