---------------------------- MODULE IntakeProofs ----------------------------
(***************************************************************************)
(* Proofs about the intake of messages: its types, that the rules make one  *)
(* draft for a message, that they never guess which draft is meant, that a  *)
(* number means the entry of its list, and that a refusal approves nothing, *)
(* for any messages, goroutines, readings of the LLM and bounds, and        *)
(* whatever the agent's tools do to the drafts before.                      *)
(***************************************************************************)
EXTENDS Intake, FiniteSetTheorems, WellFoundedInduction, TLAPS

-----------------------------------------------------------------------------
(* The inductive invariant.                                                 *)

\* A list shows drafts that exist.
Existing(list) == \A i \in DOMAIN list.ids : list.ids[i] <= Len(drafts)

\* Where the list of a goroutine, if it has one, is what its number was read
\* against; later it is the list of its answer.
Choosing == {"agent", "dispatch", "act"}

\* A goroutine at work has a message, one that sends back a card's id has the
\* card, one that has yet to read the selection has no list, and a number it was
\* given stands for an entry of its list.
SlotInv ==
  /\ Existing(selection)
  /\ \A h \in Slot :
       /\ slot[h].pc # "idle" => slot[h].msg \in Sent
       /\ slot[h].pc = "bind" => slot[h].card # 0
       /\ slot[h].pc = "read" => slot[h].list = NoList
       /\ Existing(slot[h].list)
       /\ slot[h].pc \in Choosing /\ slot[h].list # NoList
            => Text(h).number \in DOMAIN slot[h].list.ids

\* The drafts the rules have made for a message, the goroutines where they may
\* still make one, and the mark that keeps others from being started.
MadeOf(m) == {d \in DOMAIN drafts : drafts[d].source = m /\ drafts[d].by = "rules"}
MakersOf(m) == {h \in Slot : slot[h].pc \in {"read", "agent", "dispatch"} /\ slot[h].msg = m}
MarkOf(m) == IF m \in marks THEN 1 ELSE 0

CountInv ==
  \A m \in Msg :
    /\ IsFiniteSet(MakersOf(m))
    /\ Cardinality(MadeOf(m)) + Cardinality(MakersOf(m)) <= MarkOf(m) + lapses[m]

\* Each lapse of a mark is a fault.
LapseInv == \A m \in Msg : lapses[m] <= faults

\* What is known of the draft a goroutine is about to decide: the entry its
\* number meant, if it still can be decided; for a text that names none, the
\* only one that was pending.
FoundInv ==
  \A h \in Slot : slot[h].pc = "act" =>
    /\ slot[h].list # NoList =>
         slot[h].draft = Chosen(h) \/ Chosen(h) \notin PendingIds(drafts)
    /\ /\ slot[h].draft \in PendingIds(drafts)
       /\ Chosen(h) = 0 /\ Text(h).reply = None /\ Text(h).quotes = {}
       /\ slot[h].draft \notin BoundTo(drafts, slot[h].msg)
       => \A d \in PendingIds(drafts) \ {slot[h].draft} : d > slot[h].known
    /\ slot[h].read.intent = "approve" =>
         \/ "refuse" \notin Cues(h)
         \/ slot[h].read.by = "llm" /\ slot[h].read.confidence >= 60

IInv == TypeOK /\ SlotInv /\ CountInv /\ LapseInv /\ FoundInv

-----------------------------------------------------------------------------
(* Finite sets of drafts, and the newest of them.                           *)

\* "Newest" of finitely many ids is one of them, and none is newer.
LEMMA NewestIsLast ==
  ASSUME NEW ids \in SUBSET Nat, IsFiniteSet(ids), ids # {}
  PROVE  Newest(ids) \in ids /\ \A e \in ids : e <= Newest(ids)
<1> DEFINE Newer(d) == {e \in ids : e > d}
<1> DEFINE Sets == {Newer(d) : d \in ids}
<1>1. IsWellFoundedOn(StrictSubsetOrdering(ids), FiniteSubsetsOf(ids))
  BY FS_StrictSubsetOrderingWellFounded
<1>2. Sets \subseteq FiniteSubsetsOf(ids)
  <2> SUFFICES ASSUME NEW d \in ids PROVE Newer(d) \in FiniteSubsetsOf(ids)
    OBVIOUS
  <2> QED
    BY FS_Subset DEF FiniteSubsetsOf
<1>3. Sets # {}
  OBVIOUS
<1>4. \E x \in Sets : \A y \in Sets : ~ (<<y, x>> \in StrictSubsetOrdering(ids))
  <2> HIDE DEF Sets
  <2> QED
    BY <1>1, <1>2, <1>3, WFMin
<1>5. PICK d \in ids : \A y \in Sets : ~ (<<y, Newer(d)>> \in StrictSubsetOrdering(ids))
  BY <1>4
<1>6. ASSUME NEW e \in ids PROVE e <= d
  <2> SUFFICES ASSUME e > d PROVE FALSE
    OBVIOUS
  <2>0. d \in Nat /\ e \in Nat /\ \A f \in ids : f \in Nat
    OBVIOUS
  <2>1. Newer(e) \subseteq Newer(d) /\ e \in Newer(d) /\ e \notin Newer(e)
    <3>1. ASSUME NEW f \in ids, f > e PROVE f > d
      BY <2>0, <3>1
    <3>2. ~ (e > e)
      BY <2>0
    <3> QED
      BY <3>1, <3>2
  <2>2. Newer(e) \in SUBSET ids /\ Newer(d) \in SUBSET ids /\ Newer(e) \in Sets
    OBVIOUS
  <2> HIDE DEF Newer, Sets
  <2>3. <<Newer(e), Newer(d)>> \in StrictSubsetOrdering(ids)
    BY <2>1, <2>2 DEF StrictSubsetOrdering
  <2> QED
    BY <1>5, <2>2, <2>3
<1> QED
  BY <1>6 DEF Newest

\* The pending rows are finitely many.
LEMMA PendingFinite ==
  ASSUME NEW S, NEW rows \in Seq(S)
  PROVE  PendingIds(rows) \subseteq 1..Len(rows) /\ IsFiniteSet(PendingIds(rows))
<1>1. PendingIds(rows) \subseteq 1..Len(rows) /\ Len(rows) \in Nat
  BY DEF PendingIds
<1>2. IsFiniteSet(1..Len(rows))
  <2> SUFFICES ASSUME NEW n \in Nat PROVE IsFiniteSet(1..n)
    BY <1>1
  <2> QED
    BY FS_Interval
<1> QED
  BY <1>1, <1>2, FS_Subset

-----------------------------------------------------------------------------
(* What a message resolves to.                                              *)

\* A list that may show two drafts shows all, if it shows one only.
LEMMA OneListed ==
  ASSUME NEW S, NEW rows \in Seq(S), NEW limit \in Nat, limit >= 2,
         Cardinality(ListPending(rows, limit)) = 1
  PROVE  \A d \in PendingIds(rows) : d = Newest(ListPending(rows, limit))
<1> DEFINE P == PendingIds(rows)
           listed == ListPending(rows, limit)
           Newer(d) == {e \in P : e > d}
<1>1. P \in SUBSET Nat /\ IsFiniteSet(P)
  BY PendingFinite
<1>2. listed = {d \in P : Cardinality(Newer(d)) < limit}
  BY DEF ListPending
<1>3. listed \in SUBSET P /\ IsFiniteSet(listed) /\ Cardinality(listed) = 1
  BY <1>1, <1>2, FS_Subset
<1> HIDE DEF P, listed
<1>4. PICK x : listed = {x}
  BY <1>3, FS_Singleton
<1>5. Newest(listed) = x
  BY <1>4 DEF Newest
<1>6. P # {}
  BY <1>3, <1>4
<1> DEFINE first == Newest(P)
           rest == P \ {first}
<1>7. first \in P /\ \A e \in P : e <= first
  BY <1>1, <1>6, NewestIsLast
<1>8. first \in listed
  <2>1. Newer(first) = {}
    <3> HIDE DEF first
    <3>1. ASSUME NEW e \in P, e > first PROVE FALSE
      <4>1. e \in Nat /\ first \in Nat /\ e <= first
        BY <1>1, <1>7
      <4> QED
        BY <3>1, <4>1
    <3> QED
      BY <3>1
  <2>2. Cardinality(Newer(first)) = 0
    BY <2>1, FS_EmptySet
  <2> QED
    BY <1>2, <1>7, <2>2
<1>9. rest = {}
  <2> SUFFICES ASSUME rest # {} PROVE FALSE
    OBVIOUS
  <2> DEFINE second == Newest(rest)
  <2>1. rest \in SUBSET Nat /\ IsFiniteSet(rest)
    BY <1>1, FS_Subset
  <2>2. second \in rest /\ \A e \in rest : e <= second
    <3> HIDE DEF rest
    <3> QED
      BY <2>1, NewestIsLast
  <2> HIDE DEF first, second
  <2>3. Newer(second) = {first}
    <3>1. second \in Nat /\ first \in Nat /\ second # first /\ second <= first
      BY <1>1, <1>7, <2>2
    <3>2. ASSUME NEW e \in P, e > second PROVE e = first
      <4> SUFFICES ASSUME e # first PROVE FALSE
        OBVIOUS
      <4>1. e \in Nat /\ e <= second
        BY <1>1, <2>2
      <4> QED
        BY <3>1, <3>2, <4>1
    <3>3. first > second
      BY <3>1
    <3> HIDE DEF rest
    <3> QED
      BY <1>7, <3>2, <3>3
  <2>4. Cardinality(Newer(second)) = 1
    BY <2>3, FS_Singleton
  <2>5. second \in listed
    BY <1>2, <2>2, <2>4
  <2> QED
    BY <1>4, <1>8, <2>2, <2>5
<1>10. P = {first} /\ first = x
  BY <1>4, <1>7, <1>8, <1>9
<1> QED
  BY <1>5, <1>10 DEF P, listed

\* The lookups are four, in the order they are made.
LEMMA FourLookups ==
  ASSUME NEW rows, NEW selected, NEW reply, NEW message, NEW quoted
  PROVE  LET found == Lookups(rows, selected, reply, message, quoted)
             hits == {i \in DOMAIN found : found[i] # {}}
         IN  /\ hits \subseteq {1, 2, 3, 4}
             /\ \A i \in hits : found[i] \subseteq PendingIds(rows)
             /\ found[1] = {selected} \cap PendingIds(rows)
             /\ found[2] = BoundTo(rows, reply)
             /\ found[3] = BoundTo(rows, message)
             /\ found[4] = quoted \cap PendingIds(rows)
             /\ DOMAIN found = {1, 2, 3, 4}
<1> DEFINE found == Lookups(rows, selected, reply, message, quoted)
<1>1. DOMAIN found = 1..4 /\ 1..4 = {1, 2, 3, 4}
  BY DEF Lookups
<1>2. /\ found[1] = {selected} \cap PendingIds(rows)
      /\ found[2] = BoundTo(rows, reply)
      /\ found[3] = BoundTo(rows, message)
      /\ found[4] = quoted \cap PendingIds(rows)
  BY DEF Lookups
<1>3. BoundTo(rows, reply) \subseteq PendingIds(rows)
      /\ BoundTo(rows, message) \subseteq PendingIds(rows)
  BY DEF BoundTo
<1> HIDE DEF found
<1> QED
  BY <1>1, <1>2, <1>3 DEF found

LEMMA LeastOfFour ==
  ASSUME NEW hits \in SUBSET {1, 2, 3, 4}, hits # {}
  PROVE  LET first == CHOOSE i \in hits : \A j \in hits : i <= j
         IN  first \in hits /\ \A j \in hits : first <= j
<1>1. \E i \in hits : \A j \in hits : i <= j
  <2>1. CASE 1 \in hits
    BY <2>1
  <2>2. CASE 1 \notin hits /\ 2 \in hits
    BY <2>2
  <2>3. CASE 1 \notin hits /\ 2 \notin hits /\ 3 \in hits
    BY <2>3
  <2>4. CASE hits = {4}
    BY <2>4
  <2> QED
    BY <2>1, <2>2, <2>3, <2>4
<1> QED
  BY <1>1

\* What ResolvePendingDraftContext returns: a pending draft or none, and a list
\* of pending ones; the selection, as long as it is pending; and if nothing was
\* named, a draft that the message itself made or the only one there is.
LEMMA ResolveMeans ==
  ASSUME NEW S, NEW rows \in Seq(S), NEW selected, NEW reply, NEW message, NEW quoted,
         NEW limit \in Nat, limit >= 2
  PROVE  LET found == Resolve(rows, selected, reply, message, quoted, limit)
         IN  /\ found.draft \in PendingIds(rows) \cup {0}
             /\ found.candidates \subseteq PendingIds(rows)
             /\ selected \in PendingIds(rows) => found.draft = selected
             /\ /\ found.draft # 0
                /\ selected \notin PendingIds(rows) /\ reply = None /\ quoted = {}
                /\ found.draft \notin BoundTo(rows, message)
                => \A d \in PendingIds(rows) : d = found.draft
<1> DEFINE found == Lookups(rows, selected, reply, message, quoted)
           hits == {i \in DOMAIN found : found[i] # {}}
           first == CHOOSE i \in hits : \A j \in hits : i <= j
           listed == ListPending(rows, limit)
           res == Resolve(rows, selected, reply, message, quoted, limit)
<1>1. PendingIds(rows) \in SUBSET Nat /\ IsFiniteSet(PendingIds(rows))
  BY PendingFinite
<1>2. ASSUME NEW ids \in SUBSET PendingIds(rows), ids # {}
      PROVE  Newest(ids) \in ids
  BY <1>1, <1>2, NewestIsLast, FS_Subset
<1>3. /\ hits \subseteq {1, 2, 3, 4}
      /\ \A i \in hits : found[i] \subseteq PendingIds(rows)
      /\ found[1] = {selected} \cap PendingIds(rows)
      /\ found[2] = BoundTo(rows, reply)
      /\ found[3] = BoundTo(rows, message)
      /\ found[4] = quoted \cap PendingIds(rows)
      /\ DOMAIN found = {1, 2, 3, 4}
  BY FourLookups
<1>4. listed \subseteq PendingIds(rows)
  BY DEF ListPending
<1>5. /\ hits # {} => res = [draft |-> Newest(found[first]), candidates |-> {}]
      /\ hits = {} /\ Cardinality(listed) = 1 => res = [draft |-> Newest(listed), candidates |-> {}]
      /\ hits = {} /\ Cardinality(listed) # 1 => res = [draft |-> 0, candidates |-> listed]
  BY DEF Resolve
<1> HIDE DEF found, listed, res
<1>6. CASE hits # {}
  <2>1. first \in hits /\ \A j \in hits : first <= j
    <3> HIDE DEF hits
    <3> QED
      BY <1>3, <1>6, LeastOfFour
  <2>2. found[first] # {} /\ found[first] \in SUBSET PendingIds(rows)
    <3> HIDE DEF first
    <3> QED
      BY <1>3, <2>1
  <2>3. res.draft \in found[first] /\ res.draft \in PendingIds(rows) /\ res.candidates = {}
    <3> HIDE DEF first
    <3>1. Newest(found[first]) \in found[first]
      BY <1>2, <2>2
    <3>2. res.draft = Newest(found[first]) /\ res.candidates = {}
      BY <1>5, <1>6 DEF first
    <3> QED
      BY <2>2, <3>1, <3>2
  <2>4. ASSUME selected \in PendingIds(rows) PROVE res.draft = selected
    <3>1. 1 \in hits /\ found[1] = {selected}
      BY <1>3, <2>4
    <3>2. first = 1
      <4> HIDE DEF first
      <4>1. first \in {1, 2, 3, 4} /\ first <= 1
        BY <1>3, <2>1, <3>1
      <4> QED
        BY <4>1
    <3> QED
      BY <2>3, <3>1, <3>2
  <2>5. ASSUME selected \notin PendingIds(rows), reply = None, quoted = {},
               res.draft \notin BoundTo(rows, message)
        PROVE  FALSE
    <3>1. found[1] = {} /\ found[2] = {} /\ found[4] = {}
      BY <1>3, <2>5 DEF BoundTo
    <3>2. first = 3
      <4> HIDE DEF first
      <4> QED
        BY <1>3, <2>1, <2>2, <3>1
    <3> QED
      BY <1>3, <2>3, <2>5, <3>2
  <2> QED
    BY <2>3, <2>4, <2>5 DEF res
<1>7. CASE hits = {}
  <2>1. selected \notin PendingIds(rows)
    BY <1>3, <1>7
  <2>2. CASE Cardinality(listed) = 1
    <3>1. listed # {}
      <4>1. listed = {} => Cardinality(listed) = 0
        BY FS_EmptySet
      <4> QED
        BY <2>2, <4>1
    <3>2. Newest(listed) \in PendingIds(rows)
      BY <1>2, <1>4, <3>1
    <3>3. \A d \in PendingIds(rows) : d = Newest(listed)
      BY <2>2, OneListed DEF listed
    <3>4. res.draft = Newest(listed) /\ res.candidates = {}
      BY <1>5, <1>7, <2>2
    <3> QED
      BY <2>1, <3>2, <3>3, <3>4 DEF res
  <2>3. CASE Cardinality(listed) # 1
    <3>1. res.draft = 0 /\ res.candidates = listed
      BY <1>5, <1>7, <2>3
    <3> QED
      BY <1>4, <2>1, <3>1 DEF res
  <2> QED
    BY <2>2, <2>3
<1> QED
  BY <1>6, <1>7

\* Of finitely many numbers each rank is one's: the i-th greatest exists.
LEMMA Ranked ==
  ASSUME NEW ids \in SUBSET Nat, IsFiniteSet(ids), NEW i \in 1..Cardinality(ids)
  PROVE  \E d \in ids : Cardinality({e \in ids : e >= d}) = i
<1> DEFINE AtLeast(d) == {e \in ids : e >= d}
           f == [d \in ids |-> Cardinality(AtLeast(d))]
<1>1. PICK n \in Nat : n = Cardinality(ids)
  BY FS_CardinalityType
<1>2. ASSUME NEW d \in ids
      PROVE  IsFiniteSet(AtLeast(d)) /\ Cardinality(AtLeast(d)) \in 1..n
  <2>1. AtLeast(d) \in SUBSET ids /\ d \in AtLeast(d)
    OBVIOUS
  <2>2. IsFiniteSet(AtLeast(d)) /\ Cardinality(AtLeast(d)) <= n
    <3> HIDE DEF AtLeast
    <3> QED
      BY <1>1, <2>1, FS_Subset
  <2>3. Cardinality(AtLeast(d)) \in Nat /\ Cardinality(AtLeast(d)) # 0
    <3> HIDE DEF AtLeast
    <3> QED
      BY <2>1, <2>2, FS_CardinalityType, FS_EmptySet
  <2> QED
    BY <1>1, <2>2, <2>3
<1>3. ASSUME NEW d \in ids, NEW e \in ids, d < e
      PROVE  Cardinality(AtLeast(d)) # Cardinality(AtLeast(e))
  <2>1. d \in Nat /\ e \in Nat /\ \A x \in ids : x \in Nat
    OBVIOUS
  <2>2. \A x \in ids : x >= e => x >= d
    BY <1>3, <2>1
  <2>3. AtLeast(e) \in SUBSET AtLeast(d)
    BY <2>2
  <2>4. d \in AtLeast(d) /\ d \notin AtLeast(e)
    BY <1>3, <2>1
  <2> HIDE DEF AtLeast
  <2> QED
    BY <1>2, <2>3, <2>4, FS_Subset
<1> HIDE DEF AtLeast
<1>4. f \in Injection(ids, 1..n)
  <2>1. f \in [ids -> 1..n]
    BY <1>2
  <2>2. ASSUME NEW d \in ids, NEW e \in ids, f[d] = f[e] PROVE d = e
    <3>1. d \in Nat /\ e \in Nat
      OBVIOUS
    <3>2. ~(d < e) /\ ~(e < d)
      BY <1>3, <2>2
    <3> QED
      BY <3>1, <3>2
  <2> HIDE DEF f
  <2> QED
    BY <2>1, <2>2 DEF Injection, IsInjective
<1>5. IsFiniteSet(1..n) /\ Cardinality(1..n) = n
  BY FS_Interval
<1>6. f \in Surjection(ids, 1..n)
  <2> HIDE DEF f
  <2> QED
    BY <1>1, <1>4, <1>5, FS_Injection
<1>7. \E d \in ids : f[d] = i
  <2> HIDE DEF f
  <2>1. i \in 1..n
    BY <1>1
  <2> QED
    BY <1>6, <2>1 DEF Surjection
<1>8. PICK d \in ids : f[d] = i
  BY <1>7
<1> QED
  BY <1>8 DEF AtLeast

LEMMA ListOf ==
  ASSUME NEW S, NEW n \in Nat, NEW b \in [1..n -> S]
  PROVE  b \in Seq(S) /\ Len(b) = n /\ DOMAIN b = 1..n /\ \A i \in 1..n : b[i] \in S
OBVIOUS

\* The list an answer shows: drafts that were pending when it was made.
LEMMA AskType ==
  ASSUME TypeOK, NEW h \in Slot, NEW action \in Deciding
  PROVE  /\ Ask(h, action) \in List
         /\ Existing(Ask(h, action))
<1> DEFINE ids == Found(h).candidates
           rank(i) == CHOOSE d \in ids : Cardinality({e \in ids : e >= d}) = i
           n == Cardinality(ids)
           shown == [i \in 1..n |-> rank(i)]
<1>1. drafts \in Seq(DraftRow) /\ Len(drafts) <= MaxDraft /\ Len(drafts) \in Nat
      /\ MaxDraft \in Nat
  BY BoundAssumption DEF TypeOK
<1>2. ids \subseteq PendingIds(drafts)
  BY <1>1, ListedAssumption, ResolveMeans DEF Found
<1>3. PendingIds(drafts) \subseteq 1..Len(drafts) /\ IsFiniteSet(PendingIds(drafts))
  BY <1>1, PendingFinite
<1>4. IsFiniteSet(ids) /\ ids \in SUBSET Nat /\ ids \subseteq 1..Len(drafts) /\ n \in Nat
  <2> HIDE DEF ids
  <2>1. IsFiniteSet(ids)
    BY <1>2, <1>3, FS_Subset
  <2> QED
    BY <1>2, <1>3, <2>1, FS_CardinalityType DEF n
<1>5. shown \in [1..n -> 1..Len(drafts)]
  <2> HIDE DEF ids
  <2> SUFFICES ASSUME NEW i \in 1..n PROVE rank(i) \in ids
    BY <1>4
  <2>1. \E d \in ids : Cardinality({e \in ids : e >= d}) = i
    BY <1>4, Ranked
  <2> QED
    BY <2>1
<1>6. CASE ids = {}
  <2>1. Ask(h, action) = NoList
    BY <1>6 DEF Ask
  <2>2. <<>> \in Seq(1..MaxDraft) /\ DOMAIN <<>> = {}
    OBVIOUS
  <2> QED
    BY <2>1, <2>2 DEF NoList, List, Existing
<1>7. CASE ids # {}
  <2>1. Ask(h, action) = [action |-> action, ids |-> shown]
    BY <1>7 DEF Ask
  <2> HIDE DEF shown, n, ids
  <2>2. shown \in [1..n -> 1..MaxDraft]
    BY <1>1, <1>5
  <2>3. shown \in Seq(1..MaxDraft) /\ DOMAIN shown = 1..n
    BY <1>4, <2>2, ListOf
  <2>4. \A i \in DOMAIN shown : shown[i] <= Len(drafts)
    BY <1>1, <1>5, <2>3
  <2> QED
    BY <2>1, <2>3, <2>4 DEF List, Existing
<1> QED
  BY <1>6, <1>7

-----------------------------------------------------------------------------
(* What a text is read as.                                                  *)

LEMMA RuleTypes ==
  /\ DOMAIN Rules = {1, 2, 3, 4, 5, 6, 7, 8}
  /\ \A i \in DOMAIN Rules : Rules[i].intent \in Intent /\ Rules[i].confidence \in 0..100
  /\ Rules[1].cue = "refuse" /\ Rules[1].intent = "reject"
  /\ "refuse" \in Cue /\ "move" \in Cue /\ "confirm" \in Cue
<1>1. DOMAIN Rules = 1..8
  BY DEF Rules
<1>2. DOMAIN Rules = {1, 2, 3, 4, 5, 6, 7, 8}
  BY <1>1
<1>3. /\ Rules[1] = [cue |-> "refuse", intent |-> "reject", confidence |-> 94]
      /\ Rules[2] = [cue |-> "move", intent |-> "move", confidence |-> 90]
      /\ Rules[3] = [cue |-> "confirm", intent |-> "approve", confidence |-> 94]
      /\ Rules[4] = [cue |-> "compare", intent |-> "compare", confidence |-> 90]
      /\ Rules[5] = [cue |-> "seek", intent |-> "search", confidence |-> 86]
      /\ Rules[6] = [cue |-> "record", intent |-> "create", confidence |-> 90]
      /\ Rules[7] = [cue |-> "fact", intent |-> "create", confidence |-> 70]
      /\ Rules[8] = [cue |-> "ask", intent |-> "search", confidence |-> 58]
  BY DEF Rules
<1>4. \A i \in DOMAIN Rules : Rules[i].intent \in Intent /\ Rules[i].confidence \in 0..100
  BY <1>2, <1>3 DEF Intent
<1>5. Rules[1].cue \in Cue /\ Rules[2].cue \in Cue /\ Rules[3].cue \in Cue
  BY <1>2 DEF Cue
<1> QED
  BY <1>2, <1>3, <1>4, <1>5

\* The first rule that has a cue in the text decides.
LEMMA ByRulesMeans ==
  ASSUME NEW cues, NEW names \in BOOLEAN
  PROVE  /\ ByRules(cues, names) \in ReadingType
         /\ ByRules(cues, names).by = "rules"
         /\ "refuse" \in cues => ByRules(cues, names).intent = "reject"
<1> DEFINE hits == {i \in DOMAIN Rules : Rules[i].cue \in cues}
           least == CHOOSE i \in hits : \A j \in hits : i <= j
           first == Rules[least]
<1>1. CASE hits = {}
  <2>1. ByRules(cues, names) = Reading("rules", "clarify", 30, TRUE, FALSE)
    BY <1>1 DEF ByRules
  <2>2. "refuse" \notin cues
    BY <1>1, RuleTypes
  <2>3. "clarify" \in Intent /\ 30 \in 0..100
    BY DEF Intent
  <2> QED
    BY <2>1, <2>2, <2>3 DEF Reading, ReadingType
<1>2. CASE hits # {}
  <2>1. ByRules(cues, names) =
          Reading("rules", first.intent, first.confidence, FALSE, first.intent = "move" /\ names)
    BY <1>2 DEF ByRules
  <2>2. hits \subseteq {1, 2, 3, 4, 5, 6, 7, 8}
    BY RuleTypes
  <2>3. \E i \in hits : \A j \in hits : i <= j
    <3> HIDE DEF hits
    <3>1. CASE 1 \in hits
      BY <2>2, <3>1
    <3>2. CASE 1 \notin hits /\ 2 \in hits
      BY <2>2, <3>2
    <3>3. CASE {1, 2} \cap hits = {} /\ 3 \in hits
      BY <2>2, <3>3
    <3>4. CASE {1, 2, 3} \cap hits = {} /\ 4 \in hits
      BY <2>2, <3>4
    <3>5. CASE {1, 2, 3, 4} \cap hits = {} /\ 5 \in hits
      BY <2>2, <3>5
    <3>6. CASE {1, 2, 3, 4, 5} \cap hits = {} /\ 6 \in hits
      BY <2>2, <3>6
    <3>7. CASE {1, 2, 3, 4, 5, 6} \cap hits = {} /\ 7 \in hits
      BY <2>2, <3>7
    <3>8. CASE hits = {8}
      BY <3>8
    <3> QED
      BY <1>2, <2>2, <3>1, <3>2, <3>3, <3>4, <3>5, <3>6, <3>7, <3>8
  <2>4. least \in hits /\ \A j \in hits : least <= j
    <3> HIDE DEF hits
    <3> QED
      BY <2>3
  <2>5. least \in DOMAIN Rules
    <3> HIDE DEF least
    <3> QED
      BY <2>4
  <2>6. first.intent \in Intent /\ first.confidence \in 0..100
    <3> HIDE DEF least
    <3> QED
      BY <2>5, RuleTypes
  <2>7. "refuse" \in cues => least = 1
    <3> SUFFICES ASSUME "refuse" \in cues PROVE least = 1
      OBVIOUS
    <3>1. 1 \in hits
      BY RuleTypes
    <3> HIDE DEF least, hits
    <3>2. least <= 1 /\ least \in {1, 2, 3, 4, 5, 6, 7, 8}
      BY <2>2, <2>4, <3>1
    <3> QED
      BY <3>2
  <2>8. "refuse" \in cues => first.intent = "reject"
    <3> HIDE DEF least
    <3> QED
      BY <2>7, RuleTypes
  <2> HIDE DEF first
  <2> QED
    BY <2>1, <2>6, <2>8 DEF Reading, ReadingType
<1> QED
  BY <1>1, <1>2

\* Whoever reads a text reads it as something; words that refuse are read as an
\* approval by an LLM that is sure, or not at all.
LEMMA ReadingsMean ==
  ASSUME NEW cues \in SUBSET Cue, NEW names \in BOOLEAN,
         NEW a \in Readings(cues, names, Understands[cues])
  PROVE  /\ a \in ReadingType
         /\ a.intent = "approve" /\ "refuse" \in cues => a.by = "llm" /\ a.confidence >= 60
<1> DEFINE rules == ByRules(cues, names)
<1>1. rules \in ReadingType /\ rules.by = "rules"
      /\ ("refuse" \in cues => rules.intent = "reject")
  BY ByRulesMeans
<1> HIDE DEF rules
<1>2. CASE a = rules
  BY <1>1, <1>2
<1>3. CASE a # rules
  <2>1. PICK b \in Understands[cues] : a = Normalized(b, names) /\ ~PrefersRules(a, rules)
    BY <1>3 DEF Readings, rules
  <2>2. b \in ReadingType /\ b.by = "llm"
    BY UnderstandsAssumption
  <2> DEFINE path == b.intent = "move" /\ (b.path \/ names)
  <2>3. path \in BOOLEAN /\ a = [b EXCEPT !.path = path]
    BY <2>1 DEF Normalized
  <2> HIDE DEF path
  <2>4. a \in ReadingType /\ a.by = "llm"
    BY <2>2, <2>3 DEF ReadingType
  <2>5. ASSUME a.intent = "approve", "refuse" \in cues PROVE a.confidence >= 60
    <3>1. rules.intent # "clarify"
      BY <1>1, <2>5
    <3>2. ~(a.confidence < 60)
      BY <2>1, <3>1 DEF PrefersRules
    <3>3. a.confidence \in 0..100
      BY <2>4 DEF ReadingType
    <3> QED
      BY <3>2, <3>3
  <2> QED
    BY <2>4, <2>5
<1> QED
  BY <1>2, <1>3

-----------------------------------------------------------------------------
(* What is right of one goroutine, as a property of its record.             *)

SlotType(sent, n, k) ==
  [pc : {"idle", "read", "agent", "dispatch", "act", "store", "send", "bind"},
   msg : sent \cup {None}, list : List, read : ReadingType,
   draft : 0..n, known : 0..n, card : 0..k]

TextType ==
  [cues : SUBSET Cue, names : BOOLEAN, triggers : BOOLEAN, number : Nat,
   quotes : SUBSET (1..MaxDraft), reply : Message \cup {None}]

ChosenIn(s) == IF s.list = NoList THEN 0 ELSE s.list.ids[said[s.msg].number]
CuesIn(s) == IF s.list = NoList THEN said[s.msg].cues ELSE WordsFor(s.list.action)

FoundIn(s) ==
  /\ s.list # NoList => s.draft = ChosenIn(s) \/ ChosenIn(s) \notin PendingIds(drafts)
  /\ /\ s.draft \in PendingIds(drafts)
     /\ ChosenIn(s) = 0 /\ said[s.msg].reply = None /\ said[s.msg].quotes = {}
     /\ s.draft \notin BoundTo(drafts, s.msg)
     => \A d \in PendingIds(drafts) \ {s.draft} : d > s.known
  /\ s.read.intent = "approve" =>
       "refuse" \notin CuesIn(s) \/ (s.read.by = "llm" /\ s.read.confidence >= 60)

Good(s) ==
  /\ s \in SlotType(Sent, Len(drafts), Len(cards))
  /\ s.pc # "idle" => s.msg \in Sent
  /\ s.pc = "bind" => s.card # 0
  /\ s.pc = "read" => s.list = NoList
  /\ Existing(s.list)
  /\ s.pc \in Choosing /\ s.list # NoList => said[s.msg].number \in DOMAIN s.list.ids
  /\ s.pc = "act" => FoundIn(s)

\* The rest of TypeOK, SlotInv and LapseInv.
Rest ==
  /\ said \in [Msg -> {Unsent} \cup TextType]
  /\ extra \in 0..MaxExtra
  /\ marks \subseteq Sent
  /\ lapses \in [Msg -> 0..MaxFaults]
  /\ drafts \in Seq(DraftRow) /\ Len(drafts) <= MaxDraft
  /\ selection \in List /\ Existing(selection)
  /\ cards \in Seq(DOMAIN drafts) /\ Len(cards) <= MaxCard
  /\ faults \in 0..MaxFaults
  /\ LapseInv

AllGood == slot \in [Slot -> {slot[h] : h \in Slot}] /\ \A h \in Slot : Good(slot[h])

LEMMA GoodMeans ==
  TypeOK /\ SlotInv /\ LapseInv /\ FoundInv <=> Rest /\ AllGood
<1>1. ASSUME TypeOK, SlotInv, LapseInv, FoundInv PROVE Rest /\ AllGood
  <2>1. Rest
    BY <1>1 DEF TypeOK, SlotInv, Rest, TextType
  <2>2. slot \in [Slot -> SlotType(Sent, Len(drafts), Len(cards))]
    BY <1>1 DEF TypeOK, SlotType
  <2>3. ASSUME NEW h \in Slot PROVE Good(slot[h])
    <3>1. slot[h] \in SlotType(Sent, Len(drafts), Len(cards))
      BY <2>2
    <3>2. slot[h].pc = "act" => FoundIn(slot[h])
      BY <1>1 DEF FoundInv, FoundIn, ChosenIn, Chosen, CuesIn, Cues, Text
    <3> QED
      BY <1>1, <3>1, <3>2 DEF Good, SlotInv, Text
  <2>4. slot \in [Slot -> {slot[h] : h \in Slot}]
    BY <2>2
  <2> QED
    BY <2>1, <2>3, <2>4 DEF AllGood
<1>2. ASSUME Rest, AllGood PROVE TypeOK /\ SlotInv /\ LapseInv /\ FoundInv
  <2>1. ASSUME NEW h \in Slot PROVE slot[h] \in SlotType(Sent, Len(drafts), Len(cards))
    BY <1>2 DEF AllGood, Good
  <2>2. slot \in [Slot -> SlotType(Sent, Len(drafts), Len(cards))]
    BY <1>2, <2>1 DEF AllGood
  <2>3. TypeOK
    BY <1>2, <2>2 DEF TypeOK, SlotType, Rest, TextType
  <2>4. SlotInv
    BY <1>2 DEF SlotInv, Rest, AllGood, Good, Text
  <2>5. FoundInv
    <3> SUFFICES ASSUME NEW h \in Slot, slot[h].pc = "act" PROVE FoundIn(slot[h])
      BY DEF FoundInv, FoundIn, ChosenIn, Chosen, CuesIn, Cues, Text
    <3> QED
      BY <1>2 DEF AllGood, Good
  <2> QED
    BY <1>2, <2>3, <2>4, <2>5 DEF Rest
<1> QED
  BY <1>1, <1>2

-----------------------------------------------------------------------------
(* What no step undoes, and what stays right of a goroutine by it.          *)

\* A text keeps its words, a draft its message and its maker, and what is
\* settled is settled.
Grows ==
  /\ Sent \subseteq Sent' /\ \A m \in Sent : said'[m] = said[m]
  /\ Len(drafts) <= Len(drafts') /\ Len(cards) <= Len(cards')
  /\ \A d \in 1..Len(drafts) :
       /\ drafts'[d].source = drafts[d].source /\ drafts'[d].reply = drafts[d].reply
       /\ drafts'[d].by = drafts[d].by
       /\ drafts'[d].status = PENDING => drafts[d].status = PENDING

LEMMA RowsCount ==
  ASSUME Rest
  PROVE  /\ Len(drafts) \in Nat /\ Len(cards) \in Nat
         /\ DOMAIN drafts = 1..Len(drafts) /\ DOMAIN cards = 1..Len(cards)
         /\ PendingIds(drafts) \subseteq 1..Len(drafts)
         /\ \A d \in 1..Len(drafts) : drafts[d] \in DraftRow
         /\ \A c \in 1..Len(cards) : cards[c] \in 1..Len(drafts)
         /\ MaxDraft \in Nat /\ MaxCard \in Nat /\ MaxFaults \in Nat
         /\ \A m \in Sent : said[m] \in TextType
         /\ Sent \subseteq Msg
<1>1. drafts \in Seq(DraftRow) /\ cards \in Seq(DOMAIN drafts)
  BY DEF Rest
<1>2. /\ Len(drafts) \in Nat /\ Len(cards) \in Nat
      /\ DOMAIN drafts = 1..Len(drafts) /\ DOMAIN cards = 1..Len(cards)
      /\ \A d \in 1..Len(drafts) : drafts[d] \in DraftRow
      /\ \A c \in 1..Len(cards) : cards[c] \in DOMAIN drafts
  BY <1>1
<1>3. PendingIds(drafts) \subseteq 1..Len(drafts)
  BY <1>2 DEF PendingIds
<1>4. Sent \subseteq Msg /\ \A m \in Sent : said[m] \in TextType
  BY DEF Rest, Sent
<1> QED
  BY <1>2, <1>3, <1>4, BoundAssumption

\* A pending draft that no longer is does not become one again.
LEMMA PendingShrinks ==
  ASSUME Rest, Rest', Grows
  PROVE  \A d \in 1..Len(drafts) : d \in PendingIds(drafts') => d \in PendingIds(drafts)
BY RowsCount DEF Grows, PendingIds

\* The message a draft was made from, or replied to, keeps it.
LEMMA BoundStays ==
  ASSUME Rest, Rest', Grows, NEW m \in Msg, NEW d \in 1..Len(drafts),
         d \in PendingIds(drafts'), d \in BoundTo(drafts, m)
  PROVE  d \in BoundTo(drafts', m)
<1>1. d \in PendingIds(drafts) /\ m # None
      /\ m \in {drafts[d].source, drafts[d].reply, drafts[d].card}
  BY DEF BoundTo
<1>2. drafts[d] \in DraftRow
  BY RowsCount
<1>3. drafts[d].card \in (1..MaxCard) \cup {None}
  BY <1>2 DEF DraftRow
<1>4. m # drafts[d].card
  BY <1>3, MessageAssumption
<1>5. drafts'[d].source = drafts[d].source /\ drafts'[d].reply = drafts[d].reply
  BY DEF Grows
<1> QED
  BY <1>1, <1>4, <1>5 DEF BoundTo

LEMMA ExistingStays ==
  ASSUME Rest, Rest', Grows, NEW list \in List, Existing(list)
  PROVE  Existing(list)'
<1>1. \A i \in DOMAIN list.ids : list.ids[i] \in Nat
  <2>1. list.ids \in Seq(1..MaxDraft)
    BY DEF List
  <2> QED
    BY <2>1, RowsCount
<1>2. Len(drafts) \in Nat /\ Len(drafts') \in Nat /\ Len(drafts) <= Len(drafts')
  <2>1. Len(drafts') \in Nat
    BY DEF Rest
  <2> QED
    BY <2>1, RowsCount DEF Grows
<1> QED
  BY <1>1, <1>2 DEF Existing

LEMMA FoundStays ==
  ASSUME Rest, Rest', Grows, NEW s, Good(s), s.pc = "act"
  PROVE  FoundIn(s)'
<1>1. /\ s.msg \in Sent /\ s.msg \in Msg /\ said'[s.msg] = said[s.msg]
      /\ s.draft \in 0..Len(drafts) /\ s.known \in 0..Len(drafts) /\ s.list \in List
      /\ Len(drafts) \in Nat
  BY RowsCount DEF Good, SlotType, Grows
<1>2. FoundIn(s)
  BY DEF Good
<1>3. ChosenIn(s)' = ChosenIn(s) /\ CuesIn(s)' = CuesIn(s)
  BY <1>1 DEF ChosenIn, CuesIn
<1>4. \A d \in 1..Len(drafts) : d \in PendingIds(drafts') => d \in PendingIds(drafts)
  BY PendingShrinks
<1>5. PendingIds(drafts') \subseteq 1..Len(drafts') /\ Len(drafts') \in Nat
  <2>1. drafts' \in Seq(DraftRow)
    BY DEF Rest
  <2> QED
    BY <2>1, PendingFinite
<1>6. ASSUME s.list # NoList
      PROVE  (s.draft = ChosenIn(s) \/ ChosenIn(s) \notin PendingIds(drafts))'
  <2>1. ChosenIn(s) <= Len(drafts) /\ ChosenIn(s) \in 1..MaxDraft
    <3>1. said[s.msg].number \in DOMAIN s.list.ids /\ s.list.ids \in Seq(1..MaxDraft)
      BY <1>1, <1>6 DEF Good, Choosing, List
    <3>2. s.list.ids[said[s.msg].number] <= Len(drafts)
      BY <3>1 DEF Good, Existing
    <3>3. ASSUME NEW S, NEW ids \in Seq(S), NEW i \in DOMAIN ids PROVE ids[i] \in S
      OBVIOUS
    <3>4. s.list.ids[said[s.msg].number] \in 1..MaxDraft
      BY <3>1, <3>3
    <3>5. ChosenIn(s) = s.list.ids[said[s.msg].number]
      BY <1>6 DEF ChosenIn
    <3> QED
      BY <3>2, <3>4, <3>5
  <2>2. ChosenIn(s) \in 1..Len(drafts)
    BY <1>1, <2>1, BoundAssumption
  <2>3. ChosenIn(s) \in PendingIds(drafts') => ChosenIn(s) \in PendingIds(drafts)
    BY <1>4, <2>2
  <2> QED
    BY <1>2, <1>3, <1>6, <2>3 DEF FoundIn
<1>7. ASSUME s.draft \in PendingIds(drafts'), ChosenIn(s) = 0,
             said[s.msg].reply = None, said[s.msg].quotes = {},
             s.draft \notin BoundTo(drafts', s.msg),
             NEW d \in PendingIds(drafts') \ {s.draft}
      PROVE  d > s.known
  <2>1. s.draft \in 1..Len(drafts) /\ s.draft \in PendingIds(drafts)
    BY <1>1, <1>4, <1>5, <1>7
  <2>2. s.draft \notin BoundTo(drafts, s.msg)
    BY <1>1, <1>7, <2>1, BoundStays
  <2>3. CASE d \in 1..Len(drafts)
    BY <1>2, <1>4, <1>7, <2>1, <2>2, <2>3 DEF FoundIn
  <2>4. CASE d \notin 1..Len(drafts)
    <3>1. d \in 1..Len(drafts')
      BY <1>5, <1>7
    <3> QED
      BY <1>1, <1>5, <2>4, <3>1
  <2> QED
    BY <2>3, <2>4
<1>8. s.read.intent = "approve" =>
        "refuse" \notin CuesIn(s) \/ (s.read.by = "llm" /\ s.read.confidence >= 60)
  BY <1>2 DEF FoundIn
<1> QED
  BY <1>1, <1>3, <1>6, <1>7, <1>8 DEF FoundIn

LEMMA SlotTypeGrows ==
  ASSUME NEW sent, NEW sent2, sent \subseteq sent2, NEW n \in Nat, NEW n2 \in Nat, n <= n2,
         NEW k \in Nat, NEW k2 \in Nat, k <= k2
  PROVE  SlotType(sent, n, k) \subseteq SlotType(sent2, n2, k2)
<1>1. 0..n \subseteq 0..n2 /\ 0..k \subseteq 0..k2 /\ sent \cup {None} \subseteq sent2 \cup {None}
  OBVIOUS
<1> QED
  BY <1>1 DEF SlotType

LEMMA GoodStays ==
  ASSUME Rest, Rest', Grows, NEW s, Good(s)
  PROVE  Good(s)'
<1>1. s \in SlotType(Sent', Len(drafts'), Len(cards'))
  <2>1. Len(drafts') \in Nat /\ Len(cards') \in Nat
    BY DEF Rest
  <2> QED
    BY <2>1, RowsCount, SlotTypeGrows DEF Good, Grows
<1>2. Existing(s.list)'
  <2>1. s.list \in List
    BY DEF Good, SlotType
  <2> QED
    BY <2>1, ExistingStays DEF Good, Existing
<1>3. /\ s.pc # "idle" => s.msg \in Sent' /\ said'[s.msg] = said[s.msg]
      /\ s.pc = "bind" => s.card # 0
      /\ s.pc = "read" => s.list = NoList
  BY DEF Good, Grows
<1>4. s.pc \in Choosing /\ s.list # NoList => said'[s.msg].number \in DOMAIN s.list.ids
  BY <1>3 DEF Good, Choosing
<1>5. s.pc = "act" => FoundIn(s)'
  BY FoundStays
<1> QED
  BY <1>1, <1>2, <1>3, <1>4, <1>5 DEF Good

-----------------------------------------------------------------------------
(* Steps that keep the number of the drafts.                                *)

SameRows(rows) ==
  /\ rows \in Seq(DraftRow) /\ Len(rows) = Len(drafts)
  /\ \A d \in 1..Len(drafts) :
       /\ rows[d].source = drafts[d].source /\ rows[d].reply = drafts[d].reply
       /\ rows[d].by = drafts[d].by
       /\ rows[d].status = PENDING => drafts[d].status = PENDING

\* One row in the place of another.
LEMMA RowChanged ==
  ASSUME Rest, NEW d \in 1..Len(drafts), NEW row \in DraftRow,
         row.source = drafts[d].source, row.reply = drafts[d].reply, row.by = drafts[d].by,
         row.status = PENDING => drafts[d].status = PENDING
  PROVE  SameRows([drafts EXCEPT ![d] = row])
<1>1. drafts \in Seq(DraftRow) /\ DOMAIN drafts = 1..Len(drafts) /\ Len(drafts) \in Nat
  BY RowsCount DEF Rest
<1>2. [drafts EXCEPT ![d] = row] \in [1..Len(drafts) -> DraftRow]
  BY <1>1
<1>3. [drafts EXCEPT ![d] = row] \in Seq(DraftRow)
      /\ Len([drafts EXCEPT ![d] = row]) = Len(drafts)
  <2> QED
    BY <1>1, <1>2, ListOf
<1>4. \A e \in 1..Len(drafts) :
        [drafts EXCEPT ![d] = row][e] = IF e = d THEN row ELSE drafts[e]
  BY <1>1
<1> QED
  BY <1>3, <1>4 DEF SameRows

LEMMA StatusChanged ==
  ASSUME Rest, NEW d \in PendingIds(drafts), NEW status \in {PENDING, "SETTLED"}
  PROVE  SameRows([drafts EXCEPT ![d].status = status])
<1> DEFINE row == [drafts[d] EXCEPT !.status = status]
<1>1. d \in 1..Len(drafts) /\ drafts[d] \in DraftRow /\ drafts[d].status = PENDING
  BY RowsCount DEF PendingIds
<1>2. /\ row \in DraftRow /\ row.source = drafts[d].source /\ row.reply = drafts[d].reply
      /\ row.by = drafts[d].by
      /\ row.status = PENDING => drafts[d].status = PENDING
  BY <1>1 DEF DraftRow
<1>3. [drafts EXCEPT ![d].status = status] = [drafts EXCEPT ![d] = row]
  OBVIOUS
<1> HIDE DEF row
<1> QED
  BY <1>1, <1>2, <1>3, RowChanged

LEMMA CardChanged ==
  ASSUME Rest, NEW d \in 1..Len(drafts), NEW c \in 1..MaxCard
  PROVE  SameRows([drafts EXCEPT ![d].card = c])
<1> DEFINE row == [drafts[d] EXCEPT !.card = c]
<1>1. drafts[d] \in DraftRow
  BY RowsCount
<1>2. /\ row \in DraftRow /\ row.source = drafts[d].source /\ row.reply = drafts[d].reply
      /\ row.by = drafts[d].by
      /\ row.status = PENDING => drafts[d].status = PENDING
  BY <1>1 DEF DraftRow
<1>3. [drafts EXCEPT ![d].card = c] = [drafts EXCEPT ![d] = row]
  OBVIOUS
<1> HIDE DEF row
<1> QED
  BY <1>2, <1>3, RowChanged

LEMMA RestStays ==
  ASSUME Rest, said' = said, cards' = cards,
         extra' \in 0..MaxExtra, marks' \subseteq Sent, lapses' \in [Msg -> 0..MaxFaults],
         faults' \in 0..MaxFaults, \A m \in Msg : lapses'[m] <= faults', SameRows(drafts'),
         selection' \in List, \A i \in DOMAIN selection'.ids : selection'.ids[i] <= Len(drafts)
  PROVE  Rest' /\ Grows
<1>1. Sent' = Sent
  BY DEF Sent
<1>2. drafts' \in Seq(DraftRow) /\ Len(drafts') = Len(drafts) /\ Len(drafts) <= MaxDraft
      /\ Len(drafts) \in Nat /\ Len(cards) \in Nat
  BY RowsCount DEF SameRows, Rest
<1>3. DOMAIN drafts' = DOMAIN drafts
  BY <1>2, RowsCount
<1>4. Rest'
  BY <1>1, <1>2, <1>3 DEF Rest, Existing, LapseInv
<1>5. Grows
  BY <1>1, <1>2 DEF Grows, SameRows
<1> QED
  BY <1>4, <1>5

LEMMA SameSelection ==
  ASSUME Rest, selection' = selection
  PROVE  selection' \in List /\ \A i \in DOMAIN selection'.ids : selection'.ids[i] <= Len(drafts)
BY DEF Rest, Existing

LEMMA RowsUnchanged == ASSUME Rest, drafts' = drafts PROVE SameRows(drafts')
BY DEF Rest, SameRows

-----------------------------------------------------------------------------
(* What a step makes of the goroutines.                                     *)

\* One of them goes on, rightly.
Moves(h) == \E s : slot' = [slot EXCEPT ![h] = s] /\ Good(s)'

LEMMA MovesGood ==
  ASSUME Rest, AllGood, Rest', Grows,
         UNCHANGED slot \/ \E h \in Slot : Moves(h)
  PROVE  AllGood'
<1>1. CASE UNCHANGED slot
  <2>1. ASSUME NEW h \in Slot PROVE Good(slot[h])'
    <3>1. PICK s : s = slot[h]
      OBVIOUS
    <3>2. Good(s)'
      BY <3>1, GoodStays DEF AllGood
    <3> QED
      BY <1>1, <3>1, <3>2
  <2> QED
    BY <1>1, <2>1 DEF AllGood
<1>2. ASSUME NEW g \in Slot, Moves(g) PROVE AllGood'
  <2>1. PICK s : slot' = [slot EXCEPT ![g] = s] /\ Good(s)'
    BY <1>2 DEF Moves
  <2>2. DOMAIN slot = Slot
    BY DEF AllGood
  <2>3. ASSUME NEW h \in Slot PROVE Good(slot[h])'
    <3>1. CASE h = g
      BY <2>1, <2>2, <3>1
    <3>2. CASE h # g
      <4>1. PICK r : r = slot[h]
        OBVIOUS
      <4>2. Good(r)'
        BY <4>1, GoodStays DEF AllGood
      <4> QED
        BY <2>1, <2>2, <3>2, <4>1, <4>2
    <3> QED
      BY <3>1, <3>2
  <2>4. slot' \in [Slot -> {slot'[h] : h \in Slot}]
    BY <2>1, <2>2
  <2> QED
    BY <2>3, <2>4 DEF AllGood
<1> QED
  BY <1>1, <1>2

LEMMA NotReadType == NotRead \in ReadingType /\ NoList \in List /\ DOMAIN NoList.ids = {}
<1>1. NotRead \in ReadingType
  BY ByRulesMeans DEF NotRead
<1>2. <<>> \in Seq(1..MaxDraft) /\ DOMAIN <<>> = {}
  OBVIOUS
<1> QED
  BY <1>1, <1>2 DEF NoList, List

\* A goroutine that has nothing left to choose, or nothing to do at all.
LEMMA PlainIsGood ==
  ASSUME Rest', NEW s, s \in SlotType(Sent', Len(drafts'), Len(cards')),
         s.pc \notin Choosing, s.pc = "bind" => s.card # 0, s.pc = "read" => s.list = NoList,
         s.pc # "idle" => s.msg \in Sent',
         \A i \in DOMAIN s.list.ids : s.list.ids[i] <= Len(drafts')
  PROVE  Good(s)'
<1>1. s.pc # "act"
  BY DEF Choosing
<1>2. s.pc # "idle" => s.msg \in Sent'
  OBVIOUS
<1> QED
  BY <1>1, <1>2 DEF Good, Existing

LEMMA IdleIsGood == ASSUME Rest' PROVE Good(Idle)'
<1>1. Len(drafts') \in Nat /\ Len(cards') \in Nat
  BY DEF Rest
<1>2. Idle \in SlotType(Sent', Len(drafts'), Len(cards'))
  BY <1>1, NotReadType DEF Idle, SlotType
<1> QED
  BY <1>2, NotReadType, PlainIsGood DEF Idle, Choosing

-----------------------------------------------------------------------------
(* Every step keeps what is right of every goroutine.                       *)

Stays == Rest' /\ Grows /\ AllGood'

LEMMA SlotFields ==
  ASSUME Rest, AllGood, NEW h \in Slot
  PROVE  /\ slot[h] \in SlotType(Sent, Len(drafts), Len(cards)) /\ Good(slot[h])
         /\ DOMAIN slot = Slot
         /\ slot[h].pc # "idle" => slot[h].msg \in Sent /\ said[slot[h].msg] \in TextType
         /\ slot[h].list \in List /\ slot[h].read \in ReadingType
         /\ slot[h].draft \in 0..Len(drafts) /\ slot[h].card \in 0..Len(cards)
         /\ \A i \in DOMAIN slot[h].list.ids : slot[h].list.ids[i] <= Len(drafts)
<1>1. Good(slot[h]) /\ DOMAIN slot = Slot
  BY DEF AllGood
<1> QED
  BY <1>1, RowsCount DEF Good, SlotType, Existing

LEMMA SendStays ==
  ASSUME Rest, AllGood, NEW m \in Msg, Send(m)
  PROVE  Stays
<1>0. PICK u \in Says[m] :
        \E reply \in IF u.replies THEN Sent \cup DOMAIN cards ELSE {None} :
          said' = [said EXCEPT ![m] = [cues |-> u.cues, names |-> u.names,
                                       triggers |-> u.triggers, number |-> u.number,
                                       quotes |-> u.quotes, reply |-> reply]]
  BY DEF Send
<1>1. PICK reply \in IF u.replies THEN Sent \cup DOMAIN cards ELSE {None} :
        said' = [said EXCEPT ![m] = [cues |-> u.cues, names |-> u.names,
                                     triggers |-> u.triggers, number |-> u.number,
                                     quotes |-> u.quotes, reply |-> reply]]
  BY <1>0
<1> DEFINE text == [cues |-> u.cues, names |-> u.names, triggers |-> u.triggers,
                    number |-> u.number, quotes |-> u.quotes, reply |-> reply]
<1>2. text \in TextType
  <2>1. u \in Utterance
    BY SaysAssumption
  <2>2. reply \in Message \cup {None}
    <3>1. Sent \subseteq Msg /\ DOMAIN cards \subseteq 1..MaxCard
      BY RowsCount DEF Rest
    <3> QED
      BY <3>1 DEF Message
  <2> QED
    BY <2>1, <2>2 DEF Utterance, TextType
<1> HIDE DEF text
<1>3. said \in [Msg -> {Unsent} \cup TextType] /\ said' = [said EXCEPT ![m] = text]
  BY <1>1 DEF Rest, text
<1>4. said' \in [Msg -> {Unsent} \cup TextType]
  BY <1>2, <1>3
<1>5. Sent \subseteq Sent' /\ \A x \in Sent : said'[x] = said[x]
  BY <1>3 DEF Sent, Send
<1>6. UNCHANGED <<extra, marks, lapses, drafts, selection, cards, slot, faults>>
  BY DEF Send
<1>7. Rest'
  BY <1>4, <1>5, <1>6 DEF Rest, Existing, LapseInv
<1>8. Grows
  BY <1>5, <1>6, RowsCount DEF Grows
<1> QED
  BY <1>6, <1>7, <1>8, MovesGood DEF Stays

LEMMA LapseGrows ==
  ASSUME Rest, NEW m \in Msg, Fault, lapses' = [lapses EXCEPT ![m] = @ + 1]
  PROVE  lapses' \in [Msg -> 0..MaxFaults] /\ \A x \in Msg : lapses'[x] <= faults'
<1>1. /\ lapses \in [Msg -> 0..MaxFaults] /\ faults \in Nat /\ faults < MaxFaults
      /\ faults' = faults + 1 /\ MaxFaults \in Nat /\ \A x \in Msg : lapses[x] <= faults
  BY BoundAssumption DEF Rest, Fault, LapseInv
<1>2. \A x \in Msg : lapses[x] \in Nat
  BY <1>1
<1>3. ASSUME NEW x \in Msg PROVE lapses'[x] \in 0..MaxFaults /\ lapses'[x] <= faults'
  BY <1>1, <1>2
<1>4. lapses' = [x \in Msg |-> lapses'[x]]
  BY <1>1
<1> QED
  BY <1>3, <1>4

\* The steps of the user and of other parts of the system.
LEMMA OutsideStays ==
  ASSUME Rest, AllGood,
         \/ Elsewhere \/ SelectionExpires \/ ServerCrash
         \/ \E m \in Msg : MarkExpires(m) \/ Drop(m) \/ DropFirst(m)
  PROVE  Stays
<1>1. /\ extra \in 0..MaxExtra /\ marks \subseteq Sent /\ faults \in 0..MaxFaults
      /\ lapses \in [Msg -> 0..MaxFaults] /\ MaxExtra \in Nat /\ MaxFaults \in Nat
      /\ \A m \in Msg : lapses[m] <= faults
  BY BoundAssumption DEF Rest, LapseInv
<1>2. Fault => faults' \in 0..MaxFaults /\ \A m \in Msg : lapses[m] <= faults'
  BY <1>1 DEF Fault
<1>3. CASE Elsewhere
  <2>1. PICK d \in PendingIds(drafts) : drafts' = Settled(d)
    BY <1>3 DEF Elsewhere
  <2>2. SameRows(drafts')
    BY <2>1, StatusChanged DEF Settled
  <2>3. UNCHANGED <<said, extra, marks, lapses, selection, cards, slot, faults>>
    BY <1>3 DEF Elsewhere
  <2>4. Rest' /\ Grows
    BY <1>1, <2>2, <2>3, RestStays, SameSelection
  <2> QED
    BY <2>3, <2>4, MovesGood DEF Stays
<1>4. CASE SelectionExpires
  <2>1. UNCHANGED <<said, extra, marks, lapses, drafts, cards, slot, faults>>
        /\ selection' = NoList
    BY <1>4 DEF SelectionExpires
  <2>2. Rest' /\ Grows
    BY <1>1, <2>1, RowsUnchanged, RestStays, NotReadType
  <2> QED
    BY <2>1, <2>2, MovesGood DEF Stays
<1>5. CASE ServerCrash
  <2>1. UNCHANGED <<said, extra, marks, lapses, drafts, selection, cards>>
        /\ slot' = [h \in Slot |-> Idle]
        /\ faults' \in 0..MaxFaults /\ \A m \in Msg : lapses[m] <= faults'
    BY <1>2, <1>5 DEF ServerCrash
  <2>2. Rest' /\ Grows
    BY <1>1, <2>1, RowsUnchanged, RestStays, SameSelection
  <2>3. ASSUME NEW h \in Slot PROVE Good(slot[h])'
    <3>1. PICK s : s = Idle
      OBVIOUS
    <3>2. Good(s)'
      BY <2>2, <3>1, IdleIsGood
    <3> QED
      BY <2>1, <3>1, <3>2
  <2>4. slot' \in [Slot -> {slot'[h] : h \in Slot}]
    BY <2>1
  <2> QED
    BY <2>2, <2>3, <2>4 DEF Stays, AllGood
<1>6. ASSUME NEW m \in Msg, MarkExpires(m) PROVE Stays
  <2>1. UNCHANGED <<said, extra, drafts, selection, cards, slot>> /\ faults' \in 0..MaxFaults
        /\ marks' = marks \ {m}
    BY <1>2, <1>6 DEF MarkExpires
  <2>2. lapses' \in [Msg -> 0..MaxFaults] /\ \A x \in Msg : lapses'[x] <= faults'
    BY <1>6, LapseGrows DEF MarkExpires
  <2>3. Rest' /\ Grows
    BY <1>1, <2>1, <2>2, RowsUnchanged, RestStays, SameSelection
  <2> QED
    BY <2>1, <2>3, MovesGood DEF Stays
<1>7. ASSUME NEW m \in Msg, Drop(m) PROVE Stays
  <2>1. UNCHANGED <<said, marks, lapses, drafts, selection, cards, slot, faults>>
        /\ extra' \in 0..MaxExtra
    BY <1>1, <1>7 DEF Drop, Delivered
  <2>2. Rest' /\ Grows
    BY <1>1, <2>1, RowsUnchanged, RestStays, SameSelection
  <2> QED
    BY <2>1, <2>2, MovesGood DEF Stays
<1>8. ASSUME NEW m \in Msg, DropFirst(m) PROVE Stays
  <2>1. UNCHANGED <<said, lapses, drafts, selection, cards, slot>> /\ faults' \in 0..MaxFaults
        /\ extra' \in 0..MaxExtra /\ \A x \in Msg : lapses[x] <= faults'
    BY <1>1, <1>2, <1>8 DEF DropFirst, Delivered
  <2>2. marks' \subseteq Sent
    BY <1>1, <1>8 DEF DropFirst, Delivered
  <2>3. Rest' /\ Grows
    BY <1>1, <2>1, <2>2, RowsUnchanged, RestStays, SameSelection
  <2> QED
    BY <2>1, <2>3, MovesGood DEF Stays
<1> QED
  BY <1>3, <1>4, <1>5, <1>6, <1>7, <1>8

\* The fields of one goroutine that a step changes.
LEMMA PcChanged ==
  ASSUME AllGood, NEW h \in Slot, NEW pc
  PROVE  [slot EXCEPT ![h].pc = pc] = [slot EXCEPT ![h] = [slot[h] EXCEPT !.pc = pc]]
BY DEF AllGood

LEMMA ListChanged ==
  ASSUME AllGood, NEW h \in Slot, NEW pc, NEW list
  PROVE  [slot EXCEPT ![h].pc = pc, ![h].list = list]
           = [slot EXCEPT ![h] = [slot[h] EXCEPT !.pc = pc, !.list = list]]
BY DEF AllGood

LEMMA ListDraftChanged ==
  ASSUME AllGood, NEW h \in Slot, NEW pc, NEW list, NEW draft
  PROVE  [slot EXCEPT ![h].pc = pc, ![h].list = list, ![h].draft = draft]
           = [slot EXCEPT ![h] = [slot[h] EXCEPT !.pc = pc, !.list = list, !.draft = draft]]
BY DEF AllGood

LEMMA ListReadDraftChanged ==
  ASSUME AllGood, NEW h \in Slot, NEW pc, NEW list, NEW read, NEW draft
  PROVE  [slot EXCEPT ![h].pc = pc, ![h].list = list, ![h].read = read, ![h].draft = draft]
           = [slot EXCEPT ![h] = [slot[h] EXCEPT !.pc = pc, !.list = list, !.read = read,
                                                 !.draft = draft]]
BY DEF AllGood

LEMMA PcCardChanged ==
  ASSUME AllGood, NEW h \in Slot, NEW pc, NEW c
  PROVE  [slot EXCEPT ![h].pc = pc, ![h].card = c]
           = [slot EXCEPT ![h] = [slot[h] EXCEPT !.pc = pc, !.card = c]]
BY DEF AllGood

LEMMA FaultCounts ==
  ASSUME Rest, Fault \/ UNCHANGED faults
  PROVE  faults' \in 0..MaxFaults /\ \A m \in Msg : lapses[m] <= faults'
<1>1. /\ lapses \in [Msg -> 0..MaxFaults] /\ faults \in 0..MaxFaults /\ MaxFaults \in Nat
      /\ \A m \in Msg : lapses[m] <= faults
  BY BoundAssumption DEF Rest, LapseInv
<1> QED
  BY <1>1 DEF Fault

\* A goroutine is started for an event.
LEMMA ArrivalStays ==
  ASSUME Rest, AllGood, NEW m \in Msg, NEW h \in Slot, Receive(m, h) \/ ReceiveUnasked(m, h)
  PROVE  Stays
<1> DEFINE s == [Idle EXCEPT !.pc = "read", !.msg = m]
<1>1. /\ extra' \in 0..MaxExtra /\ m \in Sent
      /\ UNCHANGED <<said, drafts, selection, cards>>
      /\ slot' = [slot EXCEPT ![h] = s]
  <2>1. extra \in 0..MaxExtra /\ MaxExtra \in Nat
    BY BoundAssumption DEF Rest
  <2> QED
    BY <2>1 DEF Receive, ReceiveUnasked, Delivered, Start
<1>2. marks' \subseteq Sent
  BY <1>1 DEF Receive, ReceiveUnasked, Rest
<1>3. /\ lapses' \in [Msg -> 0..MaxFaults] /\ faults' \in 0..MaxFaults
      /\ \A x \in Msg : lapses'[x] <= faults'
  <2>1. CASE Receive(m, h)
    BY <2>1 DEF Receive, Rest, LapseInv
  <2>2. CASE ReceiveUnasked(m, h)
    BY <2>2, FaultCounts, LapseGrows DEF ReceiveUnasked
  <2> QED
    BY <2>1, <2>2
<1>4. Rest' /\ Grows
  BY <1>1, <1>2, <1>3, RowsUnchanged, RestStays, SameSelection
<1>5. s \in SlotType(Sent', Len(drafts'), Len(cards')) /\ s.pc = "read" /\ s.msg = m
      /\ s.list = NoList
  <2>1. PICK sent, n, k : sent = Sent' /\ n = Len(drafts') /\ k = Len(cards')
    OBVIOUS
  <2>2. Idle \in SlotType(sent, n, k) /\ m \in sent /\ n \in Nat /\ k \in Nat
    <3>1. Len(drafts') \in Nat /\ Len(cards') \in Nat /\ m \in Sent'
      BY <1>1, <1>4 DEF Rest, Sent
    <3>2. PICK r : r = Idle
      OBVIOUS
    <3>3. Good(r)'
      BY <1>4, <3>2, IdleIsGood
    <3> QED
      BY <2>1, <3>1, <3>2, <3>3 DEF Good
  <2>3. s \in SlotType(sent, n, k)
    BY <2>2 DEF SlotType
  <2>4. Idle.list = NoList
    BY DEF Idle
  <2>5. s.pc = "read" /\ s.msg = m /\ s.list = NoList
    <3> HIDE DEF Idle
    <3> QED
      BY <2>2, <2>4 DEF SlotType
  <2> QED
    BY <2>1, <2>3, <2>5
<1> HIDE DEF s
<1>6. Good(s)'
  <2>1. PICK r : r = s
    OBVIOUS
  <2>2. r \in SlotType(Sent', Len(drafts'), Len(cards')) /\ r.pc = "read" /\ r.msg \in Sent'
        /\ r.list = NoList
    BY <1>1, <1>5, <2>1 DEF Sent
  <2>3. Good(r)'
    BY <1>4, <2>2, NotReadType, PlainIsGood DEF Choosing
  <2> QED
    BY <2>1, <2>3
<1> QED
  BY <1>1, <1>4, <1>6, MovesGood DEF Stays, Moves

\* A step that changes neither texts, drafts, cards, marks nor the selection.
LEMMA OnlySlotStays ==
  ASSUME Rest, UNCHANGED <<said, extra, marks, lapses, drafts, selection, cards>>,
         Fault \/ UNCHANGED faults
  PROVE  Rest' /\ Grows
<1>1. faults' \in 0..MaxFaults /\ \A m \in Msg : lapses[m] <= faults'
  BY FaultCounts
<1>2. extra \in 0..MaxExtra /\ marks \subseteq Sent /\ lapses \in [Msg -> 0..MaxFaults]
  BY DEF Rest
<1> QED
  BY <1>1, <1>2, RowsUnchanged, RestStays, SameSelection

\* A goroutine ends.
LEMMA EndsStays ==
  ASSUME Rest, AllGood, Rest', Grows, NEW h \in Slot, Ends(h)
  PROVE  Stays
<1>1. PICK s : s = Idle
  OBVIOUS
<1>2. Good(s)'
  BY <1>1, IdleIsGood
<1>3. Moves(h)
  BY <1>1, <1>2 DEF Ends, Moves
<1> QED
  BY <1>3, MovesGood DEF Stays

\* A goroutine goes on to where nothing is left to choose.
LEMMA GoesStays ==
  ASSUME Rest, AllGood, Rest', Grows, said' = said, NEW h \in Slot,
         NEW s, s \in SlotType(Sent, Len(drafts'), Len(cards')),
         slot' = [slot EXCEPT ![h] = s], s.pc \in {"store", "send", "bind"}, s.msg \in Sent,
         s.pc = "bind" => s.card # 0,
         \A i \in DOMAIN s.list.ids : s.list.ids[i] <= Len(drafts')
  PROVE  Stays
<1>1. Sent' = Sent
  BY DEF Sent
<1>2. s.pc \notin Choosing /\ s.pc # "read"
  BY DEF Choosing
<1>3. Good(s)'
  BY <1>1, <1>2, PlainIsGood
<1>4. Moves(h)
  BY <1>3 DEF Moves
<1> QED
  BY <1>4, MovesGood DEF Stays

LEMMA ReadStays ==
  ASSUME Rest, AllGood, NEW h \in Slot, Read(h)
  PROVE  Stays
<1> DEFINE r == slot[h]
<1>1. Rest' /\ Grows
  BY OnlySlotStays DEF Read
<1>2. /\ UNCHANGED <<said, drafts, cards>> /\ r.pc = "read" /\ Sent' = Sent
      /\ r.list = NoList /\ r.msg \in Sent
      /\ r \in SlotType(Sent, Len(drafts), Len(cards))
  BY SlotFields DEF Read, Sent, AllGood, Good
<1>3. selection \in List /\ \A i \in DOMAIN selection.ids : selection.ids[i] <= Len(drafts)
  BY DEF Rest, Existing
<1>4. ASSUME NEW s, s \in SlotType(Sent, Len(drafts), Len(cards)), s.pc = "agent",
             s.msg = r.msg, s.list # NoList => said[s.msg].number \in DOMAIN s.list.ids,
             \A i \in DOMAIN s.list.ids : s.list.ids[i] <= Len(drafts),
             slot' = [slot EXCEPT ![h] = s]
      PROVE  Stays
  <2>1. Good(s)'
    BY <1>2, <1>4 DEF Good, Existing
  <2>2. Moves(h)
    BY <1>4, <2>1 DEF Moves
  <2> QED
    BY <1>1, <2>2, MovesGood DEF Stays
<1>5. CASE Text(h).number \in DOMAIN selection.ids
           /\ slot' = [slot EXCEPT ![h].pc = "agent", ![h].list = selection]
  <2>1. PICK s : s = [slot[h] EXCEPT !.pc = "agent", !.list = selection]
    OBVIOUS
  <2>2. slot' = [slot EXCEPT ![h] = s]
    BY <1>5, <2>1, ListChanged
  <2>3. s \in SlotType(Sent, Len(drafts), Len(cards)) /\ s.pc = "agent" /\ s.msg = r.msg
        /\ s.list = selection
    BY <1>2, <1>3, <2>1 DEF SlotType
  <2> QED
    BY <1>3, <1>4, <1>5, <2>2, <2>3 DEF Text
<1>6. CASE Goes(h, "agent")
  <2>1. PICK s : s = [slot[h] EXCEPT !.pc = "agent"]
    OBVIOUS
  <2>2. slot' = [slot EXCEPT ![h] = s]
    BY <1>6, <2>1, PcChanged DEF Goes
  <2>3. s \in SlotType(Sent, Len(drafts), Len(cards)) /\ s.pc = "agent" /\ s.msg = r.msg
        /\ s.list = NoList
    BY <1>2, <2>1 DEF SlotType
  <2> QED
    BY <1>4, <2>2, <2>3, NotReadType
<1> QED
  BY <1>5, <1>6 DEF Read

LEMMA Appended ==
  ASSUME NEW S, NEW rows \in Seq(S), NEW row \in S
  PROVE  /\ Append(rows, row) \in Seq(S) /\ Len(Append(rows, row)) = Len(rows) + 1
         /\ Len(rows) \in Nat
         /\ \A i \in 1..Len(rows) : Append(rows, row)[i] = rows[i]
         /\ Append(rows, row)[Len(rows) + 1] = row
OBVIOUS

LEMMA WiderSeq ==
  ASSUME NEW S, NEW T, NEW list \in Seq(S), S \subseteq T
  PROVE  list \in Seq(T)
<1>1. Len(list) \in Nat /\ list \in [1..Len(list) -> T]
  OBVIOUS
<1> QED
  BY <1>1, ListOf

\* A draft is added, perhaps after another is settled.
LEMMA NewRowStays ==
  ASSUME Rest, NEW rows, SameRows(rows), NEW row \in DraftRow, drafts' = Append(rows, row),
         Len(drafts) < MaxDraft,
         UNCHANGED <<said, extra, marks, lapses, selection, cards, faults>>
  PROVE  Rest' /\ Grows /\ Len(drafts') = Len(drafts) + 1
<1>1. /\ drafts \in Seq(DraftRow) /\ Len(drafts) \in Nat /\ MaxDraft \in Nat
      /\ cards \in Seq(1..Len(drafts)) /\ DOMAIN drafts = 1..Len(drafts)
  BY RowsCount DEF Rest
<1>2. /\ drafts' \in Seq(DraftRow) /\ Len(drafts') = Len(drafts) + 1
      /\ \A d \in 1..Len(drafts) : drafts'[d] = rows[d]
  BY <1>1, Appended DEF SameRows
<1>3. DOMAIN drafts' = 1..Len(drafts')
  BY <1>2
<1>4. cards \in Seq(DOMAIN drafts')
  <2>1. 1..Len(drafts) \subseteq DOMAIN drafts'
    BY <1>1, <1>2, <1>3
  <2> QED
    BY <1>1, <2>1, WiderSeq
<1>5. Sent' = Sent
  BY DEF Sent
<1>6. Existing(selection)'
  <2>1. \A i \in DOMAIN selection.ids : selection.ids[i] <= Len(drafts)
    BY DEF Rest, Existing
  <2>2. selection \in List
    BY DEF Rest
  <2>3. \A i \in DOMAIN selection.ids : selection.ids[i] \in Nat
    BY <1>1, <2>2 DEF List
  <2>4. \A i \in DOMAIN selection.ids : selection.ids[i] <= Len(drafts')
    BY <1>1, <1>2, <2>1, <2>3
  <2> QED
    BY <2>4 DEF Existing
<1>7. Rest'
  <2>1. Len(drafts') <= MaxDraft
    BY <1>1, <1>2
  <2> QED
    BY <1>2, <1>4, <1>5, <1>6, <2>1 DEF Rest, LapseInv
<1>8. Grows
  <2>1. Len(drafts) <= Len(drafts') /\ Len(cards) <= Len(cards)
    BY <1>1, <1>2, RowsCount
  <2> QED
    BY <1>2, <1>5, <2>1 DEF Grows, SameRows
<1> QED
  BY <1>2, <1>7, <1>8

\* The row that a goroutine at work would add.
LEMMA NewDraftType ==
  ASSUME Rest, NEW h \in Slot, slot[h].msg \in Sent, NEW by \in {"agent", "rules"}
  PROVE  NewDraft(h, by) \in DraftRow
<1>1. said[slot[h].msg] \in TextType /\ slot[h].msg \in Msg
  BY RowsCount
<1> QED
  BY <1>1 DEF NewDraft, DraftRow, TextType, Text

LEMMA CreateStays ==
  ASSUME Rest, AllGood, NEW h \in Slot, CreateDraft(h)
  PROVE  Stays
<1> DEFINE row == NewDraft(h, "rules")
<1>1. slot[h].pc = "dispatch" /\ Len(drafts) < MaxDraft /\ drafts' = Append(drafts, row)
      /\ UNCHANGED <<said, extra, marks, lapses, selection, cards, faults>>
  BY DEF CreateDraft, HasRoom
<1>2. slot[h].msg \in Sent /\ said[slot[h].msg] \in TextType /\ Sent \subseteq Msg
      /\ slot[h] \in SlotType(Sent, Len(drafts), Len(cards))
  BY <1>1, SlotFields, RowsCount
<1>3. row \in DraftRow
  BY <1>2, NewDraftType
<1> HIDE DEF row
<1>4. Rest' /\ Grows /\ Len(drafts') = Len(drafts) + 1
  <2>1. SameRows(drafts)
    BY DEF Rest, SameRows
  <2> QED
    BY <1>1, <1>3, <2>1, NewRowStays
<1>5. CASE Ends(h)
  BY <1>4, <1>5, EndsStays
<1>6. CASE slot' = [slot EXCEPT ![h].pc = "store", ![h].list = NoList, ![h].draft = Len(drafts')]
  <2>1. PICK n : n = Len(drafts')
    OBVIOUS
  <2>2. PICK s : s = [slot[h] EXCEPT !.pc = "store", !.list = NoList, !.draft = n]
    OBVIOUS
  <2>3. slot' = [slot EXCEPT ![h] = s]
    BY <1>6, <2>1, <2>2, ListDraftChanged
  <2>4. s \in SlotType(Sent, Len(drafts'), Len(cards'))
    <3>1. slot[h] \in SlotType(Sent, n, Len(cards)) /\ n \in 0..n
      <4>1. Len(drafts) \in Nat /\ Len(cards) \in Nat /\ n \in Nat /\ Len(drafts) <= n
        BY <1>4, <2>1, RowsCount
      <4>2. SlotType(Sent, Len(drafts), Len(cards)) \subseteq SlotType(Sent, n, Len(cards))
        BY <4>1, SlotTypeGrows
      <4> QED
        BY <1>2, <4>1, <4>2
    <3>2. s \in SlotType(Sent, n, Len(cards))
      BY <2>2, <3>1, NotReadType DEF SlotType
    <3> QED
      BY <1>1, <2>1, <3>2
  <2>5. s.pc = "store" /\ s.msg = slot[h].msg /\ s.list = NoList
    BY <1>2, <2>2 DEF SlotType
  <2> QED
    BY <1>1, <1>2, <1>4, <2>3, <2>4, <2>5, NotReadType, GoesStays
<1> QED
  BY <1>5, <1>6 DEF CreateDraft

\* The agent goes on with another draft to show, or leaves the message to the
\* rules; the list it was given stays.
LEMMA AgentGoesOn ==
  ASSUME Rest, AllGood, Rest', Grows, said' = said, NEW h \in Slot, slot[h].pc = "agent",
         NEW pc \in {"agent", "dispatch"}, NEW d \in 0..Len(drafts'),
         slot' = [slot EXCEPT ![h] = [slot[h] EXCEPT !.pc = pc, !.draft = d]]
  PROVE  Stays
<1>1. Sent' = Sent /\ Len(drafts') \in Nat /\ Len(cards') \in Nat
  BY DEF Sent, Rest
<1>2. Good(slot[h])
  BY SlotFields
<1>3. PICK r : r = slot[h]
  OBVIOUS
<1>4. Good(r)'
  BY <1>2, <1>3, GoodStays
<1>5. PICK s : s = [r EXCEPT !.pc = pc, !.draft = d]
  OBVIOUS
<1>6. r \in SlotType(Sent', Len(drafts'), Len(cards')) /\ r.pc = "agent"
      /\ r.msg \in Sent' /\ Existing(r.list)'
      /\ (r.list # NoList => said'[r.msg].number \in DOMAIN r.list.ids)
  BY <1>3, <1>4 DEF Good, Choosing
<1>7. s \in SlotType(Sent', Len(drafts'), Len(cards')) /\ s.pc = pc
      /\ s.msg = r.msg /\ s.list = r.list
  BY <1>5, <1>6 DEF SlotType
<1>8. Good(s)'
  BY <1>6, <1>7 DEF Good
<1>9. Moves(h)
  BY <1>3, <1>5, <1>8 DEF Moves
<1> QED
  BY <1>9, MovesGood DEF Stays

LEMMA DraftChanged ==
  ASSUME Rest, AllGood, NEW h \in Slot, slot[h].pc = "agent", NEW d
  PROVE  [slot EXCEPT ![h].draft = d]
           = [slot EXCEPT ![h] = [slot[h] EXCEPT !.pc = "agent", !.draft = d]]
<1>1. slot[h] \in SlotType(Sent, Len(drafts), Len(cards)) /\ DOMAIN slot = Slot
  BY SlotFields
<1>2. [slot[h] EXCEPT !.draft = d] = [slot[h] EXCEPT !.pc = "agent", !.draft = d]
  BY <1>1 DEF SlotType
<1>3. [slot EXCEPT ![h].draft = d] = [slot EXCEPT ![h] = [slot[h] EXCEPT !.draft = d]]
  BY <1>1
<1> QED
  BY <1>2, <1>3

LEMMA PcDraftChanged ==
  ASSUME AllGood, NEW h \in Slot, NEW pc, NEW d
  PROVE  [slot EXCEPT ![h].pc = pc, ![h].draft = d]
           = [slot EXCEPT ![h] = [slot[h] EXCEPT !.pc = pc, !.draft = d]]
BY DEF AllGood

\* The agent settles a pending draft or none.
LEMMA SettleStays ==
  ASSUME Rest, UNCHANGED <<said, extra, marks, lapses, selection, cards, faults>>,
         UNCHANGED drafts \/ \E d \in PendingIds(drafts) : drafts' = Settled(d)
  PROVE  Rest' /\ Grows /\ Len(drafts') = Len(drafts)
<1>1. SameRows(drafts')
  BY RowsUnchanged, StatusChanged DEF Settled
<1>2. /\ extra \in 0..MaxExtra /\ marks \subseteq Sent /\ lapses \in [Msg -> 0..MaxFaults]
      /\ faults \in 0..MaxFaults /\ \A m \in Msg : lapses[m] <= faults
  BY DEF Rest, LapseInv
<1>3. Rest' /\ Grows
  BY <1>1, <1>2, SameSelection, RestStays
<1> QED
  BY <1>1, <1>3 DEF SameRows

\* The agent's tools and what comes after them.
LEMMA AgentStays ==
  ASSUME Rest, AllGood, NEW h \in Slot,
         \/ AgentCreates(h) \/ AgentDecides(h) \/ AgentRevises(h) \/ AgentDraftsNothing(h)
         \/ AgentReplies(h) \/ AgentFails(h)
  PROVE  Stays
<1>1. slot[h].pc = "agent" /\ UNCHANGED <<said, extra, marks, lapses, selection, cards, faults>>
  BY DEF AgentCreates, AgentDecides, AgentRevises, AgentDraftsNothing, AgentReplies, AgentFails
<1>2. /\ slot[h] \in SlotType(Sent, Len(drafts), Len(cards)) /\ slot[h].msg \in Sent
      /\ slot[h].draft \in 0..Len(drafts) /\ Len(drafts) \in Nat
  BY <1>1, SlotFields, RowsCount
<1>3. PICK row : row = NewDraft(h, "agent")
  OBVIOUS
<1>4. row \in DraftRow
  BY <1>2, <1>3, NewDraftType
<1>5. ASSUME NEW rows, SameRows(rows), drafts' = Append(rows, row), HasRoom,
             slot' = [slot EXCEPT ![h].draft = Len(drafts')]
      PROVE  Stays
  <2>1. Rest' /\ Grows /\ Len(drafts') = Len(drafts) + 1
    BY <1>1, <1>4, <1>5, NewRowStays DEF HasRoom
  <2>2. Len(drafts') \in 0..Len(drafts')
    BY <1>2, <2>1
  <2>3. slot' = [slot EXCEPT ![h] = [slot[h] EXCEPT !.pc = "agent", !.draft = Len(drafts')]]
    BY <1>1, <1>5, DraftChanged
  <2> QED
    BY <1>1, <2>1, <2>2, <2>3, AgentGoesOn
<1>6. CASE AgentCreates(h)
  <2>1. SameRows(drafts)
    BY DEF Rest, SameRows
  <2> QED
    BY <1>3, <1>5, <1>6, <2>1 DEF AgentCreates
<1>7. CASE AgentRevises(h)
  <2>1. PICK d \in PendingIds(drafts) : drafts' = Append(Settled(d), row)
    BY <1>3, <1>7 DEF AgentRevises
  <2>2. SameRows(Settled(d))
    BY StatusChanged DEF Settled
  <2> QED
    BY <1>5, <1>7, <2>1, <2>2 DEF AgentRevises
<1>8. CASE AgentDecides(h)
  <2>1. Rest' /\ Grows
    BY <1>1, <1>8, SettleStays DEF AgentDecides
  <2> QED
    BY <1>8, <2>1, MovesGood DEF Stays, AgentDecides
<1>9. CASE AgentDraftsNothing(h)
  <2>1. Rest' /\ Grows /\ 0 \in 0..Len(drafts')
    BY <1>1, <1>2, <1>9, SettleStays DEF AgentDraftsNothing
  <2>2. slot' = [slot EXCEPT ![h] = [slot[h] EXCEPT !.pc = "agent", !.draft = 0]]
    BY <1>1, <1>9, DraftChanged DEF AgentDraftsNothing
  <2> QED
    BY <1>1, <2>1, <2>2, AgentGoesOn
<1>10. CASE AgentFails(h)
  <2>1. UNCHANGED drafts /\ slot' = [slot EXCEPT ![h].pc = "dispatch", ![h].draft = 0]
    BY <1>10 DEF AgentFails
  <2>2. Rest' /\ Grows /\ 0 \in 0..Len(drafts')
    BY <1>1, <1>2, <2>1, SettleStays
  <2>3. slot' = [slot EXCEPT ![h] = [slot[h] EXCEPT !.pc = "dispatch", !.draft = 0]]
    BY <2>1, PcDraftChanged
  <2> QED
    BY <1>1, <2>2, <2>3, AgentGoesOn
<1>11. CASE AgentReplies(h)
  <2>1. PICK d \in {0, slot[h].draft} :
          slot' = [slot EXCEPT ![h].pc = "store", ![h].list = NoList, ![h].draft = d]
    BY <1>11 DEF AgentReplies
  <2>2. PICK s : s = [slot[h] EXCEPT !.pc = "store", !.list = NoList, !.draft = d]
    OBVIOUS
  <2>3. slot' = [slot EXCEPT ![h] = s]
    BY <2>1, <2>2, ListDraftChanged
  <2>4. d \in 0..Len(drafts)
    BY <1>2
  <2>5. s \in SlotType(Sent, Len(drafts), Len(cards)) /\ s.pc = "store" /\ s.list = NoList
        /\ s.msg = slot[h].msg
    BY <1>2, <2>2, <2>4, NotReadType DEF SlotType
  <2>6. UNCHANGED drafts /\ Rest' /\ Grows
    BY <1>1, <1>11, SettleStays DEF AgentReplies
  <2> QED
    BY <1>1, <1>2, <2>3, <2>5, <2>6, NotReadType, GoesStays
<1> QED
  BY <1>6, <1>7, <1>8, <1>9, <1>10, <1>11

LEMMA ConverseStays ==
  ASSUME Rest, AllGood, NEW h \in Slot, Converse(h)
  PROVE  Stays
<1>1. UNCHANGED <<said, extra, marks, lapses, drafts, selection, cards, faults>>
      /\ slot[h].pc = "dispatch"
  BY DEF Converse
<1>2. Rest' /\ Grows
  BY <1>1, OnlySlotStays
<1>3. CASE Ends(h)
  BY <1>2, <1>3, EndsStays
<1>4. CASE slot' = [slot EXCEPT ![h].pc = "store", ![h].list = NoList]
  <2>1. PICK s : s = [slot[h] EXCEPT !.pc = "store", !.list = NoList]
    OBVIOUS
  <2>2. slot' = [slot EXCEPT ![h] = s]
    BY <1>4, <2>1, ListChanged
  <2>3. slot[h] \in SlotType(Sent, Len(drafts), Len(cards)) /\ slot[h].msg \in Sent
    BY <1>1, SlotFields
  <2>4. s \in SlotType(Sent, Len(drafts), Len(cards)) /\ s.pc = "store" /\ s.list = NoList
        /\ s.msg = slot[h].msg
    BY <2>1, <2>3, NotReadType DEF SlotType
  <2> QED
    BY <1>1, <1>2, <2>2, <2>3, <2>4, NotReadType, GoesStays
<1> QED
  BY <1>3, <1>4 DEF Converse

LEMMA StoreStays ==
  ASSUME Rest, AllGood, NEW h \in Slot, Store(h)
  PROVE  Stays
<1>1. UNCHANGED <<said, extra, marks, lapses, drafts, cards>> /\ slot[h].pc = "store"
      /\ slot' = [slot EXCEPT ![h].pc = "send"]
  BY DEF Store, Goes
<1>2. slot[h] \in SlotType(Sent, Len(drafts), Len(cards)) /\ slot[h].msg \in Sent
      /\ slot[h].list \in List
      /\ \A i \in DOMAIN slot[h].list.ids : slot[h].list.ids[i] <= Len(drafts)
  BY <1>1, SlotFields
<1>3. selection' \in List /\ \A i \in DOMAIN selection'.ids : selection'.ids[i] <= Len(drafts)
  BY <1>2, SameSelection DEF Store
<1>4. faults' \in 0..MaxFaults /\ \A m \in Msg : lapses[m] <= faults'
  BY FaultCounts DEF Store
<1>5. extra \in 0..MaxExtra /\ marks \subseteq Sent /\ lapses \in [Msg -> 0..MaxFaults]
  BY DEF Rest
<1>6. Rest' /\ Grows
  BY <1>1, <1>3, <1>4, <1>5, RowsUnchanged, RestStays
<1>7. PICK s : s = [slot[h] EXCEPT !.pc = "send"]
  OBVIOUS
<1>8. slot' = [slot EXCEPT ![h] = s]
  BY <1>1, <1>7, PcChanged
<1>9. s \in SlotType(Sent, Len(drafts), Len(cards)) /\ s.pc = "send" /\ s.list = slot[h].list
      /\ s.msg = slot[h].msg
  BY <1>2, <1>7 DEF SlotType
<1> QED
  BY <1>1, <1>2, <1>6, <1>8, <1>9, GoesStays

LEMMA SendTextStays ==
  ASSUME Rest, AllGood, NEW h \in Slot, SendText(h)
  PROVE  Stays
<1>1. Rest' /\ Grows
  BY OnlySlotStays DEF SendText
<1> QED
  BY <1>1, EndsStays DEF SendText

LEMMA SendCardStays ==
  ASSUME Rest, AllGood, NEW h \in Slot, SendCard(h)
  PROVE  Stays
<1>1. /\ UNCHANGED <<said, extra, marks, lapses, drafts, selection, faults>>
      /\ slot[h].pc = "send" /\ slot[h].draft # 0 /\ Len(cards) < MaxCard
      /\ cards' = Append(cards, slot[h].draft)
      /\ slot' = [slot EXCEPT ![h].pc = "bind", ![h].card = Len(cards')]
  BY DEF SendCard
<1>2. slot[h] \in SlotType(Sent, Len(drafts), Len(cards)) /\ slot[h].msg \in Sent
      /\ slot[h].draft \in 0..Len(drafts)
      /\ \A i \in DOMAIN slot[h].list.ids : slot[h].list.ids[i] <= Len(drafts)
  BY <1>1, SlotFields
<1>3. cards \in Seq(DOMAIN drafts) /\ Len(cards) \in Nat /\ slot[h].draft \in DOMAIN drafts
      /\ MaxCard \in Nat /\ Len(drafts) \in Nat
  BY <1>1, <1>2, RowsCount DEF Rest
<1>4. cards' \in Seq(DOMAIN drafts) /\ Len(cards') = Len(cards) + 1
  BY <1>1, <1>3, Appended
<1>5. Sent' = Sent
  BY <1>1 DEF Sent
<1>6. Rest'
  <2>1. Len(cards') <= MaxCard
    BY <1>1, <1>3, <1>4
  <2> QED
    BY <1>1, <1>4, <1>5, <2>1 DEF Rest, Existing, LapseInv
<1>7. Grows
  <2>1. Len(drafts) <= Len(drafts') /\ Len(cards) <= Len(cards')
    BY <1>1, <1>3, <1>4
  <2> QED
    BY <1>1, <1>5, <2>1 DEF Grows
<1>8. PICK k : k = Len(cards')
  OBVIOUS
<1>9. PICK s : s = [slot[h] EXCEPT !.pc = "bind", !.card = k]
  OBVIOUS
<1>10. slot' = [slot EXCEPT ![h] = s]
  BY <1>1, <1>8, <1>9, PcCardChanged
<1>11. k \in Nat /\ k # 0 /\ Len(cards) <= k /\ k \in 0..k
  BY <1>3, <1>4, <1>8
<1>12. s \in SlotType(Sent, Len(drafts'), Len(cards'))
  <2>1. SlotType(Sent, Len(drafts), Len(cards)) \subseteq SlotType(Sent, Len(drafts), k)
    BY <1>3, <1>11, SlotTypeGrows
  <2>2. slot[h] \in SlotType(Sent, Len(drafts), k)
    BY <1>2, <2>1
  <2>3. s \in SlotType(Sent, Len(drafts), k)
    BY <1>9, <1>11, <2>2 DEF SlotType
  <2> QED
    BY <1>1, <1>8, <2>3
<1>13. s.pc = "bind" /\ s.card # 0 /\ s.list = slot[h].list /\ s.msg = slot[h].msg
  BY <1>2, <1>9, <1>11 DEF SlotType
<1> QED
  BY <1>1, <1>2, <1>6, <1>7, <1>10, <1>12, <1>13, GoesStays

LEMMA BindStays ==
  ASSUME Rest, AllGood, NEW h \in Slot, Bind(h)
  PROVE  Stays
<1>1. UNCHANGED <<said, extra, marks, lapses, selection, cards>> /\ slot[h].pc = "bind"
      /\ Ends(h)
  BY DEF Bind
<1>2. slot[h].draft \in 0..Len(drafts) /\ slot[h].card \in 1..MaxCard
  <2>1. slot[h].card \in 0..Len(cards) /\ slot[h].card # 0 /\ slot[h].draft \in 0..Len(drafts)
    BY <1>1, SlotFields DEF Good
  <2>2. Len(cards) <= MaxCard /\ Len(cards) \in Nat /\ MaxCard \in Nat
    BY RowsCount DEF Rest
  <2> QED
    BY <2>1, <2>2
<1>3. SameRows(drafts')
  <2>1. CASE UNCHANGED drafts
    BY <2>1, RowsUnchanged
  <2>2. CASE drafts' = [drafts EXCEPT ![slot[h].draft].card = slot[h].card]
    <3>1. CASE slot[h].draft \in 1..Len(drafts)
      BY <1>2, <2>2, <3>1, CardChanged
    <3>2. CASE slot[h].draft \notin 1..Len(drafts)
      <4>1. slot[h].draft \notin DOMAIN drafts
        BY <3>2, RowsCount
      <4>2. drafts' = drafts
        BY <2>2, <4>1, RowsCount DEF Rest
      <4> QED
        BY <4>2, RowsUnchanged
    <3> QED
      BY <3>1, <3>2
  <2> QED
    BY <2>1, <2>2 DEF Bind
<1>4. faults' \in 0..MaxFaults /\ \A m \in Msg : lapses[m] <= faults'
  BY FaultCounts DEF Bind
<1>5. extra \in 0..MaxExtra /\ marks \subseteq Sent /\ lapses \in [Msg -> 0..MaxFaults]
  BY DEF Rest
<1>6. Rest' /\ Grows
  BY <1>1, <1>3, <1>4, <1>5, SameSelection, RestStays
<1> QED
  BY <1>1, <1>6, EndsStays

LEMMA ActStays ==
  ASSUME Rest, AllGood, NEW h \in Slot, Act(h)
  PROVE  Stays
<1>1. UNCHANGED <<said, extra, marks, lapses, selection, cards, faults>> /\ slot[h].pc = "act"
  BY DEF Act
<1>2. slot[h] \in SlotType(Sent, Len(drafts), Len(cards)) /\ slot[h].msg \in Sent
      /\ slot[h].draft \in 0..Len(drafts) /\ Len(drafts) \in Nat
  BY <1>1, SlotFields, RowsCount
<1>3. /\ extra \in 0..MaxExtra /\ marks \subseteq Sent /\ lapses \in [Msg -> 0..MaxFaults]
      /\ faults \in 0..MaxFaults /\ \A m \in Msg : lapses[m] <= faults
  BY DEF Rest, LapseInv
<1>4. CASE Ends(h) /\ UNCHANGED drafts
  <2>1. Rest' /\ Grows
    BY <1>1, <1>3, <1>4, RowsUnchanged, SameSelection, RestStays
  <2> QED
    BY <1>4, <2>1, EndsStays
<1> DEFINE left == IF slot[h].read.intent = "move" THEN slot[h].draft ELSE 0
<1>5. CASE /\ slot[h].draft \in PendingIds(drafts)
           /\ drafts' = [drafts EXCEPT ![slot[h].draft].status = Outcome(h)]
           /\ slot' = [slot EXCEPT ![h].pc = "store", ![h].list = NoList, ![h].read = NotRead,
                                   ![h].draft = left]
  <2>1. Outcome(h) \in {PENDING, "SETTLED"}
    BY DEF Outcome
  <2>2. SameRows(drafts')
    BY <1>5, <2>1, StatusChanged
  <2>3. Rest' /\ Grows
    BY <1>1, <1>3, <2>2, SameSelection, RestStays
  <2>4. PICK d : d = left
    OBVIOUS
  <2>5. d \in 0..Len(drafts)
    BY <1>2, <2>4
  <2>6. PICK s : s = [slot[h] EXCEPT !.pc = "store", !.list = NoList, !.read = NotRead,
                                     !.draft = d]
    OBVIOUS
  <2>7. slot' = [slot EXCEPT ![h] = s]
    BY <1>5, <2>4, <2>6, ListReadDraftChanged
  <2>8. s \in SlotType(Sent, Len(drafts), Len(cards)) /\ s.pc = "store" /\ s.list = NoList
        /\ s.msg = slot[h].msg
    BY <1>2, <2>5, <2>6, NotReadType DEF SlotType
  <2>9. Len(drafts') = Len(drafts)
    BY <2>2 DEF SameRows
  <2> QED
    BY <1>1, <1>2, <2>3, <2>7, <2>8, <2>9, NotReadType, GoesStays
<1> QED
  BY <1>4, <1>5 DEF Act

LEMMA FindStays ==
  ASSUME Rest, AllGood, NEW h \in Slot, Find(h)
  PROVE  Stays
<1>1. UNCHANGED <<said, extra, marks, lapses, drafts, selection, cards, faults>>
      /\ slot[h].pc = "dispatch" /\ Sent' = Sent
  BY DEF Find, Sent
<1>2. Rest' /\ Grows
  BY <1>1, OnlySlotStays
<1>3. /\ slot[h] \in SlotType(Sent, Len(drafts), Len(cards)) /\ slot[h].msg \in Sent
      /\ said[slot[h].msg] \in TextType /\ Good(slot[h])
      /\ \A i \in DOMAIN slot[h].list.ids : slot[h].list.ids[i] <= Len(drafts)
      /\ Len(drafts) \in Nat /\ PendingIds(drafts) \subseteq 1..Len(drafts)
      /\ drafts \in Seq(DraftRow)
  BY <1>1, SlotFields, RowsCount DEF Rest
<1> DEFINE found == Found(h).draft
           seen == Found(h)
<1>4. PICK a \in Asks(h, Deciding) :
        slot' = [slot EXCEPT ![h] =
             IF found = 0 THEN [slot[h] EXCEPT !.pc = "store", !.list = Ask(h, a.intent)]
             ELSE IF a.intent = "move" /\ ~a.path
             THEN [slot[h] EXCEPT !.pc = "store", !.list = NoList]
             ELSE [slot[h] EXCEPT !.pc = "act", !.read = a, !.draft = found,
                                  !.known = Len(drafts)]]
  BY DEF Find
<1>5. /\ found \in PendingIds(drafts) \cup {0}
      /\ Chosen(h) \in PendingIds(drafts) => found = Chosen(h)
      /\ /\ found # 0 /\ Chosen(h) \notin PendingIds(drafts)
         /\ Text(h).reply = None /\ Text(h).quotes = {}
         /\ found \notin BoundTo(drafts, slot[h].msg)
         => \A d \in PendingIds(drafts) : d = found
  BY <1>3, ListedAssumption, ResolveMeans DEF Found
<1> HIDE DEF found
<1>6. a.intent \in Deciding /\ a \in ReadAs(h)
  BY DEF Asks
<1>7. CASE found = 0
  <2>1. PICK list : list = Ask(h, a.intent)
    OBVIOUS
  <2>2. list \in List /\ \A i \in DOMAIN list.ids : list.ids[i] <= Len(drafts)
    <3>1. TypeOK
      BY GoodMeans
    <3> QED
      BY <1>6, <2>1, <3>1, AskType DEF Existing
  <2>3. PICK s : s = [slot[h] EXCEPT !.pc = "store", !.list = list]
    OBVIOUS
  <2>4. slot' = [slot EXCEPT ![h] = s]
    BY <1>4, <1>7, <2>1, <2>3
  <2>5. s \in SlotType(Sent, Len(drafts), Len(cards)) /\ s.pc = "store" /\ s.list = list
        /\ s.msg = slot[h].msg
    BY <1>3, <2>2, <2>3 DEF SlotType
  <2> QED
    BY <1>1, <1>2, <1>3, <2>2, <2>4, <2>5, GoesStays
<1>8. CASE found # 0 /\ a.intent = "move" /\ ~a.path
  <2>1. PICK s : s = [slot[h] EXCEPT !.pc = "store", !.list = NoList]
    OBVIOUS
  <2>2. slot' = [slot EXCEPT ![h] = s]
    BY <1>4, <1>8, <2>1
  <2>3. s \in SlotType(Sent, Len(drafts), Len(cards)) /\ s.pc = "store" /\ s.list = NoList
        /\ s.msg = slot[h].msg
    BY <1>3, <2>1, NotReadType DEF SlotType
  <2> QED
    BY <1>1, <1>2, <1>3, <2>2, <2>3, NotReadType, GoesStays
<1>9. CASE found # 0 /\ ~(a.intent = "move" /\ ~a.path)
  <2>1. PICK n : n = Len(drafts)
    OBVIOUS
  <2>2. PICK s : s = [slot[h] EXCEPT !.pc = "act", !.read = a, !.draft = found, !.known = n]
    OBVIOUS
  <2>3. slot' = [slot EXCEPT ![h] = s]
    BY <1>4, <1>9, <2>1, <2>2
  <2>4. /\ a \in ReadingType
        /\ a.intent = "approve" /\ "refuse" \in Cues(h) => a.by = "llm" /\ a.confidence >= 60
    <3>1. Cues(h) \in SUBSET Cue /\ Names(h) \in BOOLEAN
      BY <1>3, RuleTypes DEF Cues, Names, WordsFor, Text, TextType
    <3> QED
      BY <1>6, <3>1, ReadingsMean DEF ReadAs
  <2>5. found \in 0..n /\ n \in 0..n
    BY <1>3, <1>5, <2>1
  <2>6. s \in SlotType(Sent, n, Len(cards))
    BY <1>3, <2>1, <2>2, <2>4, <2>5 DEF SlotType
  <2>7. s.pc = "act" /\ s.list = slot[h].list /\ s.msg = slot[h].msg /\ s.read = a
        /\ s.draft = found /\ s.known = n
    BY <1>3, <2>2 DEF SlotType
  <2>8. ChosenIn(s) = Chosen(h) /\ CuesIn(s) = Cues(h) /\ said[s.msg] = Text(h)
    BY <2>7 DEF ChosenIn, Chosen, CuesIn, Cues, Text
  <2>9. FoundIn(s)
    <3>1. 0 \notin PendingIds(drafts)
      BY <1>3
    <3> QED
      BY <1>5, <1>9, <2>4, <2>7, <2>8, <3>1 DEF FoundIn
  <2>10. FoundIn(s)'
    <3>1. ChosenIn(s)' = ChosenIn(s) /\ CuesIn(s)' = CuesIn(s)
      BY <1>1 DEF ChosenIn, CuesIn
    <3> QED
      BY <1>1, <2>9, <3>1 DEF FoundIn
  <2>11. Good(s)'
    <3>1. s \in SlotType(Sent', Len(drafts'), Len(cards')) /\ s.msg \in Sent'
      BY <1>1, <1>3, <2>1, <2>6, <2>7
    <3>2. s.list # NoList => said'[s.msg].number \in DOMAIN s.list.ids
      BY <1>1, <1>3, <2>7 DEF Good, Choosing
    <3> QED
      BY <1>1, <1>3, <2>7, <2>10, <3>1, <3>2 DEF Good, Existing
  <2>12. Moves(h)
    BY <2>3, <2>11 DEF Moves
  <2> QED
    BY <1>2, <2>12, MovesGood DEF Stays
<1> QED
  BY <1>7, <1>8, <1>9

-----------------------------------------------------------------------------
(* The rules' drafts of a message are counted.                              *)

Making == {"read", "agent", "dispatch"}

LEMMA Counted ==
  ASSUME Rest, CountInv, NEW m \in Msg
  PROVE  /\ IsFiniteSet(MadeOf(m)) /\ IsFiniteSet(MakersOf(m))
         /\ Cardinality(MadeOf(m)) \in Nat /\ Cardinality(MakersOf(m)) \in Nat
         /\ MarkOf(m) \in 0..1 /\ lapses[m] \in Nat
         /\ Cardinality(MadeOf(m)) + Cardinality(MakersOf(m)) <= MarkOf(m) + lapses[m]
<1>1. DOMAIN drafts = 1..Len(drafts) /\ Len(drafts) \in Nat
  BY RowsCount
<1>2. IsFiniteSet(DOMAIN drafts)
  <2> SUFFICES ASSUME NEW n \in Nat PROVE IsFiniteSet(1..n)
    BY <1>1
  <2> QED
    BY FS_Interval
<1>3. IsFiniteSet(MadeOf(m))
  BY <1>2, FS_Subset DEF MadeOf
<1>4. IsFiniteSet(MakersOf(m))
      /\ Cardinality(MadeOf(m)) + Cardinality(MakersOf(m)) <= MarkOf(m) + lapses[m]
  BY DEF CountInv
<1>5. MarkOf(m) \in 0..1
  BY DEF MarkOf
<1>6. lapses[m] \in Nat
  BY BoundAssumption DEF Rest
<1> QED
  BY <1>3, <1>4, <1>5, <1>6, FS_CardinalityType

\* No draft is added but by the agent, and no maker started.
LEMMA CountKept ==
  ASSUME Rest, Rest', Grows, CountInv, NEW m \in Msg,
         \A d \in (DOMAIN drafts') \ DOMAIN drafts : drafts'[d].by = "agent",
         \A g \in Slot : slot'[g].pc \in Making /\ slot'[g].msg = m
                           => slot[g].pc \in Making /\ slot[g].msg = m,
         MarkOf(m) + lapses[m] <= MarkOf(m)' + lapses'[m]
  PROVE  /\ IsFiniteSet(MakersOf(m))'
         /\ (Cardinality(MadeOf(m)) + Cardinality(MakersOf(m)) <= MarkOf(m) + lapses[m])'
<1>1. MadeOf(m)' = MadeOf(m)
  <2>1. DOMAIN drafts = 1..Len(drafts) /\ DOMAIN drafts' = 1..Len(drafts')
        /\ Len(drafts) \in Nat /\ Len(drafts') \in Nat /\ Len(drafts) <= Len(drafts')
    BY RowsCount DEF Rest, Grows
  <2>2. DOMAIN drafts \subseteq DOMAIN drafts'
    BY <2>1
  <2>3. \A d \in DOMAIN drafts :
          drafts'[d].source = drafts[d].source /\ drafts'[d].by = drafts[d].by
    BY <2>1 DEF Grows
  <2> QED
    BY <2>2, <2>3 DEF MadeOf
<1>2. MakersOf(m)' \subseteq MakersOf(m)
  BY DEF MakersOf, Making
<1>3. PICK made, makers, makers2, mark, mark2 :
        made = MadeOf(m) /\ makers = MakersOf(m) /\ makers2 = MakersOf(m)'
        /\ mark = MarkOf(m) + lapses[m] /\ mark2 = MarkOf(m)' + lapses'[m]
  OBVIOUS
<1>4. /\ IsFiniteSet(makers) /\ Cardinality(made) \in Nat /\ Cardinality(makers) \in Nat
      /\ Cardinality(made) + Cardinality(makers) <= mark /\ mark \in Nat
  <2>1. \A a, b \in Nat : a + b \in Nat
    OBVIOUS
  <2> QED
    BY <1>3, <2>1, Counted
<1>5. mark <= mark2 /\ mark2 \in Nat
  <2>1. MarkOf(m)' \in Nat
    BY DEF MarkOf
  <2>2. lapses'[m] \in Nat
    BY BoundAssumption DEF Rest
  <2> QED
    BY <1>3, <2>1, <2>2
<1>6. IsFiniteSet(makers2) /\ Cardinality(makers2) <= Cardinality(makers)
      /\ Cardinality(makers2) \in Nat
  BY <1>2, <1>3, <1>4, FS_Subset, FS_CardinalityType
<1>7. Cardinality(made) + Cardinality(makers2) <= mark2
  BY <1>4, <1>5, <1>6
<1> QED
  BY <1>1, <1>3, <1>6, <1>7

\* A goroutine is started for a message and takes its mark, or a lapse.
LEMMA ArrivalCounted ==
  ASSUME Rest, AllGood, CountInv, NEW m \in Msg, NEW h \in Slot,
         Receive(m, h) \/ ReceiveUnasked(m, h)
  PROVE  CountInv'
<1>1. Stays
  BY ArrivalStays
<1>2. /\ UNCHANGED drafts /\ slot[h] = Idle
      /\ slot' = [slot EXCEPT ![h] = [Idle EXCEPT !.pc = "read", !.msg = m]]
  BY DEF Receive, ReceiveUnasked, Start
<1>3. lapses \in [Msg -> 0..MaxFaults] /\ MaxFaults \in Nat
  BY BoundAssumption DEF Rest
<1>4. [Idle EXCEPT !.pc = "read", !.msg = m].pc = "read"
      /\ [Idle EXCEPT !.pc = "read", !.msg = m].msg = m
  BY DEF Idle
<1>5. DOMAIN slot = Slot
  BY DEF AllGood
<1>6. slot'[h].pc = "read" /\ slot'[h].msg = m /\ \A g \in Slot \ {h} : slot'[g] = slot[g]
  BY <1>2, <1>4, <1>5
<1>7. ASSUME NEW x \in Msg, x # m
      PROVE  /\ IsFiniteSet(MakersOf(x))'
             /\ (Cardinality(MadeOf(x)) + Cardinality(MakersOf(x)) <= MarkOf(x) + lapses[x])'
  <2>1. MarkOf(x)' = MarkOf(x) /\ lapses'[x] = lapses[x]
    BY <1>3, <1>7 DEF Receive, ReceiveUnasked, MarkOf
  <2>2. MarkOf(x) + lapses[x] <= MarkOf(x)' + lapses'[x]
    <3>1. MarkOf(x) \in Nat /\ lapses[x] \in Nat
      BY <1>3 DEF MarkOf
    <3> QED
      BY <2>1, <3>1
  <2>3. \A g \in Slot : slot'[g].pc \in Making /\ slot'[g].msg = x
                          => slot[g].pc \in Making /\ slot[g].msg = x
    BY <1>6, <1>7
  <2> QED
    BY <1>1, <1>2, <2>2, <2>3, CountKept DEF Stays
<1>8. /\ IsFiniteSet(MakersOf(m))'
      /\ (Cardinality(MadeOf(m)) + Cardinality(MakersOf(m)) <= MarkOf(m) + lapses[m])'
  <2>1. MadeOf(m)' = MadeOf(m)
    BY <1>2 DEF MadeOf
  <2>2. MakersOf(m)' = MakersOf(m) \cup {h} /\ h \notin MakersOf(m)
    <3>1. slot[h].pc = "idle"
      BY <1>2 DEF Idle
    <3> QED
      BY <1>6, <3>1 DEF MakersOf
  <2>3. MarkOf(m)' + lapses'[m] >= MarkOf(m) + lapses[m] + 1
        /\ MarkOf(m)' + lapses'[m] \in Nat
    <3>1. CASE Receive(m, h)
      BY <1>3, <3>1 DEF Receive, MarkOf
    <3>2. CASE ReceiveUnasked(m, h)
      <4>1. lapses'[m] = lapses[m] + 1 /\ lapses[m] \in Nat
        BY <1>3, <3>2 DEF ReceiveUnasked
      <4>2. m \in marks => m \in marks'
        BY <3>2 DEF ReceiveUnasked
      <4> QED
        BY <4>1, <4>2 DEF MarkOf
    <3> QED
      BY <3>1, <3>2
  <2>4. PICK made, makers, mark, mark2 :
          made = MadeOf(m) /\ makers = MakersOf(m) /\ mark = MarkOf(m) + lapses[m]
          /\ mark2 = MarkOf(m)' + lapses'[m]
    OBVIOUS
  <2>5. /\ IsFiniteSet(makers) /\ Cardinality(made) \in Nat /\ Cardinality(makers) \in Nat
        /\ Cardinality(made) + Cardinality(makers) <= mark /\ mark \in Nat
    <3>1. \A a, b \in Nat : a + b \in Nat
      OBVIOUS
    <3> QED
      BY <2>4, <3>1, Counted
  <2>6. IsFiniteSet(makers \cup {h}) /\ Cardinality(makers \cup {h}) = Cardinality(makers) + 1
    BY <2>2, <2>4, <2>5, FS_AddElement
  <2>7. Cardinality(made) + Cardinality(makers \cup {h}) <= mark2
    BY <2>3, <2>4, <2>5, <2>6
  <2> QED
    BY <2>1, <2>2, <2>4, <2>6, <2>7
<1> QED
  BY <1>7, <1>8 DEF CountInv

\* A goroutine makes its draft and makes no more.
LEMMA CreateCounted ==
  ASSUME Rest, AllGood, CountInv, NEW h \in Slot, CreateDraft(h)
  PROVE  CountInv'
<1> DEFINE m == slot[h].msg
           row == NewDraft(h, "rules")
<1>1. /\ slot[h].pc = "dispatch" /\ drafts' = Append(drafts, row)
      /\ UNCHANGED <<marks, lapses>>
  BY DEF CreateDraft
<1>2. m \in Msg /\ drafts \in Seq(DraftRow) /\ Len(drafts) \in Nat /\ MaxFaults \in Nat
      /\ DOMAIN drafts = 1..Len(drafts) /\ lapses \in [Msg -> 0..MaxFaults]
      /\ slot[h] \in SlotType(Sent, Len(drafts), Len(cards))
  BY <1>1, SlotFields, RowsCount DEF Rest
<1>3. PICK n : n = Len(drafts) + 1
  OBVIOUS
<1>4. /\ DOMAIN drafts' = (DOMAIN drafts) \cup {n} /\ n \notin DOMAIN drafts
      /\ drafts'[n].source = m /\ drafts'[n].by = "rules"
      /\ \A d \in DOMAIN drafts : drafts'[d] = drafts[d]
  BY <1>1, <1>2, <1>3 DEF NewDraft
<1>5. slot'[h].pc \notin Making /\ \A g \in Slot \ {h} : slot'[g] = slot[g]
  <2>1. slot'[h].pc \in {"idle", "store"} /\ \A g \in Slot \ {h} : slot'[g] = slot[g]
    <3>1. DOMAIN slot = Slot
      BY DEF AllGood
    <3>2. CASE slot' = [slot EXCEPT ![h] = Idle]
      BY <3>1, <3>2 DEF Idle
    <3>3. CASE slot' = [slot EXCEPT ![h].pc = "store", ![h].list = NoList,
                                    ![h].draft = Len(drafts')]
      BY <1>2, <3>1, <3>3 DEF SlotType
    <3> QED
      BY <3>2, <3>3 DEF CreateDraft, Ends
  <2> QED
    BY <2>1 DEF Making
<1>6. ASSUME NEW x \in Msg
      PROVE  /\ IsFiniteSet(MakersOf(x))'
             /\ (Cardinality(MadeOf(x)) + Cardinality(MakersOf(x)) <= MarkOf(x) + lapses[x])'
  <2>1. PICK made, makers, mark :
          made = MadeOf(x) /\ makers = MakersOf(x) /\ mark = MarkOf(x) + lapses[x]
    OBVIOUS
  <2>2. /\ IsFiniteSet(made) /\ IsFiniteSet(makers) /\ mark \in Nat
        /\ Cardinality(made) \in Nat /\ Cardinality(makers) \in Nat
        /\ Cardinality(made) + Cardinality(makers) <= mark
    <3>1. \A a, b \in Nat : a + b \in Nat
      OBVIOUS
    <3> QED
      BY <2>1, <3>1, Counted
  <2>3. MarkOf(x)' + lapses'[x] = mark
    BY <1>1, <2>1 DEF MarkOf
  <2>4. CASE x # m
    <3>1. MadeOf(x)' = made
      BY <1>4, <2>1, <2>4 DEF MadeOf
    <3>2. MakersOf(x)' = makers
      BY <1>5, <2>1, <2>4 DEF MakersOf, Making
    <3> QED
      BY <2>2, <2>3, <3>1, <3>2
  <2>5. CASE x = m
    <3>1. MadeOf(x)' = made \cup {n} /\ n \notin made
      BY <1>4, <2>1, <2>5 DEF MadeOf
    <3>2. MakersOf(x)' = makers \ {h} /\ h \in makers
      BY <1>1, <1>5, <2>1, <2>5 DEF MakersOf, Making
    <3>3. Cardinality(made \cup {n}) = Cardinality(made) + 1
      BY <2>2, <3>1, FS_AddElement
    <3>4. IsFiniteSet(makers \ {h}) /\ Cardinality(makers \ {h}) = Cardinality(makers) - 1
      BY <2>2, <3>2, FS_RemoveElement
    <3>5. Cardinality(made \cup {n}) + Cardinality(makers \ {h}) <= mark
      BY <2>2, <3>3, <3>4
    <3> QED
      BY <2>3, <3>1, <3>2, <3>4, <3>5
  <2> QED
    BY <2>4, <2>5
<1> QED
  BY <1>6 DEF CountInv

\* No other step of a goroutine makes a draft for the rules or starts anything.
LEMMA HandleCounted ==
  ASSUME Rest, AllGood, CountInv, Stays, NEW h \in Slot, Handle(h), ~CreateDraft(h)
  PROVE  CountInv'
<1>1. DOMAIN slot = Slot /\ slot[h] \in SlotType(Sent, Len(drafts), Len(cards))
  BY SlotFields
<1>2. UNCHANGED <<marks, lapses>>
  BY DEF Handle, Read, AgentCreates, AgentDecides, AgentRevises, AgentDraftsNothing,
     AgentReplies, AgentFails, Converse, Find, Act, Store, SendText, SendCard, Bind
<1>3. \A d \in (DOMAIN drafts') \ DOMAIN drafts : drafts'[d].by = "agent"
  <2>1. drafts \in Seq(DraftRow) /\ Len(drafts) \in Nat /\ DOMAIN drafts = 1..Len(drafts)
    BY RowsCount DEF Rest
  <2>2. ASSUME NEW rows, SameRows(rows), drafts' = Append(rows, NewDraft(h, "agent"))
        PROVE  \A d \in (DOMAIN drafts') \ DOMAIN drafts : drafts'[d].by = "agent"
    <3>1. PICK row : row = NewDraft(h, "agent")
      OBVIOUS
    <3>2. row.by = "agent"
      BY <3>1 DEF NewDraft
    <3>3. rows \in Seq(DraftRow) /\ Len(rows) = Len(drafts)
      BY <2>2 DEF SameRows
    <3>4. DOMAIN drafts' = 1..(Len(drafts) + 1) /\ drafts'[Len(drafts) + 1] = row
      BY <2>1, <2>2, <3>1, <3>3
    <3>5. ASSUME NEW d \in (DOMAIN drafts') \ DOMAIN drafts PROVE d = Len(drafts) + 1
      BY <2>1, <3>4
    <3> QED
      BY <3>2, <3>4, <3>5
  <2>3. CASE AgentCreates(h)
    <3>1. SameRows(drafts)
      BY DEF Rest, SameRows
    <3> QED
      BY <2>2, <2>3, <3>1 DEF AgentCreates
  <2>4. CASE AgentRevises(h)
    <3>1. PICK d \in PendingIds(drafts) : drafts' = Append(Settled(d), NewDraft(h, "agent"))
      BY <2>4 DEF AgentRevises
    <3>2. SameRows(Settled(d))
      BY StatusChanged DEF Settled
    <3> QED
      BY <2>2, <3>1, <3>2
  <2>5. CASE ~AgentCreates(h) /\ ~AgentRevises(h)
    <3>1. DOMAIN drafts' = DOMAIN drafts
      BY <2>5 DEF Handle, Read, AgentDecides, AgentDraftsNothing, AgentReplies, AgentFails,
         Converse, Find, Act, Store, SendText, SendCard, Bind, Settled
    <3> QED
      BY <3>1
  <2> QED
    BY <2>3, <2>4, <2>5
<1>4. /\ \A g \in Slot \ {h} : slot'[g] = slot[g]
      /\ slot'[h].pc \in Making => slot[h].pc \in Making /\ slot'[h].msg = slot[h].msg
  <2>1. CASE slot' = [slot EXCEPT ![h] = Idle]
    BY <1>1, <2>1 DEF Idle, Making
  <2>2. CASE Read(h)
    BY <1>1, <2>2 DEF Read, Goes, SlotType, Making
  <2>3. CASE slot' = [slot EXCEPT ![h].pc = "store", ![h].list = NoList]
    BY <1>1, <2>3 DEF SlotType, Making
  <2>4. CASE Find(h)
    <3> DEFINE found == Found(h).draft
    <3>1. PICK a \in Asks(h, Deciding) :
            slot' = [slot EXCEPT ![h] =
              IF found = 0 THEN [slot[h] EXCEPT !.pc = "store", !.list = Ask(h, a.intent)]
              ELSE IF a.intent = "move" /\ ~a.path
              THEN [slot[h] EXCEPT !.pc = "store", !.list = NoList]
              ELSE [slot[h] EXCEPT !.pc = "act", !.read = a, !.draft = found,
                                   !.known = Len(drafts)]]
      BY <2>4 DEF Find
    <3>2. PICK list : list = Ask(h, a.intent)
      OBVIOUS
    <3> HIDE DEF found
    <3>3. slot'[h].pc \in {"store", "act"} /\ \A g \in Slot \ {h} : slot'[g] = slot[g]
      BY <1>1, <3>1, <3>2 DEF SlotType
    <3> QED
      BY <3>3 DEF Making
  <2>5. CASE \E d : slot' = [slot EXCEPT ![h].pc = "store", ![h].list = NoList,
                                         ![h].read = NotRead, ![h].draft = d]
    BY <1>1, <2>5 DEF SlotType, Making
  <2>6. CASE slot' = [slot EXCEPT ![h].pc = "send"]
    BY <1>1, <2>6 DEF SlotType, Making
  <2>7. CASE SendCard(h)
    BY <1>1, <2>7 DEF SendCard, SlotType, Making
  <2>8. CASE \E d : slot' = [slot EXCEPT ![h].draft = d]
    BY <1>1, <2>8 DEF SlotType, Making
  <2>9. CASE AgentFails(h)
    BY <1>1, <2>9 DEF AgentFails, SlotType, Making
  <2>10. CASE \E d : slot' = [slot EXCEPT ![h].pc = "store", ![h].list = NoList, ![h].draft = d]
    BY <1>1, <2>10 DEF SlotType, Making
  <2>11. CASE UNCHANGED slot
    BY <2>11
  <2> QED
    BY <2>1, <2>2, <2>3, <2>4, <2>5, <2>6, <2>7, <2>8, <2>9, <2>10, <2>11
       DEF Handle, AgentCreates, AgentDecides, AgentRevises, AgentDraftsNothing, AgentReplies,
           Converse, Act, Store, SendText, Bind, Goes, Ends
<1>5. ASSUME NEW m \in Msg
      PROVE  /\ IsFiniteSet(MakersOf(m))'
             /\ (Cardinality(MadeOf(m)) + Cardinality(MakersOf(m)) <= MarkOf(m) + lapses[m])'
  <2>1. MarkOf(m) + lapses[m] <= MarkOf(m)' + lapses'[m]
    <3>1. MarkOf(m) \in Nat /\ lapses[m] \in Nat
      BY Counted
    <3> QED
      BY <1>2, <3>1 DEF MarkOf
  <2> QED
    BY <1>3, <1>4, <2>1, CountKept DEF Stays
<1> QED
  BY <1>5 DEF CountInv

\* Nor does any step outside; a mark that goes leaves a lapse.
LEMMA OutsideCounted ==
  ASSUME Rest, AllGood, CountInv, Stays,
         \/ Elsewhere \/ SelectionExpires \/ ServerCrash
         \/ \E m \in Msg : Send(m) \/ MarkExpires(m) \/ Drop(m) \/ DropFirst(m)
  PROVE  CountInv'
<1>1. DOMAIN drafts' = DOMAIN drafts
  BY DEF Elsewhere, Settled, SelectionExpires, ServerCrash, Send, MarkExpires, Drop, DropFirst
<1>2. \A g \in Slot : slot'[g].pc \in Making
                        => slot[g].pc \in Making /\ slot'[g].msg = slot[g].msg
  BY DEF Elsewhere, SelectionExpires, ServerCrash, Send, MarkExpires, Drop, DropFirst, Idle,
     Making
<1>3. lapses \in [Msg -> 0..MaxFaults] /\ MaxFaults \in Nat
  BY BoundAssumption DEF Rest
<1>4. ASSUME NEW m \in Msg
      PROVE  /\ IsFiniteSet(MakersOf(m))'
             /\ (Cardinality(MadeOf(m)) + Cardinality(MakersOf(m)) <= MarkOf(m) + lapses[m])'
  <2>1. MarkOf(m) + lapses[m] <= MarkOf(m)' + lapses'[m]
    <3>1. MarkOf(m) \in Nat /\ lapses[m] \in Nat
      BY <1>3 DEF MarkOf
    <3>2. ASSUME NEW x \in Msg, MarkExpires(x)
          PROVE  MarkOf(m) + lapses[m] <= MarkOf(m)' + lapses'[m]
      BY <1>3, <3>2 DEF MarkExpires, MarkOf
    <3>3. CASE lapses' = lapses /\ marks \subseteq marks'
      BY <3>1, <3>3 DEF MarkOf
    <3> QED
      BY <3>2, <3>3 DEF DropFirst, Elsewhere, SelectionExpires, ServerCrash, Send, Drop
  <2> QED
    BY <1>1, <1>2, <2>1, CountKept DEF Stays
<1> QED
  BY <1>4 DEF CountInv

-----------------------------------------------------------------------------
(* The theorems.                                                            *)

LEMMA InitInv == Init => IInv
<1> SUFFICES ASSUME Init PROVE IInv
  OBVIOUS
<1>1. Sent = {} /\ Existing(selection) /\ drafts = <<>> /\ cards = <<>>
  BY NotReadType DEF Init, Sent, Existing
<1>2. Rest
  <2>1. said \in [Msg -> {Unsent} \cup TextType]
    BY DEF Init
  <2>2. extra \in 0..MaxExtra /\ marks \subseteq Sent /\ lapses \in [Msg -> 0..MaxFaults]
        /\ faults \in 0..MaxFaults
    BY BoundAssumption DEF Init
  <2>3. drafts \in Seq(DraftRow) /\ Len(drafts) <= MaxDraft
    BY <1>1, BoundAssumption
  <2>4. cards \in Seq(DOMAIN drafts) /\ Len(cards) <= MaxCard
    BY <1>1, BoundAssumption
  <2>5. selection \in List
    BY NotReadType DEF Init
  <2>6. LapseInv
    BY DEF Init, LapseInv
  <2> QED
    BY <1>1, <2>1, <2>2, <2>3, <2>4, <2>5, <2>6 DEF Rest
<1>3. AllGood
  <2>1. Good(Idle)
    <3>1. Idle \in SlotType(Sent, Len(drafts), Len(cards))
      <4>1. Len(drafts) \in Nat /\ Len(cards) \in Nat
        BY RowsCount, <1>2
      <4> QED
        BY <4>1, NotReadType DEF Idle, SlotType
    <3> QED
      BY <3>1, NotReadType DEF Good, Idle, Existing, Choosing
  <2> QED
    BY <2>1 DEF Init, AllGood
<1>4. CountInv
  <2> SUFFICES ASSUME NEW m \in Msg
               PROVE  IsFiniteSet(MakersOf(m)) /\ Cardinality(MadeOf(m)) = 0
                      /\ Cardinality(MakersOf(m)) = 0 /\ lapses[m] = 0 /\ MarkOf(m) = 0
    BY DEF CountInv
  <2>1. MadeOf(m) = {}
    BY <1>1 DEF MadeOf
  <2>2. MakersOf(m) = {}
    BY DEF Init, MakersOf, Idle
  <2>3. lapses[m] = 0 /\ MarkOf(m) = 0
    BY DEF Init, MarkOf
  <2>4. IsFiniteSet({}) /\ Cardinality({}) = 0
    BY FS_EmptySet
  <2> QED
    BY <2>1, <2>2, <2>3, <2>4
<1> QED
  BY <1>2, <1>3, <1>4, GoodMeans DEF IInv

LEMMA StepInv == IInv /\ [Next]_vars => IInv'
<1> SUFFICES ASSUME IInv, [Next]_vars PROVE IInv'
  OBVIOUS
<1>1. Rest /\ AllGood /\ CountInv
  BY GoodMeans DEF IInv
<1> SUFFICES Rest' /\ AllGood' /\ CountInv'
  <2>1. ASSUME Rest', AllGood', CountInv' PROVE IInv'
    <3>1. (Rest /\ AllGood => TypeOK /\ SlotInv /\ LapseInv /\ FoundInv)'
      BY GoodMeans, PTL
    <3> QED
      BY <2>1, <3>1 DEF IInv
  <2> QED
    BY <2>1
<1>2. CASE UNCHANGED vars
  <2>1. Rest'
    BY <1>1, <1>2 DEF vars, Rest, Sent, Existing, LapseInv
  <2>2. Grows
    BY <1>1, <1>2, RowsCount DEF vars, Grows, Sent
  <2>3. AllGood'
    BY <1>1, <1>2, <2>1, <2>2, MovesGood DEF vars
  <2>4. CountInv'
    BY <1>1, <1>2 DEF vars, CountInv, MadeOf, MakersOf, MarkOf
  <2> QED
    BY <2>1, <2>3, <2>4
<1>3. ASSUME NEW m \in Msg, Send(m) PROVE Rest' /\ AllGood' /\ CountInv'
  BY <1>1, <1>3, SendStays, OutsideCounted DEF Stays
<1>4. CASE \/ Elsewhere \/ SelectionExpires \/ ServerCrash
           \/ \E m \in Msg : MarkExpires(m) \/ Drop(m) \/ DropFirst(m)
  <2>1. Stays
    BY <1>1, <1>4, OutsideStays
  <2> QED
    BY <1>1, <1>4, <2>1, OutsideCounted DEF Stays
<1>5. ASSUME NEW m \in Msg, NEW h \in Slot, Receive(m, h) \/ ReceiveUnasked(m, h)
      PROVE  Rest' /\ AllGood' /\ CountInv'
  BY <1>1, <1>5, ArrivalStays, ArrivalCounted DEF Stays
<1>6. ASSUME NEW h \in Slot, Handle(h) PROVE Rest' /\ AllGood' /\ CountInv'
  <2>1. Stays
    BY <1>1, <1>6, ReadStays, AgentStays, CreateStays, ConverseStays, FindStays, ActStays,
       StoreStays, SendTextStays, SendCardStays, BindStays DEF Handle
  <2>2. CASE CreateDraft(h)
    BY <1>1, <2>1, <2>2, CreateCounted DEF Stays
  <2>3. CASE ~CreateDraft(h)
    BY <1>1, <1>6, <2>1, <2>3, HandleCounted DEF Stays
  <2> QED
    BY <2>2, <2>3
<1> QED
  BY <1>2, <1>3, <1>4, <1>5, <1>6 DEF Next

\* The inductive invariant holds: in particular a goroutine that will decide a
\* draft has found it rightly, whatever has happened since.
THEOREM Invariance == Spec => []IInv
BY InitInv, StepInv, PTL DEF Spec

\* The stores, the goroutines and their local variables keep their types.
THEOREM TypeCorrect == Spec => []TypeOK
<1>1. IInv => TypeOK
  BY DEF IInv
<1> QED
  BY <1>1, Invariance, PTL

\* The rules make one draft for a message, however often and however fast its
\* event is delivered and whatever the agent did with it before, but for the
\* lapses of its mark.
THEOREM OneDraftPerMessageHolds == Spec => []OneDraftPerMessage
<1>1. IInv => OneDraftPerMessage
  <2> SUFFICES ASSUME IInv, NEW m \in Msg
               PROVE  Cardinality(MadeOf(m)) <= 1 + lapses[m]
    BY DEF OneDraftPerMessage, MadeOf
  <2>1. Rest /\ CountInv
    BY GoodMeans DEF IInv
  <2>2. PICK a, b, c : a = Cardinality(MadeOf(m)) /\ b = Cardinality(MakersOf(m)) /\ c = MarkOf(m)
    OBVIOUS
  <2>3. a \in Nat /\ b \in Nat /\ c \in 0..1 /\ lapses[m] \in Nat /\ a + b <= c + lapses[m]
    BY <2>1, <2>2, Counted
  <2> QED
    BY <2>2, <2>3
<1> QED
  BY <1>1, Invariance, PTL

\* A draft that a message decides is pending, and the goroutine has not moved.
LEMMA DecidesPending ==
  ASSUME IInv, [Next]_vars, NEW h \in Slot, Decides(h)
  PROVE  slot[h].pc = "act" /\ slot[h].draft \in PendingIds(drafts)
<1>1. slot[h].pc = "act" /\ slot'[h].pc = "store"
  BY DEF Decides
<1>2. DOMAIN slot = Slot
  BY GoodMeans DEF IInv, AllGood
<1>3. slot'[h] # slot[h]
  BY <1>1
<1>4. Idle.pc = "idle"
  BY DEF Idle
<1>5. ASSUME NEW g \in Slot, Handle(g) PROVE g = h /\ Act(h)
  <2>1. g = h
    <3>1. \A x \in Slot \ {g} : slot'[x] = slot[x]
      BY <1>2, <1>5 DEF Handle, Read, AgentCreates, AgentDecides, AgentRevises,
         AgentDraftsNothing, AgentReplies, AgentFails, CreateDraft, Converse, Find, Act, Store,
         SendText, SendCard, Bind, Goes, Ends
    <3> QED
      BY <1>3, <3>1
  <2>2. Act(h)
    BY <1>1, <1>5, <2>1 DEF Handle, Read, AgentCreates, AgentDecides, AgentRevises,
       AgentDraftsNothing, AgentReplies, AgentFails, CreateDraft, Converse, Find, Store,
       SendText, SendCard, Bind
  <2> QED
    BY <2>1, <2>2
<1>6. ASSUME NEW m \in Msg, NEW g \in Slot, Receive(m, g) \/ ReceiveUnasked(m, g) PROVE FALSE
  <2>1. slot[g] = Idle /\ \A x \in Slot \ {g} : slot'[x] = slot[x]
    BY <1>2, <1>6 DEF Receive, ReceiveUnasked, Start
  <2> QED
    BY <1>1, <1>3, <1>4, <2>1
<1>7. ASSUME UNCHANGED slot PROVE FALSE
  BY <1>3, <1>7
<1>8. ASSUME ServerCrash PROVE FALSE
  BY <1>1, <1>4, <1>8 DEF ServerCrash
<1>9. PICK g \in Slot : Handle(g)
  BY <1>6, <1>7, <1>8 DEF Next, vars, Send, MarkExpires, Drop, DropFirst, Elsewhere,
     SelectionExpires
<1>10. Act(h)
  BY <1>5, <1>9
<1>11. slot'[h] = Idle \/ slot[h].draft \in PendingIds(drafts)
  BY <1>2, <1>10 DEF Act, Ends
<1> QED
  BY <1>1, <1>4, <1>11

\* A text that names no draft never decides one of several: of those that were
\* pending when it was looked up, the one it decides is the last left.
THEOREM NeverGuessesHolds == Spec => NeverGuesses
<1>1. IInv /\ [Next]_vars =>
        [ \A h \in Slot :
            Decides(h) /\ Chosen(h) = 0 /\ Text(h).reply = None
                /\ Text(h).quotes = {} /\ slot[h].draft \notin BoundTo(drafts, slot[h].msg)
              => \A d \in PendingIds(drafts) \ {slot[h].draft} : d > slot[h].known ]_vars
  BY DecidesPending DEF IInv, FoundInv
<1> QED
  BY <1>1, Invariance, PTL DEF Spec, NeverGuesses

\* A number decides the draft with that number in the list it was read against,
\* or that draft is no longer pending.
THEOREM NumberMeansEntryHolds == Spec => NumberMeansEntry
<1>1. IInv /\ [Next]_vars =>
        [ \A h \in Slot :
            Decides(h) /\ slot[h].list # NoList
              => LET meant == slot[h].list.ids[Text(h).number]
                 IN  slot[h].draft = meant \/ meant \notin PendingIds(drafts) ]_vars
  BY DecidesPending DEF IInv, FoundInv, Chosen
<1> QED
  BY <1>1, Invariance, PTL DEF Spec, NumberMeansEntry

\* Words that refuse approve nothing, unless an LLM that is sure reads them so.
THEOREM RefusalHoldsAlways == Spec => RefusalHolds
<1>1. IInv /\ [Next]_vars =>
        [ \A h \in Slot :
            Decides(h) /\ slot[h].read.intent = "approve"
              => \/ "refuse" \notin Cues(h)
                 \/ slot[h].read.by = "llm" /\ slot[h].read.confidence >= 60 ]_vars
  BY DecidesPending DEF IInv, FoundInv
<1> QED
  BY <1>1, Invariance, PTL DEF Spec, RefusalHolds
=============================================================================
