--------------------------- MODULE AgentLoopProofs ---------------------------
(***************************************************************************)
(* Proofs about the agent's loop: its types, that no request for tools is   *)
(* left without its results, that a card shows the newest draft of its own  *)
(* turn, and that the history keeps to its window, for any set of turns and *)
(* any bounds.                                                              *)
(***************************************************************************)
EXTENDS AgentLoop, FiniteSetTheorems, WellFoundedInduction, TLAPS

-----------------------------------------------------------------------------
(* The inductive invariant.                                                 *)

InLoop == {"asking", "acting"}
Before == {"new"} \cup InLoop
Storing == {"storing"}

\* Outside the loop its variables are those of a turn that has not entered it.
LoopInv ==
  \A t \in Turn : pc[t] \notin InLoop =>
    messages[t] = <<>> /\ rounds[t] = 0 /\ calls[t] = 0 /\ at[t] = 1 /\ lastDraft[t] = 0

\* The calls of request i are answered right behind it.
AllAnswered(list, i) ==
  \A j \in 1..list[i].call :
    i + j <= Len(list) /\ list[i + j] = ToolResult(list[i].round, j)

\* The place of the request whose calls are being run.
AtHand(t) == Len(messages[t]) - at[t] + 1

\* Between two calls the request at hand has the results of the calls before,
\* and every other request has all of them.
CallsInv ==
  \A t \in Turn :
    /\ pc[t] = "asking" =>
         \A i \in DOMAIN messages[t] :
           messages[t][i].role = "assistant" => AllAnswered(messages[t], i)
    /\ pc[t] = "acting" =>
         /\ calls[t] >= 1 /\ at[t] + calls[t] - 1 <= MaxCalls
         /\ rounds[t] >= 1
         /\ AtHand(t) \in DOMAIN messages[t]
         /\ messages[t][AtHand(t)] = Request(rounds[t], at[t] + calls[t] - 1)
         /\ \A j \in 1..(at[t] - 1) :
              messages[t][AtHand(t) + j] = ToolResult(rounds[t], j)
         /\ \A i \in DOMAIN messages[t] :
              messages[t][i].role = "assistant" =>
                i = AtHand(t) \/ AllAnswered(messages[t], i)

\* d is the newest draft that t has made.
NewestOwn(t, d) ==
  /\ d <= Len(drafts)
  /\ drafts[d].source = t
  /\ \A e \in DOMAIN drafts : drafts[e].source = t => e <= d

\* What the turn was given last, and what it will answer or has answered with.
DraftInv ==
  \A t \in Turn :
    /\ pc[t] \in InLoop /\ lastDraft[t] # 0 => NewestOwn(t, lastDraft[t])
    /\ /\ pc[t] \in Storing \cup {"answered"}
       /\ result[t].by = "agent" /\ result[t].card # 0
       => NewestOwn(t, result[t].card)

\* The attempts that have pushed the message but not the answer to it.
Halfway == {a \in untrimmed : pipe[a] = "pushReply"}

\* Nothing is sent for a turn before it has its answer, so an attempt that
\* pushes the message is new in the list; half a pair counts once.
HistoryInv ==
  /\ \A t \in Turn : pc[t] \in Before => pipe[<<t, 0>>] = "unsent"
  /\ IsFiniteSet(untrimmed)
  /\ \A a \in untrimmed : pipe[a] \in {"pushReply", "trim", "done"}
  /\ Len(history) + Cardinality(Halfway) <= MaxMessages + 2 * Cardinality(untrimmed)

IInv == TypeOK /\ LoopInv /\ CallsInv /\ DraftInv /\ HistoryInv

-----------------------------------------------------------------------------
(* The draft a message resolves to.                                         *)

\* "Newest" of finitely many ids is one of them, and none is newer.
LEMMA NewestIsLast ==
  ASSUME NEW ids \in SUBSET Nat, IsFiniteSet(ids), ids # {}
  PROVE  Newest(ids) \in ids /\ \A e \in ids : e <= Newest(ids)
<1> DEFINE Newer(d) == {e \in ids : e > d}
<1> DEFINE Sets == {Newer(d) : d \in ids}
<1>1. IsWellFoundedOn(StrictSubsetOrdering(ids), FiniteSubsetsOf(ids))
  BY FS_StrictSubsetOrderingWellFounded
<1>2. Sets \subseteq FiniteSubsetsOf(ids)
  <2> SUFFICES ASSUME NEW d \in ids PROVE Newer(d) \in FiniteSubsetsOf(ids)
    OBVIOUS
  <2> QED
    BY FS_Subset DEF FiniteSubsetsOf
<1>3. Sets # {}
  OBVIOUS
<1>4. \E x \in Sets : \A y \in Sets : ~ (<<y, x>> \in StrictSubsetOrdering(ids))
  <2> HIDE DEF Sets
  <2> QED
    BY <1>1, <1>2, <1>3, WFMin
<1>5. PICK d \in ids : \A y \in Sets : ~ (<<y, Newer(d)>> \in StrictSubsetOrdering(ids))
  BY <1>4
<1>6. ASSUME NEW e \in ids PROVE e <= d
  <2> SUFFICES ASSUME e > d PROVE FALSE
    OBVIOUS
  <2>0. d \in Nat /\ e \in Nat /\ \A f \in ids : f \in Nat
    OBVIOUS
  <2>1. Newer(e) \subseteq Newer(d) /\ e \in Newer(d) /\ e \notin Newer(e)
    <3>1. ASSUME NEW f \in ids, f > e PROVE f > d
      BY <2>0, <3>1
    <3>2. ~ (e > e)
      BY <2>0
    <3> QED
      BY <3>1, <3>2
  <2>2. Newer(e) \in SUBSET ids /\ Newer(d) \in SUBSET ids /\ Newer(e) \in Sets
    OBVIOUS
  <2> HIDE DEF Newer, Sets
  <2>3. <<Newer(e), Newer(d)>> \in StrictSubsetOrdering(ids)
    BY <2>1, <2>2 DEF StrictSubsetOrdering
  <2> QED
    BY <1>5, <2>2, <2>3
<1> QED
  BY <1>6 DEF Newest

\* The pending rows are finitely many.
LEMMA PendingFinite ==
  ASSUME NEW S, NEW rows \in Seq(S)
  PROVE  PendingIds(rows) \subseteq 1..Len(rows) /\ IsFiniteSet(PendingIds(rows))
<1>1. PendingIds(rows) \subseteq 1..Len(rows) /\ Len(rows) \in Nat
  BY DEF PendingIds
<1>2. IsFiniteSet(1..Len(rows))
  <2> SUFFICES ASSUME NEW n \in Nat PROVE IsFiniteSet(1..n)
    BY <1>1
  <2> QED
    BY FS_Interval
<1> QED
  BY <1>1, <1>2, FS_Subset

\* A message resolves to a pending draft or to none.
LEMMA ResolvedIsPending ==
  ASSUME NEW S, NEW rows \in Seq(S), NEW selected, NEW reply, NEW message, NEW quoted,
         NEW limit
  PROVE  Resolve(rows, selected, reply, message, quoted, limit).draft
           \in PendingIds(rows) \cup {0}
<1> DEFINE found == Lookups(rows, selected, reply, message, quoted)
           hits == {i \in DOMAIN found : found[i] # {}}
           first == CHOOSE i \in hits : \A j \in hits : i <= j
           listed == ListPending(rows, limit)
<1>1. PendingIds(rows) \in SUBSET Nat /\ IsFiniteSet(PendingIds(rows))
  BY PendingFinite
<1>2. ASSUME NEW ids \in SUBSET PendingIds(rows), ids # {}
      PROVE  Newest(ids) \in PendingIds(rows)
  BY <1>1, <1>2, NewestIsLast, FS_Subset
<1>3. ASSUME NEW i \in DOMAIN found PROVE found[i] \subseteq PendingIds(rows)
  BY DEF Lookups, BoundTo
<1>4. CASE hits # {}
  <2>1. DOMAIN found = 1..4
    BY DEF Lookups
  <2>2. \E i \in hits : \A j \in hits : i <= j
    <3> HIDE DEF found
    <3>1. hits \subseteq {1, 2, 3, 4}
      BY <2>1
    <3> HIDE DEF hits
    <3>2. CASE 1 \in hits
      BY <3>1, <3>2
    <3>3. CASE 1 \notin hits /\ 2 \in hits
      BY <3>1, <3>3
    <3>4. CASE 1 \notin hits /\ 2 \notin hits /\ 3 \in hits
      BY <3>1, <3>4
    <3>5. CASE hits = {4}
      BY <3>5
    <3> QED
      BY <1>4, <3>1, <3>2, <3>3, <3>4, <3>5
  <2>3. first \in hits
    <3> HIDE DEF hits
    <3> QED
      BY <2>2
  <2>4. found[first] # {} /\ found[first] \subseteq PendingIds(rows)
    <3> HIDE DEF first, found
    <3> QED
      BY <2>3, <1>3
  <2>5. Newest(found[first]) \in PendingIds(rows)
    <3> HIDE DEF first, found
    <3> QED
      BY <2>4, <1>2
  <2> QED
    BY <1>4, <2>5 DEF Resolve
<1>5. CASE hits = {} /\ Cardinality(listed) = 1
  <2>1. listed \subseteq PendingIds(rows)
    BY DEF ListPending
  <2>2. listed # {}
    <3>1. Cardinality(listed) = 1
      BY <1>5
    <3> HIDE DEF listed
    <3>2. listed = {} => Cardinality(listed) = 0
      BY FS_EmptySet
    <3> QED
      BY <3>1, <3>2
  <2>3. Newest(listed) \in PendingIds(rows)
    <3> HIDE DEF listed
    <3> QED
      BY <2>1, <2>2, <1>2
  <2> QED
    BY <1>5, <2>3 DEF Resolve
<1>6. CASE hits = {} /\ Cardinality(listed) # 1
  BY <1>6 DEF Resolve
<1> QED
  BY <1>4, <1>5, <1>6

-----------------------------------------------------------------------------
(* Lists, and the steps of the loop.                                        *)

LEMMA Appended ==
  ASSUME NEW S, NEW b \in Seq(S), NEW x \in S
  PROVE  /\ Append(b, x) \in Seq(S)
         /\ Len(Append(b, x)) = Len(b) + 1
         /\ DOMAIN Append(b, x) = 1..(Len(b) + 1)
         /\ Append(b, x)[Len(b) + 1] = x
         /\ \A i \in 1..Len(b) : Append(b, x)[i] = b[i]
<1>1. Append(b, x) \in Seq(S) /\ Len(Append(b, x)) = Len(b) + 1
  OBVIOUS
<1> QED
  BY <1>1

\* What a list keeps of its end: a list of the same things, n of them at most.
LEMMA KeptEnd ==
  ASSUME NEW S, NEW b \in Seq(S), NEW n \in Nat \ {0}
  PROVE  LastOf(b, n) \in Seq(S) /\ Len(LastOf(b, n)) <= n
<1>1. CASE Len(b) <= n
  BY <1>1 DEF LastOf
<1>2. CASE ~(Len(b) <= n)
  <2> DEFINE m == Len(b) - n + 1
  <2>1. m \in 1..Len(b) /\ Len(b) \in Nat /\ Len(b) - m + 1 = n
    BY <1>2
  <2>2. LastOf(b, n) = SubSeq(b, m, Len(b))
    BY <1>2 DEF LastOf
  <2>3. SubSeq(b, m, Len(b)) = [i \in 1..(Len(b) - m + 1) |-> b[i + m - 1]]
    OBVIOUS
  <2>4. [i \in 1..n |-> b[i + m - 1]] \in [1..n -> S]
    <3> HIDE DEF m
    <3> SUFFICES ASSUME NEW i \in 1..n PROVE b[i + m - 1] \in S
      OBVIOUS
    <3>1. i + m - 1 \in 1..Len(b)
      BY <2>1
    <3> QED
      BY <3>1
  <2>5. LastOf(b, n) \in [1..n -> S]
    BY <2>1, <2>2, <2>3, <2>4
  <2>6. ASSUME NEW f \in [1..n -> S] PROVE f \in Seq(S) /\ Len(f) = n
    OBVIOUS
  <2> QED
    BY <2>5, <2>6
<1> QED
  BY <1>1, <1>2

LEMMA RequestType ==
  ASSUME NEW r \in 1..MaxRounds, NEW n \in 1..MaxCalls
  PROVE  Request(r, n) \in Message /\ ToolResult(r, n) \in Message
BY DEF Request, ToolResult, Message

\* What a turn's request for tools changes.
LEMMA RequestEffect ==
  ASSUME IInv, NEW t \in Turn, ToolCalls(t)
  PROVE  \E n \in 1..MaxCalls :
           /\ pc[t] = "asking" /\ rounds[t] + 1 \in 1..MaxRounds
           /\ messages[t] \in Seq(Message)
           /\ messages' = [messages EXCEPT ![t] = Append(messages[t], Request(rounds[t] + 1, n))]
           /\ rounds' = [rounds EXCEPT ![t] = rounds[t] + 1]
           /\ calls' = [calls EXCEPT ![t] = n]
           /\ at' = [at EXCEPT ![t] = 1]
           /\ pc' = [pc EXCEPT ![t] = "acting"]
           /\ UNCHANGED <<history, untrimmed, pipe, drafts, lastDraft, result, faults>>
<1>1. rounds[t] \in 0..MaxRounds /\ messages[t] \in Seq(Message) /\ MaxRounds \in Nat
  BY SizeAssumption DEF IInv, TypeOK
<1>2. rounds[t] + 1 \in 1..MaxRounds
  BY <1>1 DEF ToolCalls
<1> QED
  BY <1>1, <1>2 DEF ToolCalls, To

\* What a tool's result changes, whichever tool it is.
LEMMA AnswerEffect ==
  ASSUME IInv, NEW t \in Turn, pc[t] = "acting", Answer(t)
  PROVE  /\ messages[t] \in Seq(Message)
         /\ rounds[t] \in 1..MaxRounds /\ at[t] \in 1..MaxCalls /\ calls[t] \in 1..MaxCalls
         /\ at[t] + calls[t] - 1 <= MaxCalls
         /\ messages' = [messages EXCEPT
              ![t] = Append(messages[t], ToolResult(rounds[t], at[t]))]
         /\ calls' = [calls EXCEPT ![t] = calls[t] - 1]
         /\ \/ /\ calls[t] = 1
               /\ at' = [at EXCEPT ![t] = 1]
               /\ pc' = [pc EXCEPT ![t] = "asking"]
            \/ /\ calls[t] > 1
               /\ at' = [at EXCEPT ![t] = at[t] + 1]
               /\ pc' = [pc EXCEPT ![t] = "acting"]
         /\ UNCHANGED <<history, untrimmed, pipe, rounds, result, faults>>
<1>1. messages[t] \in Seq(Message) /\ rounds[t] \in 0..MaxRounds /\ calls[t] \in 0..MaxCalls
      /\ at[t] \in 1..MaxCalls /\ MaxRounds \in Nat /\ MaxCalls \in Nat
  BY SizeAssumption, BoundAssumption DEF IInv, TypeOK
<1>2. calls[t] >= 1 /\ rounds[t] >= 1 /\ at[t] + calls[t] - 1 <= MaxCalls
  BY DEF IInv, CallsInv
<1>3. messages' = [messages EXCEPT
              ![t] = Append(messages[t], ToolResult(rounds[t], at[t]))]
      /\ calls' = [calls EXCEPT ![t] = calls[t] - 1]
      /\ UNCHANGED <<history, untrimmed, pipe, rounds, result, faults>>
  BY DEF Answer
<1>4. CASE calls[t] = 1
  BY <1>1, <1>2, <1>3, <1>4 DEF Answer, To
<1>5. CASE calls[t] # 1
  BY <1>1, <1>2, <1>3, <1>5 DEF Answer, To
<1> QED
  BY <1>4, <1>5

\* A turn outside the loop, or leaving it.
Outside(t) ==
  /\ UNCHANGED loop
  /\ \E label \in {"asking", "rules"} \cup Storing \cup Ended :
       /\ pc' = [pc EXCEPT ![t] = label]
       /\ pc[t] \notin InLoop
       /\ label = "asking" <=> pc[t] = "new"

Leaves(ts, labels) ==
  /\ LoopEnds(ts)
  /\ pc' = [t \in Turn |-> IF t \in ts THEN labels[t] ELSE pc[t]]
  /\ \A t \in ts : labels[t] \in {"rules"} \cup Storing \cup Ended

\* What a step is to the loop of the turns.
LEMMA LoopSteps ==
  ASSUME IInv, Next
  PROVE  \/ \E t \in Turn : ToolCalls(t)
         \/ \E t \in Turn : pc[t] = "acting" /\ Answer(t)
                            /\ (UNCHANGED lastDraft \/ \E d \in 0..MaxDraft : Returned(t, d))
         \/ \E t \in Turn : Outside(t)
         \/ \E ts \in SUBSET Turn : \E labels : Leaves(ts, labels)
         \/ UNCHANGED <<pc, loop>>
<1>1. ASSUME NEW t \in Turn, AgentStep(t)
      PROVE  \/ ToolCalls(t)
             \/ pc[t] = "acting" /\ Answer(t)
                /\ (UNCHANGED lastDraft \/ \E d \in 0..MaxDraft : Returned(t, d))
             \/ Outside(t)
             \/ \E ts \in SUBSET Turn : \E labels : Leaves(ts, labels)
  <2>1. CASE Load(t)
    BY <2>1 DEF Load, Outside, To, InLoop
  <2>2. CASE Ask(t)
    <3>1. ASSUME NEW label \in {"rules", "storing"}, To(t, label), LoopEnds({t})
          PROVE  Leaves({t}, [u \in Turn |-> label])
      <4>1. pc \in [Turn -> {"new", "asking", "acting", "rules", "storing"} \cup Ended]
        BY DEF IInv, TypeOK
      <4> QED
        BY <3>1, <4>1 DEF Leaves, To, Storing
    <3>2. (Reply(t) \/ GiveUp(t)) => Leaves({t}, [u \in Turn |-> "storing"])
      BY <3>1 DEF Reply, GiveUp
    <3>3. ChatFails(t) => Leaves({t}, [u \in Turn |-> "rules"])
      BY <3>1 DEF ChatFails
    <3>4. {t} \in SUBSET Turn
      OBVIOUS
    <3> QED
      BY <2>2, <3>2, <3>3, <3>4 DEF Ask
  <2>3. CASE RunTool(t)
    <3>1. RunBlocked(t) \/ RunOther(t) \/ RunDecide(t)
            => pc[t] = "acting" /\ Answer(t) /\ UNCHANGED lastDraft
      BY DEF RunBlocked, RunOther, RunDecide
    <3>2. 0 \in 0..MaxDraft /\ (HasRoom => Len(drafts) + 1 \in 0..MaxDraft)
      BY BoundAssumption DEF HasRoom, IInv, TypeOK
    <3>3. RunDraftingFails(t) \/ RunReviseHalf(t) => pc[t] = "acting" /\ Answer(t) /\ Returned(t, 0)
      BY DEF RunDraftingFails, RunReviseHalf
    <3>4. RunCreate(t) \/ RunRevise(t)
            => pc[t] = "acting" /\ Answer(t) /\ HasRoom /\ Returned(t, Len(drafts) + 1)
      BY DEF RunCreate, RunRevise
    <3> QED
      BY <2>3, <3>1, <3>2, <3>3, <3>4 DEF RunTool
  <2>4. CASE Stored(t) \/ AppendFails(t)
    BY <2>4 DEF Stored, WaitsFor, AppendFails, Outside, To, InLoop, Ended
  <2>5. CASE Resend(t)
    <3>1. UNCHANGED loop /\ pc' = [pc EXCEPT ![t] = "storing"] /\ pc[t] = "storing"
      BY <2>5 DEF Resend, WaitsFor, IInv, TypeOK
    <3> QED
      BY <3>1 DEF Outside, InLoop, Storing
  <2> QED
    BY <1>1, <2>1, <2>2, <2>3, <2>4, <2>5 DEF AgentStep
<1>2. ASSUME NEW t \in Turn, RulesStep(t) PROVE Outside(t)
  BY <1>2 DEF RulesStep, RulesCreate, RulesDecide, RulesReply, RulesFail, Outside, To, InLoop, Ended
<1>3. CASE ServerCrash
  <2> DEFINE served == {t \in Turn : pc[t] \notin {"new"} \cup Ended}
  <2>1. Leaves(served, [t \in Turn |-> "unanswered"])
    BY <1>3 DEF ServerCrash, Leaves, Ended
  <2> QED
    BY <2>1
<1>4. CASE HistoryExpires
  BY <1>4 DEF HistoryExpires
<1>5. ASSUME NEW t \in Turn, PipeStep(t) PROVE UNCHANGED <<pc, loop>>
  BY <1>5 DEF PipeStep, PushUser, PushReply, Trim
<1> QED
  BY <1>1, <1>2, <1>3, <1>4, <1>5 DEF Next

-----------------------------------------------------------------------------
(* The calls and their results.                                             *)

\* What CallsInv says of one turn, with the list of its messages.
CallsOf(t, label, list, r, c, a) ==
  /\ label = "asking" =>
       \A i \in DOMAIN list : list[i].role = "assistant" => AllAnswered(list, i)
  /\ label = "acting" =>
       /\ c >= 1 /\ a + c - 1 <= MaxCalls
       /\ r >= 1
       /\ Len(list) - a + 1 \in DOMAIN list
       /\ list[Len(list) - a + 1] = Request(r, a + c - 1)
       /\ \A j \in 1..(a - 1) : list[Len(list) - a + 1 + j] = ToolResult(r, j)
       /\ \A i \in DOMAIN list :
            list[i].role = "assistant" => i = Len(list) - a + 1 \/ AllAnswered(list, i)

LEMMA CallsOfEach ==
  CallsInv <=> \A t \in Turn :
                 CallsOf(t, pc[t], messages[t], rounds[t], calls[t], at[t])
BY DEF CallsInv, CallsOf, AtHand

\* A request whose results are all there has them also in a longer list.
LEMMA StillAnswered ==
  ASSUME NEW list \in Seq(Message), NEW m \in Message, NEW i \in 1..Len(list),
         AllAnswered(list, i)
  PROVE  AllAnswered(Append(list, m), i)
<1> DEFINE longer == Append(list, m)
<1>1. Len(longer) = Len(list) + 1 /\ \A k \in 1..Len(list) : longer[k] = list[k]
  BY Appended
<1>2. list[i].call \in Nat /\ Len(list) \in Nat
  <2>1. list[i] \in Message
    OBVIOUS
  <2> QED
    BY <2>1, BoundAssumption DEF Message
<1> HIDE DEF longer
<1>3. longer[i] = list[i]
  BY <1>1
<1> SUFFICES ASSUME NEW j \in 1..list[i].call
             PROVE  i + j <= Len(longer) /\ longer[i + j] = ToolResult(list[i].round, j)
  BY <1>3 DEF AllAnswered, longer
<1>4. i + j <= Len(list) /\ list[i + j] = ToolResult(list[i].round, j)
  BY DEF AllAnswered
<1>5. i + j \in 1..Len(list)
  BY <1>2, <1>4
<1> QED
  BY <1>1, <1>2, <1>4, <1>5

\* A new request starts with no result.
LEMMA RequestCalls ==
  ASSUME NEW t, NEW list \in Seq(Message), NEW r \in 1..MaxRounds, NEW n \in 1..MaxCalls,
         NEW r0, NEW c0, NEW a0, CallsOf(t, "asking", list, r0, c0, a0)
  PROVE  CallsOf(t, "acting", Append(list, Request(r, n)), r, n, 1)
<1> DEFINE m == Request(r, n)
           longer == Append(list, m)
<1>1. m \in Message /\ n \in Nat /\ r \in Nat /\ n <= MaxCalls /\ MaxCalls \in Nat
  BY RequestType, SizeAssumption, BoundAssumption
<1>2. /\ longer \in Seq(Message) /\ Len(longer) = Len(list) + 1 /\ Len(list) \in Nat
      /\ DOMAIN longer = 1..(Len(list) + 1)
      /\ longer[Len(list) + 1] = m
      /\ \A k \in 1..Len(list) : longer[k] = list[k]
  <2> HIDE DEF m
  <2> QED
    BY <1>1, Appended
<1> HIDE DEF longer
<1>3. ASSUME NEW i \in DOMAIN longer, longer[i].role = "assistant"
      PROVE  i = Len(longer) - 1 + 1 \/ AllAnswered(longer, i)
  <2>1. CASE i = Len(list) + 1
    BY <1>2, <2>1
  <2>2. CASE i \in 1..Len(list)
    <3>1. AllAnswered(list, i)
      BY <1>2, <1>3, <2>2 DEF CallsOf
    <3> QED
      <4> HIDE DEF m
      <4> QED
        BY <1>1, <2>2, <3>1, StillAnswered DEF longer
  <2> QED
    BY <1>2, <2>1, <2>2
<1>4. Len(longer) - 1 + 1 = Len(list) + 1 /\ n >= 1 /\ 1 + n - 1 = n /\ r >= 1 /\ 1..(1 - 1) = {}
  BY <1>1, <1>2
<1>5. CallsOf(t, "acting", longer, r, n, 1)
  <2>1. longer[Len(longer) - 1 + 1] = Request(r, 1 + n - 1)
    BY <1>2, <1>4
  <2>2. Len(longer) - 1 + 1 \in DOMAIN longer
    BY <1>2, <1>4
  <2>3. \A j \in 1..(1 - 1) : longer[Len(longer) - 1 + 1 + j] = ToolResult(r, j)
    BY <1>4
  <2>4. n >= 1 /\ 1 + n - 1 <= MaxCalls /\ r >= 1
    BY <1>1, <1>4
  <2> QED
    BY <1>3, <2>1, <2>2, <2>3, <2>4 DEF CallsOf
<1> QED
  BY <1>5 DEF longer

\* A result takes its place behind those before it; the last one completes
\* the request.
LEMMA ResultCalls ==
  ASSUME NEW t, NEW list \in Seq(Message), NEW r \in 1..MaxRounds, NEW c \in 1..MaxCalls,
         NEW a \in 1..MaxCalls, CallsOf(t, "acting", list, r, c, a)
  PROVE  /\ c = 1 => CallsOf(t, "asking", Append(list, ToolResult(r, a)), r, 0, 1)
         /\ c > 1 => CallsOf(t, "acting", Append(list, ToolResult(r, a)), r, c - 1, a + 1)
<1> DEFINE m == ToolResult(r, a)
           longer == Append(list, m)
           p == Len(list) - a + 1
<1>1. /\ m \in Message /\ m.role = "tool"
      /\ c \in Nat /\ a \in Nat /\ r \in Nat /\ MaxCalls \in Nat /\ c >= 1 /\ a >= 1 /\ r >= 1
  BY RequestType, SizeAssumption, BoundAssumption DEF ToolResult
<1>2. /\ longer \in Seq(Message) /\ Len(longer) = Len(list) + 1 /\ Len(list) \in Nat
      /\ DOMAIN longer = 1..(Len(list) + 1) /\ DOMAIN list = 1..Len(list)
      /\ longer[Len(list) + 1] = m
      /\ \A k \in 1..Len(list) : longer[k] = list[k]
  <2> HIDE DEF m
  <2> QED
    BY <1>1, Appended
<1>3. /\ a + c - 1 <= MaxCalls
      /\ p \in 1..Len(list) /\ p \in Nat
      /\ list[p] = Request(r, a + c - 1)
      /\ \A j \in 1..(a - 1) : list[p + j] = ToolResult(r, j)
      /\ \A i \in 1..Len(list) :
           list[i].role = "assistant" => i = p \/ AllAnswered(list, i)
  <2>1. a + c - 1 <= MaxCalls /\ p \in DOMAIN list /\ list[p] = Request(r, a + c - 1)
    BY DEF CallsOf
  <2>2. \A j \in 1..(a - 1) : list[p + j] = ToolResult(r, j)
    BY DEF CallsOf
  <2>3. \A i \in DOMAIN list :
           list[i].role = "assistant" => i = p \/ AllAnswered(list, i)
    BY DEF CallsOf
  <2> HIDE DEF p
  <2> QED
    BY <1>2, <2>1, <2>2, <2>3
<1>4. p + a = Len(list) + 1 /\ longer[p + a] = ToolResult(r, a)
  BY <1>1, <1>2
<1>5. ASSUME NEW i \in 1..Len(list), AllAnswered(list, i) PROVE AllAnswered(longer, i)
  <2> HIDE DEF m
  <2> QED
    BY <1>1, <1>5, StillAnswered
<1> HIDE DEF longer, p
<1>6. ASSUME NEW i \in DOMAIN longer, longer[i].role = "assistant"
      PROVE  i = p \/ AllAnswered(longer, i)
  <2>1. i # Len(list) + 1
    BY <1>1, <1>2, <1>6
  <2>2. i \in 1..Len(list) /\ list[i].role = "assistant"
    BY <1>2, <1>6, <2>1
  <2> QED
    BY <1>3, <1>5, <2>2
<1>7. \A j \in 1..a : p + j \in 1..Len(longer) /\ longer[p + j] = ToolResult(r, j)
  <2> SUFFICES ASSUME NEW j \in 1..a
               PROVE  p + j \in 1..Len(longer) /\ longer[p + j] = ToolResult(r, j)
    OBVIOUS
  <2>1. CASE j = a
    BY <1>1, <1>2, <1>3, <1>4, <2>1
  <2>2. CASE j \in 1..(a - 1)
    <3>1. p + j \in 1..Len(list)
      BY <1>1, <1>2, <1>3, <1>4, <2>2
    <3> QED
      BY <1>2, <1>3, <2>2, <3>1
  <2> QED
    BY <1>1, <2>1, <2>2
<1>8. longer[p] = Request(r, a + c - 1)
  BY <1>2, <1>3
<1>9. CASE c = 1
  <2>1. longer[p].call = a /\ longer[p].round = r
    <3>1. a + c - 1 = a
      BY <1>1, <1>9
    <3>2. longer[p] = Request(r, a)
      BY <1>8, <3>1
    <3> QED
      BY <3>2 DEF Request
  <2>2. AllAnswered(longer, p)
    BY <1>1, <1>2, <1>3, <1>7, <2>1 DEF AllAnswered
  <2>3. CallsOf(t, "asking", longer, r, 0, 1)
    BY <1>6, <2>2 DEF CallsOf
  <2> QED
    BY <1>1, <1>9, <2>3 DEF longer
<1>10. CASE c > 1
  <2>1. /\ Len(longer) - (a + 1) + 1 = p
        /\ a + 1 + (c - 1) - 1 = a + c - 1
        /\ a + 1 - 1 = a /\ c - 1 >= 1
    BY <1>1, <1>2, <1>4, <1>10, <1>3
  <2>2. p \in DOMAIN longer
    BY <1>2, <1>3
  <2> DEFINE c1 == c - 1
             a1 == a + 1
  <2>3. /\ c1 >= 1 /\ a1 + c1 - 1 <= MaxCalls /\ r >= 1
        /\ Len(longer) - a1 + 1 = p /\ p \in DOMAIN longer
        /\ longer[p] = Request(r, a1 + c1 - 1)
        /\ \A j \in 1..(a1 - 1) : longer[p + j] = ToolResult(r, j)
    BY <1>1, <1>3, <1>7, <1>8, <2>1, <2>2
  <2> HIDE DEF c1, a1
  <2>4. CallsOf(t, "acting", longer, r, c1, a1)
    BY <1>6, <2>3 DEF CallsOf
  <2> QED
    BY <1>1, <1>10, <2>4 DEF longer, c1, a1
<1> QED
  BY <1>1, <1>9, <1>10

-----------------------------------------------------------------------------
(* A step keeps the types of the loop's variables, LoopInv and CallsInv.    *)

LoopTypes ==
  /\ pc \in [Turn -> {"new", "asking", "acting", "rules", "storing"} \cup Ended]
  /\ messages \in [Turn -> Seq(Message)]
  /\ rounds \in [Turn -> 0..MaxRounds]
  /\ calls \in [Turn -> 0..MaxCalls]
  /\ at \in [Turn -> 1..MaxCalls]
  /\ lastDraft \in [Turn -> 0..MaxDraft]

LoopKept == LoopTypes /\ LoopInv /\ CallsInv

LEMMA RequestKeepsLoop ==
  ASSUME IInv, NEW t \in Turn, ToolCalls(t)
  PROVE  LoopKept'
<1>1. PICK n \in 1..MaxCalls :
           /\ pc[t] = "asking" /\ rounds[t] + 1 \in 1..MaxRounds
           /\ messages[t] \in Seq(Message)
           /\ messages' = [messages EXCEPT ![t] = Append(messages[t], Request(rounds[t] + 1, n))]
           /\ rounds' = [rounds EXCEPT ![t] = rounds[t] + 1]
           /\ calls' = [calls EXCEPT ![t] = n]
           /\ at' = [at EXCEPT ![t] = 1]
           /\ pc' = [pc EXCEPT ![t] = "acting"]
           /\ UNCHANGED <<history, untrimmed, pipe, drafts, lastDraft, result, faults>>
  BY RequestEffect
<1> DEFINE r == rounds[t] + 1
           longer == Append(messages[t], Request(r, n))
<1>2. LoopTypes /\ MaxCalls \in Nat /\ MaxRounds \in Nat /\ 1 \in 1..MaxCalls
  BY SizeAssumption, BoundAssumption DEF IInv, TypeOK, LoopTypes
<1>3. longer \in Seq(Message) /\ r \in 0..MaxRounds /\ n \in 0..MaxCalls
  <2>1. Request(r, n) \in Message
    BY <1>1, RequestType
  <2>2. r \in 0..MaxRounds /\ n \in 0..MaxCalls
    BY <1>1, <1>2
  <2> QED
    BY <1>1, <2>1, <2>2, Appended
<1>4. CallsOf(t, "acting", longer, r, n, 1)
  <2>1. CallsOf(t, "asking", messages[t], rounds[t], calls[t], at[t])
    BY <1>1, CallsOfEach DEF IInv
  <2> QED
    BY <1>1, <2>1, RequestCalls
<1> HIDE DEF r, longer
<1>5. /\ pc' = [pc EXCEPT ![t] = "acting"] /\ messages' = [messages EXCEPT ![t] = longer]
      /\ rounds' = [rounds EXCEPT ![t] = r] /\ calls' = [calls EXCEPT ![t] = n]
      /\ at' = [at EXCEPT ![t] = 1] /\ lastDraft' = lastDraft
  BY <1>1 DEF r, longer
<1>6. LoopTypes'
  BY <1>2, <1>3, <1>5 DEF LoopTypes
<1>7. LoopInv'
  BY <1>2, <1>5 DEF LoopInv, LoopTypes, IInv, InLoop
<1>8. CallsInv'
  <2> SUFFICES ASSUME NEW u \in Turn
               PROVE  CallsOf(u, pc'[u], messages'[u], rounds'[u], calls'[u], at'[u])
    BY DEF CallsInv, CallsOf, AtHand
  <2>1. CASE u = t
    BY <1>2, <1>4, <1>5, <2>1 DEF LoopTypes
  <2>2. CASE u # t
    <3>1. CallsOf(u, pc[u], messages[u], rounds[u], calls[u], at[u])
      BY CallsOfEach DEF IInv
    <3> QED
      BY <1>2, <1>5, <2>2, <3>1 DEF LoopTypes
  <2> QED
    BY <2>1, <2>2
<1> QED
  BY <1>6, <1>7, <1>8 DEF LoopKept

LEMMA ResultKeepsLoop ==
  ASSUME IInv, NEW t \in Turn, pc[t] = "acting", Answer(t),
         UNCHANGED lastDraft \/ \E d \in 0..MaxDraft : Returned(t, d)
  PROVE  LoopKept'
<1> DEFINE r == rounds[t]
           n == calls[t] - 1
           longer == Append(messages[t], ToolResult(rounds[t], at[t]))
<1>1. /\ messages[t] \in Seq(Message)
      /\ r \in 1..MaxRounds /\ at[t] \in 1..MaxCalls /\ calls[t] \in 1..MaxCalls
      /\ at[t] + calls[t] - 1 <= MaxCalls
      /\ messages' = [messages EXCEPT ![t] = longer]
      /\ calls' = [calls EXCEPT ![t] = n]
      /\ UNCHANGED <<history, untrimmed, pipe, rounds, result, faults>>
      /\ \/ calls[t] = 1 /\ at' = [at EXCEPT ![t] = 1] /\ pc' = [pc EXCEPT ![t] = "asking"]
         \/ calls[t] > 1 /\ at' = [at EXCEPT ![t] = at[t] + 1]
            /\ pc' = [pc EXCEPT ![t] = "acting"]
  BY AnswerEffect
<1>2. LoopTypes /\ MaxCalls \in Nat /\ MaxRounds \in Nat /\ 1 \in 1..MaxCalls
  BY SizeAssumption, BoundAssumption DEF IInv, TypeOK, LoopTypes
<1>3. longer \in Seq(Message) /\ n \in 0..MaxCalls
  <2>1. ToolResult(rounds[t], at[t]) \in Message
    BY <1>1, RequestType
  <2>2. n \in 0..MaxCalls
    BY <1>1, <1>2
  <2> QED
    BY <1>1, <2>1, <2>2, Appended
<1>4. PICK label \in {"asking", "acting"}, a \in 1..MaxCalls :
        /\ at' = [at EXCEPT ![t] = a] /\ pc' = [pc EXCEPT ![t] = label]
        /\ CallsOf(t, label, longer, r, n, a)
  <2>1. CallsOf(t, "acting", messages[t], r, calls[t], at[t])
    BY CallsOfEach DEF IInv
  <2>2. /\ calls[t] = 1 => CallsOf(t, "asking", longer, r, 0, 1)
        /\ calls[t] > 1 => CallsOf(t, "acting", longer, r, n, at[t] + 1)
    BY <1>1, <2>1, ResultCalls
  <2>3. CASE calls[t] = 1 /\ at' = [at EXCEPT ![t] = 1] /\ pc' = [pc EXCEPT ![t] = "asking"]
    <3>1. n = 0
      BY <2>3
    <3> HIDE DEF longer, n, r
    <3> QED
      BY <1>2, <2>2, <2>3, <3>1
  <2>4. CASE calls[t] > 1 /\ at' = [at EXCEPT ![t] = at[t] + 1]
             /\ pc' = [pc EXCEPT ![t] = "acting"]
    <3>1. at[t] + 1 \in 1..MaxCalls
      BY <1>1, <1>2, <2>4
    <3> HIDE DEF longer, n, r
    <3> QED
      BY <2>2, <2>4, <3>1
  <2> QED
    BY <1>1, <2>3, <2>4
<1> HIDE DEF r, n, longer
<1>5. /\ messages' = [messages EXCEPT ![t] = longer] /\ rounds' = rounds
      /\ calls' = [calls EXCEPT ![t] = n]
  BY <1>1
<1>6. pc'[t] \in InLoop /\ lastDraft' \in [Turn -> 0..MaxDraft]
      /\ \A u \in Turn \ {t} : pc'[u] = pc[u] /\ messages'[u] = messages[u]
           /\ rounds'[u] = rounds[u] /\ calls'[u] = calls[u] /\ at'[u] = at[u]
           /\ lastDraft'[u] = lastDraft[u]
  BY <1>2, <1>4, <1>5 DEF LoopTypes, Returned, InLoop
<1>7. LoopTypes'
  BY <1>2, <1>3, <1>4, <1>5, <1>6 DEF LoopTypes
<1>8. LoopInv'
  BY <1>6 DEF LoopInv, IInv, InLoop
<1>9. CallsInv'
  <2> SUFFICES ASSUME NEW u \in Turn
               PROVE  CallsOf(u, pc'[u], messages'[u], rounds'[u], calls'[u], at'[u])
    BY DEF CallsInv, CallsOf, AtHand
  <2>1. CASE u = t
    BY <1>2, <1>4, <1>5, <2>1 DEF LoopTypes, r
  <2>2. CASE u # t
    <3>1. CallsOf(u, pc[u], messages[u], rounds[u], calls[u], at[u])
      BY CallsOfEach DEF IInv
    <3> QED
      BY <1>6, <2>2, <3>1
  <2> QED
    BY <2>1, <2>2
<1> QED
  BY <1>7, <1>8, <1>9 DEF LoopKept

\* A turn in the loop with no messages has no request to answer.
LEMMA NoCalls ==
  ASSUME NEW t, NEW r, NEW c, NEW a, NEW label, label # "acting"
  PROVE  CallsOf(t, label, <<>>, r, c, a)
BY DEF CallsOf

LEMMA LeavingKeepsLoop ==
  ASSUME IInv, NEW ts \in SUBSET Turn, NEW labels, Leaves(ts, labels)
  PROVE  LoopKept'
<1>1. LoopTypes /\ MaxCalls \in Nat /\ MaxRounds \in Nat /\ 1 \in 1..MaxCalls /\ MaxDraft \in Nat
  BY SizeAssumption, BoundAssumption DEF IInv, TypeOK, LoopTypes
<1>2. ASSUME NEW u \in Turn \ ts
      PROVE  pc'[u] = pc[u] /\ messages'[u] = messages[u] /\ rounds'[u] = rounds[u]
             /\ calls'[u] = calls[u] /\ at'[u] = at[u] /\ lastDraft'[u] = lastDraft[u]
  BY DEF Leaves, LoopEnds
<1>3. ASSUME NEW u \in ts
      PROVE  /\ pc'[u] \in {"rules"} \cup Storing \cup Ended
             /\ messages'[u] = <<>> /\ rounds'[u] = 0 /\ calls'[u] = 0 /\ at'[u] = 1
             /\ lastDraft'[u] = 0
  BY DEF Leaves, LoopEnds
<1>4. LoopTypes'
  <2>1. <<>> \in Seq(Message) /\ 0 \in 0..MaxRounds /\ 0 \in 0..MaxCalls /\ 0 \in 0..MaxDraft
    BY <1>1
  <2>2. messages' \in [Turn -> Seq(Message)]
    BY <1>1, <2>1 DEF Leaves, LoopEnds, LoopTypes
  <2>3. rounds' \in [Turn -> 0..MaxRounds] /\ calls' \in [Turn -> 0..MaxCalls]
        /\ at' \in [Turn -> 1..MaxCalls] /\ lastDraft' \in [Turn -> 0..MaxDraft]
    BY <1>1, <2>1 DEF Leaves, LoopEnds, LoopTypes
  <2>4. pc' \in [Turn -> {"new", "asking", "acting", "rules", "storing"} \cup Ended]
    BY <1>1 DEF Leaves, LoopTypes, Storing
  <2> QED
    BY <2>2, <2>3, <2>4 DEF LoopTypes
<1>5. LoopInv'
  BY <1>2, <1>3 DEF LoopInv, IInv
<1>6. CallsInv'
  <2> SUFFICES ASSUME NEW u \in Turn
               PROVE  CallsOf(u, pc'[u], messages'[u], rounds'[u], calls'[u], at'[u])
    BY DEF CallsInv, CallsOf, AtHand
  <2>1. CASE u \in ts
    BY <1>3, <2>1, NoCalls DEF Storing, Ended
  <2>2. CASE u \notin ts
    <3>1. CallsOf(u, pc[u], messages[u], rounds[u], calls[u], at[u])
      BY CallsOfEach DEF IInv
    <3> QED
      BY <1>2, <2>2, <3>1
  <2> QED
    BY <2>1, <2>2
<1> QED
  BY <1>4, <1>5, <1>6 DEF LoopKept

LEMMA OutsideKeepsLoop ==
  ASSUME IInv, NEW t \in Turn, Outside(t)
  PROVE  LoopKept'
<1>1. LoopTypes
  BY DEF IInv, TypeOK, LoopTypes
<1>2. PICK label \in {"asking", "rules"} \cup Storing \cup Ended :
        pc' = [pc EXCEPT ![t] = label]
  BY DEF Outside
<1>3. pc[t] \notin InLoop /\ label # "acting" /\ UNCHANGED loop
  BY DEF Outside, Storing, Ended
<1>4. LoopTypes'
  BY <1>1, <1>2, <1>3 DEF LoopTypes, loop, Storing
<1>5. LoopInv'
  BY <1>1, <1>2, <1>3 DEF LoopInv, LoopTypes, IInv, loop
<1>6. CallsInv'
  <2> SUFFICES ASSUME NEW u \in Turn
               PROVE  CallsOf(u, pc'[u], messages'[u], rounds'[u], calls'[u], at'[u])
    BY DEF CallsInv, CallsOf, AtHand
  <2>1. CASE u = t
    <3>1. messages[t] = <<>> /\ pc'[t] = label /\ messages'[t] = <<>>
      BY <1>1, <1>2, <1>3 DEF LoopInv, LoopTypes, IInv, loop
    <3> QED
      BY <1>2, <1>3, <2>1, <3>1, NoCalls
  <2>2. CASE u # t
    <3>1. CallsOf(u, pc[u], messages[u], rounds[u], calls[u], at[u])
      BY CallsOfEach DEF IInv
    <3> QED
      BY <1>1, <1>2, <1>3, <2>2, <3>1 DEF LoopTypes, loop
  <2> QED
    BY <2>1, <2>2
<1> QED
  BY <1>4, <1>5, <1>6 DEF LoopKept

LEMMA LoopStep == IInv /\ [Next]_vars => LoopKept'
<1> SUFFICES ASSUME IInv, [Next]_vars PROVE LoopKept'
  OBVIOUS
<1>1. CASE UNCHANGED <<pc, loop>>
  BY <1>1 DEF LoopKept, LoopTypes, LoopInv, CallsInv, AtHand, IInv, TypeOK, loop
<1>2. CASE UNCHANGED vars
  BY <1>1, <1>2 DEF vars, loop
<1>3. CASE Next
  BY <1>1, <1>3, LoopSteps, RequestKeepsLoop, ResultKeepsLoop, LeavingKeepsLoop,
     OutsideKeepsLoop
<1> QED
  BY <1>2, <1>3

-----------------------------------------------------------------------------
(* The drafts, and whose newest they are.                                   *)

\* The rows keep their number and their sources.
SameSources(rows) ==
  /\ rows \in Seq(DraftRow) /\ Len(rows) = Len(drafts)
  /\ \A d \in 1..Len(drafts) : rows[d].source = drafts[d].source

\* t makes a draft, perhaps in the place of one that it settles.
Makes(t) ==
  \E rows : SameSources(rows) /\ HasRoom /\ drafts' = Append(rows, NewDraft(t))

LEMMA SettledRow ==
  ASSUME IInv, NEW d, NEW s \in {"APPROVED", "REJECTED"}
  PROVE  SameSources([drafts EXCEPT ![d].status = s])
<1> DEFINE row == [drafts[d] EXCEPT !.status = s]
<1>1. drafts \in Seq(DraftRow)
  BY DEF IInv, TypeOK
<1>2. CASE d \notin 1..Len(drafts)
  <2>1. [drafts EXCEPT ![d].status = s] = drafts
    BY <1>1, <1>2
  <2> QED
    BY <1>1, <2>1 DEF SameSources
<1>3. CASE d \in 1..Len(drafts)
  <2>1. drafts[d] \in DraftRow
    BY <1>1, <1>3
  <2>2. row \in DraftRow /\ row.source = drafts[d].source
    BY <2>1 DEF DraftRow
  <2>3. [drafts EXCEPT ![d].status = s] = [drafts EXCEPT ![d] = row]
    OBVIOUS
  <2> HIDE DEF row
  <2>4. [drafts EXCEPT ![d] = row] \in Seq(DraftRow)
        /\ Len([drafts EXCEPT ![d] = row]) = Len(drafts)
    BY <1>1, <1>3, <2>2
  <2>5. \A e \in 1..Len(drafts) :
          [drafts EXCEPT ![d] = row][e].source = drafts[e].source
    BY <1>1, <1>3, <2>2
  <2> QED
    BY <2>3, <2>4, <2>5 DEF SameSources
<1> QED
  BY <1>2, <1>3

LEMMA NewDraftType ==
  ASSUME NEW t \in Turn
  PROVE  NewDraft(t) \in DraftRow /\ NewDraft(t).source = t
BY ReplyAssumption DEF NewDraft, DraftRow

\* Rows with the same sources have the same newest drafts.
LEMMA SameNewest ==
  ASSUME IInv, SameSources(drafts'), NEW u, NEW d \in Nat \ {0}, NewestOwn(u, d)
  PROVE  NewestOwn(u, d)'
<1>1. drafts \in Seq(DraftRow) /\ drafts' \in Seq(DraftRow) /\ Len(drafts') = Len(drafts)
      /\ DOMAIN drafts = 1..Len(drafts) /\ DOMAIN drafts' = 1..Len(drafts)
      /\ \A e \in 1..Len(drafts) : drafts'[e].source = drafts[e].source
  <2>1. drafts \in Seq(DraftRow)
    BY DEF IInv, TypeOK
  <2>2. drafts' \in Seq(DraftRow) /\ Len(drafts') = Len(drafts)
        /\ \A e \in 1..Len(drafts) : drafts'[e].source = drafts[e].source
    BY DEF SameSources
  <2> QED
    BY <2>1, <2>2
<1>2. d \in 1..Len(drafts)
  BY <1>1 DEF NewestOwn
<1> QED
  BY <1>1, <1>2 DEF NewestOwn

\* A new draft is the newest of its maker, and of nobody else.
LEMMA MakesNewest ==
  ASSUME IInv, NEW t \in Turn, Makes(t), NEW n, n = Len(drafts) + 1
  PROVE  /\ drafts' \in Seq(DraftRow) /\ Len(drafts') = n
         /\ n \in 1..MaxDraft
         /\ NewestOwn(t, n)'
         /\ \A u \in Turn \ {t}, d \in Nat \ {0} : NewestOwn(u, d) => NewestOwn(u, d)'
<1>1. PICK rows : SameSources(rows) /\ HasRoom /\ drafts' = Append(rows, NewDraft(t))
  BY DEF Makes
<1>2. /\ drafts \in Seq(DraftRow) /\ rows \in Seq(DraftRow) /\ Len(rows) = Len(drafts)
      /\ DOMAIN drafts = 1..Len(drafts) /\ Len(drafts) \in Nat
      /\ \A e \in 1..Len(drafts) : rows[e].source = drafts[e].source
  BY <1>1 DEF IInv, TypeOK, SameSources
<1>3. n \in 1..MaxDraft
  BY <1>1, <1>2, BoundAssumption DEF HasRoom
<1>4. /\ drafts' \in Seq(DraftRow) /\ Len(drafts') = Len(drafts) + 1
      /\ DOMAIN drafts' = 1..(Len(drafts) + 1)
      /\ drafts'[Len(drafts) + 1] = NewDraft(t)
      /\ \A e \in 1..Len(drafts) : drafts'[e] = rows[e]
  BY <1>1, <1>2, NewDraftType, Appended
<1>5. /\ drafts'[Len(drafts) + 1].source = t
      /\ \A e \in 1..Len(drafts) : drafts'[e].source = drafts[e].source
  BY <1>2, <1>4, NewDraftType
<1>6. NewestOwn(t, n)'
  <2>1. n <= Len(drafts') /\ drafts'[n].source = t /\ \A e \in DOMAIN drafts' : e <= n
    BY <1>4, <1>5
  <2> QED
    BY <2>1 DEF NewestOwn
<1>7. ASSUME NEW u \in Turn \ {t}, NEW d \in Nat \ {0}, NewestOwn(u, d)
      PROVE  NewestOwn(u, d)'
  <2>1. d \in 1..Len(drafts) /\ d <= Len(drafts')
    BY <1>2, <1>4, <1>7 DEF NewestOwn
  <2>2. drafts'[d].source = u
    BY <1>5, <1>7, <2>1 DEF NewestOwn
  <2>3. ASSUME NEW e \in DOMAIN drafts', drafts'[e].source = u PROVE e <= d
    <3>1. e \in 1..Len(drafts)
      BY <1>2, <1>4, <1>5, <1>7, <2>3
    <3> QED
      BY <1>2, <1>5, <1>7, <2>3, <3>1 DEF NewestOwn
  <2> QED
    BY <2>1, <2>2, <2>3 DEF NewestOwn
<1> QED
  BY <1>3, <1>4, <1>6, <1>7

-----------------------------------------------------------------------------
(* A step keeps the types of drafts and results, and DraftInv.              *)

ResultType == [by : {"nobody", "agent", "rules"}, card : 0..MaxDraft]

DraftTypes ==
  /\ drafts \in Seq(DraftRow) /\ Len(drafts) <= MaxDraft
  /\ result \in [Turn -> ResultType]

DraftKept == DraftTypes /\ DraftInv

\* What DraftInv says of one turn.
OwnOf(t, label, last, r) ==
  /\ label \in InLoop /\ last # 0 => NewestOwn(t, last)
  /\ label \in Storing \cup {"answered"} /\ r.by = "agent" /\ r.card # 0 => NewestOwn(t, r.card)

LEMMA OwnOfEach ==
  DraftInv <=> \A t \in Turn : OwnOf(t, pc[t], lastDraft[t], result[t])
BY DEF DraftInv, OwnOf

\* A turn that is left alone keeps its newest draft, if its rows keep theirs.
LEMMA OthersKeepOwn ==
  ASSUME IInv, NEW u \in Turn,
         pc'[u] = pc[u], lastDraft'[u] = lastDraft[u], result'[u] = result[u],
         SameSources(drafts') \/ \E t \in Turn \ {u} : Makes(t)
  PROVE  (OwnOf(u, pc[u], lastDraft[u], result[u]))'
<1>1. ASSUME NEW d \in Nat \ {0}, NewestOwn(u, d) PROVE NewestOwn(u, d)'
  <2>1. CASE SameSources(drafts')
    BY <1>1, <2>1, SameNewest
  <2>2. ASSUME NEW t \in Turn \ {u}, Makes(t) PROVE NewestOwn(u, d)'
    <3>1. PICK n : n = Len(drafts) + 1
      OBVIOUS
    <3> QED
      BY <1>1, <2>2, <3>1, MakesNewest
  <2> QED
    BY <2>1, <2>2
<1>2. OwnOf(u, pc[u], lastDraft[u], result[u])
  BY OwnOfEach DEF IInv
<1>3. lastDraft[u] \in Nat /\ result[u].card \in Nat
  BY BoundAssumption DEF IInv, TypeOK
<1> DEFINE last == lastDraft[u]
           r == result[u]
<1>4. OwnOf(u, pc[u], last, r)
  BY <1>2
<1>5. last' = last /\ r' = r /\ pc'[u] = pc[u]
  OBVIOUS
<1>6. last # 0 /\ NewestOwn(u, last) => NewestOwn(u, last)'
  <2>1. ASSUME NEW d, d = last PROVE d # 0 /\ NewestOwn(u, d) => NewestOwn(u, d)'
    BY <1>1, <1>3, <2>1
  <2> QED
    BY <1>5, <2>1 DEF NewestOwn
<1>7. r.card # 0 /\ NewestOwn(u, r.card) => NewestOwn(u, r.card)'
  <2>1. ASSUME NEW d, d = r.card PROVE d # 0 /\ NewestOwn(u, d) => NewestOwn(u, d)'
    BY <1>1, <1>3, <2>1
  <2> QED
    BY <1>5, <2>1 DEF NewestOwn
<1> QED
  BY <1>4, <1>5, <1>6, <1>7 DEF OwnOf

\* What a tool's call, or the rules, do to the drafts.
LEMMA ToolSteps ==
  ASSUME IInv, NEW t \in Turn, RunTool(t)
  PROVE  /\ pc[t] = "acting" /\ Answer(t)
         /\ \/ SameSources(drafts') /\ (UNCHANGED lastDraft \/ Returned(t, 0))
            \/ Makes(t) /\ Returned(t, Len(drafts) + 1)
<1>1. drafts \in Seq(DraftRow) /\ SameSources(drafts)
  BY DEF IInv, TypeOK, SameSources
<1>2. CASE RunBlocked(t) \/ RunOther(t)
  BY <1>1, <1>2 DEF RunBlocked, RunOther, SameSources
<1>3. CASE RunDraftingFails(t)
  BY <1>1, <1>3 DEF RunDraftingFails, SameSources
<1>4. CASE RunDecide(t)
  <2>1. PICK d \in PendingIds(drafts), s \in {"APPROVED", "REJECTED"} :
           drafts' = [drafts EXCEPT ![d].status = s]
    BY <1>4 DEF RunDecide
  <2>2. SameSources(drafts')
    BY <2>1, SettledRow
  <2> QED
    BY <1>4, <2>2 DEF RunDecide
<1>5. CASE RunReviseHalf(t)
  <2>1. PICK d : drafts' = Discarded(d)
    BY <1>5 DEF RunReviseHalf
  <2>2. SameSources(drafts')
    BY <2>1, SettledRow DEF Discarded
  <2> QED
    BY <1>5, <2>2 DEF RunReviseHalf
<1>6. CASE RunCreate(t)
  BY <1>1, <1>6 DEF RunCreate, Makes
<1>7. CASE RunRevise(t)
  <2>1. PICK d : drafts' = Append(Discarded(d), NewDraft(t))
    BY <1>7 DEF RunRevise
  <2>2. SameSources(Discarded(d))
    BY SettledRow DEF Discarded
  <2>3. Makes(t)
    BY <1>7, <2>1, <2>2 DEF RunRevise, Makes
  <2> QED
    BY <1>7, <2>3 DEF RunRevise
<1> QED
  BY <1>2, <1>3, <1>4, <1>5, <1>6, <1>7 DEF RunTool

LEMMA ToolKeepsDrafts ==
  ASSUME IInv, NEW t \in Turn, RunTool(t)
  PROVE  DraftKept'
<1>1. /\ pc[t] = "acting" /\ Answer(t)
      /\ \/ SameSources(drafts') /\ (UNCHANGED lastDraft \/ Returned(t, 0))
         \/ Makes(t) /\ Returned(t, Len(drafts) + 1)
  BY ToolSteps
<1>2. result' = result /\ pc'[t] \in InLoop /\ pc[t] \in InLoop
      /\ \A u \in Turn \ {t} : pc'[u] = pc[u] /\ lastDraft'[u] = lastDraft[u]
  <2>1. pc' = [pc EXCEPT ![t] = "asking"] \/ pc' = [pc EXCEPT ![t] = "acting"]
    BY <1>1, AnswerEffect
  <2>2. pc \in [Turn -> {"new", "asking", "acting", "rules", "storing"} \cup Ended]
        /\ lastDraft \in [Turn -> 0..MaxDraft]
    BY DEF IInv, TypeOK
  <2> QED
    BY <1>1, <2>1, <2>2, AnswerEffect DEF Returned, InLoop
<1>3. PICK n : n = Len(drafts) + 1
  OBVIOUS
<1>4. drafts \in Seq(DraftRow) /\ Len(drafts) <= MaxDraft /\ result \in [Turn -> ResultType]
  BY DEF IInv, TypeOK, ResultType
<1>5. DraftTypes'
  <2>1. CASE SameSources(drafts')
    BY <1>2, <1>4, <2>1 DEF SameSources, DraftTypes
  <2>2. CASE Makes(t)
    BY <1>2, <1>3, <1>4, <2>2, MakesNewest DEF DraftTypes
  <2> QED
    BY <1>1, <2>1, <2>2
<1>6. DraftInv'
  <2> SUFFICES ASSUME NEW u \in Turn PROVE OwnOf(u, pc[u], lastDraft[u], result[u])'
    BY DEF DraftInv, OwnOf
  <2>1. CASE u # t
    <3>1. SameSources(drafts') \/ \E v \in Turn \ {u} : Makes(v)
      BY <1>1, <2>1
    <3> QED
      BY <1>2, <2>1, <3>1, OthersKeepOwn
  <2>2. CASE u = t
    <3>1. pc'[t] \notin Storing \cup {"answered"}
      BY <1>2 DEF InLoop, Storing
    <3> SUFFICES ASSUME NEW d, d = lastDraft'[t], d # 0 PROVE NewestOwn(t, d)'
      BY <2>2, <3>1 DEF OwnOf, NewestOwn
    <3>2. lastDraft \in [Turn -> 0..MaxDraft]
      BY DEF IInv, TypeOK
    <3>3. CASE SameSources(drafts') /\ UNCHANGED lastDraft
      <4>1. NewestOwn(t, d) /\ d \in Nat \ {0}
        BY <1>2, <3>2, <3>3, BoundAssumption DEF IInv, DraftInv
      <4> QED
        BY <3>3, <4>1, SameNewest
    <3>4. CASE Returned(t, 0)
      BY <3>2, <3>4 DEF Returned
    <3>5. CASE Makes(t) /\ Returned(t, Len(drafts) + 1)
      <4>1. d = n
        BY <1>3, <3>2, <3>5 DEF Returned
      <4> QED
        BY <1>3, <3>5, <4>1, MakesNewest
    <3> QED
      BY <1>1, <3>3, <3>4, <3>5
  <2> QED
    BY <2>1, <2>2
<1> QED
  BY <1>5, <1>6 DEF DraftKept

\* A step of a turn that makes no draft keeps DraftInv, if what the turn will
\* show afterwards was its newest draft before.
LEMMA TurnKeepsDrafts ==
  ASSUME IInv, NEW t \in Turn, SameSources(drafts'),
         result' \in [Turn -> ResultType],
         \A u \in Turn \ {t} : pc'[u] = pc[u] /\ lastDraft'[u] = lastDraft[u]
                               /\ result'[u] = result[u],
         NEW last \in Nat, last = lastDraft'[t],
         NEW card \in Nat, card = result'[t].card,
         pc'[t] \in InLoop /\ last # 0 => NewestOwn(t, last),
         pc'[t] \in Storing \cup {"answered"} /\ result'[t].by = "agent" /\ card # 0
           => NewestOwn(t, card)
  PROVE  DraftKept'
<1>1. DraftTypes'
  BY DEF IInv, TypeOK, DraftTypes, SameSources
<1>2. DraftInv'
  <2> SUFFICES ASSUME NEW u \in Turn PROVE OwnOf(u, pc[u], lastDraft[u], result[u])'
    BY DEF DraftInv, OwnOf
  <2>1. CASE u # t
    BY <2>1, OthersKeepOwn
  <2>2. CASE u = t
    <3>1. pc'[t] \in InLoop /\ last # 0 => NewestOwn(t, last)'
      BY SameNewest
    <3>2. pc'[t] \in Storing \cup {"answered"} /\ result'[t].by = "agent" /\ card # 0
            => NewestOwn(t, card)'
      BY SameNewest
    <3>3. (pc'[t] \in InLoop /\ last # 0 => NewestOwn(t, lastDraft[t])')
      BY <3>1 DEF NewestOwn
    <3>4. (pc'[t] \in Storing \cup {"answered"} /\ result'[t].by = "agent" /\ card # 0
            => NewestOwn(t, result[t].card)')
      BY <3>2 DEF NewestOwn
    <3> QED
      BY <2>2, <3>3, <3>4 DEF OwnOf
  <2> QED
    BY <2>1, <2>2
<1> QED
  BY <1>1, <1>2 DEF DraftKept

\* The rules of the types used below.
LEMMA TurnTypes ==
  ASSUME IInv, NEW t \in Turn
  PROVE  /\ pc \in [Turn -> {"new", "asking", "acting", "rules", "storing"} \cup Ended]
         /\ lastDraft \in [Turn -> 0..MaxDraft] /\ result \in [Turn -> ResultType]
         /\ lastDraft[t] \in Nat /\ result[t].card \in Nat
         /\ 0 \in 0..MaxDraft
         /\ drafts \in Seq(DraftRow) /\ SameSources(drafts)
BY BoundAssumption DEF IInv, TypeOK, ResultType, SameSources

LEMMA AskKeepsDrafts ==
  ASSUME IInv, NEW t \in Turn, Load(t) \/ Ask(t)
  PROVE  DraftKept'
<1> DEFINE last == lastDraft'[t]
           card == result'[t].card
<1>1. /\ pc \in [Turn -> {"new", "asking", "acting", "rules", "storing"} \cup Ended]
      /\ lastDraft \in [Turn -> 0..MaxDraft] /\ result \in [Turn -> ResultType]
      /\ lastDraft[t] \in Nat /\ result[t].card \in Nat
      /\ 0 \in 0..MaxDraft
      /\ drafts \in Seq(DraftRow) /\ SameSources(drafts)
  BY TurnTypes
<1>2. OwnOf(t, pc[t], lastDraft[t], result[t])
  BY OwnOfEach DEF IInv
<1>3. CASE Load(t)
  <2>1. lastDraft' = lastDraft /\ result' = result /\ drafts' = drafts /\ lastDraft[t] = 0
        /\ pc' = [pc EXCEPT ![t] = "asking"]
    BY <1>3 DEF Load, To, loop, IInv, LoopInv, InLoop
  <2>2. pc'[t] \notin Storing \cup {"answered"} /\ \A u \in Turn \ {t} : pc'[u] = pc[u]
    BY <1>1, <2>1 DEF Storing
  <2> QED
    BY <1>1, <2>1, <2>2, TurnKeepsDrafts DEF SameSources
<1>4. CASE ToolCalls(t)
  <2>1. lastDraft' = lastDraft /\ result' = result /\ drafts' = drafts
        /\ pc' = [pc EXCEPT ![t] = "acting"] /\ pc[t] = "asking"
    BY <1>4 DEF ToolCalls, To
  <2>2. /\ pc'[t] \notin Storing \cup {"answered"} /\ \A u \in Turn \ {t} : pc'[u] = pc[u]
        /\ lastDraft[t] # 0 => NewestOwn(t, lastDraft[t])
    BY <1>1, <1>2, <2>1 DEF Storing, OwnOf, InLoop
  <2> QED
    BY <1>1, <2>1, <2>2, TurnKeepsDrafts DEF SameSources
<1>5. ASSUME NEW c \in {0, lastDraft[t]}, NEW label \in {"storing", "rules"},
             pc[t] = "asking", LoopEnds({t}), To(t, label), UNCHANGED drafts,
             \/ Answers(t, "agent", c) /\ label = "storing"
             \/ UNCHANGED result /\ label = "rules"
      PROVE  DraftKept'
  <2>1. /\ lastDraft'[t] = 0 /\ pc'[t] = label /\ label \notin InLoop
        /\ \A u \in Turn \ {t} : pc'[u] = pc[u] /\ lastDraft'[u] = lastDraft[u]
    BY <1>1, <1>5 DEF LoopEnds, To, InLoop
  <2>2. /\ result' \in [Turn -> ResultType] /\ card \in Nat
        /\ \A u \in Turn \ {t} : result'[u] = result[u]
        /\ label = "storing" => card = c
    <3>1. CASE Answers(t, "agent", c)
      <4> DEFINE answer == [by |-> "agent", card |-> c]
      <4>1. answer \in ResultType /\ answer.card = c /\ c \in Nat
        BY <1>1 DEF ResultType
      <4>2. result' = [result EXCEPT ![t] = answer]
        BY <3>1 DEF Answers
      <4> HIDE DEF answer
      <4> QED
        BY <1>1, <4>1, <4>2
    <3>2. CASE UNCHANGED result /\ label = "rules"
      BY <1>1, <3>2
    <3> QED
      BY <1>5, <3>1, <3>2
  <2>3. label = "storing" /\ card # 0 => NewestOwn(t, card)
    BY <1>2, <1>5, <2>2 DEF OwnOf, InLoop
  <2>4. label \in Storing \cup {"answered"} => label = "storing"
    BY <1>5 DEF Storing
  <2>5. SameSources(drafts')
    BY <1>1, <1>5 DEF SameSources
  <2> HIDE DEF card
  <2> QED
    BY <2>1, <2>2, <2>3, <2>4, <2>5, TurnKeepsDrafts DEF card
<1>6. CASE Reply(t)
  BY <1>5, <1>6 DEF Reply
<1>7. CASE GiveUp(t)
  BY <1>5, <1>7 DEF GiveUp
<1>8. CASE ChatFails(t)
  BY <1>5, <1>8 DEF ChatFails
<1> QED
  BY <1>3, <1>4, <1>6, <1>7, <1>8 DEF Ask

LEMMA StoringKeepsDrafts ==
  ASSUME IInv, NEW t \in Turn, Stored(t) \/ Resend(t) \/ AppendFails(t)
  PROVE  DraftKept'
<1>1. /\ pc \in [Turn -> {"new", "asking", "acting", "rules", "storing"} \cup Ended]
      /\ lastDraft \in [Turn -> 0..MaxDraft] /\ result \in [Turn -> ResultType]
      /\ lastDraft[t] \in Nat /\ result[t].card \in Nat
      /\ drafts \in Seq(DraftRow) /\ SameSources(drafts)
  BY TurnTypes
<1>2. /\ lastDraft' = lastDraft /\ result' = result /\ drafts' = drafts
      /\ pc[t] = "storing"
      /\ \E label \in {"storing", "answered"} : pc' = [pc EXCEPT ![t] = label]
  BY <1>1 DEF Stored, Resend, AppendFails, WaitsFor, To, loop
<1>3. pc'[t] \notin InLoop /\ \A u \in Turn \ {t} : pc'[u] = pc[u]
  BY <1>1, <1>2 DEF InLoop
<1>4. result[t].by = "agent" /\ result[t].card # 0 => NewestOwn(t, result[t].card)
  BY <1>2, OwnOfEach DEF IInv, OwnOf, Storing
<1> QED
  BY <1>1, <1>2, <1>3, <1>4, TurnKeepsDrafts DEF SameSources

\* What the rules answer is not the agent's answer.
LEMMA RulesKeepDrafts ==
  ASSUME IInv, NEW t \in Turn, RulesStep(t)
  PROVE  DraftKept'
<1>1. /\ pc \in [Turn -> {"new", "asking", "acting", "rules", "storing"} \cup Ended]
      /\ lastDraft \in [Turn -> 0..MaxDraft] /\ result \in [Turn -> ResultType]
      /\ lastDraft[t] \in Nat /\ result[t].card \in Nat /\ 0 \in 0..MaxDraft
      /\ drafts \in Seq(DraftRow) /\ SameSources(drafts)
  BY TurnTypes
<1>2. Resolved(t) \in 0..MaxDraft
  <2>1. Resolved(t) \in PendingIds(drafts) \cup {0}
    BY <1>1, ResolvedIsPending DEF Resolved
  <2>2. PendingIds(drafts) \subseteq 1..Len(drafts) /\ Len(drafts) <= MaxDraft
    BY <1>1, PendingFinite DEF IInv, TypeOK
  <2> QED
    BY <1>1, <2>1, <2>2, BoundAssumption
<1>3. lastDraft' = lastDraft /\ \E label \in Ended : To(t, label)
  BY DEF RulesStep, RulesCreate, RulesDecide, RulesReply, RulesFail, loop, Ended
<1>4. pc'[t] \in Ended /\ pc'[t] \notin InLoop /\ \A u \in Turn \ {t} : pc'[u] = pc[u]
  BY <1>1, <1>3 DEF To, InLoop, Ended
<1>5. ASSUME NEW c \in 0..MaxDraft, Answers(t, "rules", c)
      PROVE  /\ result' \in [Turn -> ResultType] /\ result'[t].by = "rules"
             /\ \A u \in Turn \ {t} : result'[u] = result[u]
  <2> DEFINE answer == [by |-> "rules", card |-> c]
  <2>1. answer \in ResultType /\ answer.by = "rules"
    BY DEF ResultType
  <2>2. result' = [result EXCEPT ![t] = answer]
    BY <1>5 DEF Answers
  <2> HIDE DEF answer
  <2> QED
    BY <1>1, <2>1, <2>2
<1>6. CASE RulesCreate(t)
  <2>1. Makes(t)
    BY <1>1, <1>6 DEF RulesCreate, Makes
  <2>2. PICK n : n = Len(drafts) + 1
    OBVIOUS
  <2>3. drafts' \in Seq(DraftRow) /\ Len(drafts') = n /\ n \in 1..MaxDraft
    BY <2>1, <2>2, MakesNewest
  <2>4. /\ result' \in [Turn -> ResultType]
        /\ result'[t].by = "rules" \/ pc'[t] = "unanswered"
        /\ \A u \in Turn \ {t} : result'[u] = result[u]
    <3>1. Answers(t, "rules", Len(drafts')) \/ (UNCHANGED result /\ To(t, "unanswered"))
      BY <1>6 DEF RulesCreate
    <3>2. Len(drafts') \in 0..MaxDraft
      BY <2>3
    <3>3. UNCHANGED result /\ To(t, "unanswered") => pc'[t] = "unanswered"
      BY <1>1 DEF To
    <3> QED
      BY <1>1, <1>5, <3>1, <3>2, <3>3
  <2>5. DraftTypes'
    BY <2>3, <2>4 DEF DraftTypes
  <2>6. DraftInv'
    <3> SUFFICES ASSUME NEW u \in Turn PROVE OwnOf(u, pc[u], lastDraft[u], result[u])'
      BY DEF DraftInv, OwnOf
    <3>1. CASE u # t
      BY <1>3, <1>4, <2>1, <2>4, <3>1, OthersKeepOwn
    <3>2. CASE u = t
      BY <1>4, <2>4, <3>2 DEF OwnOf, Storing
    <3> QED
      BY <3>1, <3>2
  <2> QED
    BY <2>5, <2>6 DEF DraftKept
<1>7. ASSUME NEW c \in 0..MaxDraft, Answers(t, "rules", c), SameSources(drafts')
      PROVE  DraftKept'
  <2>1. result'[t].card \in Nat
    BY <1>5, <1>7 DEF ResultType
  <2> QED
    BY <1>1, <1>3, <1>4, <1>5, <1>7, <2>1, TurnKeepsDrafts
<1>8. CASE RulesDecide(t)
  <2>1. PICK s \in {"APPROVED", "REJECTED"} : drafts' = [drafts EXCEPT ![Resolved(t)].status = s]
    BY <1>8 DEF RulesDecide
  <2>2. SameSources(drafts')
    BY <2>1, SettledRow
  <2> QED
    BY <1>1, <1>7, <1>8, <2>2 DEF RulesDecide
<1>9. CASE RulesReply(t)
  <2>1. SameSources(drafts')
    BY <1>1, <1>9 DEF RulesReply, SameSources
  <2> QED
    BY <1>1, <1>2, <1>7, <1>9, <2>1 DEF RulesReply
<1>10. CASE RulesFail(t)
  <2>1. result' = result /\ SameSources(drafts') /\ pc'[t] = "unanswered"
    BY <1>1, <1>10 DEF RulesFail, SameSources, To
  <2> QED
    BY <1>1, <1>3, <1>4, <2>1, TurnKeepsDrafts DEF Storing
<1> QED
  BY <1>6, <1>8, <1>9, <1>10 DEF RulesStep

LEMMA DraftStep == IInv /\ [Next]_vars => DraftKept'
<1> SUFFICES ASSUME IInv, [Next]_vars PROVE DraftKept'
  OBVIOUS
<1>1. SameSources(drafts)
  BY DEF IInv, TypeOK, SameSources
<1>2. ASSUME NEW t \in Turn, AgentStep(t) PROVE DraftKept'
  BY <1>2, AskKeepsDrafts, ToolKeepsDrafts, StoringKeepsDrafts DEF AgentStep
<1>3. CASE UNCHANGED <<drafts, pc, lastDraft, result>>
  BY <1>3 DEF DraftKept, DraftTypes, DraftInv, NewestOwn, IInv, TypeOK, ResultType
<1>4. CASE ServerCrash
  <2> DEFINE served == {t \in Turn : pc[t] \notin {"new"} \cup Ended}
  <2>1. /\ drafts' = drafts /\ result' = result
        /\ \A t \in served : pc'[t] = "unanswered"
        /\ \A t \in Turn \ served : pc'[t] = pc[t] /\ lastDraft'[t] = lastDraft[t]
    BY <1>4 DEF ServerCrash, LoopEnds
  <2>2. DraftTypes'
    BY <2>1 DEF DraftTypes, IInv, TypeOK, ResultType
  <2>3. DraftInv'
    <3> SUFFICES ASSUME NEW u \in Turn PROVE OwnOf(u, pc[u], lastDraft[u], result[u])'
      BY DEF DraftInv, OwnOf
    <3>1. CASE u \in served
      BY <2>1, <3>1 DEF OwnOf, InLoop, Storing
    <3>2. CASE u \notin served
      <4>1. SameSources(drafts')
        BY <1>1, <2>1 DEF SameSources
      <4> QED
        BY <2>1, <3>2, <4>1, OthersKeepOwn
    <3> QED
      BY <3>1, <3>2
  <2> QED
    BY <2>2, <2>3 DEF DraftKept
<1>5. CASE HistoryExpires
  BY <1>3, <1>5 DEF HistoryExpires, loop
<1>6. CASE UNCHANGED vars
  BY <1>3, <1>6 DEF vars
<1>7. ASSUME NEW t \in Turn, PipeStep(t) PROVE DraftKept'
  BY <1>3, <1>7 DEF PipeStep, PushUser, PushReply, Trim, loop
<1> QED
  BY <1>2, <1>4, <1>5, <1>6, <1>7, RulesKeepDrafts DEF Next

-----------------------------------------------------------------------------
(* A step keeps the types of the history, and HistoryInv.                   *)

PipeType == [Attempt -> {"unsent", "pushUser", "pushReply", "trim", "done"}]

HistoryTypes ==
  /\ history \in Seq(Entry) /\ untrimmed \subseteq Attempt /\ pipe \in PipeType
  /\ faults \in 0..MaxFaults

HistoryKept == HistoryTypes /\ HistoryInv

\* A step that leaves the list and the attempts in it alone.
LEMMA ListLeftAlone ==
  ASSUME IInv, UNCHANGED <<history, untrimmed>>, faults' \in 0..MaxFaults,
         pipe' \in PipeType, \A a \in untrimmed : pipe'[a] = pipe[a],
         \A t \in Turn : pc'[t] \in Before => pipe'[<<t, 0>>] = "unsent"
  PROVE  HistoryKept'
<1>1. HistoryTypes'
  BY DEF HistoryTypes, IInv, TypeOK
<1>2. Halfway' = Halfway
  BY DEF Halfway
<1>3. HistoryInv'
  BY <1>2 DEF HistoryInv, IInv
<1> QED
  BY <1>1, <1>3 DEF HistoryKept

\* The pipeline of a turn is sent, or sent again.
LEMMA SendingKeepsHistory ==
  ASSUME IInv, UNCHANGED <<history, untrimmed>>, faults' \in 0..MaxFaults,
         NEW t \in Turn, NEW i \in 0..MaxRetries, Sends(t, i), pipe[<<t, i>>] = "unsent",
         \A u \in Turn : pc'[u] \in Before => u # t /\ pc[u] \in Before
  PROVE  HistoryKept'
<1>1. pipe \in PipeType /\ <<t, i>> \in Attempt /\ untrimmed \subseteq Attempt
  BY DEF IInv, TypeOK, PipeType, Attempt
<1>2. pipe' = [pipe EXCEPT ![<<t, i>>] = "pushUser"]
  BY DEF Sends
<1>3. pipe' \in PipeType
  BY <1>1, <1>2 DEF PipeType
<1>4. <<t, i>> \notin untrimmed
  BY DEF IInv, HistoryInv
<1>5. \A a \in untrimmed : pipe'[a] = pipe[a]
  BY <1>1, <1>2, <1>4 DEF PipeType
<1>6. ASSUME NEW u \in Turn, pc'[u] \in Before PROVE pipe'[<<u, 0>>] = "unsent"
  <2>1. u # t /\ pipe[<<u, 0>>] = "unsent"
    BY <1>6 DEF IInv, HistoryInv
  <2>2. <<u, 0>> \in Attempt /\ <<u, 0>> # <<t, i>>
    BY <2>1, RetryAssumption DEF Attempt
  <2> QED
    BY <1>1, <1>2, <2>1, <2>2 DEF PipeType
<1> QED
  BY <1>3, <1>5, <1>6, ListLeftAlone

\* Redis runs a command of an attempt.
LEMMA RunsEffect ==
  ASSUME IInv, NEW a \in Attempt, NEW from,
         NEW to \in {"pushReply", "trim", "done"}, Runs(a, from, to),
         from # "unsent", UNCHANGED pc
  PROVE  /\ pipe' \in PipeType /\ pipe'[a] = to
         /\ \A b \in Attempt \ {a} : pipe'[b] = pipe[b]
         /\ \A t \in Turn : pc'[t] \in Before => pipe'[<<t, 0>>] = "unsent"
<1>1. pipe \in PipeType
  BY DEF IInv, TypeOK, PipeType
<1>2. pipe' = [pipe EXCEPT ![a] = to] /\ pipe[a] = from
  BY DEF Runs
<1>3. pipe' \in PipeType /\ pipe'[a] = to /\ \A b \in Attempt \ {a} : pipe'[b] = pipe[b]
  BY <1>1, <1>2 DEF PipeType
<1>4. ASSUME NEW t \in Turn, pc'[t] \in Before PROVE pipe'[<<t, 0>>] = "unsent"
  <2>1. pipe[<<t, 0>>] = "unsent"
    BY <1>4 DEF IInv, HistoryInv
  <2>2. <<t, 0>> \in Attempt \ {a}
    BY <1>2, <2>1, RetryAssumption DEF Attempt
  <2> QED
    BY <1>3, <2>1, <2>2
<1> QED
  BY <1>3, <1>4

LEMMA PushKeepsHistory ==
  ASSUME IInv, NEW a \in Attempt, PushUser(a) \/ PushReply(a)
  PROVE  HistoryKept'
<1> DEFINE more == untrimmed \cup {a}
<1>1. /\ history \in Seq(Entry) /\ untrimmed \subseteq Attempt /\ faults' \in 0..MaxFaults
      /\ MaxMessages \in Nat
  BY SizeAssumption DEF IInv, TypeOK, PushUser, PushReply
<1>2. PICK role \in {"user", "assistant"} : Push(a, role)
  BY DEF PushUser, PushReply
<1>3. untrimmed' = more /\ history' \in Seq(Entry) /\ Len(history') = Len(history) + 1
  <2>1. [role |-> role, turn |-> a[1]] \in Entry
    BY DEF Entry, Attempt
  <2> QED
    BY <1>1, <1>2, <2>1, Appended DEF Push
<1>4. \E from \in {"pushUser", "pushReply"}, to \in {"pushReply", "trim"} :
        Runs(a, from, to) /\ UNCHANGED pc
  BY DEF PushUser, PushReply
<1>5. /\ pipe' \in PipeType /\ \A b \in Attempt \ {a} : pipe'[b] = pipe[b]
      /\ pipe'[a] \in {"pushReply", "trim"}
      /\ \A t \in Turn : pc'[t] \in Before => pipe'[<<t, 0>>] = "unsent"
  BY <1>4, RunsEffect
<1>6. HistoryTypes'
  BY <1>1, <1>3, <1>5 DEF HistoryTypes
<1>7. /\ IsFiniteSet(untrimmed) /\ IsFiniteSet(Halfway)
      /\ Halfway \subseteq untrimmed
      /\ Len(history) + Cardinality(Halfway) <= MaxMessages + 2 * Cardinality(untrimmed)
  <2>1. Halfway \in SUBSET untrimmed
    BY DEF Halfway
  <2> QED
    BY <2>1, FS_Subset DEF IInv, HistoryInv
<1>8. /\ IsFiniteSet(more)
      /\ Cardinality(more) = IF a \in untrimmed THEN Cardinality(untrimmed)
                             ELSE Cardinality(untrimmed) + 1
  BY <1>7, FS_AddElement
<1>9. Cardinality(untrimmed) \in Nat /\ Cardinality(Halfway) \in Nat /\ Len(history) \in Nat
  BY <1>1, <1>7, FS_CardinalityType
<1>10. \A b \in more : pipe'[b] \in {"pushReply", "trim", "done"}
  BY <1>1, <1>5 DEF IInv, HistoryInv
<1>11. Len(history') + Cardinality(Halfway') <= MaxMessages + 2 * Cardinality(more)
  <2>1. CASE PushUser(a)
    <3>1. pipe[a] = "pushUser" /\ pipe'[a] = "pushReply"
      BY <2>1, RunsEffect DEF PushUser, Runs
    <3>2. a \notin untrimmed /\ a \notin Halfway
      BY <1>7, <3>1 DEF IInv, HistoryInv
    <3>3. Halfway' = Halfway \cup {a}
      BY <1>1, <1>3, <1>5, <3>1 DEF Halfway
    <3>4. Cardinality(Halfway') = Cardinality(Halfway) + 1
      BY <1>7, <3>2, <3>3, FS_AddElement
    <3> QED
      BY <1>1, <1>3, <1>7, <1>8, <1>9, <3>2, <3>4
  <2>2. CASE PushReply(a)
    <3>1. pipe[a] = "pushReply" /\ pipe'[a] = "trim"
      BY <2>2, RunsEffect DEF PushReply, Runs
    <3>2. Halfway' = Halfway \ {a} /\ (a \in Halfway <=> a \in untrimmed)
      BY <1>1, <1>3, <1>5, <3>1 DEF Halfway
    <3>3. Cardinality(Halfway') = IF a \in untrimmed THEN Cardinality(Halfway) - 1
                                  ELSE Cardinality(Halfway)
      BY <1>7, <3>2, FS_RemoveElement
    <3> QED
      BY <1>1, <1>3, <1>7, <1>8, <1>9, <3>3
  <2> QED
    BY <2>1, <2>2
<1>12. HistoryInv'
  <2> HIDE DEF more
  <2> QED
    BY <1>3, <1>5, <1>8, <1>10, <1>11 DEF HistoryInv
<1> QED
  BY <1>6, <1>12 DEF HistoryKept

\* Nobody has pushed anything since the list was trimmed or went.
LEMMA CutKeepsHistory ==
  ASSUME IInv, history' \in Seq(Entry), Len(history') <= MaxMessages, untrimmed' = {},
         faults' \in 0..MaxFaults, pipe' \in PipeType,
         \A t \in Turn : pc'[t] \in Before => pipe'[<<t, 0>>] = "unsent"
  PROVE  HistoryKept'
<1>1. Halfway' = {}
  BY DEF Halfway
<1>2. IsFiniteSet({}) /\ Cardinality({}) = 0
  BY FS_EmptySet
<1>3. Len(history') + 0 <= MaxMessages + 2 * 0
  BY SizeAssumption
<1>4. HistoryInv'
  BY <1>1, <1>2, <1>3 DEF HistoryInv
<1> QED
  BY <1>4 DEF HistoryKept, HistoryTypes

LEMMA HistoryStep == IInv /\ [Next]_vars => HistoryKept'
<1> SUFFICES ASSUME IInv, [Next]_vars PROVE HistoryKept'
  OBVIOUS
<1>1. /\ history \in Seq(Entry) /\ untrimmed \subseteq Attempt /\ faults \in 0..MaxFaults
      /\ pipe \in PipeType
      /\ pc \in [Turn -> {"new", "asking", "acting", "rules", "storing"} \cup Ended]
      /\ MaxMessages \in Nat \ {0} /\ MaxFaults \in Nat /\ MaxRetries \in Nat
  BY SizeAssumption, BoundAssumption, RetryAssumption DEF IInv, TypeOK, PipeType
<1>2. Fault => faults' \in 0..MaxFaults
  BY <1>1 DEF Fault
<1>3. \A u \in Turn : pc[u] \in Before => pipe[<<u, 0>>] = "unsent"
  BY DEF IInv, HistoryInv
\* A step of a turn that sends nothing.
<1>4. ASSUME NEW t \in Turn, UNCHANGED <<history, untrimmed, pipe>>, faults' \in 0..MaxFaults,
             NEW label, pc' = [pc EXCEPT ![t] = label],
             pc[t] \in Before \/ label \notin Before
      PROVE  HistoryKept'
  BY <1>1, <1>3, <1>4, ListLeftAlone
<1>5. ASSUME NEW t \in Turn, AgentStep(t) PROVE HistoryKept'
  <2>1. CASE Load(t)
    BY <1>1, <1>4, <2>1 DEF Load, To, Before
  <2>2. CASE ToolCalls(t) \/ ChatFails(t)
    BY <1>1, <1>4, <2>2 DEF ToolCalls, ChatFails, To, Before, InLoop
  <2>3. CASE Reply(t) \/ GiveUp(t)
    <3>1. /\ UNCHANGED <<history, untrimmed, faults>> /\ Sends(t, 0)
          /\ pc[t] = "asking" /\ pc' = [pc EXCEPT ![t] = "storing"]
      BY <2>3 DEF Reply, GiveUp, To
    <3>2. pipe[<<t, 0>>] = "unsent" /\ 0 \in 0..MaxRetries
      BY <1>1, <1>3, <3>1 DEF Before, InLoop
    <3>3. \A u \in Turn : pc'[u] \in Before => u # t /\ pc[u] \in Before
      BY <1>1, <3>1 DEF Before, InLoop
    <3> QED
      BY <1>1, <3>1, <3>2, <3>3, SendingKeepsHistory
  <2>4. CASE RunTool(t)
    <3>1. pc[t] = "acting" /\ Answer(t)
      BY <2>4, ToolSteps
    <3> QED
      BY <1>1, <1>4, <3>1, AnswerEffect DEF Before, InLoop
  <2>5. CASE Stored(t)
    BY <1>1, <1>4, <2>5 DEF Stored, To, Before, InLoop
  <2>6. CASE AppendFails(t)
    BY <1>2, <1>4, <2>6 DEF AppendFails, To, Before, InLoop
  <2>7. CASE Resend(t)
    <3>1. PICK i \in 0..(MaxRetries - 1) : WaitsFor(t, i) /\ Sends(t, i + 1)
      BY <2>7 DEF Resend
    <3>2. i + 1 \in 0..MaxRetries /\ pipe[<<t, i + 1>>] = "unsent" /\ pc[t] = "storing"
      BY <1>1, <3>1 DEF WaitsFor
    <3>3. \A u \in Turn : pc'[u] \in Before => u # t /\ pc[u] \in Before
      BY <2>7, <3>2 DEF Resend, Before, InLoop
    <3> QED
      BY <1>2, <2>7, <3>1, <3>2, <3>3, SendingKeepsHistory DEF Resend
  <2> QED
    BY <1>5, <2>1, <2>2, <2>3, <2>4, <2>5, <2>6, <2>7 DEF AgentStep, Ask
<1>6. ASSUME NEW t \in Turn, RulesStep(t) PROVE HistoryKept'
  BY <1>1, <1>4, <1>6
     DEF RulesStep, RulesCreate, RulesDecide, RulesReply, RulesFail, To, Before, InLoop
<1>7. ASSUME NEW t \in Turn, PipeStep(t) PROVE HistoryKept'
  <2>1. PICK i \in 0..MaxRetries :
          PushUser(<<t, i>>) \/ PushReply(<<t, i>>) \/ Trim(<<t, i>>)
    BY <1>7 DEF PipeStep
  <2>2. <<t, i>> \in Attempt
    BY DEF Attempt
  <2>3. CASE Trim(<<t, i>>)
    <3>1. LastOf(history, MaxMessages) \in Seq(Entry)
          /\ Len(LastOf(history, MaxMessages)) <= MaxMessages
      BY <1>1, KeptEnd
    <3>2. /\ Runs(<<t, i>>, "trim", "done") /\ UNCHANGED <<pc, faults>>
          /\ history' = LastOf(history, MaxMessages) /\ untrimmed' = {}
      BY <2>3 DEF Trim
    <3>3. pipe' \in PipeType /\ \A u \in Turn : pc'[u] \in Before => pipe'[<<u, 0>>] = "unsent"
      BY <2>2, <3>2, RunsEffect
    <3> QED
      BY <1>1, <3>1, <3>2, <3>3, CutKeepsHistory
  <2> QED
    BY <2>1, <2>2, <2>3, PushKeepsHistory
<1>8. CASE HistoryExpires
  <2>1. history' = <<>> /\ untrimmed' = {} /\ UNCHANGED <<pipe, pc, faults>>
    BY <1>8 DEF HistoryExpires
  <2>2. history' \in Seq(Entry) /\ Len(history') = 0
    BY <2>1
  <2> QED
    BY <1>1, <1>3, <2>1, <2>2, CutKeepsHistory
<1>9. CASE ServerCrash
  <2>1. \A u \in Turn : pc'[u] \in Before => pc[u] \in Before
    BY <1>9 DEF ServerCrash, Before, InLoop
  <2>2. UNCHANGED <<history, untrimmed, pipe>> /\ faults' \in 0..MaxFaults
    BY <1>2, <1>9 DEF ServerCrash
  <2> QED
    BY <1>1, <1>3, <2>1, <2>2, ListLeftAlone
<1>10. CASE UNCHANGED vars
  BY <1>1, <1>3, <1>10, ListLeftAlone DEF vars
<1> QED
  BY <1>5, <1>6, <1>7, <1>8, <1>9, <1>10 DEF Next

-----------------------------------------------------------------------------
(* The theorems.                                                            *)

\* Every reachable state satisfies the inductive invariant.
THEOREM Invariance == Spec => []IInv
<1>1. Init => IInv
  <2> SUFFICES ASSUME Init PROVE IInv
    OBVIOUS
  <2>1. TypeOK
    <3>1. <<>> \in Seq(Entry) /\ <<>> \in Seq(DraftRow) /\ <<>> \in Seq(Message) /\ Len(<<>>) = 0
      OBVIOUS
    <3>2. 0 \in 0..MaxRounds /\ 0 \in 0..MaxCalls /\ 1 \in 1..MaxCalls /\ 0 \in 0..MaxDraft
          /\ 0 \in 0..MaxFaults /\ 0 <= MaxDraft
      BY SizeAssumption, BoundAssumption
    <3> QED
      BY <3>1, <3>2 DEF Init, TypeOK
  <2>2. LoopInv /\ CallsInv /\ DraftInv
    BY DEF Init, LoopInv, CallsInv, DraftInv, Storing, InLoop
  <2>3. HistoryInv
    <3>1. Halfway = {} /\ history = <<>> /\ untrimmed = {}
      BY DEF Init, Halfway
    <3>2. IsFiniteSet({}) /\ Cardinality({}) = 0 /\ Len(<<>>) = 0
      BY FS_EmptySet
    <3>4. \A t \in Turn : pipe[<<t, 0>>] = "unsent"
      BY RetryAssumption DEF Init, Attempt
    <3>3. 0 + 0 <= MaxMessages + 2 * 0
      BY SizeAssumption
    <3> QED
      BY <3>1, <3>2, <3>3, <3>4 DEF HistoryInv
  <2> QED
    BY <2>1, <2>2, <2>3 DEF IInv
<1>2. IInv /\ [Next]_vars => IInv'
  <2> SUFFICES ASSUME IInv, [Next]_vars PROVE IInv'
    OBVIOUS
  <2>1. LoopKept' /\ DraftKept' /\ HistoryKept'
    BY LoopStep, DraftStep, HistoryStep
  <2>2. TypeOK'
    BY <2>1 DEF LoopKept, LoopTypes, DraftKept, DraftTypes, HistoryKept, HistoryTypes, TypeOK,
         ResultType, PipeType
  <2> QED
    BY <2>1, <2>2 DEF IInv, LoopKept, DraftKept, HistoryKept
<1> QED
  BY <1>1, <1>2, PTL DEF Spec

\* Every variable keeps its type: above all, no answer, no list of messages and
\* no draft id outgrows the limits of the loop.
THEOREM TypeCorrect == Spec => []TypeOK
<1>1. IInv => TypeOK
  BY DEF IInv
<1> QED
  BY <1>1, Invariance, PTL

\* Whenever the LLM is asked, every request for tools among the messages is
\* followed by the results of all its calls, in order.
THEOREM CallsAnsweredHolds == Spec => []CallsAnswered
<1>1. IInv => CallsAnswered
  BY DEF IInv, CallsInv, CallsAnswered, AllAnswered
<1> QED
  BY <1>1, Invariance, PTL

\* The card of an agent's answer is of the newest draft that its turn has made,
\* whatever other turns create, settle or replace at the same time.
THEOREM CardIsNewestOwnHolds == Spec => []CardIsNewestOwn
<1>1. IInv => CardIsNewestOwn
  BY DEF IInv, DraftInv, NewestOwn, CardIsNewestOwn
<1> QED
  BY <1>1, Invariance, PTL

\* The history exceeds its window by no more than one pair for each attempt
\* that pushed since it was last trimmed, however often go-redis sends a
\* pipeline and however late Redis runs what is left of an attempt.
THEOREM HistoryInWindowHolds == Spec => []HistoryInWindow
<1>1. IInv => HistoryInWindow
  <2> SUFFICES ASSUME IInv PROVE HistoryInWindow
    OBVIOUS
  <2>1. IsFiniteSet(untrimmed) /\ Halfway \in SUBSET untrimmed
    BY DEF IInv, HistoryInv, Halfway
  <2>2. IsFiniteSet(Halfway)
    BY <2>1, FS_Subset
  <2>3. Cardinality(Halfway) \in Nat /\ Cardinality(untrimmed) \in Nat /\ Len(history) \in Nat
        /\ MaxMessages \in Nat
    BY <2>1, <2>2, FS_CardinalityType, SizeAssumption DEF IInv, TypeOK
  <2> QED
    BY <2>3 DEF IInv, HistoryInv, HistoryInWindow
<1> QED
  BY <1>1, Invariance, PTL
=============================================================================
