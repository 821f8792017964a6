------------------------------ MODULE AgentLoop ------------------------------
(***************************************************************************)
(* The tool-calling agent (internal/conversation): Agent.Run, the tool      *)
(* executor, the adapter methods its tools end in and the chat's history in *)
(* Redis, with the fallback to the rule-based dispatcher when the LLM fails *)
(* (HandleConversationWithContext).                                         *)
(*                                                                          *)
(* Every message of a chat is handled by a goroutine of its own, a "turn".  *)
(* Turns of one user in one chat share the history list and the drafts.     *)
(* What the LLM answers is any choice; of its tool calls the number is      *)
(* chosen with the answer and the tool of each when it is run.  A tool is   *)
(* one step: the reads and writes inside the draft operations interleave in *)
(* DraftLifecycle.                                                          *)
(* The system prompt and the texts are left out; the messages of a turn are *)
(* the requests for tools and their results, after the history it loaded.   *)
(***************************************************************************)
EXTENDS PendingDraft

CONSTANTS
  Turn,        \* user messages, all of one user in one chat
  Recording,   \* those that contain a record trigger word (hasRecordIntent)
  ReplyTo,     \* ReplyTo[t]: the turn whose message or card t replies to
  MaxRounds,   \* Agent.maxToolRounds (5)
  MaxMessages, \* History.maxMessages (20)
  MaxRetries,  \* redis.Options.MaxRetries, left at its default (3)
  MaxCalls,    \* bound: tool calls in one answer of the LLM
  MaxDraft,    \* bound: drafts
  MaxFaults    \* bound: Redis errors and server crashes

ASSUME RecordingAssumption == Recording \subseteq Turn
ASSUME ReplyAssumption == None \notin Turn /\ ReplyTo \in [Turn -> Turn \cup {None}]
ASSUME SizeAssumption == MaxRounds \in Nat \ {0} /\ MaxMessages \in Nat \ {0}
ASSUME RetryAssumption == MaxRetries \in Nat
ASSUME BoundAssumption == MaxCalls \in Nat \ {0} /\ MaxDraft \in Nat /\ MaxFaults \in Nat

VARIABLES
  history,   \* the Redis list kb:conv:<user>:<chat>
  untrimmed, \* the attempts that pushed to it since it was last trimmed
  pipe,      \* the next command of each attempt at a turn's pipeline
  drafts,    \* this chat's rows of knowledge_drafts, by id
  pc,        \* where each turn is
  messages,  \* the tool requests and results a turn has sent to the LLM
  rounds,    \* answers with tool calls so far
  calls,     \* how many tool calls of the answer at hand are still to be run
  at,        \* the number of the first of them
  lastDraft, \* the id in lastDraftJSON, 0 without one
  result,    \* who answered the user, and the draft on the card (0: no card)
  faults     \* faults so far

vars == <<history, untrimmed, pipe, drafts, pc, messages, rounds, calls, at,
          lastDraft, result, faults>>
loop == <<messages, rounds, calls, at, lastDraft>>

-----------------------------------------------------------------------------

Entry == [role : {"user", "assistant"}, turn : Turn]
Request(r, n) == [role |-> "assistant", round |-> r, call |-> n]
ToolResult(r, i) == [role |-> "tool", round |-> r, call |-> i]
Message == [role : {"assistant", "tool"}, round : 1..MaxRounds, call : 1..MaxCalls]

DraftRow == [status : {PENDING, "APPROVED", "REJECTED"},
             source : Turn, reply : Turn \cup {None}, card : {None}]

\* go-redis sends the pipeline of a turn up to 1 + MaxRetries times.
Attempt == Turn \X (0..MaxRetries)

Ended == {"answered", "unanswered"}

TypeOK ==
  /\ history \in Seq(Entry)
  /\ untrimmed \subseteq Attempt
  /\ pipe \in [Attempt -> {"unsent", "pushUser", "pushReply", "trim", "done"}]
  /\ drafts \in Seq(DraftRow) /\ Len(drafts) <= MaxDraft
  /\ pc \in [Turn -> {"new", "asking", "acting", "rules", "storing"} \cup Ended]
  /\ messages \in [Turn -> Seq(Message)]
  /\ rounds \in [Turn -> 0..MaxRounds]
  /\ calls \in [Turn -> 0..MaxCalls]
  /\ at \in [Turn -> 1..MaxCalls]
  /\ lastDraft \in [Turn -> 0..MaxDraft]
  /\ result \in [Turn -> [by : {"nobody", "agent", "rules"}, card : 0..MaxDraft]]
  /\ faults \in 0..MaxFaults

Init ==
  /\ history = <<>> /\ untrimmed = {}
  /\ pipe = [a \in Attempt |-> "unsent"]
  /\ drafts = <<>>
  /\ pc = [t \in Turn |-> "new"]
  /\ messages = [t \in Turn |-> <<>>]
  /\ rounds = [t \in Turn |-> 0]
  /\ calls = [t \in Turn |-> 0]
  /\ at = [t \in Turn |-> 1]
  /\ lastDraft = [t \in Turn |-> 0]
  /\ result = [t \in Turn |-> [by |-> "nobody", card |-> 0]]
  /\ faults = 0

To(t, label) == pc' = [pc EXCEPT ![t] = label]
Answers(t, who, card) == result' = [result EXCEPT ![t] = [by |-> who, card |-> card]]
Fault == faults < MaxFaults /\ faults' = faults + 1

-----------------------------------------------------------------------------
(* Agent.Run: load, ask, store. *)

\* What Load returns, or nothing if it fails, goes to the LLM only.
Load(t) ==
  /\ pc[t] = "new"
  /\ To(t, "asking")
  /\ UNCHANGED <<history, untrimmed, pipe, drafts, loop, result, faults>>

\* A loop without a limit that sends the last round only.
ToolCalls_Unlimited(t) ==
  /\ pc[t] = "asking"
  /\ \E n \in 1..MaxCalls :
       /\ calls' = [calls EXCEPT ![t] = n]
       /\ messages' = [messages EXCEPT ![t] = <<Request(1, n)>>]
  /\ at' = [at EXCEPT ![t] = 1]
  /\ To(t, "acting")
  /\ UNCHANGED <<history, untrimmed, pipe, drafts, rounds, lastDraft, result, faults>>

\* The LLM wants n tools run: the request joins the messages.
ToolCalls(t) ==
  /\ pc[t] = "asking" /\ rounds[t] < MaxRounds
  /\ \E n \in 1..MaxCalls :
       /\ calls' = [calls EXCEPT ![t] = n]
       /\ messages' = [messages EXCEPT ![t] = Append(@, Request(rounds[t] + 1, n))]
  /\ at' = [at EXCEPT ![t] = 1]
  /\ rounds' = [rounds EXCEPT ![t] = @ + 1]
  /\ To(t, "acting")
  /\ UNCHANGED <<history, untrimmed, pipe, drafts, lastDraft, result, faults>>

\* Run is over for the turns in ts, and with it their local variables.
LoopEnds(ts) ==
  /\ messages' = [t \in Turn |-> IF t \in ts THEN <<>> ELSE messages[t]]
  /\ rounds' = [t \in Turn |-> IF t \in ts THEN 0 ELSE rounds[t]]
  /\ calls' = [t \in Turn |-> IF t \in ts THEN 0 ELSE calls[t]]
  /\ at' = [t \in Turn |-> IF t \in ts THEN 1 ELSE at[t]]
  /\ lastDraft' = [t \in Turn |-> IF t \in ts THEN 0 ELSE lastDraft[t]]

\* Attempt i at the pipeline that Append makes of the turn's two messages.
Sends(t, i) == pipe' = [pipe EXCEPT ![<<t, i>>] = "pushUser"]

\* The LLM's final text ("stop", or no tool calls); a card if the last draft
\* the turn was given has an id.
Reply(t) ==
  /\ pc[t] = "asking" /\ rounds[t] < MaxRounds
  /\ Answers(t, "agent", lastDraft[t])
  /\ LoopEnds({t})
  /\ To(t, "storing") /\ Sends(t, 0)
  /\ UNCHANGED <<history, untrimmed, drafts, faults>>

\* The rounds are used up: the fallback reply, which never has a card.
GiveUp(t) ==
  /\ pc[t] = "asking" /\ rounds[t] = MaxRounds
  /\ Answers(t, "agent", 0)
  /\ LoopEnds({t})
  /\ To(t, "storing") /\ Sends(t, 0)
  /\ UNCHANGED <<history, untrimmed, drafts, faults>>

\* Run returns the error; tools it ran are not undone, nothing is stored.
ChatFails(t) ==
  /\ pc[t] = "asking" /\ rounds[t] < MaxRounds
  /\ LoopEnds({t})
  /\ To(t, "rules")
  /\ UNCHANGED <<history, untrimmed, pipe, drafts, result, faults>>

-----------------------------------------------------------------------------
(* One tool call of the answer at hand.                                     *)

Answer_OneMore(t) ==
  /\ messages' = [messages EXCEPT ![t] = Append(@, ToolResult(rounds[t], at[t]))]
  /\ calls' = [calls EXCEPT ![t] = @ - 1]
  /\ at' = [at EXCEPT ![t] = IF calls[t] = 0 THEN 1 ELSE @ + 1]
  /\ To(t, IF calls[t] = 0 THEN "asking" ELSE "acting")
  /\ UNCHANGED <<history, untrimmed, pipe, rounds, result, faults>>

\* Its result joins the messages; after the last call the next round begins.
Answer(t) ==
  /\ messages' = [messages EXCEPT ![t] = Append(@, ToolResult(rounds[t], at[t]))]
  /\ calls' = [calls EXCEPT ![t] = @ - 1]
  /\ at' = [at EXCEPT ![t] = IF calls[t] = 1 THEN 1 ELSE @ + 1]
  /\ To(t, IF calls[t] = 1 THEN "asking" ELSE "acting")
  /\ UNCHANGED <<history, untrimmed, pipe, rounds, result, faults>>

\* create_knowledge_draft is blocked without a trigger word in the message.
Blocked(t) == t \notin Recording

Returned_FirstOnly(t, id) ==
  lastDraft' = [lastDraft EXCEPT ![t] = IF @ = 0 THEN id ELSE @]

\* A drafting tool's result becomes lastDraftJSON, an error or a question
\* included: those have no id (0).
Returned(t, id) == lastDraft' = [lastDraft EXCEPT ![t] = id]

\* A "continue" in front of the append: the call gets no result.
RunBlocked_NoResult(t) ==
  /\ pc[t] = "acting"
  /\ Blocked(t)
  /\ calls' = [calls EXCEPT ![t] = @ - 1]
  /\ at' = [at EXCEPT ![t] = IF calls[t] = 1 THEN 1 ELSE @ + 1]
  /\ To(t, IF calls[t] = 1 THEN "asking" ELSE "acting")
  /\ UNCHANGED <<history, untrimmed, pipe, drafts, messages, rounds, lastDraft, result, faults>>

RunBlocked(t) ==
  /\ pc[t] = "acting"
  /\ Blocked(t)
  /\ Answer(t)
  /\ UNCHANGED <<drafts, lastDraft>>

\* A call that changes nothing: a tool that only reads or files a draft under
\* another category, a question back, an error of a tool that makes no draft,
\* or one Execute returns itself (an unknown tool, arguments that are no JSON).
RunOther(t) ==
  /\ pc[t] = "acting"
  /\ Answer(t)
  /\ UNCHANGED <<drafts, lastDraft>>

\* The card's message is told from t's in Intake only: here a reply to either
\* is a reply to t.
NewDraft(t) ==
  [status |-> PENDING, source |-> t, reply |-> ReplyTo[t], card |-> None]

HasRoom == Len(drafts) < MaxDraft

\* CreateDraftForAgent.
RunCreate(t) ==
  /\ pc[t] = "acting" /\ ~Blocked(t)
  /\ HasRoom
  /\ drafts' = Append(drafts, NewDraft(t))
  /\ Returned(t, Len(drafts) + 1)
  /\ Answer(t)

\* The service's error becomes a result like any other (Execute returns nil
\* for the error): so does a revision's question which draft is meant.
RunDraftingFails(t) ==
  /\ pc[t] = "acting"
  /\ Returned(t, 0)
  /\ Answer(t)
  /\ UNCHANGED drafts

\* ApproveDraftForAgent and RejectDraftForAgent, on the draft whose id the LLM
\* names or, without an id, the one ResolvePendingDraftContext finds: in all,
\* any pending one.
RunDecide(t) ==
  /\ pc[t] = "acting"
  /\ \E d \in PendingIds(drafts), s \in {"APPROVED", "REJECTED"} :
       drafts' = [drafts EXCEPT ![d].status = s]
  /\ Answer(t)
  /\ UNCHANGED lastDraft

Discarded(d) == [drafts EXCEPT ![d].status = "REJECTED"]

\* ReviseDraftForAgent: the old draft is rejected, then the new one created.
RunRevise(t) ==
  /\ pc[t] = "acting"
  /\ HasRoom
  /\ \E d \in PendingIds(drafts) : drafts' = Append(Discarded(d), NewDraft(t))
  /\ Returned(t, Len(drafts) + 1)
  /\ Answer(t)

\* ... or the creation fails after the rejection.
RunReviseHalf(t) ==
  /\ pc[t] = "acting"
  /\ \E d \in PendingIds(drafts) : drafts' = Discarded(d)
  /\ Returned(t, 0)
  /\ Answer(t)

-----------------------------------------------------------------------------
(* History.Append: one pipeline, not a transaction, so commands of other    *)
(* turns come between its own.  Redis runs an attempt's commands in their   *)
(* order, as far as they reached it, also after the client has turned its   *)
(* back on the attempt.  Append's error is ignored.                         *)

Push(a, role) ==
  /\ history' = Append(history, [role |-> role, turn |-> a[1]])
  /\ untrimmed' = untrimmed \cup {a}

Runs(a, from, to) == pipe[a] = from /\ pipe' = [pipe EXCEPT ![a] = to]

PushUser(a) ==
  /\ Runs(a, "pushUser", "pushReply")
  /\ Push(a, "user")
  /\ UNCHANGED <<drafts, pc, loop, result, faults>>

PushReply(a) ==
  /\ Runs(a, "pushReply", "trim")
  /\ Push(a, "assistant")
  /\ UNCHANGED <<drafts, pc, loop, result, faults>>

LastOf_OneMore(s, n) ==
  IF Len(s) <= n + 1 THEN s ELSE SubSeq(s, Len(s) - n, Len(s))

\* LTRIM key -n -1.
LastOf(s, n) == IF Len(s) <= n THEN s ELSE SubSeq(s, Len(s) - n + 1, Len(s))

Trim(a) ==
  /\ Runs(a, "trim", "done")
  /\ history' = LastOf(history, MaxMessages)
  /\ untrimmed' = {}
  /\ UNCHANGED <<drafts, pc, loop, result, faults>>

\* The attempt that t waits for: the last one sent.
WaitsFor(t, i) ==
  /\ pc[t] = "storing" /\ i \in 0..MaxRetries
  /\ pipe[<<t, i>>] # "unsent"
  /\ i < MaxRetries => pipe[<<t, i + 1>>] = "unsent"

\* The answers to all commands of the attempt arrive.
Stored(t) ==
  /\ \E i \in 0..MaxRetries : WaitsFor(t, i) /\ pipe[<<t, i>>] = "done"
  /\ To(t, "answered")
  /\ UNCHANGED <<history, untrimmed, pipe, drafts, loop, result, faults>>

\* The connection breaks or a read times out before they do, wherever the
\* attempt is: go-redis sends the whole pipeline again.
Resend(t) ==
  /\ \E i \in 0..(MaxRetries - 1) : WaitsFor(t, i) /\ Sends(t, i + 1)
  /\ Fault
  /\ UNCHANGED <<history, untrimmed, drafts, pc, loop, result>>

\* ... until the attempts are used up or the context is over.
AppendFails(t) ==
  /\ pc[t] = "storing"
  /\ Fault
  /\ To(t, "answered")
  /\ UNCHANGED <<history, untrimmed, pipe, drafts, loop, result>>

\* The key's two hours are over.
HistoryExpires ==
  /\ history # <<>>
  /\ history' = <<>> /\ untrimmed' = {}
  /\ UNCHANGED <<pipe, drafts, pc, loop, result, faults>>

-----------------------------------------------------------------------------
(* handleConversationV2 takes the message over: it may create a draft (the  *)
(* rules know nothing of trigger words), decide the pending one, change its *)
(* category, only answer, or fail.                                          *)

Resolved(t) == Resolve(drafts, 0, ReplyTo[t], t, {}, 5).draft

RulesCreate(t) ==
  /\ pc[t] = "rules"
  /\ HasRoom
  /\ drafts' = Append(drafts, NewDraft(t))
  /\ \/ To(t, "answered") /\ Answers(t, "rules", Len(drafts'))
     \/ To(t, "unanswered") /\ UNCHANGED result     \* CheckSimilarity failed
  /\ UNCHANGED <<history, untrimmed, pipe, loop, faults>>

RulesDecide(t) ==
  /\ pc[t] = "rules"
  /\ Resolved(t) # 0
  /\ \E s \in {"APPROVED", "REJECTED"} :
       drafts' = [drafts EXCEPT ![Resolved(t)].status = s]
  /\ To(t, "answered") /\ Answers(t, "rules", 0)
  /\ UNCHANGED <<history, untrimmed, pipe, loop, faults>>

\* The card of the draft whose category changed; a question or an answer.
RulesReply(t) ==
  /\ pc[t] = "rules"
  /\ \E card \in {0, Resolved(t)} : Answers(t, "rules", card)
  /\ To(t, "answered")
  /\ UNCHANGED <<history, untrimmed, pipe, drafts, loop, faults>>

RulesFail(t) ==
  /\ pc[t] = "rules"
  /\ To(t, "unanswered")
  /\ UNCHANGED <<history, untrimmed, pipe, drafts, loop, result, faults>>

\* app-server dies with every turn it was serving; their events were
\* acknowledged, so nothing sends them again.
ServerCrash ==
  LET served == {t \in Turn : pc[t] \notin {"new"} \cup Ended}
  IN  /\ Fault
      /\ pc' = [t \in Turn |-> IF t \in served THEN "unanswered" ELSE pc[t]]
      /\ LoopEnds(served)
      /\ UNCHANGED <<history, untrimmed, pipe, drafts, result>>

-----------------------------------------------------------------------------

Ask(t) == ToolCalls(t) \/ Reply(t) \/ GiveUp(t) \/ ChatFails(t)

RunTool(t) ==
  \/ RunBlocked(t) \/ RunOther(t) \/ RunCreate(t) \/ RunDraftingFails(t)
  \/ RunDecide(t) \/ RunRevise(t) \/ RunReviseHalf(t)

AgentStep(t) ==
  \/ Load(t) \/ Ask(t) \/ RunTool(t)
  \/ Stored(t) \/ Resend(t) \/ AppendFails(t)

\* What Redis does with the attempts of t.
PipeStep(t) ==
  \E i \in 0..MaxRetries :
    PushUser(<<t, i>>) \/ PushReply(<<t, i>>) \/ Trim(<<t, i>>)

RulesStep(t) ==
  RulesCreate(t) \/ RulesDecide(t) \/ RulesReply(t) \/ RulesFail(t)

Next ==
  \/ \E t \in Turn : AgentStep(t) \/ RulesStep(t) \/ PipeStep(t)
  \/ HistoryExpires
  \/ ServerCrash

Spec == Init /\ [][Next]_vars

\* The context of a message ends after 60 seconds, so every call a turn makes
\* returns, with an answer or an error.  Nothing is said of what Redis still
\* does with attempts nobody waits for.
FairSpec ==
  /\ Spec
  /\ \A t \in Turn :
       WF_vars(pc[t] \notin {"new"} \cup Ended
               /\ (AgentStep(t) \/ RulesStep(t) \/ PipeStep(t)))

-----------------------------------------------------------------------------

\* Whenever a turn asks the LLM, each request for tools in its messages is
\* followed by the results of its calls, all of them and in order: blocked,
\* failing and malformed calls included (the API rejects anything else, and
\* the whole turn would fall back to the rules).
CallsAnswered ==
  \A t \in Turn : pc[t] = "asking" =>
    \A i \in DOMAIN messages[t] :
      LET m == messages[t][i]
      IN  m.role = "assistant" =>
            \A j \in 1..m.call :
              /\ i + j <= Len(messages[t])
              /\ messages[t][i + j] = ToolResult(m.round, j)

\* A card sent with an agent's answer is about a draft of this very turn, and
\* of several the last: never about one the turn itself has replaced.
CardIsNewestOwn ==
  \A t \in Turn :
    pc[t] = "answered" /\ result[t].by = "agent" /\ result[t].card # 0 =>
      /\ result[t].card <= Len(drafts)
      /\ drafts[result[t].card].source = t
      /\ \A d \in DOMAIN drafts : drafts[d].source = t => d <= result[t].card

\* The history stays within its window but for one pair for each attempt at
\* an append that pushed since it was last trimmed: whatever the turns
\* interleave, wherever an attempt breaks off and however late Redis runs the
\* rest of it.  (A turn alone may add 1 + MaxRetries pairs to the window.)
HistoryInWindow == Len(history) <= MaxMessages + 2 * Cardinality(untrimmed)

\* Every message taken up is answered or given up in the end, even if the LLM
\* asks for tools for ever.
EveryTurnEnds ==
  \A t \in Turn : pc[t] # "new" ~> pc[t] \in Ended

=============================================================================
