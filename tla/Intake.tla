------------------------------- MODULE Intake -------------------------------
(***************************************************************************)
(* From a message of the user to what it does: the event endpoints with     *)
(* their deduplication in Redis (FeishuEvents, OnWSMessageEvent),           *)
(* processMessageEvent with the selection it keeps in Redis, the agent's    *)
(* tools and, if the agent fails, handleConversationV2                      *)
(* (HandleConversationWithContext), and the reply with its card.            *)
(*                                                                          *)
(* An accepted event is acknowledged and handled by a goroutine, a "slot"   *)
(* here; goroutines of one chat run side by side.  Feishu may deliver an    *)
(* event more than once.  All messages are of one user in one chat.         *)
(* A text is the cues it gives (see IntentReading), whether it names a path *)
(* or has one of the agent's trigger words, and the number it is, if it is  *)
(* one.  Of the agent only what its tools do to the drafts is here; its     *)
(* rounds, messages and history are in AgentLoop.  What becomes of a draft  *)
(* that is no longer pending is told in DraftLifecycle.                     *)
(* One query and one service operation are a step each (the reads and       *)
(* writes inside an operation interleave in DraftLifecycle).                *)
(***************************************************************************)
EXTENDS PendingDraft, IntentReading

CONSTANTS
  Msg,          \* messages of the user
  Slot,         \* goroutines that may run at a time
  Says,         \* Says[m]: what m may say
  Understands,  \* Understands[c]: what the LLM may answer to a text with the cues c
  Listed,       \* how many pending drafts a list shows (5)
  MaxExtra,     \* bound: deliveries of an event after the first
  MaxDraft,     \* bound: drafts
  MaxCard,      \* bound: cards
  MaxFaults     \* bound: Redis and reply errors, crashes, lapsed marks

Deciding == {"approve", "reject", "move"}
Utterance == [cues : SUBSET Cue, names : BOOLEAN, triggers : BOOLEAN, number : Nat,
              quotes : SUBSET (1..MaxDraft), replies : BOOLEAN]

ASSUME SaysAssumption == Says \in [Msg -> SUBSET Utterance]
ASSUME UnderstandsAssumption ==
  Understands \in [SUBSET Cue -> SUBSET {a \in ReadingType : a.by = "llm"}]
ASSUME MessageAssumption == None \notin Msg /\ Msg \cap (1..MaxCard) = {}
ASSUME ListedAssumption == Listed \in Nat /\ Listed >= 2
ASSUME BoundAssumption ==
  MaxExtra \in Nat /\ MaxDraft \in Nat /\ MaxCard \in Nat /\ MaxFaults \in Nat

VARIABLES
  said,      \* the messages sent: what each says and what it replies to
  extra,     \* deliveries after the first so far
  marks,     \* feishu:event:<id>, the events seen
  lapses,    \* how often an event's mark was lost or could not be asked for
  drafts,    \* this chat's rows of knowledge_drafts, by id
  selection, \* feishu:pending_selection:<user>:<chat>
  cards,     \* the cards in the chat: the draft each of them shows
  slot,      \* the goroutines: position and local variables ("known", the
             \* drafts there were when one was found, is for a property only)
  faults     \* faults so far

vars == <<said, extra, marks, lapses, drafts, selection, cards, slot, faults>>

-----------------------------------------------------------------------------

Unsent == [cues |-> {}, names |-> FALSE, triggers |-> FALSE, number |-> 0, quotes |-> {}, reply |-> "unsent"]
NoList == [action |-> "clarify", ids |-> <<>>]
NotRead == ByRules({}, FALSE)
Idle == [pc |-> "idle", msg |-> None, list |-> NoList, read |-> NotRead, draft |-> 0,
         known |-> 0, card |-> 0]

Message == Msg \cup (1..MaxCard)
Sent == {m \in Msg : said[m] # Unsent}

\* by: source, AGENT_TOOL or FEISHU_BOT_NL.
DraftRow == [status : {PENDING, "SETTLED"}, source : Msg, by : {"agent", "rules"},
             reply : Message \cup {None}, card : (1..MaxCard) \cup {None}]
List == [action : Deciding \cup {"clarify"}, ids : Seq(1..MaxDraft)]

TypeOK ==
  /\ said \in [Msg -> {Unsent} \cup
                    [cues : SUBSET Cue, names : BOOLEAN, triggers : BOOLEAN, number : Nat,
                     quotes : SUBSET (1..MaxDraft), reply : Message \cup {None}]]
  /\ extra \in 0..MaxExtra
  /\ marks \subseteq Sent
  /\ lapses \in [Msg -> 0..MaxFaults]
  /\ drafts \in Seq(DraftRow) /\ Len(drafts) <= MaxDraft
  /\ selection \in List
  /\ cards \in Seq(DOMAIN drafts) /\ Len(cards) <= MaxCard
  /\ slot \in [Slot -> [pc : {"idle", "read", "agent", "dispatch", "act", "store", "send", "bind"},
                        msg : Sent \cup {None}, list : List, read : ReadingType,
                        draft : 0..Len(drafts), known : 0..Len(drafts),
                        card : 0..Len(cards)]]
  /\ faults \in 0..MaxFaults

Init ==
  /\ said = [m \in Msg |-> Unsent]
  /\ extra = 0
  /\ marks = {}
  /\ lapses = [m \in Msg |-> 0]
  /\ drafts = <<>>
  /\ selection = NoList
  /\ cards = <<>>
  /\ slot = [h \in Slot |-> Idle]
  /\ faults = 0

Settled(d) == [drafts EXCEPT ![d].status = "SETTLED"]

Fault == faults < MaxFaults /\ faults' = faults + 1

-----------------------------------------------------------------------------
(* The user, Feishu and the other parts of the system.                      *)

\* The user writes a message, or replies to one of hers or to a card.
Send(m) ==
  /\ m \notin Sent
  /\ \E u \in Says[m] : \E reply \in IF u.replies THEN Sent \cup DOMAIN cards ELSE {None} :
       said' = [said EXCEPT ![m] = [cues |-> u.cues, names |-> u.names,
                                    triggers |-> u.triggers, number |-> u.number,
                                    quotes |-> u.quotes, reply |-> reply]]
  /\ UNCHANGED <<extra, marks, lapses, drafts, selection, cards, slot, faults>>

\* A draft expires, or is decided by a button, which comes to the same here.
Elsewhere ==
  /\ \E d \in PendingIds(drafts) : drafts' = Settled(d)
  /\ UNCHANGED <<said, extra, marks, lapses, selection, cards, slot, faults>>

\* Ten minutes pass.
MarkExpires(m) ==
  /\ m \in marks
  /\ Fault
  /\ marks' = marks \ {m}
  /\ lapses' = [lapses EXCEPT ![m] = @ + 1]
  /\ UNCHANGED <<said, extra, drafts, selection, cards, slot>>

SelectionExpires ==
  /\ selection # NoList
  /\ selection' = NoList
  /\ UNCHANGED <<said, extra, marks, lapses, drafts, cards, slot, faults>>

\* The goroutines die; what they had acknowledged is not delivered again.
ServerCrash ==
  /\ \E h \in Slot : slot[h] # Idle
  /\ Fault
  /\ slot' = [h \in Slot |-> Idle]
  /\ UNCHANGED <<said, extra, marks, lapses, drafts, selection, cards>>

-----------------------------------------------------------------------------
(* An event arrives.                                                        *)

Taken(m) == m \in marks \/ lapses[m] > 0

\* Feishu delivers an event once, and sometimes again.
Delivered(m) ==
  /\ m \in Sent
  /\ IF Taken(m) THEN extra < MaxExtra /\ extra' = extra + 1 ELSE UNCHANGED extra

Start(h, m) ==
  /\ slot[h] = Idle
  /\ slot' = [slot EXCEPT ![h] = [Idle EXCEPT !.pc = "read", !.msg = m]]

\* A mark without NX: never refused.
Receive_SetWithoutNX(m, h) ==
  /\ Delivered(m)
  /\ marks' = marks \cup {m}
  /\ Start(h, m)
  /\ UNCHANGED <<said, lapses, drafts, selection, cards, faults>>

\* SetNX says the event is new; it is acknowledged and a goroutine started.
Receive(m, h) ==
  /\ Delivered(m)
  /\ m \notin marks
  /\ marks' = marks \cup {m}
  /\ Start(h, m)
  /\ UNCHANGED <<said, lapses, drafts, selection, cards, faults>>

\* Redis does not answer, though it may have set the mark: the event is taken
\* for new.
ReceiveUnasked(m, h) ==
  /\ Delivered(m)
  /\ Fault
  /\ lapses' = [lapses EXCEPT ![m] = @ + 1]
  /\ marks' \in {marks, marks \cup {m}}
  /\ Start(h, m)
  /\ UNCHANGED <<said, drafts, selection, cards>>

\* SetNX sets the mark, its answer is lost, and go-redis sends it again: an
\* event nobody has handled is taken for a duplicate.
DropFirst(m) ==
  /\ Delivered(m)
  /\ m \notin marks
  /\ Fault
  /\ marks' = marks \cup {m}
  /\ UNCHANGED <<said, lapses, drafts, selection, cards, slot>>

\* A duplicate is acknowledged and dropped.
Drop(m) ==
  /\ m \in marks
  /\ Delivered(m)
  /\ UNCHANGED <<said, marks, lapses, drafts, selection, cards, slot, faults>>

-----------------------------------------------------------------------------
(* processMessageEvent and, in it, the agent and handleConversationV2.      *)

Text(h) == said[slot[h].msg]

Goes(h, pc) == slot' = [slot EXCEPT ![h].pc = pc]
Ends(h) == slot' = [slot EXCEPT ![h] = Idle]

\* A number calls the list in Redis to mind, if it is long enough and Redis
\* answers.
Read(h) ==
  /\ slot[h].pc = "read"
  /\ \/ /\ Text(h).number \in DOMAIN selection.ids
        /\ slot' = [slot EXCEPT ![h].pc = "agent", ![h].list = selection]
        /\ UNCHANGED faults
     \/ /\ Text(h).number \notin DOMAIN selection.ids
        /\ Goes(h, "agent") /\ UNCHANGED faults
     \/ /\ Text(h).number # 0
        /\ Goes(h, "agent") /\ Fault
  /\ UNCHANGED <<said, extra, marks, lapses, drafts, selection, cards>>

NewDraft(h, by) ==
  [status |-> PENDING, source |-> slot[h].msg, by |-> by, reply |-> Text(h).reply, card |-> None]

HasRoom == Len(drafts) < MaxDraft

\* create_knowledge_draft, for texts with a trigger word.  The draft is what a
\* card would show.
AgentCreates(h) ==
  /\ slot[h].pc = "agent" /\ Text(h).triggers
  /\ HasRoom
  /\ drafts' = Append(drafts, NewDraft(h, "agent"))
  /\ slot' = [slot EXCEPT ![h].draft = Len(drafts')]
  /\ UNCHANGED <<said, extra, marks, lapses, selection, cards, faults>>

\* confirm_knowledge_draft and reject_knowledge_draft, for any pending draft.
AgentDecides(h) ==
  /\ slot[h].pc = "agent"
  /\ \E d \in PendingIds(drafts) : drafts' = Settled(d)
  /\ UNCHANGED <<said, extra, marks, lapses, selection, cards, slot, faults>>

\* revise_knowledge_draft, which needs no trigger word.
AgentRevises(h) ==
  /\ slot[h].pc = "agent"
  /\ HasRoom
  /\ \E d \in PendingIds(drafts) :
       drafts' = Append(Settled(d), NewDraft(h, "agent"))
  /\ slot' = [slot EXCEPT ![h].draft = Len(drafts')]
  /\ UNCHANGED <<said, extra, marks, lapses, selection, cards, faults>>

\* A drafting tool that fails or asks back, perhaps after the old draft is
\* rejected: there is no draft to show any more.
AgentDraftsNothing(h) ==
  /\ slot[h].pc = "agent"
  /\ \/ UNCHANGED drafts
     \/ \E d \in PendingIds(drafts) : drafts' = Settled(d)
  /\ slot' = [slot EXCEPT ![h].draft = 0]
  /\ UNCHANGED <<said, extra, marks, lapses, selection, cards, faults>>

\* The agent answers, with the last draft on a card unless its rounds are used
\* up.  Its answer shows no list.
AgentReplies(h) ==
  /\ slot[h].pc = "agent"
  /\ \E d \in {0, slot[h].draft} :
       slot' = [slot EXCEPT ![h].pc = "store", ![h].list = NoList, ![h].draft = d]
  /\ UNCHANGED <<said, extra, marks, lapses, drafts, selection, cards, faults>>

\* The LLM fails, or there is none: handleConversationV2 takes the message over
\* and knows nothing of what the tools have done.
AgentFails(h) ==
  /\ slot[h].pc = "agent"
  /\ slot' = [slot EXCEPT ![h].pc = "dispatch", ![h].draft = 0]
  /\ UNCHANGED <<said, extra, marks, lapses, drafts, selection, cards, faults>>

Chosen_OneOff(h) ==
  IF slot[h].list = NoList THEN 0
  ELSE slot[h].list.ids[(Text(h).number % Len(slot[h].list.ids)) + 1]

\* selected_draft_id.
Chosen(h) ==
  IF slot[h].list = NoList THEN 0 ELSE slot[h].list.ids[Text(h).number]

\* selectionActionText: the words put in the place of a number that chose a draft.
WordsFor(action) ==
  CASE action = "reject" -> {"refuse"} [] action = "move" -> {"move"} [] OTHER -> {"confirm"}

\* The words that are read: the text, or those in a number's place.
Cues(h) == IF slot[h].list = NoList THEN Text(h).cues ELSE WordsFor(slot[h].list.action)
Names(h) == slot[h].list = NoList /\ Text(h).names

ReadAs(h) == Readings(Cues(h), Names(h), Understands[Cues(h)])
Asks(h, intents) == {a \in ReadAs(h) : ~a.unclear /\ a.intent \in intents}

\* CheckSimilarity may fail after the draft is stored: no answer then.
CreateDraft(h) ==
  /\ slot[h].pc = "dispatch" /\ Asks(h, {"create"}) # {}
  /\ HasRoom
  /\ drafts' = Append(drafts, NewDraft(h, "rules"))
  /\ \/ slot' = [slot EXCEPT ![h].pc = "store", ![h].list = NoList, ![h].draft = Len(drafts')]
     \/ Ends(h)
  /\ UNCHANGED <<said, extra, marks, lapses, selection, cards, faults>>

\* Searching, comparing, a text or a number nothing can be made of, which the
\* user is asked about; and any operation that fails before it has an effect.
Converse(h) ==
  /\ slot[h].pc = "dispatch"
  /\ \/ /\ \E a \in ReadAs(h) : a.unclear \/ a.intent \in {"search", "compare", "clarify"}
        /\ slot' = [slot EXCEPT ![h].pc = "store", ![h].list = NoList]
     \/ Ends(h)
  /\ UNCHANGED <<said, extra, marks, lapses, drafts, selection, cards, faults>>

Found(h) ==
  Resolve(drafts, Chosen(h), Text(h).reply, slot[h].msg, Text(h).quotes, Listed)

\* The candidates, the newest first, and what was asked to be done with one.
Ask(h, action) ==
  LET ids == Found(h).candidates
      rank(i) == CHOOSE d \in ids : Cardinality({e \in ids : e >= d}) = i
  IN  IF ids = {} THEN NoList
      ELSE [action |-> action, ids |-> [i \in 1..Cardinality(ids) |-> rank(i)]]

\* The message asks to decide or move a draft: ResolvePendingDraftContext.
\* Moving needs a path, which a number does not name: a question then.
Find(h) ==
  /\ slot[h].pc = "dispatch"
  /\ LET found == Found(h).draft
     IN  \E a \in Asks(h, Deciding) :
           slot' = [slot EXCEPT ![h] =
             IF found = 0 THEN [@ EXCEPT !.pc = "store", !.list = Ask(h, a.intent)]
             ELSE IF a.intent = "move" /\ ~a.path
             THEN [@ EXCEPT !.pc = "store", !.list = NoList]
             ELSE [@ EXCEPT !.pc = "act", !.read = a, !.draft = found, !.known = Len(drafts)]]
  /\ UNCHANGED <<said, extra, marks, lapses, drafts, selection, cards, faults>>

Outcome_Intent(h) == slot[h].read.intent

Outcome(h) ==
  IF slot[h].read.intent \in {"approve", "reject"} THEN "SETTLED" ELSE PENDING

\* The operation, if the draft is still pending; only moving it answers with a
\* card.  Otherwise an error: no answer, and the selection stays.
Act(h) ==
  /\ slot[h].pc = "act"
  /\ \/ /\ slot[h].draft \in PendingIds(drafts)
        /\ drafts' = [drafts EXCEPT ![slot[h].draft].status = Outcome(h)]
        /\ slot' = [slot EXCEPT ![h].pc = "store", ![h].list = NoList, ![h].read = NotRead,
                                ![h].draft = IF slot[h].read.intent = "move" THEN @ ELSE 0]
     \/ Ends(h) /\ UNCHANGED drafts
  /\ UNCHANGED <<said, extra, marks, lapses, selection, cards, faults>>

\* The list the answer shows replaces the selection, or nothing does.
Store(h) ==
  /\ slot[h].pc = "store"
  /\ \/ selection' = slot[h].list /\ UNCHANGED faults
     \/ Fault /\ UNCHANGED selection
  /\ Goes(h, "send")
  /\ UNCHANGED <<said, extra, marks, lapses, drafts, cards>>

\* A text ends it, and so does a card that cannot be sent.
SendText(h) ==
  /\ slot[h].pc = "send"
  /\ \/ slot[h].draft = 0 /\ UNCHANGED faults
     \/ slot[h].draft # 0 /\ Fault
  /\ Ends(h)
  /\ UNCHANGED <<said, extra, marks, lapses, drafts, selection, cards>>

SendCard(h) ==
  /\ slot[h].pc = "send" /\ slot[h].draft # 0
  /\ Len(cards) < MaxCard
  /\ cards' = Append(cards, slot[h].draft)
  /\ slot' = [slot EXCEPT ![h].pc = "bind", ![h].card = Len(cards')]
  /\ UNCHANGED <<said, extra, marks, lapses, drafts, selection, faults>>

\* UpdateDraftCardMessageID; its error is only logged.
Bind(h) ==
  /\ slot[h].pc = "bind"
  /\ \/ drafts' = [drafts EXCEPT ![slot[h].draft].card = slot[h].card]
        /\ UNCHANGED faults
     \/ Fault /\ UNCHANGED drafts
  /\ Ends(h)
  /\ UNCHANGED <<said, extra, marks, lapses, selection, cards>>

Handle(h) ==
  \/ Read(h)
  \/ AgentCreates(h) \/ AgentDecides(h) \/ AgentRevises(h) \/ AgentDraftsNothing(h)
  \/ AgentReplies(h) \/ AgentFails(h)
  \/ CreateDraft(h) \/ Converse(h) \/ Find(h) \/ Act(h)
  \/ Store(h) \/ SendText(h) \/ SendCard(h) \/ Bind(h)

Next ==
  \/ \E m \in Msg :
       \/ Send(m) \/ MarkExpires(m) \/ Drop(m) \/ DropFirst(m)
       \/ \E h \in Slot : Receive(m, h) \/ ReceiveUnasked(m, h)
  \/ \E h \in Slot : Handle(h)
  \/ Elsewhere \/ SelectionExpires \/ ServerCrash

Spec == Init /\ [][Next]_vars

-----------------------------------------------------------------------------

\* The rules make one draft for a message, however often and however fast its
\* event is delivered and whatever the agent did with it before it failed,
\* unless the event's mark lapsed or Redis could not be asked.  (The agent may
\* make any number: its tools run as often as the LLM asks for them.)
OneDraftPerMessage ==
  \A m \in Msg :
    Cardinality({d \in DOMAIN drafts : drafts[d].source = m /\ drafts[d].by = "rules"})
      <= 1 + lapses[m]

Decides(h) ==
  slot[h].pc = "act" /\ slot'[h].pc = "store" /\ slot[h].read.intent \in {"approve", "reject"}

\* On the rules' path a text that names no draft decides one only if no other pending draft was
\* there when it was looked up: of several the user is asked to choose.
NeverGuesses ==
  [][ \A h \in Slot :
        Decides(h) /\ Chosen(h) = 0 /\ Text(h).reply = None
            /\ Text(h).quotes = {} /\ slot[h].draft \notin BoundTo(drafts, slot[h].msg)
          => \A d \in PendingIds(drafts) \ {slot[h].draft} : d > slot[h].known ]_vars

\* There a number never decides another draft than the one with that number in the
\* list it was read against, as long as that one is pending: whatever arrives,
\* is decided or expires in between.
NumberMeansEntry ==
  [][ \A h \in Slot :
        Decides(h) /\ slot[h].list # NoList
          => LET meant == slot[h].list.ids[Text(h).number]
             IN  slot[h].draft = meant \/ meant \notin PendingIds(drafts) ]_vars

\* There words that refuse approve no draft, though a refusal may hold the words of an
\* approval and the LLM may mistake it: only an LLM that is sure overrules them.
RefusalHolds ==
  [][ \A h \in Slot :
        Decides(h) /\ slot[h].read.intent = "approve"
          => \/ "refuse" \notin Cues(h)
             \/ slot[h].read.by = "llm" /\ slot[h].read.confidence >= 60 ]_vars

=============================================================================
