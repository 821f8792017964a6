# knowledgeBook: specifications and proofs

knowledgeBook is a Feishu assistant that turns chat messages into knowledge: a
message becomes a *draft*, its owner confirms or discards the draft on a card,
a confirmed draft becomes a versioned *knowledge item*, and a worker copies
items to Feishu documents. This directory holds TLA+ models of that program,
the TLC configurations that check them, and TLAPS proofs. Paths below are
relative to the repository root (`src/` here).

## 1. Inventory

| Component | State | Operations | Source |
|---|---|---|---|
| Knowledge items | tables `knowledge_items`, `knowledge_versions` | publish, update, move, soft delete, restore, backfill, purge | `internal/repository/store.go`, `internal/service/services.go` |
| Drafts | table `knowledge_drafts` | create, approve, reject, ignore, later, change category, revise, expire, remind | `service/*.go`, `repository/*.go` |
| Sync tasks and worker | tables `sync_tasks`, `doc_sync_mappings`; the batch a worker holds in memory; the remote document | enqueue, claim, process, mark, retry, purge | `services.go` (`ProcessTasks`), `feishu/docsync.go`, `cmd/app-worker` |
| Categories | table `categories` | ensure path, list tree | `store.go` |
| Similarity and search | table `knowledge_similarity` | find candidates, judge, replace, list, search, answer | `draft_similarity_store.go`, `conversation_service.go`, `llm_tasks.go` |
| Conversation | the chat's pending drafts | parse intent, choose the draft a message is about, dispatch, fall back from agent to rules | `conversation_service.go`, `llm_tasks.go` |
| Agent loop | the chat's history (in memory), the rounds of one message | call the LLM, run tools, trim the history | `conversation/*.go`, `agent_adapter.go` |
| Endpoints | Redis marks of seen events, background goroutines | HTTP handlers, WebSocket callbacks, MCP tools, card buttons | `internal/api/*.go`, `feishu/wsconn.go` |
| Messenger and cards | the card a user sees, `card_message_id` | send, reply, patch | `feishu/messenger.go`, `handlers.go` |
| LLM client, prompts | none | one HTTP call with a time limit | `llm/*.go`, `app/agent` |
| Schema | constraints, defaults | rerun at start | `migrations/*.sql`, `database/postgres.go` |
| Evaluation, end-to-end test, configuration | none | | `conversation/eval.go`, `cmd/e2e-test`, `config` |

**Interactions.** Two processes, `app-server` and `app-worker`, share nothing
but Postgres (and Feishu). Requests of the server run concurrently, and several
entry points (HTTP, card buttons over HTTP or WebSocket, MCP tools, agent
tools, bot commands, rule-based intents) end in the same service operations.
Statements run at READ COMMITTED; there is no `SELECT ... FOR UPDATE` except in
the claiming of tasks. Approving a draft, editing, removing and restoring an
item enqueue a sync task; the worker's loop claims tasks, then expires drafts,
reminds owners and purges items, every 30 seconds.

**What is hard.** Almost every operation reads a row, decides, and writes in a
later statement. What protects a stale decision differs from one operation to
the next: a unique index (`knowledge_versions`), a status repeated in the
`WHERE` (`UpdateDraftStatus`, `SoftDeleteKnowledge`), a row lock (`ClaimRunnableTasks`),
or nothing (`CreateKnowledgeFromDraft`, the expiring `UPDATE`). Errors after
the first of two effects are dropped in several places, the worker has no
recovery of its own, and the remote document is only ever appended to. The full
list of hazards, each at its line, is in `PROJECT.json`.

**What makes each component correct.**

* *Items*: an item has exactly the versions 1..n, its newest version says what
  the item says, an edit changes only what it was asked to change, history is
  append-only, a purge is final.
* *Drafts*: a draft is decided once, APPROVED and the existence of an item go
  together, a revision replaces its draft, every draft is decided in the end,
  an owner is reminded once, and again only after a failure of the worker.
* *Tasks*: a task is in one pair of hands, finishes, and stays finished; no
  version's sync is forgotten; a mapping names nothing the document was not
  sent, unless it says SIMULATED.
* *Categories*: a category hangs under its parent's row, an item is filed under
  the category it names, the list shows every category (it does not).
* *Conversation*: when the rules handle a message they make one draft of it,
  however often it is delivered, or act on the draft it is about; a refusal
  approves nothing. (What the agent's tools do is for the LLM to choose.)
* *Similarity*: the suggestions stored with a draft are one answer, the newest,
  and whole (checks that overlap may leave their union); the LLM never makes the rules' findings disappear.
* *Agent loop*: every tool call in the history is followed by its result; the
  loop ends with a reply; the history keeps its window but for what was pushed
  since its last trim.
* *Cards*: once a draft is decided and messages are through, its card says so.

## 2. Plan

| # | Module | Models | State |
|---|---|---|---|
| 1 | `KnowledgeHistory` | abstract: one linear history per item | done |
| 2 | `KnowledgeStore` | items, versions, tasks; refines 1 | done, proofs (the refinement among them) in `KnowledgeStoreProofs` |
| 3 | `DraftLifecycle` | drafts, requests, sweep, reminders, crashes | done, proofs in `DraftLifecycleProofs` |
| 4 | `DocSync` | extends 2 with workers, mapping, document | done, proofs in `DocSyncProofs` |
| 5 | `PendingDraft`, `IntentReading` | which draft a message is about (6 and 7 use it), what it asks for (7 uses it): operators | done |
| 6 | `AgentLoop` | the loop, its tools, the history's window, the fallback to rules | done, proofs in `AgentLoopProofs` |
| 7 | `Intake` | events, deduplication, selections, the draft a message decides | done, proofs in `IntakeProofs` |
| 8 | `CategoryTree` | paths made part by part, the tree listed | done, proofs in `CategoryTreeProofs` |
| 9 | `CardDisplay` | extends 3 with the card on screen, its buttons and patches | done, proofs in `CardDisplayProofs` |
| 10 | `Similarity` | candidates of a draft: recalling, judging, replacing the stored rows while other requests do, against removals and the purge | done, proofs in `SimilarityProofs` |

Every safety property that a passing run checks is also a theorem (section 5).

## 3. The modules

### KnowledgeStore

`items`, `versions` and `tasks` are the tables; `req[r]` is what request `r`
keeps in local variables between its read and its transaction. An edit is
`BeginUpdate` / `BeginRestore` / `BeginBackfill` (the read, with the tests the
code makes on it) followed by `CommitUpdate` / `CommitRestore` /
`CommitBackfill`, or by `RollBack` when the version row cannot be inserted, or
by `Abandon` (the process dies, a statement fails). Three statements of one
transaction are one step because the first, an `UPDATE` by id, takes the row
lock that any other transaction on the item waits for. Filling empty arguments
from the read is `Written`; the number of the new version is `NextVersion`,
one more than the version *read*. `SoftDelete` and `NotifyRemoved` are the two
separate statements of `SoftDeleteKnowledge`. Ids are never handed out twice
(BIGSERIAL). Title and body are one value, summaries and tags are left out (an
edit never writes them), and the clock is whether the purge deadline passed.

`KnowledgeHistory` is the promise: an item has one history of snapshots and an
edit applies to the newest one in one step. The refinement maps an item's
status to its life and its version rows to the history; the point is that a
read-then-write protected by a unique index is as good as an indivisible edit.

### DraftLifecycle

`drafts` is the table, `made[d]` the items made from `d`, `revises` the link a
revision creates, `req` what requests hold between statements, `worker` the
position of the worker's loop after its tasks, `reminders` the messages an
owner received. `BeginApprove` is `ApproveDraft` up to its call of
`CreateKnowledgeFromDraft`, `CommitApprove` the transaction (seen from the
drafts; `KnowledgeStore!CreateKnowledgeFromDraft` is the same transaction seen
from the items). `BeginReject`/`CommitReject` split `RejectDraft` the same way.
`BeginRevise`, `BeginDiscard`, `CommitDiscard`, `Recreate` are the read, the
test, the `UPDATE` and the `INSERT` of `ReviseDraftForAgent`. `Abandon` ends
any request anywhere.

Expiring is two steps although it is one SQL statement. Its sub-select sees the
snapshot of the statement's start. A row that another transaction has locked is
waited for, and after that transaction commits Postgres re-evaluates the
statement's own `WHERE`, `id IN (...)`, with the sub-select's rows as they
were: the new status is not looked at. So a decision can fall between choosing
the rows and writing them.

A pending draft's clock is an age: `fresh`, `soon` (the reminder window) and
`overdue`. `WorkerCrash` restarts the loop; `WorkerMarkFails` and
`WorkerReplyAnswerLost` are the partial failures of reminding. All three are
counted in `faults` and bounded by `MaxFaults`.

### DocSync

Extends `KnowledgeStore`: all of its server steps interleave with the workers.
`mapping[k]` is `last_sync_version` (0 without a row), `document[k]` the
versions of `k` the documents have received, `worker[w]` the position in
`ProcessTasks` with the claimed batch. `Claim` is one step (`FOR UPDATE SKIP
LOCKED`). `SendFails` may or may not have taken effect; a call takes effect, if
at all, before the worker goes on to its next step. `Sweep` is the purge at the
end of a round with its cascade to the mappings; expiring and reminding, which
come before it, touch none of these tables and are in `DraftLifecycle`. The
document is external and known only through the client's calls.

`credentials` are the workers whose environment has an app id and a secret that
are no placeholders (`docsync.go:72`), chosen at the start and again when a
worker is restarted (`Crash`). Without them `Send` succeeds and sends nothing,
and the mapping names the version all the same, with the status SIMULATED
(`simulated`); `docs/DEPLOYMENT.md:378-386` describes this mode. The document is
the set of versions it has blocks of; how often it has them is not kept.

### PendingDraft, IntentReading, AgentLoop

`IntentReading` is what a text asks for. A text is the set of cues that phrases
in it give (`Cue`); `ByRules` is `parseIntent`, which takes the first of its
rules in the code's order that finds its cue (`Rules`, with their confidences);
`Readings` is `parseIntentWithContext`: the LLM's answer, given the path it
missed (`Normalized`), unless `PrefersRules` (`shouldPreferIntentFallback`)
takes the rules' after all, and the rules' whenever there is no LLM, its call
fails or its answer is not valid. One clause of `shouldPreferIntentFallback`
looks at the length of the text when both readings say "clarify"; whichever is
taken leads to the same answer, so the clause is left out.

`PendingDraft` is `ResolvePendingDraftContext` with the queries it makes
(`Resolve`, `BoundTo`, `ListPending`): given the drafts of a chat and what a
message carries, the draft it is about, or the candidates to ask about.

`AgentLoop` is one chat whose messages are handled by goroutines (`Turn`). A
turn loads the history (`Load`), asks the LLM (`Ask`: a reply, tool calls, or a
failing call; the answer is any the bounds allow), runs the calls one after the
other (`RunTool`, `RunBlocked` for the guard on recording, `RunOther` for tools
that change nothing) and appends its messages to the history in a pipeline of
single pushes and a trim (`PushUser`, `PushReply`, `Trim`), which those of
another turn may fall between. When the connection breaks or a read times out,
go-redis sends the whole pipeline again (`Resend`), `MaxRetries` times, three by
default, which `database/redis.go` leaves. Redis runs as much of every attempt
as has reached it, also while or after a later one is sent, so `pipe` is the
progress of each attempt and not of the turn; `Stored` and `AppendFails` are the
two ways the client's waiting ends. Every tool is the whole operation on the chat's
drafts; what two requests do to one draft between statements is
`DraftLifecycle`'s subject, and a revision keeps the half that matters here
(`RunReviseHalf`: rejected, not recreated). When the agent fails, `RulesStep`
handles the message again by rules, on the drafts as the tools left them.

### Intake

`marks` is Redis' set of seen messages, `selection` the list last stored for
the user and chat, `slot[h]` a goroutine in `processMessageEvent`, `cards` the
cards sent. `Receive` is a delivery of an event with `SETNX`; `ReceiveUnasked`
is one for which Redis could not be asked, and the event is handled all the
same; `DropFirst` is the other way an answer of `SETNX` is lost: go-redis asks
again and finds the mark it has set. Then a message goes through `Read` (the
number against the selection) to the agent, whose tools make, decide and revise
drafts in any number (`AgentCreates`, `AgentDecides`, `AgentRevises`,
`AgentDraftsNothing`) before it answers (`AgentReplies`) or fails
(`AgentFails`). Only then do the rules take it, with or without the LLM's
reading of the text: `CreateDraft`, `Converse` or `Find` and `Act`. Both ways
end in `Store` (the selection replaced or removed), `SendText` or `SendCard` and
`Bind`, and anything of another goroutine, a decision taken elsewhere
(`Elsewhere`), a lapse or a crash may come between. A draft's row says who made
it (`by`, the column `source`). The four properties are about the rules' path,
and hold with whatever the agent did before it failed; of the agent there is no
promise of the code to state. A decided draft is `SETTLED`: how is
`DraftLifecycle`'s subject, and no property here tells the ways apart. `Says[m]` is what message `m` may say, as cues, and `Understands` what
the LLM may make of them; `ReadAs` are the readings of the words read, which are
those of the text or, for a number that picked a draft from the list, the words
put in its place (`WordsFor`). A draft is created when its message asks for it,
whatever else the text holds.

### CategoryTree

`rows` is the table, a path a sequence of names. `EnsureCategoryPath` is
`Begin` (normalizing), then `FindPart` or `InsertPart` for each part: the
statements run outside a transaction, so requests interleave between them and
`Fail` leaves the parts made. `OnConflict` is the unique index on user and
lower-case path. `ListCategoryTree` is an operator written as the loop is: in
the order of the rows, every category is copied into its parent as it is at
that moment. `Place` is the reference: where a category belongs by its path.

### CardDisplay

Extends `DraftLifecycle`: every step of it that ends in a patch is conjoined
with the patch (`Approve`, `Reject`, `DiscardOld`, `Expire`, `WorkerExpire`),
the others change no card. `Compose`, `Send`, `Bind` are the answer to a
message: the card is made, sent, and its id written back, and the draft may be
decided between any two of them. `PressConfirm` and `PressReject` start the
request that serves the button; `PressRefused` is a button on a decided draft.
`patches` holds updates on their way, which arrive in any order or never.
`guests` remembers cards on which another member of a group submitted a
category, the one press that closes a card of an open draft.

### Similarity

`rows` is the table `knowledge_similarity`, with the check that wrote each row,
`check[r]` what a check keeps: the candidates it recalled, its answer, how many
of the answer's records it has inserted, and the rows its `DELETE` is about. A
check is `Recall` (the draft and the active items found), `Judge` (the answer,
and the start of the transaction), `FinishDelete`, one `Insert` per record and
`Commit`; an `INSERT` the table refuses (`InsertRefused`), a deadlock or an
error (`Fail`) rolls all of it back. `Judge` and the start of the `DELETE` are
one step because the judgement depends on nothing but what was recalled.

The transactions are those of READ COMMITTED. A `DELETE` is about the rows
committed when it starts (`Seen`) and waits for whoever has deleted one of them
meanwhile; an `INSERT` waits for whoever has inserted or deleted its key and is
refused if the key is then there, or if the item is gone (`Refused`). `WaitsFor`
is this relation between transactions; `Deadlock` ends one that waits, through
others, for itself. Items are removed, restored and purged by steps of their
own (`KnowledgeStore` has these operations in full); the purge waits for
transactions that hold rows of the item, and takes its rows with it.

`Judged` is the answer as a set of possibilities: the rules' records
(`RulesVerdict`, from the overlap of bigrams), or any judgement the LLM may give
of every candidate, filtered and cut to the best few (`Best`). If one call
fails, or nothing telling is left, the rules' answer is taken.

### Modules for TLC and for proofs

`MC*.tla` extend a specification with names for model values and a symmetry
set. `*Proofs.tla` hold the theorems. Definitions named `X_Fault` next to a
definition `X` are that definition with a plausible bug; each property is
violated when one of them takes its place.

## 4. What the runs check

| Run (cfg) | Instance | Shows |
|---|---|---|
| `MCKnowledgeStore` | 1 item, 3 requests, 2 texts, 2 paths, 3 versions | invariants, action properties and the refinement of `KnowledgeStore` |
| `MCDraftLifecycle` | 2 drafts, 2 requests, sweep of 1 row, 1 fault | invariants and action properties of `DraftLifecycle` |
| `MCDraftLiveness` | 2 drafts, 1 request, sweep of 1 row, 1 fault | every draft is decided |
| `MCDocSync` | 1 worker with or without credentials, 1 request, 2 versions, batches of 2, 1 fault | mapping, debt, no step backwards |
| `MCDocSyncWorkers` | 2 workers, 1 request, 1 version, batches of 2, 1 fault | tasks in one hand, finished tasks left alone, tasks finish |
| `MCAgentLoop` | 2 turns, 2 rounds, a window of 2, 2 calls, 2 drafts, pipelines sent twice, 1 fault | calls answered, the card's draft, the history, turns end |
| `MCIntake` | 3 messages, 2 goroutines, 1 second delivery, 2 drafts, 1 card, 1 fault, lists of 2, the agent's tools, an LLM that misreads four texts | one draft of the rules per message, the draft a message decides, refusals |
| `MCCategoryTree` | 2 users, 2 requests, depth 3, two spellings, a blank name | parents, filing |
| `MCCardDisplay` | 1 draft, 2 requests, 1 card, the worker, 1 fault | buttons and labels against the draft |
| `MCSimilarity` | 1 draft, 2 items, 3 checks, answers of 2 records | stored answers whole and newest, the rules' findings kept, every check ends |
| `MCDraftDoubleApprove`, `MCCategoryDepth` | small | a sentence of the documents or comments the code does not keep, with a counterexample |

**Bounds.** Items do not interact (every statement names one id, and the purge
treats each row alike), so one item is enough; two drafts are needed for
revisions and for sweeps that leave a row behind. Three requests on one item
give a stale reader, the writer that makes it stale and a third that comes
between; with three versions each of them can commit. Two requests beside the
worker give every pair of racing decisions plus a sweep. Edits stop at
`MaxVersion` and manual syncs at `MaxTasks` (guards of `BeginEdit` and
`TriggerSync`); retries need no bound of ours because the code gives up at the
third. One fault suffices to lose a mark or a batch; more faults only repeat it.
Two workers are needed for claims that meet each other's; the two tasks of their
queue, those of making and of removing the item, stand in one batch or in two. One
worker is what the deployment runs, and what `SyncDebt` and `NeverBackwards` say
something of.
In the agent loop two rounds give a tool call after a tool's result and the
round the limit cuts off; a window of two is exceeded by every turn; two turns
interleave their pipelines, and with one retry the late rest of a first attempt
meets the second one. Three messages are one that records something, one that
decides and one that answers its list with a number; the second draft of a list
comes from the agent or from a second delivery, and with two goroutines both
copies of an event can be under way. A tree
of depth three has the level the list loses, and a path of four parts the
refusal at the limit. One card suffices because patches name their card; two
requests and the worker give every race of two decisions over it (with two
cards the instance is out of reach; the theorems are about any number). The LLM of
`MCIntake` misreads what matters: a refusal as an approval, surely and not so
surely, an approval as a question, something to record as a search, and a path
it overlooks. Three checks are two whose `DELETE`s meet the rows of a third, and
two items are two records inserted in either order, which is what makes two
checks wait for each other; two is also the cut of an answer. A check is made
once: what a draft's checks do to each other is in any two or three of them.

**Symmetry** is used for safety only, over values the specifications compare
for equality: requests, goroutines and the like.

**Deadlock checking** is off: when the bounds are exhausted or nobody asks for
anything the system rests, which is not a deadlock.

**Fairness.** `FairSpec` and `FairSyncSpec` assume weak fairness of the
worker's steps and of the clock. The worker is one loop that waits only for its
ticker, for statements, and for HTTP calls with a 15 s timeout
(`feishu/messenger.go:28`, `feishu/docsync.go:47`); its container is restarted
(`restart: unless-stopped`). Nothing is assumed of requests or of the remote
side: calls may fail for ever, and then tasks end FAILED. `AgentLoop` assumes
weak fairness of each turn: a message is handled under a context of 60 s
(`api/handlers.go:295`), so each of its calls returns, with an error if need be; for attempts at a
pipeline that no turn waits for any more nothing is assumed. `Similarity` assumes weak fairness of every check once it has recalled: the LLM's
call and the request have time limits, statements end, and Postgres looks for
deadlocks when a transaction has waited for a second. `EveryCheckEnds` is stated
as "from some time on no check is under way", which for checks made once says
that each ends.

**What the violations mean.** (1) Two approvals in flight make two items, and
an approval commits over a rejection or an expiry, because its `UPDATE` does
not repeat the status (`store.go:444`). `ItemsMatchStatus` and
`QuietDecisionIsFinal` say what is safe nevertheless: the damage is confined
to requests that had read the draft before the decision. (2) The category list
loses everything below the second level.

**Seen while modelling, not run.** A task held by a dying worker stays RUNNING
for ever, because claiming takes only QUEUED and RETRYING ones (`store.go:629`);
`TaskHeldOnce` bounds how many, `FinishedStaysFinished` and `SyncDebt` say what
holds all the same, and `docs/DEPLOYMENT.md:399` promises of a failed sync "the
task goes to retry or failed". With two workers, which the deployment does not
run, an older version's mapping may overwrite a newer one's (`store.go:674`),
which is why `SyncDebt` and `NeverBackwards` speak of one.
Two checks of one draft that overlap may leave the union of their answers, more
than the three records an answer has, although the comment calls the operation
a refresh (`draft_similarity_store.go:237`); `NothingOlderStays` says that
nothing else survives. The list of a draft's suggestions has no test of the
items' status and shows removed ones (`draft_similarity_store.go:259`). What is
related to an item is looked for with the item's own text, so the item is among
the answers (`conversation_service.go:165`). "记一下：…改成…" reads as moving a
draft, because the words of a move are looked for before those of a record
(`conversation_service.go:356`), and an LLM surer than 60 % overrules a refusal
(`llm_tasks.go:317`). A deferred draft can be neither approved
nor ignored (`services.go:172`, `store.go:153`). A reminder can be repeated
after a crash, and `AtMostOneReminder` says by how many. When the agent fails,
the rules handle the message as if nothing had happened: they may make a second
draft of it, or decide another draft than the agent did
(`conversation_service.go:193`). A `SETNX` whose answer is lost and that go-redis
sends again finds its own mark, and the message is dropped (`handlers.go:276`).
A revision whose second half fails leaves its draft rejected and no new one
(`agent_adapter.go:226`). A drafting tool that fails after another succeeded
takes the card away (`conversation/agent.go:183`). A number whose draft was
decided meanwhile is looked up as if it had named none
(`conversation_service.go:797`). An append whose answer is lost is made again by
the retry, and its blocks are in the document twice, because they are always
added as new children (`docsync.go:155`); `log/prd_mvp_revision_feishu.md:346`
asks for retries that do not write again, and `docs/DEPLOYMENT.md:405` admits that
blocks are not updated yet. "Confirm" in reply to a card decides the
newest pending draft that names that card in any of three columns, also one a
reply to the card had made (`store.go:235`). The card of a saved draft says
"expired" after a second click on its button (`handlers.go:473`).

## 5. What is proved

Every invariant and action property of the passing runs, and the refinement of
`KnowledgeHistory`, for every value of the constants that satisfies the named
assumptions. Each inductive invariant below was first checked by TLC on the
instance of its component's run.

**Assumptions.** Values that stand for "nothing" differ from those that stand
for something (`KeepAssumption`, `NoneAssumption`, `ReplyAssumption`,
`CardAssumption`, `MessageAssumption`, `NoDraftAssumption`); functions and sets
given as constants have their types (`RecordingAssumption`, `LowerAssumption`,
`AskedAssumption`, `SaysAssumption`, `UnderstandsAssumption`, `AboutAssumption`,
`GramsAssumption`, `VerdictAssumption`); limits and bounds are numbers, positive
where the code's constant is (`BoundAssumption`, `FaultAssumption`,
`LimitAssumption`, `BatchAssumption`, `LevelAssumption`, `SizeAssumption`,
`RetryAssumption`), and a list of drafts has at least two entries
(`ListedAssumption`; the code lists five). Items and workers are finitely many (`ItemAssumption` of `Similarity`,
`WorkerAssumption` of `DocSync`), because cardinalities are taken of them.

`KnowledgeStoreProofs`. The inductive invariant joins type correctness,
`LogContiguous`, `LogHeadIsItem` (together the checked `LogMatchesItem`) and
`EqualVersionsAgree`. The log alone is not
inductive: a commit appends row `seen.version + 1`, and only because
`Insertable` makes that number the first free one is the request's version the
item's present version; then, by `EqualVersionsAgree`, what it read is what the
item says, so the row it writes agrees with the item after the `UPDATE`. From
the invariant follow `NoLostUpdate`, `RestoreOnlyRemoved`, and two properties no
run checks because the refinement of `KnowledgeHistory`, which a run does check,
implies them: `LogIsAppendOnly` and `PurgeIsFinal`. The refinement
(`RefinesHistory`) goes step by step (`StepRefines`): a commit is `Edit` or, for
a restore of a removed item, `Restore`, applied to the snapshot that the
invariant shows to be the newest; creating, removing and purging are themselves;
everything else stutters.

`DraftLifecycleProofs`. `StepChanges` says once what any step can do to one
draft (`StatusStep`): approve it, insert it, decide it while pending, or expire
it if a sweep had chosen it. `ItemsMatchStatus` and `GuardedDecisionsOnlyOnce`
follow from it; `QuietDecisionIsFinal` adds that no step takes up a decided
draft in a way that could overwrite it (`ThreatStep`, `WorkerThreatStep`).
`OneRevision` is proved without counting: `RevisionInv` says that two successors,
two requests about to write one, or one of each do not exist beside each other;
the guarded `UPDATE` admits a writer only while there is neither.
`AtMostOneReminder` needs the worker's place (`ReminderInv`): the owner of a
draft that is listed and not being marked has one reminder at most for each
fault, so that the one sent next is within the bound.

`DocSyncProofs`. For any number of workers. The invariant joins the store's
invariant, which the worker's steps keep because they change nothing of it but
the marks of tasks, with what each worker holds: its batch has at most
`BatchLimit` tasks, all RUNNING, none twice and none in another batch; and what it has read is a version of the item as long as the item exists, which,
with credentials, the document has once it is about to be mapped. A restart may
change the credentials, and with them what a mapping written from then on says,
but the worker has forgotten what it had read by then. `TaskHeldOnce` is more than the row
locks: a task stays out of other batches because claiming takes only QUEUED
and RETRYING tasks and only its holder marks it. The bound on orphaned tasks
follows because a fault frees one batch and a claim orphans none.
`FinishedStaysFinished` follows because every mark falls on a RUNNING task.
`MappingIsWritten` needs that a mapping leaves with its item
(`MappingsHaveItems`): versions of an existing item only grow (`RowsGrow`), and
a worker that read an item before its purge fails on the foreign key.
For one worker, `AloneInv` adds what makes `SyncDebt` and `NeverBackwards`
inductive: between its read and its mark its item cannot be purged (the purge is
its own), an edit that overtakes its read has a task beside the one in hand
(whoever changes a version enqueues in the same transaction: `ServerAnnounces`),
and no document is ahead of its item nor of what the worker has read.
`MappingsCatchUpHolds` is about liveness: with one worker, mappings catch up with
the edits if `EveryTaskFinishes`, because an item left behind owes a task
(`SyncDebt`) and what is owed in the end has failed for good or been orphaned.
`SyncRefinesHistory` and `SyncLogCorrect` carry the store's promises over: with
any number of workers beside the requests the store still implements one
history per item.

`CategoryTreeProofs`. For any users, names, spellings and depths. The added
conjunct is that the row a request has reached (its `parentID`) is its user's
row of the parts behind it (`RequestsOnTheirWay`); rows never change, so what
held of a request keeps holding while others insert.

`AgentLoopProofs`. For any turns, rounds, calls and window. `CallsAnswered`
speaks of turns that ask; while a turn runs its calls the last request has only
some results, so `CallsInv` says how far it has got (`AtHand`) and that every
other request is complete. `CardIsNewestOwn` needs that the draft a turn was
given last is its newest from the moment it is made (`DraftInv`), which no other
turn can disturb because drafts carry their turn. `HistoryInWindow` needs a
count over attempts, whether a turn waits for them or not: half a pair pushed
counts once, a whole one twice (`HistoryInv`).

`IntakeProofs`. For any messages, goroutines, cards and readings of an LLM.
`OneDraftPerMessage` is a balance (`CountInv`): drafts the rules made and
goroutines whose rules may still make one, those with the agent included, never
exceed the mark plus its lapses, so that neither a second delivery nor a lapse in
the middle is counted twice. `NeverGuesses`,
`NumberMeansEntry` and `RefusalHolds` speak of the step that decides;
`FoundInv` says what was established about the draft when it was looked up, and
that it survives whatever others do before the decision: drafts only leave the
pending ones or are new, and new ones are newer than all that were known.

`CardDisplayProofs`. For any drafts, cards, requests and patches on their way.
`CardsLeaveDrafts` shows that every behaviour with cards is one of
`DraftLifecycle`, so all that is proved of drafts holds with cards, and the
cards' proofs rest on `StepChanges`. `ClosedCardMeansClosedDraft` and
`LabelsAreEarned` are made inductive by saying the same of patches on their way
(`EarnedInv`) and by tying a request to the card it will patch (`RequestInv`).

`SimilarityProofs`. For any drafts, items, checks and answers. `StoredWhole` and
`NothingOlderStays` rest on what a transaction's `DELETE` has seen: of any other
check all rows or none, and what it has not seen was committed since
(`DeleteInv`); on the locks two transactions cannot both hold (`LockInv`); and
on rows being those of committed checks only (`RowInv`). The unique key and the
foreign keys of the table are part of `SimilarityTypeOK`.

**Left to TLC.** Liveness (`EveryDraftIsDecided`, `EveryTaskFinishes`,
`EveryTurnEnds`, `EveryCheckEnds`): fairness and `ENABLED`
are out of the prover's reach here. The two violations, which are
counterexamples. What `ListCategoryTree` computes and what the parts of a text
read as are functions and operators the runs evaluate.

## 6. What is not modelled

Prompts, message wording and what an LLM answers beyond what its readers tell
apart; titles, summaries and tags taken from a text, and the category recommended
by its keywords; full-text recall and ranking (any active items may be found);
searching and composing an answer, which read only; the layout of cards; the
configuration; the evaluation and test programs.
Rerunning the migrations at start (`AUTO_MIGRATE`) changes no row in a state
these modules reach: its `UPDATE`s touch only statuses of older releases and
missing deadlines.
