----------------------------- MODULE CardDisplay -----------------------------
(***************************************************************************)
(* The cards of drafts in a chat, over the life of the drafts               *)
(* (DraftLifecycle, extended here): the card sent for a draft, the id       *)
(* written back for it, the buttons (processCardAction) and the patches     *)
(* that take the buttons away and say what became of the draft.             *)
(*                                                                          *)
(* A patch is sent by a goroutine, by the sweep or by a revision, after the *)
(* statement it reports; patches may arrive in any order, or never.         *)
(* Requests that come from elsewhere than a button (messages, HTTP, MCP)    *)
(* decide drafts without a patch, revisions and sweeps excepted.            *)
(* A button's request is identified by the owner who presses it; for        *)
(* another member of a group the draft does not exist.                      *)
(***************************************************************************)
EXTENDS DraftLifecycle

CONSTANT Card   \* card messages

ASSUME CardAssumption == None \notin Card

VARIABLES
  about,    \* about[c]: the draft card c was made for, None before
  shows,    \* shows[c]: what is on the screen: nothing, buttons or a label
  unbound,  \* cards sent whose id is still to be written back
  bound,    \* bound[d]: card_message_id
  pressed,  \* pressed[r]: the card whose button r serves, None for others
  known,    \* known[r]: the card_message_id a revision has read
  patches,  \* patches on their way: card and label
  guests    \* cards on which someone else submitted a category

cardVars == <<about, shows, unbound, bound, pressed, known, patches, guests>>
screen == <<about, shows, unbound, bound, guests>>
all == <<vars, cardVars>>

-----------------------------------------------------------------------------

Label == {"confirm", "reject", "expired", "revised"}

CardTypeOK ==
  /\ about \in [Card -> Draft \cup {None}]
  /\ shows \in [Card -> {"nothing", "buttons"} \cup Label]
  /\ unbound \subseteq {c \in Card : shows[c] # "nothing"}
  /\ bound \in [Draft -> Card \cup {None}]
  /\ \A d \in Draft :
       bound[d] # None => about[bound[d]] = d /\ shows[bound[d]] # "nothing"
  /\ pressed \in [Request -> Card \cup {None}]
  /\ \A r \in Request :
       pressed[r] # None => req[r].op \in {"approve", "reject"} /\ req[r].draft = about[pressed[r]]
  /\ known \in [Request -> Card \cup {None}]
  /\ patches \subseteq [card : {c \in Card : shows[c] # "nothing"}, label : Label]
  /\ guests \subseteq Card

CardInit ==
  /\ Init
  /\ about = [c \in Card |-> None]
  /\ shows = [c \in Card |-> "nothing"]
  /\ unbound = {}
  /\ bound = [d \in Draft |-> None]
  /\ pressed = [r \in Request |-> None]
  /\ known = [r \in Request |-> None]
  /\ patches = {}
  /\ guests = {}

Patch(c, label) == [card |-> c, label |-> label]

-----------------------------------------------------------------------------
(* Sending a card: processMessageEvent.                                     *)

\* A message made the draft, or moved it while it was pending, and its answer
\* is a card.
Compose(c, d) ==
  /\ about[c] = None
  /\ Pending(d)
  /\ about' = [about EXCEPT ![c] = d]
  /\ UNCHANGED <<vars, shows, unbound, bound, pressed, known, patches, guests>>

\* It is sent, whatever became of the draft meanwhile.
Send(c) ==
  /\ about[c] # None /\ shows[c] = "nothing"
  /\ shows' = [shows EXCEPT ![c] = "buttons"]
  /\ unbound' = unbound \cup {c}
  /\ UNCHANGED <<vars, about, bound, pressed, known, patches, guests>>

Bind_Unsent(c) ==
  /\ about[c] # None
  /\ bound' = [bound EXCEPT ![about[c]] = c]
  /\ unbound' = unbound \ {c}
  /\ UNCHANGED <<vars, about, shows, pressed, known, patches, guests>>

\* UpdateDraftCardMessageID, in place of an earlier card's id.
Bind(c) ==
  /\ c \in unbound
  /\ bound' = [bound EXCEPT ![about[c]] = c]
  /\ unbound' = unbound \ {c}
  /\ UNCHANGED <<vars, about, shows, pressed, known, patches, guests>>

\* ... or it fails, which is logged.
BindFails(c) ==
  /\ c \in unbound
  /\ unbound' = unbound \ {c}
  /\ UNCHANGED <<vars, about, shows, bound, pressed, known, patches, guests>>

-----------------------------------------------------------------------------
(* The buttons: processCardAction.                                          *)

Press(r, c) ==
  /\ shows[c] = "buttons"
  /\ pressed' = [pressed EXCEPT ![r] = c]
  /\ UNCHANGED <<screen, known, patches>>

PressConfirm(r, c) == Press(r, c) /\ BeginApprove(r, about[c], Keep)

PressReject(r, c) == Press(r, c) /\ BeginReject(r, about[c])

\* A category is submitted; the card stays as it is.
PressCategory(r, c) ==
  /\ shows[c] = "buttons"
  /\ \E p \in Path : UpdateDraftCategory(r, about[c], p)
  /\ UNCHANGED cardVars

Reports(c, label) ==
  /\ patches' = patches \cup {Patch(c, label)}
  /\ UNCHANGED <<about, shows, unbound, bound>>

\* Every error, not "already resolved" alone, is taken for a repetition.
PressRefused_AnyError(c) ==
  /\ shows[c] = "buttons"
  /\ Reports(c, "expired")
  /\ UNCHANGED <<vars, pressed, known, guests>>

\* "already resolved" from ApproveDraft and RejectDraft, "no rows" from
\* UpdateDraftCategory: the card will say "expired", whatever became of the
\* draft.
PressRefused(c) ==
  /\ shows[c] = "buttons"
  /\ ~Open(about[c])
  /\ Reports(c, "expired")
  /\ UNCHANGED <<vars, pressed, known, guests>>

\* Someone else in the group submits a category: "no rows" as well.
PressByGuest(c) ==
  /\ shows[c] = "buttons"
  /\ Reports(c, "expired")
  /\ guests' = guests \cup {c}
  /\ UNCHANGED <<vars, pressed, known>>

\* A request that serves a button is done, and its card is to be patched.
Served(r, label) ==
  /\ pressed' = [pressed EXCEPT ![r] = None]
  /\ IF pressed[r] = None THEN UNCHANGED patches
     ELSE patches' = patches \cup {Patch(pressed[r], label)}
  /\ UNCHANGED <<screen, known>>

Approve(r) == CommitApprove(r) /\ Served(r, "confirm")

Reject(r) == CommitReject(r) /\ Served(r, "reject")

GiveUp_PatchesAnyway(r) ==
  /\ Abandon(r)
  /\ Served(r, IF req[r].op = "approve" THEN "confirm" ELSE "reject")

\* An error or the loser of two rejections: a toast, no patch.
GiveUp(r) ==
  /\ Abandon(r)
  /\ pressed' = [pressed EXCEPT ![r] = None]
  /\ UNCHANGED <<screen, known, patches>>

-----------------------------------------------------------------------------
(* Patches from elsewhere.                                                  *)

\* ReviseDraftForAgent patches the card it read with the draft.
Revise(r, d, p) ==
  /\ BeginRevise(r, d, p)
  /\ known' = [known EXCEPT ![r] = bound[d]]
  /\ UNCHANGED <<screen, pressed, patches>>

DiscardOld(r) ==
  /\ CommitDiscard(r)
  /\ patches' = patches \cup (IF known[r] = None THEN {} ELSE {Patch(known[r], "revised")})
  /\ UNCHANGED <<screen, pressed, known>>

\* ExpirePendingDrafts patches the cards its UPDATE returned.
Swept(rows) ==
  /\ patches' = patches \cup {Patch(bound[d], "expired") : d \in {e \in rows : bound[e] # None}}
  /\ UNCHANGED <<screen, pressed, known>>

Expire(r) == CommitSweep(r) /\ Swept(req[r].rows)

WorkerExpire == WorkerCommitSweep /\ Swept(worker.rows)

\* PatchCard: the card says what the patch says, buttons gone.
PatchArrives ==
  /\ \E p \in patches :
       /\ shows' = [shows EXCEPT ![p.card] = p.label]
       /\ patches' = patches \ {p}
  /\ UNCHANGED <<vars, about, unbound, bound, pressed, known, guests>>

\* It times out, is refused, or its process dies.
PatchIsLost ==
  /\ \E p \in patches : patches' = patches \ {p}
  /\ UNCHANGED <<vars, screen, pressed, known>>

-----------------------------------------------------------------------------

\* The steps of requests from elsewhere that no card hears of.
Unheard(r) ==
  \/ \E d \in Draft :
       \/ BeginReject(r, d) \/ IgnoreDraft(r, d) \/ LaterDraft(r, d) \/ Recreate(r, d)
       \/ \E p \in Path : CreateDraft(r, d, p) \/ UpdateDraftCategory(r, d, p)
       \/ \E p \in Path \cup {Keep} : BeginApprove(r, d, p)
  \/ BeginDiscard(r)
  \/ BeginSweep(r)

WorkerUnheard ==
  \/ WorkerBeginSweep \/ WorkerListReminders \/ WorkerMark \/ WorkerFinish
  \/ WorkerMarkFails \/ WorkerCrash
  \/ \E d \in Draft : WorkerRemind(d) \/ WorkerReplyAnswerLost(d) \/ TimePasses(d)

CardStep(c) ==
  \/ \E d \in Draft : Compose(c, d)
  \/ Send(c) \/ Bind(c) \/ BindFails(c)
  \/ PressRefused(c) \/ PressByGuest(c)
  \/ \E r \in Request : PressConfirm(r, c) \/ PressReject(r, c) \/ PressCategory(r, c)

ReportStep(r) ==
  \/ Approve(r) \/ Reject(r) \/ GiveUp(r) \/ DiscardOld(r) \/ Expire(r)
  \/ \E d \in Draft, p \in Path \cup {Keep} : Revise(r, d, p)

CardNext ==
  \/ \E c \in Card : CardStep(c)
  \/ \E r \in Request : ReportStep(r) \/ (Unheard(r) /\ UNCHANGED cardVars)
  \/ WorkerExpire
  \/ WorkerUnheard /\ UNCHANGED cardVars
  \/ PatchArrives
  \/ PatchIsLost

CardSpec == CardInit /\ [][CardNext]_all

-----------------------------------------------------------------------------

\* Nobody is left with a card without buttons, or loses them to a patch on its
\* way, while its draft can still be confirmed: unless someone else in the
\* group pressed them (handlers.go:508 takes "no rows" for "already handled").
ClosedCardMeansClosedDraft ==
  \A c \in Card :
    /\ c \notin guests
    /\ shows[c] \in Label \/ \E p \in patches : p.card = c
    => ~Open(about[c])

\* A card that says "confirmed" is of a draft whose knowledge item exists, and
\* one that says "rejected" or "revised" of a draft that is pending no more,
\* however patches, crashes and racing decisions interleave.
LabelsAreEarned ==
  \A c \in Card :
    /\ shows[c] = "confirm" => made[about[c]] # <<>>
    /\ shows[c] \in {"reject", "revised"} => Settled(about[c])

=============================================================================
