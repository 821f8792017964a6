---------------------------- MODULE PendingDraft ----------------------------
(***************************************************************************)
(* Which pending draft a message is about: ResolvePendingDraftContext       *)
(* (internal/service/conversation_service.go) and the queries it makes.     *)
(*                                                                          *)
(* "rows" is knowledge_drafts restricted to one user and one chat, indexed  *)
(* by id in the order of creation: a sequence of records with a status and  *)
(* the three message columns, source_message_id, reply_to_message_id and    *)
(* card_message_id.                                                         *)
(***************************************************************************)
EXTENDS Naturals, Sequences, FiniteSets

CONSTANT None   \* no message: an empty column, a message that is no reply

PENDING == "PENDING_CONFIRMATION"

PendingIds(rows) == {d \in DOMAIN rows : rows[d].status = PENDING}

Newest(ids) == CHOOSE d \in ids : \A e \in ids : e <= d

\* GetPendingDraftBySourceMessage: the pending rows that name message m.
BoundTo(rows, m) ==
  {d \in PendingIds(rows) :
     m # None /\ m \in {rows[d].source, rows[d].reply, rows[d].card}}

\* Fault variant (as in the other modules, X_Fault is X with a plausible bug,
\* used by mutation runs only): the list is cut to its newest row, which then
\* looks like the only one.
ListPending_NewestOnly(rows, limit) ==
  LET pending == PendingIds(rows)
  IN  {d \in pending : Cardinality({e \in pending : e > d}) < 1}

\* ListPendingDraftsByChat: the newest pending rows, "limit" of them at most.
ListPending(rows, limit) ==
  LET pending == PendingIds(rows)
  IN  {d \in pending : Cardinality({e \in pending : e > d}) < limit}

\* What the lookups before the chat's list find, in the order they are made:
\* the selection, the message replied to, this very message, the quoted text
\* ("quoted" is the set of drafts whose text matches the quotation).
Lookups(rows, selected, reply, message, quoted) ==
  << {selected} \cap PendingIds(rows), BoundTo(rows, reply),
     BoundTo(rows, message), quoted \cap PendingIds(rows) >>

\* The draft resolved to, or 0 for "ask the user" with the candidates listed.
Resolve(rows, selected, reply, message, quoted, limit) ==
  LET found == Lookups(rows, selected, reply, message, quoted)
      hits == {i \in DOMAIN found : found[i] # {}}
      first == CHOOSE i \in hits : \A j \in hits : i <= j
      listed == ListPending(rows, limit)
  IN  IF hits # {} THEN [draft |-> Newest(found[first]), candidates |-> {}]
      ELSE IF Cardinality(listed) = 1
           THEN [draft |-> Newest(listed), candidates |-> {}]
           ELSE [draft |-> 0, candidates |-> listed]

=============================================================================
