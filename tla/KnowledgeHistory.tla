-------------------------- MODULE KnowledgeHistory --------------------------
(***************************************************************************)
(* What the knowledge store promises its callers, without SQL: every item   *)
(* has one linear history of snapshots, an edit is applied to the newest    *)
(* snapshot in one indivisible step, removing keeps the history, restoring  *)
(* re-publishes the newest snapshot, and a purged item is gone for good.    *)
(* KnowledgeStore refines this module.                                      *)
(***************************************************************************)
EXTENDS Naturals, Sequences

CONSTANTS
  Item,     \* knowledge item ids
  Content,  \* the texts of an item (title and body together)
  Path,     \* category paths
  Keep      \* an argument the caller left empty: keep the present value

VARIABLES
  life,     \* life[k]: where item k is in its life
  history   \* history[k]: the snapshots of k, oldest first

hvars == <<life, history>>

Snapshot == [content : Content, category : Path]

\* The snapshot an edit produces from the newest one.
Applied(s, c, p) ==
  [content |-> IF c = Keep THEN s.content ELSE c,
   category |-> IF p = Keep THEN s.category ELSE p]

Newest(k) == history[k][Len(history[k])]

HInit ==
  /\ life = [k \in Item |-> "none"]
  /\ history = [k \in Item |-> <<>>]

Publish(k, s) ==
  /\ life[k] = "none"
  /\ life' = [life EXCEPT ![k] = "active"]
  /\ history' = [history EXCEPT ![k] = <<s>>]

Edit(k, c, p) ==
  /\ life[k] \in {"active", "removed"}
  /\ history' = [history EXCEPT ![k] = Append(@, Applied(Newest(k), c, p))]
  /\ UNCHANGED life

Remove(k) ==
  /\ life[k] = "active"
  /\ life' = [life EXCEPT ![k] = "removed"]
  /\ UNCHANGED history

Restore(k) ==
  /\ life[k] = "removed"
  /\ life' = [life EXCEPT ![k] = "active"]
  /\ history' = [history EXCEPT ![k] = Append(@, Newest(k))]

Purge(S) ==
  /\ \A k \in S : life[k] = "removed"
  /\ life' = [k \in Item |-> IF k \in S THEN "gone" ELSE life[k]]
  /\ history' = [k \in Item |-> IF k \in S THEN <<>> ELSE history[k]]

HNext ==
  \/ \E k \in Item :
       \/ \E s \in Snapshot : Publish(k, s)
       \/ \E c \in Content \cup {Keep}, p \in Path \cup {Keep} : Edit(k, c, p)
       \/ Remove(k)
       \/ Restore(k)
  \/ \E S \in SUBSET Item : Purge(S)

HSpec == HInit /\ [][HNext]_hvars
=============================================================================
