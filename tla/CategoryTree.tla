---------------------------- MODULE CategoryTree ----------------------------
(***************************************************************************)
(* The categories of the users (internal/repository/store.go):              *)
(* EnsureCategoryPath, called when a category is made by hand, a draft is   *)
(* approved and an item is edited, and ListCategoryTree.                    *)
(*                                                                          *)
(* A path is a sequence of names.  EnsureCategoryPath inserts one row per   *)
(* part, each in a statement of its own and outside any transaction, so     *)
(* requests interleave between the parts and a failure leaves the parts     *)
(* before it.  Rows are found by path_key, the path in lower case.          *)
(* Name, level and path_key of a row follow from its path and are left out, *)
(* and so is sort_order, which nothing writes.                              *)
(***************************************************************************)
EXTENDS Naturals, Sequences, FiniteSets, SequencesExt

CONSTANTS
  User,
  Request,   \* requests in flight
  Name,      \* what may stand between the slashes
  Blank,     \* the names that are blanks only
  Lower,     \* strings.ToLower on names
  Asked,     \* Asked[u]: the paths u's requests ask for, split at the slashes
  Default,   \* the path that stands for an empty one
  MaxLevel   \* the table's limit on level (5)

Paths == Seq(Name) \ {<<>>}

\* normalizePath and the default: blank parts go; a path of nothing else is
\* the default.
Normalized(parts) ==
  LET kept == SelectSeq(parts, LAMBDA name : name \notin Blank)
  IN  IF kept = <<>> THEN Default ELSE kept

ASSUME LowerAssumption == Lower \in [Name -> Name]
ASSUME AskedAssumption == \A u \in User : \A parts \in Asked[u] : Normalized(parts) \in Paths
ASSUME LevelAssumption == MaxLevel \in Nat \ {0}

VARIABLES
  rows,  \* the table categories, by id
  req    \* the requests: in EnsureCategoryPath, or with what it returned, the
         \* primary_category_id and category_path of an item

vars == <<rows, req>>

-----------------------------------------------------------------------------

Key(path) == [i \in DOMAIN path |-> Lower[path[i]]]
Level(c) == Len(rows[c].path)

Row == [user : User, path : Paths, parent : Nat]
Idle == [op |-> "idle"]
Ensuring(u, path, done, parent) ==
  [op |-> "ensure", user |-> u, path |-> path, done |-> done, parent |-> parent]
Filed(u, path, c) == [op |-> "filed", user |-> u, path |-> path, id |-> c]

TypeOK ==
  /\ rows \in Seq(Row)
  /\ \A c \in DOMAIN rows : rows[c].parent \in 0..Len(rows) /\ Level(c) <= MaxLevel
  /\ req \in [Request ->
       {Idle}
       \cup [op : {"ensure"}, user : User, path : Paths, done : Nat, parent : Nat]
       \cup [op : {"filed"}, user : User, path : Paths, id : DOMAIN rows]]

Init ==
  /\ rows = <<>>
  /\ req = [r \in Request |-> Idle]

-----------------------------------------------------------------------------

\* Fault variant (X_Fault is X with a plausible bug, for mutation runs only):
\* an empty path is not replaced.
Begin_NoDefault(r) ==
  /\ req[r].op # "ensure"
  /\ \E u \in User : \E parts \in Asked[u] :
       req' = [req EXCEPT ![r] =
                 Ensuring(u, SelectSeq(parts, LAMBDA name : name \notin Blank), 0, 0)]
  /\ UNCHANGED rows

Begin(r) ==
  /\ req[r].op # "ensure"
  /\ \E u \in User : \E parts \in Asked[u] :
       req' = [req EXCEPT ![r] = Ensuring(u, Normalized(parts), 0, 0)]
  /\ UNCHANGED rows

Prefix(r) == SubSeq(req[r].path, 1, req[r].done + 1)

OnConflict_AnyUser(r) ==
  {c \in DOMAIN rows : Key(rows[c].path) = Key(Prefix(r))}

\* UNIQUE(user_id, path_key).
OnConflict(r) ==
  {c \in DOMAIN rows : rows[c].user = req[r].user /\ Key(rows[c].path) = Key(Prefix(r))}

AtLastPart(r) == req[r].done + 1 = Len(req[r].path)

Reached_FirstPart(r, c) ==
  req' = [req EXCEPT ![r] =
            IF AtLastPart(r) THEN Filed(@.user, @.path, IF @.parent = 0 THEN c ELSE @.parent)
            ELSE Ensuring(@.user, @.path, @.done + 1, c)]

\* The part is row c: on to the next part under c, or done, with the path as
\* the request spells it.
Reached(r, c) ==
  req' = [req EXCEPT ![r] =
            IF AtLastPart(r) THEN Filed(@.user, @.path, c)
            ELSE Ensuring(@.user, @.path, @.done + 1, c)]

\* INSERT ... ON CONFLICT DO UPDATE: the row there is (its updated_at changes)
\* or a new one.  A row too deep is refused.
FindPart(r) ==
  /\ req[r].op = "ensure"
  /\ \E c \in OnConflict(r) : Reached(r, c)
  /\ UNCHANGED rows

InsertPart(r) ==
  /\ req[r].op = "ensure"
  /\ OnConflict(r) = {}
  /\ req[r].done < MaxLevel
  /\ rows' = Append(rows, [user |-> req[r].user, path |-> Prefix(r),
                           parent |-> req[r].parent])
  /\ Reached(r, Len(rows) + 1)

\* A statement fails, the CHECK of level included, or the process dies.
Fail(r) ==
  /\ req[r].op = "ensure"
  /\ req' = [req EXCEPT ![r] = Idle]
  /\ UNCHANGED rows

Next == \E r \in Request : Begin(r) \/ FindPart(r) \/ InsertPart(r) \/ Fail(r)

Spec == Init /\ [][Next]_vars

-----------------------------------------------------------------------------
(* ListCategoryTree.  A tree is written as the set of its chains, the ids   *)
(* from its root down to each of its nodes.                                 *)

Of(u) == {c \in DOMAIN rows : rows[c].user = u}

\* ORDER BY level, sort_order, id
Ordered(u) ==
  SetToSortSeq(Of(u), LAMBDA c, d : Level(c) < Level(d) \/ (Level(c) = Level(d) /\ c < d))

\* p.Children = append(p.Children, *c): c as it is at this moment, by value.
HangUnderParent(tree, c) ==
  LET p == rows[c].parent
  IN  IF p \in DOMAIN tree
      THEN [tree EXCEPT ![p] = @ \cup {<<p>> \o chain : chain \in tree[c]}]
      ELSE tree

ListCategoryTree(u) ==
  LET built == FoldLeft(HangUnderParent, [c \in Of(u) |-> {<<c>>}], Ordered(u))
  IN  UNION {built[c] : c \in {root \in Of(u) : rows[root].parent = 0}}

\* For reference: where category c belongs, by its path alone.
Place(c) ==
  [i \in 1..Level(c) |->
     CHOOSE d \in Of(rows[c].user) : Key(rows[d].path) = Key(SubSeq(rows[c].path, 1, i))]

-----------------------------------------------------------------------------

\* A category hangs under its own user's category of the path one part
\* shorter, however the requests of several users interleave, whatever the
\* spelling and wherever one of them breaks off.
ParentOwnsPath ==
  \A c \in DOMAIN rows :
    IF Level(c) = 1 THEN rows[c].parent = 0
    ELSE LET p == rows[c].parent
         IN  /\ p \in Of(rows[c].user)
             /\ Key(rows[p].path) = Key(SubSeq(rows[c].path, 1, Level(c) - 1))

\* The category id stored with an item is, up to case, the category its path
\* names, and its owner's.
FiledUnderItsPath ==
  \A r \in Request : req[r].op = "filed" =>
    LET c == rows[req[r].id]
    IN  c.user = req[r].user /\ Key(c.path) = Key(req[r].path)

\* "rebuild roots with nested children from idx" (store.go:116): every category
\* is in the tree.  In the order of the levels a child is copied into its
\* parent before its own children are copied into it, so the third level and
\* those below are lost.
ListsEveryCategory ==
  \A u \in User : ListCategoryTree(u) = {Place(c) : c \in Of(u)}

=============================================================================
