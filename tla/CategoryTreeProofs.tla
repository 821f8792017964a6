------------------------- MODULE CategoryTreeProofs -------------------------
(***************************************************************************)
(* The category table is a forest whose shape is that of the paths, and a   *)
(* path leads to the category it names: for any users, requests, names and  *)
(* limit, and any interleaving of EnsureCategoryPath's statements.          *)
(***************************************************************************)
EXTENDS CategoryTree, TLAPS

\* A request's parent is the row of the parts it has behind it.
OnItsWay(r) ==
  /\ req[r].done < Len(req[r].path)
  /\ IF req[r].done = 0 THEN req[r].parent = 0
     ELSE /\ req[r].parent \in Of(req[r].user)
          /\ Key(rows[req[r].parent].path) = Key(SubSeq(req[r].path, 1, req[r].done))

RequestsOnTheirWay == \A r \in Request : req[r].op = "ensure" => OnItsWay(r)

IInv == TypeOK /\ ParentOwnsPath /\ FiledUnderItsPath /\ RequestsOnTheirWay

-----------------------------------------------------------------------------
(* Facts about sequences.                                                   *)

LEMMA PrefixOfPath ==
  ASSUME NEW p \in Paths, NEW n \in Nat, n < Len(p)
  PROVE  /\ SubSeq(p, 1, n + 1) \in Paths
         /\ Len(SubSeq(p, 1, n + 1)) = n + 1
         /\ SubSeq(SubSeq(p, 1, n + 1), 1, n) = SubSeq(p, 1, n)
<1>1. p \in Seq(Name) /\ Len(p) \in Nat
  BY DEF Paths
<1>2. SubSeq(p, 1, n + 1) \in Seq(Name) /\ Len(SubSeq(p, 1, n + 1)) = n + 1
  BY <1>1
<1>3. SubSeq(SubSeq(p, 1, n + 1), 1, n) = SubSeq(p, 1, n)
  BY <1>1, <1>2
<1>4. SubSeq(p, 1, n + 1) # <<>>
  BY <1>2
<1> QED
  BY <1>2, <1>3, <1>4 DEF Paths

LEMMA WholePath ==
  ASSUME NEW p \in Paths
  PROVE  SubSeq(p, 1, Len(p)) = p
BY DEF Paths

-----------------------------------------------------------------------------
(* What a step does to the rows: nothing, or one row more.                  *)

Extended ==
  /\ DOMAIN rows \subseteq DOMAIN rows'
  /\ \A c \in DOMAIN rows : rows'[c] = rows[c]

LEMMA RowsAreNumbered == ASSUME TypeOK PROVE DOMAIN rows = 1..Len(rows) /\ Len(rows) \in Nat
BY DEF TypeOK

LEMMA AppendExtends ==
  ASSUME TypeOK, NEW row \in Row, rows' = Append(rows, row)
  PROVE  /\ Extended
         /\ rows' \in Seq(Row)
         /\ Len(rows') = Len(rows) + 1
         /\ DOMAIN rows' = DOMAIN rows \cup {Len(rows) + 1}
         /\ rows'[Len(rows) + 1] = row
BY DEF TypeOK, Extended

LEMMA SameExtends == ASSUME UNCHANGED rows PROVE Extended
BY DEF Extended

\* What a row is the parent of stays so.
LEMMA PlaceKept ==
  ASSUME Extended, NEW u, NEW c \in Of(u)
  PROVE  c \in Of(u)' /\ rows'[c] = rows[c]
BY DEF Extended, Of

\* A request that does not move keeps what the invariant says of it.
LEMMA OthersKept ==
  ASSUME IInv, Extended, NEW s \in Request, req'[s] = req[s]
  PROVE  /\ req[s].op = "ensure" => OnItsWay(s)'
         /\ req[s].op = "filed" =>
              LET c == rows'[req[s].id]
              IN  c.user = req[s].user /\ Key(c.path) = Key(req[s].path)
<1>1. ASSUME req[s].op = "ensure" PROVE OnItsWay(s)'
  <2>1. OnItsWay(s)
    BY <1>1 DEF IInv, RequestsOnTheirWay
  <2>2. req[s].done # 0 => req[s].parent \in Of(req[s].user)' /\ rows'[req[s].parent] = rows[req[s].parent]
    BY <2>1, PlaceKept DEF OnItsWay
  <2> QED
    BY <2>1, <2>2 DEF OnItsWay, Key
<1>2. ASSUME req[s].op = "filed" PROVE req[s].id \in DOMAIN rows
  BY <1>2 DEF IInv, TypeOK, Idle
<1>3. ASSUME req[s].op = "filed" PROVE rows'[req[s].id] = rows[req[s].id]
  BY <1>2, <1>3 DEF Extended
<1> QED
  BY <1>1, <1>3 DEF IInv, FiledUnderItsPath, Key

-----------------------------------------------------------------------------
(* The steps, one by one.                                                   *)

LEMMA InitOK == Init => IInv
BY DEF Init, IInv, TypeOK, ParentOwnsPath, FiledUnderItsPath, RequestsOnTheirWay, Idle

\* Where the part of a request is row c, the request goes on under c or
\* returns c.
LEMMA ReachedOK ==
  ASSUME IInv, NEW r \in Request, req[r].op = "ensure", Extended,
         DOMAIN rows' \subseteq Nat,
         NEW c \in DOMAIN rows', rows'[c].user = req[r].user,
         Key(rows'[c].path) = Key(Prefix(r)), Reached(r, c)
  PROVE  /\ req' \in [Request ->
              {Idle}
              \cup [op : {"ensure"}, user : User, path : Paths, done : Nat, parent : Nat]
              \cup [op : {"filed"}, user : User, path : Paths, id : DOMAIN rows']]
         /\ FiledUnderItsPath'
         /\ RequestsOnTheirWay'
<1> DEFINE u == req[r].user
           p == req[r].path
           n == req[r].done
<1>1. /\ req[r] \in [op : {"ensure"}, user : User, path : Paths, done : Nat, parent : Nat]
      /\ req \in [Request -> {Idle}
              \cup [op : {"ensure"}, user : User, path : Paths, done : Nat, parent : Nat]
              \cup [op : {"filed"}, user : User, path : Paths, id : DOMAIN rows]]
  BY DEF IInv, TypeOK, Idle
<1>2. n \in Nat /\ p \in Paths /\ n < Len(p) /\ u \in User /\ Len(p) \in Nat
  BY <1>1 DEF IInv, RequestsOnTheirWay, OnItsWay, Paths
<1>3. c \in DOMAIN rows' /\ rows'[c].user = u
  OBVIOUS
<1>4. CASE AtLastPart(r)
  <2>1. req' = [req EXCEPT ![r] = Filed(u, p, c)]
    BY <1>4 DEF Reached
  <2>2. Prefix(r) = p
    BY <1>2, <1>4, WholePath DEF Prefix, AtLastPart
  <2>3. req'[r] = Filed(u, p, c) /\ \A s \in Request \ {r} : req'[s] = req[s]
    BY <2>1, <1>1
  <2>4. Filed(u, p, c) \in [op : {"filed"}, user : User, path : Paths, id : DOMAIN rows']
    BY <1>2, <1>3 DEF Filed
  <2>5. FiledUnderItsPath'
    <3> SUFFICES ASSUME NEW s \in Request, req'[s].op = "filed"
                 PROVE  LET d == rows'[req'[s].id]
                        IN  d.user = req'[s].user /\ Key(d.path) = Key(req'[s].path)
      BY DEF FiledUnderItsPath, Key
    <3>1. CASE s = r
      BY <3>1, <2>2, <2>3, <1>3 DEF Filed
    <3>2. CASE s # r
      BY <3>2, <2>3, OthersKept
    <3> QED BY <3>1, <3>2
  <2>6. RequestsOnTheirWay'
    BY <2>3, OthersKept DEF RequestsOnTheirWay, Filed
  <2>7. req' \in [Request -> {Idle}
              \cup [op : {"ensure"}, user : User, path : Paths, done : Nat, parent : Nat]
              \cup [op : {"filed"}, user : User, path : Paths, id : DOMAIN rows']]
    BY <2>1, <2>4, <1>1 DEF Extended
  <2> QED
    BY <2>5, <2>6, <2>7
<1>5. CASE ~AtLastPart(r)
  <2> DEFINE next == Ensuring(u, p, n + 1, c)
  <2>1. req' = [req EXCEPT ![r] = next]
    BY <1>5 DEF Reached
  <2>2. next \in [op : {"ensure"}, user : User, path : Paths, done : Nat, parent : Nat]
    BY <1>1, <1>2, <1>3 DEF Ensuring
  <2>3. /\ req'[r] = next
        /\ next.op = "ensure" /\ next.user = u /\ next.path = p
        /\ next.done = n + 1 /\ next.parent = c
        /\ \A s \in Request \ {r} : req'[s] = req[s]
    BY <2>1, <1>1 DEF Ensuring
  <2>4. n + 1 < Len(p)
    BY <1>2, <1>5 DEF AtLastPart
  <2>5. OnItsWay(r)'
    <3>1. Key(rows'[c].path) = Key(SubSeq(p, 1, n + 1))
      BY DEF Prefix
    <3>2. /\ req'[r].done = n + 1 /\ req'[r].path = p
          /\ req'[r].user = u /\ req'[r].parent = c
      BY <2>3
    <3>3. Key(rows'[req'[r].parent].path) = Key(SubSeq(req'[r].path, 1, req'[r].done))
      BY <3>1, <3>2
    <3>4. req'[r].done < Len(req'[r].path) /\ req'[r].done # 0
      BY <3>2, <2>4, <1>2
    <3>5. req'[r].parent \in Of(req[r].user)'
      BY <3>2, <1>3 DEF Of
    <3> QED
      BY <3>3, <3>4, <3>5 DEF OnItsWay, Key
  <2>6. FiledUnderItsPath'
    <3> SUFFICES ASSUME NEW s \in Request, req'[s].op = "filed"
                 PROVE  LET d == rows'[req'[s].id]
                        IN  d.user = req'[s].user /\ Key(d.path) = Key(req'[s].path)
      BY DEF FiledUnderItsPath, Key
    <3>1. s # r
      BY <2>3
    <3> QED BY <3>1, <2>3, OthersKept
  <2>7. RequestsOnTheirWay'
    BY <2>3, <2>5, OthersKept DEF RequestsOnTheirWay
  <2>8. req' \in [Request -> {Idle}
              \cup [op : {"ensure"}, user : User, path : Paths, done : Nat, parent : Nat]
              \cup [op : {"filed"}, user : User, path : Paths, id : DOMAIN rows']]
    BY <2>1, <2>2, <1>1 DEF Extended
  <2> QED
    BY <2>6, <2>7, <2>8
<1> QED
  BY <1>4, <1>5

\* A request is taken up with a path that has a part.
LEMMA BeginOK ==
  ASSUME IInv, NEW r \in Request, Begin(r)
  PROVE  IInv'
<1>0. PICK u \in User : \E parts \in Asked[u] :
        req' = [req EXCEPT ![r] = Ensuring(u, Normalized(parts), 0, 0)]
  BY DEF Begin
<1>1. PICK parts \in Asked[u] :
        req' = [req EXCEPT ![r] = Ensuring(u, Normalized(parts), 0, 0)]
  BY <1>0
<1>2. UNCHANGED rows
  BY DEF Begin
<1>3. Extended
  BY <1>2, SameExtends
<1> DEFINE new == Ensuring(u, Normalized(parts), 0, 0)
<1>4. /\ new \in [op : {"ensure"}, user : User, path : Paths, done : Nat, parent : Nat]
      /\ new.op = "ensure" /\ new.done = 0 /\ new.parent = 0 /\ new.path \in Paths
  BY AskedAssumption DEF Ensuring
<1>5. Len(new.path) > 0
  BY <1>4 DEF Paths
<1> HIDE DEF new
<1>6. req'[r] = new /\ \A s \in Request \ {r} : req'[s] = req[s]
  BY <1>1 DEF IInv, TypeOK, new
<1>7. TypeOK'
  BY <1>1, <1>2, <1>4 DEF IInv, TypeOK, new, Level
<1>8. ParentOwnsPath'
  BY <1>2 DEF IInv, ParentOwnsPath, Of, Level, Key
<1>9. FiledUnderItsPath'
  <2> SUFFICES ASSUME NEW s \in Request, req'[s].op = "filed"
               PROVE  LET d == rows'[req'[s].id]
                      IN  d.user = req'[s].user /\ Key(d.path) = Key(req'[s].path)
    BY DEF FiledUnderItsPath, Key
  <2>1. s # r
    BY <1>6, <1>4
  <2> QED BY <2>1, <1>3, <1>6, OthersKept
<1>10. RequestsOnTheirWay'
  <2>1. OnItsWay(r)'
    BY <1>4, <1>5, <1>6 DEF OnItsWay
  <2> QED
    BY <2>1, <1>3, <1>6, OthersKept DEF RequestsOnTheirWay
<1> QED
  BY <1>7, <1>8, <1>9, <1>10 DEF IInv

\* The row a path part leads to is there already.
LEMMA FindPartOK ==
  ASSUME IInv, NEW r \in Request, FindPart(r)
  PROVE  IInv'
<1>1. req[r].op = "ensure" /\ UNCHANGED rows /\ Extended
  BY SameExtends DEF FindPart
<1>2. PICK c \in OnConflict(r) : Reached(r, c)
  BY DEF FindPart
<1>3. c \in DOMAIN rows' /\ rows'[c].user = req[r].user /\ Key(rows'[c].path) = Key(Prefix(r))
  BY <1>1 DEF OnConflict
<1>4. DOMAIN rows' \subseteq Nat
  BY <1>1, RowsAreNumbered DEF IInv
<1>5. /\ req' \in [Request ->
            {Idle}
            \cup [op : {"ensure"}, user : User, path : Paths, done : Nat, parent : Nat]
            \cup [op : {"filed"}, user : User, path : Paths, id : DOMAIN rows']]
      /\ FiledUnderItsPath' /\ RequestsOnTheirWay'
  BY <1>1, <1>2, <1>3, <1>4, ReachedOK
<1>6. TypeOK'
  BY <1>1, <1>5 DEF IInv, TypeOK, Level, Idle
<1>7. ParentOwnsPath'
  BY <1>1 DEF IInv, ParentOwnsPath, Of, Level, Key
<1> QED
  BY <1>5, <1>6, <1>7 DEF IInv

\* A row is added under the parent the request has reached.
LEMMA InsertPartOK ==
  ASSUME IInv, NEW r \in Request, InsertPart(r)
  PROVE  IInv'
<1> DEFINE u == req[r].user
           p == req[r].path
           n == req[r].done
           c == Len(rows) + 1
           row == [user |-> u, path |-> Prefix(r), parent |-> req[r].parent]
<1>1. /\ req[r].op = "ensure" /\ n < MaxLevel
      /\ rows' = Append(rows, row) /\ Reached(r, c)
  BY DEF InsertPart
<1>2. /\ req[r] \in [op : {"ensure"}, user : User, path : Paths, done : Nat, parent : Nat]
      /\ OnItsWay(r)
  BY <1>1 DEF IInv, TypeOK, Idle, RequestsOnTheirWay
<1>3. n \in Nat /\ p \in Paths /\ n < Len(p) /\ u \in User /\ req[r].parent \in Nat
  BY <1>2 DEF OnItsWay
<1>4. Prefix(r) \in Paths /\ Len(Prefix(r)) = n + 1 /\ SubSeq(Prefix(r), 1, n) = SubSeq(p, 1, n)
  BY <1>3, PrefixOfPath DEF Prefix
<1>5. row \in Row /\ row.user = u /\ row.path = Prefix(r) /\ row.parent = req[r].parent
  BY <1>3, <1>4 DEF Row
<1> HIDE DEF row
<1>6. /\ Extended /\ rows' \in Seq(Row) /\ Len(rows') = c
      /\ DOMAIN rows' = DOMAIN rows \cup {c} /\ rows'[c] = row
  BY <1>1, <1>5, AppendExtends DEF IInv
<1>7. DOMAIN rows = 1..Len(rows) /\ Len(rows) \in Nat
  BY RowsAreNumbered DEF IInv
<1>8. DOMAIN rows' \subseteq Nat
  BY <1>6, <1>7
<1>9. /\ req' \in [Request ->
            {Idle}
            \cup [op : {"ensure"}, user : User, path : Paths, done : Nat, parent : Nat]
            \cup [op : {"filed"}, user : User, path : Paths, id : DOMAIN rows']]
      /\ FiledUnderItsPath' /\ RequestsOnTheirWay'
  BY <1>1, <1>5, <1>6, <1>8, ReachedOK
<1>10. req[r].parent \in 0..Len(rows)
  BY <1>2, <1>7 DEF OnItsWay, Of
<1>11. TypeOK'
  <2>1. \A d \in DOMAIN rows' : rows'[d].parent \in 0..c /\ Len(rows'[d].path) <= MaxLevel
    <3> SUFFICES ASSUME NEW d \in DOMAIN rows'
                 PROVE  rows'[d].parent \in 0..c /\ Len(rows'[d].path) <= MaxLevel
      OBVIOUS
    <3>1. CASE d = c
      BY <3>1, <1>1, <1>3, <1>4, <1>5, <1>6, <1>7, <1>10, LevelAssumption
    <3>2. CASE d \in DOMAIN rows
      BY <3>2, <1>6, <1>7 DEF IInv, TypeOK, Level, Extended
    <3> QED BY <3>1, <3>2, <1>6
  <2> QED
    BY <2>1, <1>6, <1>9 DEF TypeOK, Level, Idle
<1>12. ParentOwnsPath'
  <2> SUFFICES ASSUME NEW d \in DOMAIN rows'
               PROVE  IF Len(rows'[d].path) = 1 THEN rows'[d].parent = 0
                      ELSE LET q == rows'[d].parent
                           IN  /\ q \in DOMAIN rows' /\ rows'[q].user = rows'[d].user
                               /\ Key(rows'[q].path)
                                    = Key(SubSeq(rows'[d].path, 1, Len(rows'[d].path) - 1))
    BY DEF ParentOwnsPath, Of, Level, Key
  <2>1. CASE d = c
    <3>1. rows'[d].path = Prefix(r) /\ rows'[d].user = u /\ rows'[d].parent = req[r].parent
      BY <2>1, <1>5, <1>6
    <3>2. CASE n = 0
      BY <3>1, <3>2, <1>2, <1>4 DEF OnItsWay
    <3>3. CASE n # 0
      <4>1. /\ req[r].parent \in DOMAIN rows /\ rows[req[r].parent].user = u
            /\ Key(rows[req[r].parent].path) = Key(SubSeq(p, 1, n))
        BY <3>3, <1>2 DEF OnItsWay, Of
      <4>2. Len(Prefix(r)) - 1 = n /\ Len(Prefix(r)) # 1
        BY <3>3, <1>3, <1>4
      <4> QED
        BY <3>1, <4>1, <4>2, <1>4, <1>6 DEF Extended
    <3> QED BY <3>2, <3>3
  <2>2. CASE d \in DOMAIN rows
    <3>1. rows'[d] = rows[d]
      BY <2>2, <1>6 DEF Extended
    <3>2. IF Len(rows[d].path) = 1 THEN rows[d].parent = 0
          ELSE LET q == rows[d].parent
               IN  /\ q \in DOMAIN rows /\ rows[q].user = rows[d].user
                   /\ Key(rows[q].path) = Key(SubSeq(rows[d].path, 1, Len(rows[d].path) - 1))
      BY <2>2 DEF IInv, ParentOwnsPath, Of, Level
    <3> QED
      BY <3>1, <3>2, <1>6 DEF Extended
  <2> QED BY <2>1, <2>2, <1>6
<1> QED
  BY <1>9, <1>11, <1>12 DEF IInv

LEMMA FailOK ==
  ASSUME IInv, NEW r \in Request, Fail(r)
  PROVE  IInv'
<1>1. UNCHANGED rows /\ Extended
  BY SameExtends DEF Fail
<1>2. req'[r] = Idle /\ \A s \in Request \ {r} : req'[s] = req[s]
  BY DEF Fail, IInv, TypeOK
<1>3. TypeOK'
  BY <1>1 DEF IInv, TypeOK, Fail, Level
<1>4. ParentOwnsPath'
  BY <1>1 DEF IInv, ParentOwnsPath, Of, Level, Key
<1>5. FiledUnderItsPath'
  <2> SUFFICES ASSUME NEW s \in Request, req'[s].op = "filed"
               PROVE  LET d == rows'[req'[s].id]
                      IN  d.user = req'[s].user /\ Key(d.path) = Key(req'[s].path)
    BY DEF FiledUnderItsPath, Key
  <2>1. s # r
    BY <1>2 DEF Idle
  <2> QED BY <2>1, <1>1, <1>2, OthersKept
<1>6. RequestsOnTheirWay'
  BY <1>1, <1>2, OthersKept DEF RequestsOnTheirWay, Idle
<1> QED
  BY <1>3, <1>4, <1>5, <1>6 DEF IInv

LEMMA StutterOK == ASSUME IInv, UNCHANGED vars PROVE IInv'
<1>1. UNCHANGED rows /\ UNCHANGED req
  BY DEF vars
<1>2. TypeOK'
  BY <1>1 DEF IInv, TypeOK, Level
<1>3. ParentOwnsPath'
  BY <1>1 DEF IInv, ParentOwnsPath, Of, Level, Key
<1>4. FiledUnderItsPath'
  BY <1>1 DEF IInv, FiledUnderItsPath, Key
<1>5. RequestsOnTheirWay'
  BY <1>1, SameExtends, OthersKept DEF RequestsOnTheirWay
<1> QED
  BY <1>2, <1>3, <1>4, <1>5 DEF IInv

LEMMA StepOK == IInv /\ [Next]_vars => IInv'
<1> SUFFICES ASSUME IInv, [Next]_vars PROVE IInv'
  OBVIOUS
<1>1. ASSUME NEW r \in Request, Begin(r) \/ FindPart(r) \/ InsertPart(r) \/ Fail(r)
      PROVE  IInv'
  BY <1>1, BeginOK, FindPartOK, InsertPartOK, FailOK
<1> QED
  BY <1>1, StutterOK DEF Next

-----------------------------------------------------------------------------
(* The theorems.                                                            *)

\* The inductive invariant holds in every behaviour.
THEOREM Invariance == Spec => []IInv
BY InitOK, StepOK, PTL DEF Spec

\* Rows, requests and what they returned are always well typed, and no row is
\* deeper than the table allows.
THEOREM TypeCorrect == Spec => []TypeOK
<1>1. IInv => TypeOK
  BY DEF IInv
<1> QED
  BY <1>1, Invariance, PTL

\* Every category hangs under its own user's category of the path one part
\* shorter, or is of the first level and hangs under none: the categories of a
\* user are a forest.
THEOREM ParentOwnsPathHolds == Spec => []ParentOwnsPath
<1>1. IInv => ParentOwnsPath
  BY DEF IInv
<1> QED
  BY <1>1, Invariance, PTL

\* The category returned for a path is the user's own and has that path, up to
\* case, whatever other requests insert meanwhile.
THEOREM FiledUnderItsPathHolds == Spec => []FiledUnderItsPath
<1>1. IInv => FiledUnderItsPath
  BY DEF IInv
<1> QED
  BY <1>1, Invariance, PTL

=============================================================================
