-------------------------- MODULE CardDisplayProofs --------------------------
(***************************************************************************)
(* The theorems of CardDisplay, for any drafts, requests, paths and cards,  *)
(* any LIMIT and any number of faults.                                      *)
(***************************************************************************)
EXTENDS CardDisplay, DraftLifecycleProofs

-----------------------------------------------------------------------------
(* The inductive invariant.                                                 *)

\* A card that is on a screen was made for a draft, and that draft exists.
AboutInv ==
  \A c \in Card :
    /\ shows[c] # "nothing" => about[c] # None
    /\ about[c] # None => drafts[about[c]].status # "NONE"

\* What a label says is so, and its draft is closed unless a guest pressed.
Earned(c, label) ==
  /\ label = "confirm" => made[about[c]] # <<>>
  /\ label \in {"reject", "revised"} => Settled(about[c])
  /\ c \notin guests => ~Open(about[c])

\* So of every label on a screen and of every patch on its way.
EarnedInv ==
  /\ \A c \in Card : shows[c] \in Label => Earned(c, shows[c])
  /\ \A p \in patches : Earned(p.card, p.label)

\* The cards a request will patch are sent, and a revision's is its draft's.
RequestInv ==
  \A r \in Request :
    /\ pressed[r] # None => shows[pressed[r]] # "nothing"
    /\ req[r].op \in {"revise", "discard"} /\ known[r] # None
         => about[known[r]] = req[r].draft /\ shows[known[r]] # "nothing"

CardInv == IInv /\ CardTypeOK /\ AboutInv /\ EarnedInv /\ RequestInv

-----------------------------------------------------------------------------
(* What the life of a draft does not undo.                                  *)

\* Only the row's INSERT makes a draft young.
LEMMA OverdueStays ==
  ASSUME TypeOK, [Next]_vars, NEW d \in Draft,
         drafts[d].status # "NONE", drafts[d].age = "overdue"
  PROVE  drafts'[d].age = "overdue"
<1>0. drafts \in [Draft -> DraftRow] /\ drafts[d] \in DraftRow
  BY DEF TypeOK
<1>1. ASSUME NEW e \in Draft, NEW p, Insert(e, p) PROVE drafts'[d].age = "overdue"
  BY <1>0, <1>1 DEF Insert
<1>2. ASSUME NEW e, NEW s, drafts' = [drafts EXCEPT ![e].status = s]
      PROVE  drafts'[d].age = "overdue"
  BY <1>0, <1>2 DEF DraftRow
<1>3. ASSUME NEW e, NEW p, drafts' = [drafts EXCEPT ![e].category = p]
      PROVE  drafts'[d].age = "overdue"
  BY <1>0, <1>3 DEF DraftRow
<1>4. ASSUME NEW e, drafts' = [drafts EXCEPT ![e].reminded = TRUE]
      PROVE  drafts'[d].age = "overdue"
  BY <1>0, <1>4 DEF DraftRow
<1>5. ASSUME NEW S, drafts' = Expired(S) PROVE drafts'[d].age = "overdue"
  BY <1>0, <1>5 DEF Expired, DraftRow
<1>6. ASSUME NEW e \in Draft, TimePasses(e) PROVE drafts'[d].age = "overdue"
  <2>1. CASE e = d
    BY <1>6, <2>1 DEF TimePasses
  <2>2. CASE e # d
    BY <1>0, <1>6, <2>2 DEF TimePasses
  <2> QED
    BY <2>1, <2>2
<1>7. CASE drafts' = drafts
  BY <1>7
<1>8. ASSUME NEW r \in Request, RequestStep(r) PROVE drafts'[d].age = "overdue"
  BY <1>1, <1>2, <1>3, <1>5, <1>7, <1>8
     DEF RequestStep, CreateDraft, BeginApprove, CommitApprove, BeginReject, CommitReject,
         IgnoreDraft, LaterDraft, UpdateDraftCategory, BeginRevise, BeginDiscard,
         CommitDiscard, Recreate, Abandon, BeginSweep, CommitSweep, SetStatus
<1>9. CASE WorkerStep \/ WorkerMarkFails \/ WorkerCrash
           \/ \E e \in Draft : WorkerReplyAnswerLost(e)
  BY <1>4, <1>5, <1>7, <1>9
     DEF WorkerStep, WorkerBeginSweep, WorkerCommitSweep, WorkerListReminders, WorkerRemind,
         WorkerMark, WorkerFinish, WorkerMarkFails, WorkerCrash, WorkerReplyAnswerLost
<1> QED
  BY <1>6, <1>7, <1>8, <1>9 DEF Next, vars

\* A draft that exists goes on existing, one that is closed stays closed, one
\* that is decided stays decided, and its knowledge item stays.
LEMMA DraftGoesOn ==
  ASSUME TypeOK, [Next]_vars, NEW d \in Draft, drafts[d].status # "NONE"
  PROVE  /\ drafts'[d].status # "NONE"
         /\ ~Open(d) => ~Open(d)'
         /\ Settled(d) => Settled(d)'
         /\ made[d] # <<>> => made'[d] # <<>>
<1>1. StatusStep(d)
  BY StepChanges
<1>2. drafts'[d].status # "NONE" /\ (Pending(d)' => Pending(d))
  BY <1>1 DEF StatusStep, Approved, Pending
<1>3. ~Open(d) => ~Open(d)'
  BY <1>2, OverdueStays DEF Open
<1>4. made[d] # <<>> => made'[d] # <<>>
  <2>1. CASE Approved(d)
    <3>1. PICK r \in Approving(d) : made'[d] = Append(made[d], req[r].path)
      BY <2>1 DEF Approved
    <3>2. made[d] \in Seq(Path \cup {Keep}) /\ req[r].path \in Path \cup {Keep}
      BY ServedDraft DEF TypeOK, Approving
    <3> QED
      BY <3>1, <3>2
  <2> QED
    BY <1>1, <2>1 DEF StatusStep
<1> QED
  BY <1>2, <1>3, <1>4, SettledStays

\* Every step of the cards' system is a step, or none, of the drafts' life.
LEMMA CardStepIsDraftStep ==
  ASSUME CardInv, CardNext
  PROVE  [Next]_vars
<1>1. \A c \in Card : shows[c] = "buttons" => about[c] \in Draft
  BY NoneAssumption DEF CardInv, CardTypeOK, AboutInv
<1>2. ASSUME NEW c \in Card, CardStep(c) PROVE [Next]_vars
  <2>1. ASSUME NEW r \in Request, PressConfirm(r, c) \/ PressReject(r, c) \/ PressCategory(r, c)
        PROVE  Next
    <3>1. about[c] \in Draft
      BY <1>1, <2>1 DEF PressConfirm, PressReject, PressCategory, Press
    <3>2. RequestStep(r)
      BY <2>1, <3>1 DEF PressConfirm, PressReject, PressCategory, RequestStep
    <3> QED
      BY <3>2 DEF Next
  <2>2. CASE UNCHANGED vars
    BY <2>2
  <2> QED
    BY <1>2, <2>1, <2>2 DEF CardStep, Compose, Send, Bind, BindFails, PressRefused, PressByGuest
<1>3. ASSUME NEW r \in Request, ReportStep(r) \/ Unheard(r) PROVE Next
  <2>1. RequestStep(r)
    BY <1>3 DEF ReportStep, Unheard, Approve, Reject, GiveUp, DiscardOld, Expire, Revise,
       RequestStep
  <2> QED
    BY <2>1 DEF Next
<1>4. CASE WorkerExpire \/ WorkerUnheard
  BY <1>4 DEF WorkerExpire, WorkerUnheard, Next, WorkerStep
<1>5. CASE PatchArrives \/ PatchIsLost
  BY <1>5 DEF PatchArrives, PatchIsLost
<1> QED
  BY <1>2, <1>3, <1>4, <1>5 DEF CardNext

-----------------------------------------------------------------------------
(* CardTypeOK and RequestInv by what they are about.                        *)

ScreenOK ==
  /\ about \in [Card -> Draft \cup {None}]
  /\ shows \in [Card -> {"nothing", "buttons"} \cup Label]
  /\ unbound \subseteq {c \in Card : shows[c] # "nothing"}
  /\ bound \in [Draft -> Card \cup {None}]
  /\ \A d \in Draft :
       bound[d] # None => about[bound[d]] = d /\ shows[bound[d]] # "nothing"
  /\ guests \subseteq Card

HandsOK ==
  /\ pressed \in [Request -> Card \cup {None}]
  /\ known \in [Request -> Card \cup {None}]
  /\ \A r \in Request :
       pressed[r] # None => req[r].op \in {"approve", "reject"} /\ req[r].draft = about[pressed[r]]
  /\ RequestInv

PatchesOK == patches \subseteq [card : {c \in Card : shows[c] # "nothing"}, label : Label]

LEMMA CardTypeMeans == CardTypeOK /\ RequestInv <=> ScreenOK /\ HandsOK /\ PatchesOK
BY DEF CardTypeOK, ScreenOK, HandsOK, PatchesOK

\* What no step takes back: what a card is for, that it is sent, who pressed.
Kept ==
  /\ \A c \in Card : about[c] # None => about'[c] = about[c]
  /\ \A c \in Card : shows[c] # "nothing" => shows'[c] # "nothing"
  /\ guests \subseteq guests'

LEMMA CardIsAbout ==
  ASSUME CardInv, NEW c \in Card, about[c] # None
  PROVE  about[c] \in Draft /\ drafts[about[c]].status # "NONE"
BY DEF CardInv, CardTypeOK, AboutInv

\* A label once earned stays so.
LEMMA EarnedStays ==
  ASSUME CardInv, [Next]_vars, Kept, NEW c \in Card, about[c] # None,
         NEW label, Earned(c, label)
  PROVE  Earned(c, label)'
<1>1. PICK d \in Draft : d = about[c] /\ drafts[d].status # "NONE"
  BY CardIsAbout
<1>2. about'[c] = d
  BY <1>1 DEF Kept
<1>3. TypeOK
  BY DEF CardInv, IInv
<1>4. /\ ~Open(d) => ~Open(d)'
      /\ Settled(d) => Settled(d)'
      /\ made[d] # <<>> => made'[d] # <<>>
  BY <1>1, <1>3, DraftGoesOn
<1>5. /\ label = "confirm" => made'[d] # <<>>
      /\ label \in {"reject", "revised"} => Settled(d)'
      /\ c \notin guests' => ~Open(d)'
  BY <1>1, <1>4 DEF Earned, Kept
<1> QED
  BY <1>2, <1>5 DEF Earned, Open, Pending, Settled

\* A patch that may be sent.
Deserved(p) ==
  \E c \in Card, label \in Label :
    p = Patch(c, label) /\ shows[c] # "nothing" /\ Earned(c, label)

LEMMA CardGoesOn ==
  ASSUME CardInv, [Next]_vars, Kept, ScreenOK', HandsOK',
         \A c \in Card : shows'[c] # "nothing" => about'[c] # None,
         \A c \in Card : about'[c] # None => about[c] # None \/ drafts'[about'[c]].status # "NONE",
         \A c \in Card : shows'[c] \in Label => shows'[c] = shows[c] \/ Patch(c, shows'[c]) \in patches,
         \A p \in patches' : p \in patches \/ Deserved(p)'
  PROVE  CardInv'
<1>1. IInv'
  BY TypeStep, ItemsStep DEF CardInv, IInv
<1>2. TypeOK /\ ScreenOK /\ PatchesOK /\ AboutInv /\ EarnedInv
  BY CardTypeMeans DEF CardInv, IInv
<1>3. AboutInv'
  <2> SUFFICES ASSUME NEW c \in Card, about'[c] # None, about[c] # None
               PROVE  drafts'[about'[c]].status # "NONE"
    BY DEF AboutInv
  <2>1. PICK d \in Draft : d = about[c] /\ drafts[d].status # "NONE"
    BY CardIsAbout
  <2>2. about'[c] = d
    BY <2>1 DEF Kept
  <2> QED
    BY <1>2, <2>1, <2>2, DraftGoesOn
<1>4. ASSUME NEW p \in patches
      PROVE  p.card \in Card /\ shows[p.card] # "nothing" /\ p.label \in Label
             /\ about[p.card] # None /\ Earned(p.card, p.label)
  <2>1. p.card \in Card /\ shows[p.card] # "nothing" /\ p.label \in Label
    BY <1>2 DEF PatchesOK
  <2> QED
    BY <1>2, <2>1 DEF AboutInv, EarnedInv
<1>5. ASSUME NEW p \in patches
      PROVE  p \in [card : {c \in Card : shows'[c] # "nothing"}, label : Label]
             /\ Earned(p.card, p.label)'
  <2>1. PICK c \in Card, label \in Label : c = p.card /\ label = p.label
    BY <1>4
  <2>2. Earned(c, label)'
    BY <1>4, <2>1, EarnedStays
  <2>3. p \in [card : {x \in Card : shows[x] # "nothing"}, label : Label]
    BY <1>2 DEF PatchesOK
  <2> QED
    BY <2>1, <2>2, <2>3 DEF Kept
<1>6. ASSUME NEW p \in patches', p \notin patches
      PROVE  p \in [card : {c \in Card : shows'[c] # "nothing"}, label : Label]
             /\ Earned(p.card, p.label)'
  <2>1. PICK c \in Card, label \in Label :
          p = Patch(c, label) /\ shows'[c] # "nothing" /\ Earned(c, label)'
    BY <1>6 DEF Deserved
  <2>2. p.card = c /\ p.label = label
    BY <2>1 DEF Patch
  <2> QED
    BY <2>1, <2>2 DEF Patch
<1>7. PatchesOK'
  BY <1>5, <1>6 DEF PatchesOK
<1>8. ASSUME NEW c \in Card, shows'[c] \in Label 
      PROVE  Earned(c, shows[c])'
  <2>1. PICK label : label = shows'[c]
    OBVIOUS
  <2>2. CASE label = shows[c]
    <3>1. about[c] # None /\ Earned(c, label)
      BY <1>2, <1>8, <2>1, <2>2 DEF AboutInv, EarnedInv, Label
    <3>2. Earned(c, label)'
      BY <3>1, EarnedStays
    <3> QED
      BY <2>1, <3>2 DEF Earned
  <2>3. CASE Patch(c, label) \in patches
    <3>1. about[c] # None /\ Earned(c, label)
      BY <1>4, <2>3 DEF Patch
    <3>2. Earned(c, label)'
      BY <3>1, EarnedStays
    <3> QED
      BY <2>1, <3>2 DEF Earned
  <2> QED
    BY <1>8, <2>1, <2>2, <2>3
<1>9. EarnedInv'
  BY <1>5, <1>6, <1>8 DEF EarnedInv
<1>10. (CardTypeOK /\ RequestInv)'
  BY <1>7, CardTypeMeans, PTL
<1> QED
  BY <1>1, <1>3, <1>9, <1>10 DEF CardInv

LEMMA SameScreen ==
  ASSUME CardInv, [Next]_vars, UNCHANGED screen, HandsOK',
         \A p \in patches' : p \in patches \/ Deserved(p)'
  PROVE  CardInv'
<1>1. ScreenOK /\ AboutInv
  BY CardTypeMeans DEF CardInv
<1>2. UNCHANGED <<about, shows, unbound, bound, guests>>
  BY DEF screen
<1>3. Kept /\ ScreenOK'
  BY <1>1, <1>2 DEF Kept, ScreenOK
<1> QED
  BY <1>1, <1>2, <1>3, CardGoesOn DEF AboutInv

\* What the requests hold, request by request.
LEMMA HandsStay ==
  ASSUME CardInv, Kept, pressed' \in [Request -> Card \cup {None}],
         known' \in [Request -> Card \cup {None}],
         \A q \in Request : pressed'[q] # None =>
           \/ pressed'[q] = pressed[q] /\ req'[q] = req[q]
           \/ /\ req'[q].op \in {"approve", "reject"} /\ req'[q].draft = about'[pressed'[q]]
              /\ shows'[pressed'[q]] # "nothing",
         \A q \in Request : req'[q].op \in {"revise", "discard"} /\ known'[q] # None =>
           \/ /\ known'[q] = known[q] /\ req[q].op \in {"revise", "discard"}
              /\ req'[q].draft = req[q].draft
           \/ about'[known'[q]] = req'[q].draft /\ shows'[known'[q]] # "nothing"
  PROVE  HandsOK'
<1>1. HandsOK /\ AboutInv
  BY CardTypeMeans DEF CardInv
<1>2. ASSUME NEW q \in Request, pressed'[q] # None
      PROVE  /\ req'[q].op \in {"approve", "reject"} /\ req'[q].draft = about'[pressed'[q]]
             /\ shows'[pressed'[q]] # "nothing"
  <2>1. CASE pressed'[q] = pressed[q] /\ req'[q] = req[q]
    <3>1. PICK c \in Card : c = pressed[q]
      BY <1>1, <1>2, <2>1 DEF HandsOK
    <3>2. /\ req[q].op \in {"approve", "reject"} /\ req[q].draft = about[c]
          /\ shows[c] # "nothing" /\ about[c] # None
      BY <1>1, <1>2, <2>1, <3>1 DEF HandsOK, RequestInv, AboutInv
    <3> QED
      BY <2>1, <3>1, <3>2 DEF Kept
  <2> QED
    BY <1>2, <2>1
<1>3. ASSUME NEW q \in Request, req'[q].op \in {"revise", "discard"}, known'[q] # None
      PROVE  about'[known'[q]] = req'[q].draft /\ shows'[known'[q]] # "nothing"
  <2>1. CASE /\ known'[q] = known[q] /\ req[q].op \in {"revise", "discard"}
             /\ req'[q].draft = req[q].draft
    <3>1. PICK c \in Card : c = known[q]
      BY <1>1, <1>3, <2>1 DEF HandsOK
    <3>2. about[c] = req[q].draft /\ shows[c] # "nothing" /\ about[c] # None
      BY <1>1, <1>3, <2>1, <3>1 DEF HandsOK, RequestInv, AboutInv
    <3> QED
      BY <2>1, <3>1, <3>2 DEF Kept
  <2> QED
    BY <1>3, <2>1
<1> QED
  BY <1>2, <1>3 DEF HandsOK, RequestInv

LEMMA HandsIdle ==
  ASSUME CardInv, Kept, UNCHANGED <<req, pressed, known>>
  PROVE  HandsOK'
<1>1. HandsOK
  BY CardTypeMeans DEF CardInv
<1> QED
  BY <1>1, HandsStay DEF HandsOK

LEMMA ScreenKept == ASSUME UNCHANGED screen PROVE Kept
BY DEF screen, Kept

-----------------------------------------------------------------------------
(* The steps of a card.                                                     *)

LEMMA ComposeKeeps ==
  ASSUME CardInv, NEW c \in Card, NEW d \in Draft, Compose(c, d)
  PROVE  CardInv'
<1>1. ScreenOK /\ AboutInv /\ d # None
  BY CardTypeMeans, NoneAssumption DEF CardInv
<1>2. /\ UNCHANGED <<vars, shows, unbound, bound, pressed, known, patches, guests>>
      /\ about[c] = None /\ Pending(d) /\ about' = [about EXCEPT ![c] = d]
  BY DEF Compose
<1>3. Kept
  BY <1>1, <1>2 DEF Kept, ScreenOK
<1>4. ScreenOK'
  <2>1. about' \in [Card -> Draft \cup {None}]
    BY <1>1, <1>2 DEF ScreenOK
  <2>2. ASSUME NEW e \in Draft, bound[e] # None PROVE about'[bound[e]] = e
    <3>1. bound[e] \in Card /\ about[bound[e]] = e /\ e # None
      BY <1>1, <2>2, NoneAssumption DEF ScreenOK
    <3> QED
      BY <1>1, <1>2, <3>1 DEF ScreenOK
  <2> QED
    BY <1>1, <1>2, <2>1, <2>2 DEF ScreenOK
<1>5. HandsOK'
  BY <1>2, <1>3, HandsIdle DEF vars
<1>6. \A x \in Card : about'[x] # None => about[x] # None \/ drafts'[about'[x]].status # "NONE"
  BY <1>1, <1>2 DEF Pending, vars, ScreenOK
<1>7. \A x \in Card : shows'[x] # "nothing" => about'[x] # None
  BY <1>1, <1>2, <1>3 DEF AboutInv, Kept
<1> QED
  BY <1>2, <1>3, <1>4, <1>5, <1>6, <1>7, CardGoesOn

LEMMA SendKeeps ==
  ASSUME CardInv, NEW c \in Card, Send(c)
  PROVE  CardInv'
<1>1. ScreenOK /\ AboutInv
  BY CardTypeMeans DEF CardInv
<1>2. /\ UNCHANGED <<vars, about, bound, pressed, known, patches, guests>>
      /\ about[c] # None /\ shows' = [shows EXCEPT ![c] = "buttons"]
      /\ unbound' = unbound \cup {c}
  BY DEF Send
<1>3. \A x \in Card : shows'[x] = IF x = c THEN "buttons" ELSE shows[x]
  BY <1>1, <1>2 DEF ScreenOK
<1>4. Kept
  BY <1>2, <1>3 DEF Kept
<1>5. ScreenOK'
  BY <1>1, <1>2, <1>3 DEF ScreenOK
<1>6. HandsOK'
  BY <1>2, <1>4, HandsIdle DEF vars
<1> QED
  BY <1>1, <1>2, <1>3, <1>4, <1>5, <1>6, CardGoesOn DEF AboutInv, Label

LEMMA BindKeeps ==
  ASSUME CardInv, NEW c \in Card, Bind(c) \/ BindFails(c)
  PROVE  CardInv'
<1>1. ScreenOK /\ AboutInv
  BY CardTypeMeans DEF CardInv
<1>2. /\ UNCHANGED <<vars, about, shows, pressed, known, patches, guests>>
      /\ c \in unbound /\ unbound' = unbound \ {c}
      /\ bound' = [bound EXCEPT ![about[c]] = c] \/ bound' = bound
  BY DEF Bind, BindFails
<1>3. shows[c] # "nothing" /\ about[c] \in Draft
  BY <1>1, <1>2 DEF ScreenOK, AboutInv
<1>4. Kept
  BY <1>2 DEF Kept
<1>5. ScreenOK'
  <2>1. bound' \in [Draft -> Card \cup {None}]
    BY <1>1, <1>2, <1>3 DEF ScreenOK
  <2>2. \A d \in Draft : bound'[d] # None => about[bound'[d]] = d /\ shows[bound'[d]] # "nothing"
    BY <1>1, <1>2, <1>3 DEF ScreenOK
  <2> QED
    BY <1>1, <1>2, <2>1, <2>2 DEF ScreenOK
<1>6. HandsOK'
  BY <1>2, <1>4, HandsIdle DEF vars
<1> QED
  BY <1>1, <1>2, <1>4, <1>5, <1>6, CardGoesOn DEF AboutInv

\* A button that is refused, or pressed by someone else.
LEMMA RefusalKeeps ==
  ASSUME CardInv, NEW c \in Card, PressRefused(c) \/ PressByGuest(c)
  PROVE  CardInv'
<1>1. ScreenOK /\ AboutInv
  BY CardTypeMeans DEF CardInv
<1>2. /\ UNCHANGED <<vars, about, shows, unbound, bound, pressed, known>>
      /\ shows[c] = "buttons" /\ patches' = patches \cup {Patch(c, "expired")}
      /\ \/ guests' = guests /\ ~Open(about[c])
         \/ guests' = guests \cup {c}
  BY DEF PressRefused, PressByGuest, Reports
<1>3. Kept /\ ScreenOK'
  BY <1>1, <1>2 DEF Kept, ScreenOK
<1>4. HandsOK'
  BY <1>2, <1>3, HandsIdle DEF vars
<1>5. Deserved(Patch(c, "expired"))'
  <2>1. shows'[c] # "nothing" /\ "expired" \in Label
    BY <1>2 DEF Label
  <2>2. c \notin guests' => ~Open(about[c])'
    BY <1>2 DEF vars, Open, Pending
  <2>3. Earned(c, "expired")'
    BY <1>2, <2>2 DEF Earned
  <2> QED
    BY <2>1, <2>3 DEF Deserved
<1>6. \A p \in patches' : p \in patches \/ Deserved(p)'
  BY <1>2, <1>5
<1> QED
  BY <1>1, <1>2, <1>3, <1>4, <1>6, CardGoesOn DEF AboutInv

\* A button that is taken up.
LEMMA PressKeeps ==
  ASSUME CardInv, [Next]_vars, NEW c \in Card, NEW r \in Request,
         PressConfirm(r, c) \/ PressReject(r, c) \/ PressCategory(r, c)
  PROVE  CardInv'
<1>1. ScreenOK /\ HandsOK /\ AboutInv /\ TypeOK
  BY CardTypeMeans DEF CardInv, IInv
<1>2. shows[c] = "buttons" /\ UNCHANGED <<screen, known, patches>>
  BY DEF PressConfirm, PressReject, PressCategory, Press, cardVars, screen
<1>3. Kept
  BY <1>2, ScreenKept
<1>4. about[c] # None /\ about' = about /\ shows' = shows
  BY <1>1, <1>2 DEF AboutInv, screen
<1>5. HandsOK'
  <2>1. CASE PressCategory(r, c)
    BY <1>3, <2>1, HandsIdle DEF PressCategory, UpdateDraftCategory, cardVars
  <2>2. ASSUME NEW op \in {"approve", "reject"}, NEW p, Hold(r, op, about[c], p), req[r] = Idle,
               Press(r, c)
        PROVE  HandsOK'
    <3>1. /\ pressed' = [pressed EXCEPT ![r] = c] /\ known' = known
          /\ req' = [req EXCEPT ![r] = [op |-> op, draft |-> about[c], path |-> p]]
      BY <2>2 DEF Hold, Press
    <3>2. req'[r].op = op /\ req'[r].draft = about[c] /\ \A q \in Request \ {r} : req'[q] = req[q]
      BY <1>1, <3>1 DEF TypeOK
    <3>3. pressed' \in [Request -> Card \cup {None}] /\ pressed'[r] = c
          /\ \A q \in Request \ {r} : pressed'[q] = pressed[q]
      BY <1>1, <3>1 DEF HandsOK
    <3>4. \A q \in Request : req'[q].op \in {"revise", "discard"} => q # r
      BY <2>2, <3>2
    <3> QED
      BY <1>1, <1>2, <1>3, <1>4, <3>1, <3>2, <3>3, <3>4, HandsStay DEF HandsOK
  <2> QED
    BY <2>1, <2>2 DEF PressConfirm, PressReject, BeginApprove, BeginReject
<1> QED
  BY <1>2, <1>5, SameScreen

\* A request that is through.
LEMMA ReleaseHands ==
  ASSUME CardInv, UNCHANGED <<screen, known>>, NEW r \in Request, Release(r),
         pressed' = pressed \/ pressed' = [pressed EXCEPT ![r] = None],
         pressed[r] = None \/ pressed'[r] = None
  PROVE  HandsOK'
<1>1. HandsOK /\ TypeOK
  BY CardTypeMeans DEF CardInv, IInv
<1>2. Kept
  BY ScreenKept
<1>3. req'[r] = Idle /\ \A q \in Request \ {r} : req'[q] = req[q]
  BY <1>1 DEF Release, TypeOK
<1>4. pressed' \in [Request -> Card \cup {None}] /\ pressed'[r] = None
      /\ \A q \in Request \ {r} : pressed'[q] = pressed[q]
  BY <1>1 DEF HandsOK
<1>5. \A q \in Request : req'[q].op \in {"revise", "discard"} => q # r
  BY <1>3 DEF Idle
<1> QED
  BY <1>1, <1>2, <1>3, <1>4, <1>5, HandsStay DEF HandsOK

\* A decision by a button, and the patch that tells of it.
LEMMA DecisionKeeps ==
  ASSUME CardInv, [Next]_vars, NEW r \in Request, Approve(r) \/ Reject(r)
  PROVE  CardInv'
<1>1. ScreenOK /\ HandsOK /\ AboutInv /\ TypeOK
  BY CardTypeMeans DEF CardInv, IInv
<1>2. UNCHANGED <<screen, known>> /\ Release(r) /\ pressed' = [pressed EXCEPT ![r] = None]
  BY DEF Approve, Reject, Served, CommitApprove, CommitReject
<1>3. HandsOK'
  <2>1. pressed'[r] = None
    BY <1>1, <1>2 DEF HandsOK
  <2> QED
    BY <1>2, <2>1, ReleaseHands
<1>4. PICK d \in Draft : d = req[r].draft
  <2>1. req[r].draft \in Draft
    BY <1>1, ServedDraft DEF Approve, Reject, CommitApprove, CommitReject
  <2> QED
    BY <2>1
<1>5. PICK label \in Label :
        /\ IF pressed[r] = None THEN UNCHANGED patches
           ELSE patches' = patches \cup {Patch(pressed[r], label)}
        /\ label = "confirm" => made'[d] # <<>>
        /\ label \in {"reject", "revised"} => Settled(d)'
        /\ ~Open(d)'
  <2>1. CASE Approve(r)
    <3>1. drafts'[d].status = "APPROVED"
      BY <1>1, <1>4, <2>1 DEF Approve, CommitApprove, TypeOK, DraftRow
    <3>2. made'[d] # <<>>
      <4>1. made'[d] = Append(made[d], req[r].path) /\ made[d] \in Seq(Path \cup {Keep})
        BY <1>1, <1>4, <2>1 DEF Approve, CommitApprove, TypeOK
      <4>2. req[r].path \in Path \cup {Keep}
        BY <1>1, <2>1, ServedDraft DEF Approve, CommitApprove
      <4> QED
        BY <4>1, <4>2
    <3> QED
      BY <2>1, <3>1, <3>2 DEF Approve, Served, Label, Open, Pending
  <2>2. CASE Reject(r)
    <3>1. drafts'[d].status = "REJECTED"
      BY <1>1, <1>4, <2>2 DEF Reject, CommitReject, SetStatus, TypeOK, DraftRow
    <3> QED
      BY <2>2, <3>1 DEF Reject, Served, Label, Settled, Decided, Open, Pending
  <2> QED
    BY <2>1, <2>2
<1>6. ASSUME pressed[r] # None, NEW p, p = Patch(pressed[r], label) PROVE Deserved(p)'
  <2>1. PICK c \in Card : c = pressed[r]
    BY <1>1, <1>6 DEF HandsOK
  <2>2. about[c] = d /\ shows[c] # "nothing"
    BY <1>1, <1>4, <1>6, <2>1 DEF HandsOK, RequestInv
  <2>3. about'[c] = d /\ shows'[c] # "nothing"
    BY <1>2, <2>2 DEF screen
  <2>4. Earned(c, label)'
    BY <1>5, <2>3 DEF Earned, Open, Pending, Settled
  <2>5. p = Patch(c, label)
    BY <1>6, <2>1
  <2> QED
    BY <2>3, <2>4, <2>5 DEF Deserved
<1>7. \A p \in patches' : p \in patches \/ Deserved(p)'
  BY <1>5, <1>6
<1> QED
  BY <1>2, <1>3, <1>7, SameScreen

-----------------------------------------------------------------------------
(* The other steps.                                                         *)

LEMMA GiveUpKeeps ==
  ASSUME CardInv, [Next]_vars, NEW r \in Request, GiveUp(r)
  PROVE  CardInv'
<1>1. HandsOK
  BY CardTypeMeans DEF CardInv
<1>2. UNCHANGED <<screen, known, patches>> /\ Release(r)
      /\ pressed' = [pressed EXCEPT ![r] = None]
  BY DEF GiveUp, Abandon
<1>3. HandsOK'
  <2>1. pressed'[r] = None
    BY <1>1, <1>2 DEF HandsOK
  <2> QED
    BY <1>2, <2>1, ReleaseHands
<1> QED
  BY <1>2, <1>3, SameScreen

\* A revision has read the draft and the card it will patch.
LEMMA ReviseKeeps ==
  ASSUME CardInv, [Next]_vars, NEW r \in Request, NEW d \in Draft, NEW p \in Path \cup {Keep},
         Revise(r, d, p)
  PROVE  CardInv'
<1>1. ScreenOK /\ HandsOK /\ TypeOK
  BY CardTypeMeans DEF CardInv, IInv
<1>2. /\ UNCHANGED <<screen, pressed, patches>> /\ known' = [known EXCEPT ![r] = bound[d]]
      /\ req[r] = Idle
      /\ req' = [req EXCEPT ![r] = [op |-> "revise", draft |-> d, path |-> Chosen(d, p)]]
  BY DEF Revise, BeginRevise, Hold
<1>3. Kept
  BY <1>2, ScreenKept
<1>4. req'[r].op = "revise" /\ req'[r].draft = d /\ \A q \in Request \ {r} : req'[q] = req[q]
  BY <1>1, <1>2 DEF TypeOK
<1>5. known' \in [Request -> Card \cup {None}] /\ known'[r] = bound[d]
      /\ \A q \in Request \ {r} : known'[q] = known[q]
  BY <1>1, <1>2 DEF HandsOK, ScreenOK
<1>6. bound[d] # None => about'[bound[d]] = d /\ shows'[bound[d]] # "nothing"
  BY <1>1, <1>2 DEF ScreenOK, screen
<1>7. pressed[r] = None
  BY <1>1, <1>2 DEF HandsOK, Idle
<1>8. HandsOK'
  BY <1>1, <1>2, <1>3, <1>4, <1>5, <1>6, <1>7, HandsStay DEF HandsOK
<1> QED
  BY <1>2, <1>8, SameScreen

\* The revised draft is rejected, and its card will say so.
LEMMA DiscardKeeps ==
  ASSUME CardInv, [Next]_vars, NEW r \in Request, DiscardOld(r)
  PROVE  CardInv'
<1>1. ScreenOK /\ HandsOK /\ TypeOK
  BY CardTypeMeans DEF CardInv, IInv
<1>2. /\ UNCHANGED <<screen, pressed, known>> /\ req[r].op = "discard"
      /\ req' = [req EXCEPT ![r].op = "recreate"] /\ SetStatus(req[r].draft, "REJECTED")
      /\ patches' = patches \cup (IF known[r] = None THEN {} ELSE {Patch(known[r], "revised")})
  BY DEF DiscardOld, CommitDiscard
<1>3. Kept
  BY <1>2, ScreenKept
<1>4. req[r].draft \in Draft /\ req[r] \in Serving
  BY <1>1, <1>2, ServedDraft DEF TypeOK, Idle, Sweeping
<1>5. req'[r].op = "recreate" /\ \A q \in Request \ {r} : req'[q] = req[q]
  BY <1>1, <1>2, <1>4 DEF TypeOK, Serving
<1>6. pressed[r] = None
  BY <1>1, <1>2 DEF HandsOK
<1>7. \A q \in Request : req'[q].op \in {"revise", "discard"} => q # r
  BY <1>5
<1>8. HandsOK'
  BY <1>1, <1>2, <1>3, <1>5, <1>6, <1>7, HandsStay DEF HandsOK
<1>9. PICK d \in Draft : d = req[r].draft /\ drafts'[d].status = "REJECTED"
  BY <1>1, <1>2, <1>4 DEF SetStatus, TypeOK, DraftRow
<1>10. ASSUME known[r] # None, NEW p, p = Patch(known[r], "revised") PROVE Deserved(p)'
  <2>1. PICK c \in Card : c = known[r]
    BY <1>1, <1>10 DEF HandsOK
  <2>2. about'[c] = d /\ shows'[c] # "nothing"
    BY <1>1, <1>2, <1>9, <1>10, <2>1 DEF HandsOK, RequestInv, screen
  <2>3. Earned(c, "revised")'
    BY <1>9, <2>2 DEF Earned, Open, Pending, Settled, Decided
  <2>4. p = Patch(c, "revised") /\ "revised" \in Label
    BY <1>10, <2>1 DEF Label
  <2> QED
    BY <2>2, <2>3, <2>4 DEF Deserved
<1>11. \A p \in patches' : p \in patches \/ Deserved(p)'
  BY <1>2, <1>10
<1> QED
  BY <1>2, <1>8, <1>11, SameScreen

\* A sweep patches the cards of what it has expired.
LEMMA SweptKeeps ==
  ASSUME CardInv, [Next]_vars, NEW rows \in SUBSET Draft, drafts' = Expired(rows),
         Swept(rows), HandsOK'
  PROVE  CardInv'
<1>1. ScreenOK /\ TypeOK
  BY CardTypeMeans DEF CardInv, IInv
<1>2. UNCHANGED screen
      /\ patches' = patches \cup {Patch(bound[d], "expired") : d \in {e \in rows : bound[e] # None}}
  BY DEF Swept
<1>3. ASSUME NEW d \in rows, bound[d] # None, NEW p, p = Patch(bound[d], "expired")
      PROVE  Deserved(p)'
  <2>1. PICK c \in Card : c = bound[d]
    BY <1>1, <1>3 DEF ScreenOK
  <2>2. about'[c] = d /\ shows'[c] # "nothing"
    BY <1>1, <1>2, <1>3, <2>1 DEF ScreenOK, screen
  <2>3. drafts'[d].status = "EXPIRED"
    BY <1>1 DEF Expired, TypeOK, DraftRow
  <2>4. Earned(c, "expired")'
    BY <2>2, <2>3 DEF Earned, Open, Pending
  <2>5. p = Patch(c, "expired") /\ "expired" \in Label
    BY <1>3, <2>1 DEF Label
  <2> QED
    BY <2>2, <2>4, <2>5 DEF Deserved
<1>4. \A p \in patches' : p \in patches \/ Deserved(p)'
  BY <1>2, <1>3
<1> QED
  BY <1>2, <1>4, SameScreen

LEMMA ExpireKeeps ==
  ASSUME CardInv, [Next]_vars, WorkerExpire \/ \E r \in Request : Expire(r)
  PROVE  CardInv'
<1>1. HandsOK /\ TypeOK
  BY CardTypeMeans DEF CardInv, IInv
<1>2. CASE WorkerExpire
  <2>1. UNCHANGED <<screen, req, pressed, known>> /\ Swept(worker.rows)
        /\ drafts' = Expired(worker.rows)
    BY <1>2 DEF WorkerExpire, WorkerCommitSweep, Swept
  <2>2. HandsOK'
    BY <2>1, HandsIdle, ScreenKept
  <2>3. worker.rows \in SUBSET Draft
    BY <1>1 DEF TypeOK
  <2> QED
    BY <2>1, <2>2, <2>3, SweptKeeps
<1>3. ASSUME NEW r \in Request, Expire(r) PROVE CardInv'
  <2>1. req[r].op = "sweep" /\ Release(r) /\ drafts' = Expired(req[r].rows) /\ Swept(req[r].rows)
    BY <1>3 DEF Expire, CommitSweep
  <2>2. req[r].rows \in SUBSET Draft
    <3>1. req[r] \in {Idle} \cup Serving \cup Sweeping
      BY <1>1 DEF TypeOK
    <3>2. req[r] # Idle /\ req[r] \notin Serving
      BY <2>1 DEF Idle, Serving
    <3>3. req[r] \in Sweeping
      BY <3>1, <3>2
    <3> QED
      BY <3>3 DEF Sweeping
  <2>3. pressed[r] = None
    BY <1>1, <2>1 DEF HandsOK
  <2>4. HandsOK'
    BY <2>1, <2>3, ReleaseHands DEF Swept
  <2> QED
    BY <2>1, <2>2, <2>4, SweptKeeps
<1> QED
  BY <1>2, <1>3

\* A request from elsewhere serves no button, and its old card stays its own.
LEMMA UnheardKeeps ==
  ASSUME CardInv, [Next]_vars, NEW r \in Request, Unheard(r), UNCHANGED cardVars
  PROVE  CardInv'
<1>1. HandsOK /\ TypeOK
  BY CardTypeMeans DEF CardInv, IInv
<1>2. UNCHANGED <<screen, pressed, known, patches>>
  BY DEF cardVars, screen
<1>3. Kept
  BY <1>2, ScreenKept
<1>4. /\ \A q \in Request \ {r} : req'[q] = req[q]
      /\ req[r].op \notin {"approve", "reject"}
      /\ req'[r].op \in {"revise", "discard"} =>
           req[r].op \in {"revise", "discard"} /\ req'[r].draft = req[r].draft
  <2>0. DOMAIN req = Request /\ Idle.op = "idle"
    BY <1>1 DEF TypeOK, Idle
  <2>1. CASE req' = req /\ req[r] = Idle
    BY <2>0, <2>1
  <2>2. ASSUME NEW e, req[r].op = "recreate" \/ req[r] = Idle, req' = [req EXCEPT ![r] = e],
               e.op \notin {"revise", "discard"}
        PROVE  /\ \A q \in Request \ {r} : req'[q] = req[q]
               /\ req[r].op \notin {"approve", "reject"} /\ req'[r].op \notin {"revise", "discard"}
    BY <2>0, <2>2
  <2>3. CASE BeginDiscard(r)
    <3>1. req[r].op = "revise" /\ req' = [req EXCEPT ![r].op = "discard"]
      BY <2>3 DEF BeginDiscard
    <3>2. req[r] \in Serving
      <4>1. req[r] \in {Idle} \cup Serving \cup Sweeping
        BY <1>1 DEF TypeOK
      <4>2. req[r] # Idle /\ req[r] \notin Sweeping
        BY <3>1 DEF Idle, Sweeping
      <4> QED
        BY <4>1, <4>2
    <3> QED
      BY <2>0, <3>1, <3>2 DEF Serving
  <2>4. ASSUME NEW d \in Draft, Recreate(r, d)
        PROVE  req[r].op = "recreate" /\ req' = [req EXCEPT ![r] = Idle]
    BY <2>4 DEF Recreate, Release
  <2>5. ASSUME NEW op \in {"approve", "reject"}, NEW d, NEW p, Hold(r, op, d, p), req[r] = Idle
        PROVE  /\ \A q \in Request \ {r} : req'[q] = req[q]
               /\ req[r].op \notin {"approve", "reject"} /\ req'[r].op \notin {"revise", "discard"}
    BY <2>0, <2>5 DEF Hold
  <2>6. ASSUME BeginSweep(r)
        PROVE  /\ \A q \in Request \ {r} : req'[q] = req[q]
               /\ req[r].op \notin {"approve", "reject"} /\ req'[r].op \notin {"revise", "discard"}
    BY <2>0, <2>6 DEF BeginSweep
  <2>7. ASSUME NEW d, NEW p, \/ IgnoreDraft(r, d) \/ LaterDraft(r, d) \/ CreateDraft(r, d, p)
                             \/ UpdateDraftCategory(r, d, p)
        PROVE  req' = req /\ req[r] = Idle
    BY <2>7 DEF IgnoreDraft, LaterDraft, CreateDraft, UpdateDraftCategory
  <2> QED
    BY <2>0, <2>1, <2>2, <2>3, <2>4, <2>5, <2>6, <2>7
       DEF Unheard, BeginApprove, BeginReject
<1>5. HandsOK'
  BY <1>1, <1>2, <1>3, <1>4, HandsStay DEF HandsOK
<1> QED
  BY <1>2, <1>5, SameScreen

LEMMA WorkerUnheardKeeps ==
  ASSUME CardInv, [Next]_vars, WorkerUnheard, UNCHANGED cardVars
  PROVE  CardInv'
<1>1. UNCHANGED <<screen, pressed, known, patches>>
  BY DEF cardVars, screen
<1>2. UNCHANGED req
  BY DEF WorkerUnheard, WorkerBeginSweep, WorkerListReminders, WorkerMark, WorkerFinish,
     WorkerMarkFails, WorkerCrash, WorkerRemind, WorkerReplyAnswerLost, TimePasses
<1>3. HandsOK'
  BY <1>1, <1>2, HandsIdle, ScreenKept
<1> QED
  BY <1>1, <1>3, SameScreen

\* A patch puts its label on its card, or is lost.
LEMMA PatchKeeps ==
  ASSUME CardInv, PatchArrives \/ PatchIsLost
  PROVE  CardInv'
<1>1. ScreenOK /\ HandsOK /\ PatchesOK /\ AboutInv
  BY CardTypeMeans DEF CardInv
<1>2. CASE PatchArrives
  <2>1. PICK p \in patches : shows' = [shows EXCEPT ![p.card] = p.label]
                             /\ patches' = patches \ {p}
    BY <1>2 DEF PatchArrives
  <2>2. UNCHANGED <<vars, about, unbound, bound, pressed, known, guests>>
    BY <1>2 DEF PatchArrives
  <2>3. p.card \in Card /\ p.label \in Label /\ shows[p.card] # "nothing"
        /\ p = Patch(p.card, p.label)
    BY <1>1 DEF PatchesOK, Patch
  <2>4. \A c \in Card : shows'[c] = IF c = p.card THEN p.label ELSE shows[c]
    BY <1>1, <2>1 DEF ScreenOK
  <2>5. p.label # "nothing"
    BY <2>3 DEF Label
  <2>6. Kept
    BY <2>2, <2>4, <2>5 DEF Kept
  <2>7. ScreenOK'
    <3>1. shows' \in [Card -> {"nothing", "buttons"} \cup Label]
      BY <1>1, <2>1, <2>3 DEF ScreenOK
    <3>2. \A c \in Card : shows[c] # "nothing" => shows'[c] # "nothing"
      BY <2>6 DEF Kept
    <3>3. unbound' \subseteq {c \in Card : shows'[c] # "nothing"}
      BY <1>1, <2>2, <3>2 DEF ScreenOK
    <3>4. \A d \in Draft : bound'[d] # None => about'[bound'[d]] = d /\ shows'[bound'[d]] # "nothing"
      BY <1>1, <2>2, <3>2 DEF ScreenOK
    <3> QED
      BY <1>1, <2>2, <3>1, <3>3, <3>4 DEF ScreenOK
  <2>8. HandsOK'
    BY <2>2, <2>6, HandsIdle DEF vars
  <2>9. \A c \in Card : shows'[c] \in Label => shows'[c] = shows[c] \/ Patch(c, shows'[c]) \in patches
    BY <2>3, <2>4
  <2>10. \A c \in Card : shows'[c] # "nothing" => about'[c] # None
    BY <1>1, <2>2, <2>3, <2>4 DEF AboutInv
  <2> QED
    BY <2>1, <2>2, <2>6, <2>7, <2>8, <2>9, <2>10, CardGoesOn
<1>3. CASE PatchIsLost
  <2>1. UNCHANGED <<vars, screen, pressed, known>> /\ patches' \subseteq patches
    BY <1>3 DEF PatchIsLost
  <2>2. HandsOK'
    BY <2>1, HandsIdle, ScreenKept DEF vars
  <2> QED
    BY <2>1, <2>2, SameScreen
<1> QED
  BY <1>2, <1>3

-----------------------------------------------------------------------------
(* The theorems.                                                            *)

LEMMA CardInitInv == CardInit => CardInv
<1> SUFFICES ASSUME CardInit PROVE CardInv
  OBVIOUS
<1>1. IInv
  <2>1. Unborn \in DraftRow
    BY DEF Unborn, DraftRow, Status
  <2>2. TypeOK
    BY <2>1, AtType, FaultAssumption DEF CardInit, Init, TypeOK
  <2>3. ItemsMatchStatus
    BY DEF CardInit, Init, Unborn, ItemsMatchStatus
  <2> QED
    BY <2>2, <2>3 DEF IInv
<1>2. CardTypeOK
  BY DEF CardInit, CardTypeOK
<1>3. AboutInv /\ EarnedInv
  BY DEF CardInit, AboutInv, EarnedInv, Label
<1>4. RequestInv
  BY DEF CardInit, Init, Idle, RequestInv
<1> QED
  BY <1>1, <1>2, <1>3, <1>4 DEF CardInv

LEMMA CardStepInv == CardInv /\ [CardNext]_all => CardInv'
<1> SUFFICES ASSUME CardInv, [CardNext]_all PROVE CardInv'
  OBVIOUS
<1>1. CASE CardNext
  <2>1. [Next]_vars
    BY <1>1, CardStepIsDraftStep
  <2>2. ASSUME NEW c \in Card, CardStep(c) PROVE CardInv'
    BY <2>1, <2>2, ComposeKeeps, SendKeeps, BindKeeps, RefusalKeeps, PressKeeps DEF CardStep
  <2>3. ASSUME NEW r \in Request, ReportStep(r) PROVE CardInv'
    BY <2>1, <2>3, DecisionKeeps, GiveUpKeeps, DiscardKeeps, ExpireKeeps, ReviseKeeps
       DEF ReportStep
  <2> QED
    BY <1>1, <2>1, <2>2, <2>3, UnheardKeeps, WorkerUnheardKeeps, ExpireKeeps, PatchKeeps
       DEF CardNext
<1>2. CASE UNCHANGED all
  <2>1. UNCHANGED <<vars, screen, pressed, known, patches>>
    BY <1>2 DEF all, cardVars, screen
  <2>2. HandsOK'
    BY <2>1, HandsIdle, ScreenKept DEF vars
  <2> QED
    BY <2>1, <2>2, SameScreen
<1> QED
  BY <1>1, <1>2

\* The inductive invariant holds: whatever is on a screen or on its way to one
\* is about a draft that exists, and what it says is so.
THEOREM CardInvariance == CardSpec => []CardInv
BY CardInitInv, CardStepInv, PTL DEF CardSpec

\* The cards are a view: with them the drafts live as they do without, whatever
\* is sent, patched or lost, so that each theorem about drafts holds here too.
THEOREM CardsLeaveDrafts == CardSpec => Spec
<1>1. CardInit => Init
  BY DEF CardInit
<1>2. CardInv /\ [CardNext]_all => [Next]_vars
  BY CardStepIsDraftStep DEF all
<1> QED
  BY <1>1, <1>2, CardInvariance, PTL DEF CardSpec, Spec

\* What is known of cards, requests and patches keeps its type: the id a draft
\* has belongs to a card of its own, and a patch goes to a card that was sent.
THEOREM CardTypeCorrect == CardSpec => []CardTypeOK
<1>1. CardInv => CardTypeOK
  BY DEF CardInv
<1> QED
  BY <1>1, CardInvariance, PTL

\* No card loses its buttons, now or by a patch on its way, while its draft can
\* be confirmed, unless someone else has pressed them.
THEOREM ClosedCardHolds == CardSpec => []ClosedCardMeansClosedDraft
<1>1. CardInv => ClosedCardMeansClosedDraft
  <2> SUFFICES ASSUME CardInv, NEW c \in Card, c \notin guests,
                      shows[c] \in Label \/ \E p \in patches : p.card = c
               PROVE  ~Open(about[c])
    BY DEF ClosedCardMeansClosedDraft
  <2> QED
    BY DEF CardInv, EarnedInv, Earned
<1> QED
  BY <1>1, CardInvariance, PTL

\* A card says "confirmed" only of a draft with a knowledge item, "rejected" and
\* "revised" only of one that is decided.
THEOREM LabelsAreEarnedHolds == CardSpec => []LabelsAreEarned
<1>1. CardInv => LabelsAreEarned
  <2> SUFFICES ASSUME CardInv, NEW c \in Card
               PROVE  /\ shows[c] = "confirm" => made[about[c]] # <<>>
                      /\ shows[c] \in {"reject", "revised"} => Settled(about[c])
    BY DEF LabelsAreEarned
  <2> QED
    BY DEF CardInv, EarnedInv, Earned, Label
<1> QED
  BY <1>1, CardInvariance, PTL
=============================================================================
