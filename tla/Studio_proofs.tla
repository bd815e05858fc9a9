----------------------------- MODULE Studio_proofs -----------------------------
(***************************************************************************)
(* What one tab does to its carousels, for any number of carousels,        *)
(* stories, requests and edits, with answers lost and late and pages       *)
(* reloaded. The deck on the screen and the carousel it is saved to belong *)
(* together (CanvasOK), so what the tab sends meets what the service       *)
(* needs to keep its own invariant.                                        *)
(***************************************************************************)
EXTENDS Studio, Carousels_proofs

\* The deck on the screen, if any, is of a carousel that was made, and has no
\* stories but those picked into it.
CanvasOK ==
  /\ open = None => canvas = <<>>
  /\ open # None => Born(open)
  /\ open \in exists => Holds(canvas, Into(open))

StudioInv == ServiceInv /\ StudioTypeOK /\ CanvasOK

\* What the page alone keeps.
PageOK ==
  /\ open \in CarouselIds \cup {None}
  /\ canvas \in Seq(Slides)
  /\ timer \in BOOLEAN /\ saved \in BOOLEAN /\ (timer => open # None)
  /\ dialog.index \in Nat /\ dialog.slide \in Slides \cup {None}
  /\ edits \in 0..MaxEdits
  /\ awaited \subseteq Requests
  /\ told \in [saved : SUBSET CarouselIds, deleted : SUBSET CarouselIds]
  /\ edited \in [CarouselIds -> 0..MaxEdits]
  /\ rendered \in [Requests -> 0..MaxEdits]
  /\ shipped \in [CarouselIds -> 0..MaxEdits]

LEMMA Parts == /\ StudioTypeOK <=> TypeOK /\ PageOK
               /\ StudioTypeOK' <=> TypeOK' /\ PageOK'
BY DEF StudioTypeOK, PageOK

\* The canvas goes on belonging to its carousel whatever the service does.
LEMMA CanvasKept ==
  ASSUME StudioInv, ServiceInv', KeptOn, UNCHANGED <<open, canvas>>
  PROVE  CanvasOK'
<1>1. open # None => open \in CarouselIds /\ city[open] # None
  BY DEF StudioInv, CanvasOK, Born
<1>2. None \notin exists'
  BY CarouselsAssumption DEF ServiceInv, TypeOK
<1>3. open # None => Born(open)'
  BY <1>1 DEF KeptOn, Born
<1>4. ASSUME open \in exists' PROVE Holds(canvas, Into(open)')
  <2>1. open \in exists /\ Into(open) \subseteq Into(open)'
    BY <1>1, <1>2, <1>4 DEF KeptOn
  <2>2. Holds(canvas, Into(open))
    BY <2>1 DEF StudioInv, CanvasOK
  <2>. PICK old, new : old = Into(open) /\ new = Into(open)'
    OBVIOUS
  <2>3. QED
    BY <2>1, <2>2, HoldsMore
<1>5. QED
  BY <1>3, <1>4 DEF StudioInv, CanvasOK

\* A step that leaves the page alone but for what is awaited, rendered and shipped.
LEMMA PageKept ==
  ASSUME PageOK, UNCHANGED <<open, canvas, timer, saved, dialog, edits, told, edited>>,
         awaited' \subseteq Requests, rendered' \in [Requests -> 0..MaxEdits],
         shipped' \in [CarouselIds -> 0..MaxEdits]
  PROVE  PageOK'
BY DEF PageOK

LEMMA ServiceUntouched ==
  ASSUME ServiceInv, UNCHANGED vars
  PROVE  ServiceInv' /\ KeptOn /\ \A k : Into(k)' = Into(k) /\ (Born(k)' <=> Born(k))
BY DEF vars, ServiceInv, TypeOK, RowsOK, RequestOK, Born, Into, Promised, KeptOn

-----------------------------------------------------------------------------
\* An edit of the deck leaves its carousel, and brings no story in.
LEMMA EditedOK ==
  ASSUME StudioInv, UNCHANGED vars, canvas # <<>>, NEW deck, Edited(deck),
         \A S : Holds(canvas, S) => Holds(deck, S),
         dialog' = dialog \/ dialog' = NoDialog
  PROVE  StudioInv'
<1>1. PageOK /\ ServiceInv /\ CanvasOK
  BY Parts DEF StudioInv
<1>2. ServiceInv' /\ KeptOn
      /\ \A k : Into(k)' = Into(k) /\ (Born(k)' <=> Born(k))
  BY <1>1, ServiceUntouched
<1>3. /\ canvas' = deck /\ timer' = (open # None) /\ edits < MaxEdits /\ edits' = edits + 1
      /\ edited' = IF open = None THEN edited ELSE [edited EXCEPT ![open] = edits + 1]
      /\ UNCHANGED <<open, saved, awaited, told, rendered, shipped>>
  BY DEF Edited, Scheduled
<1>4. Holds(canvas, Stories)
  BY <1>1 DEF PageOK, Holds
<1>5. deck \in Seq(Slides)
  BY <1>4 DEF Holds
<1>6. dialog'.index \in Nat /\ dialog'.slide \in Slides \cup {None}
  BY <1>1 DEF PageOK, NoDialog
<1>7. edits + 1 \in 0..MaxEdits
  BY <1>1, <1>3, StudioAssumption DEF PageOK
<1>8. edited' \in [CarouselIds -> 0..MaxEdits]
  BY <1>1, <1>3, <1>7 DEF PageOK
<1>9. PageOK'
  BY <1>1, <1>3, <1>5, <1>6, <1>7, <1>8 DEF PageOK
<1>10. CanvasOK'
  <2>1. open # None
    BY <1>1 DEF CanvasOK
  <2>2. exists' = exists
    BY DEF vars
  <2>. PICK k : k = open
    OBVIOUS
  <2>3. Born(k)' /\ (k \in exists => Holds(deck, Into(k)'))
    BY <1>1, <1>2, <2>1 DEF CanvasOK
  <2>4. QED
    BY <1>3, <2>1, <2>2, <2>3 DEF CanvasOK
<1>11. QED
  BY <1>2, <1>9, <1>10, Parts DEF StudioInv, ServiceInv

LEMMA EditorOK ==
  ASSUME StudioInv, Editor
  PROVE  StudioInv'
<1>1. /\ PageOK /\ ServiceInv /\ CanvasOK /\ canvas \in Seq(Slides)
  BY Parts DEF StudioInv, PageOK
<1>2. CASE Add
  <2>1. \A S : Holds(canvas, S) => Holds(Append(canvas, Blank), S)
    BY AppendedHolds
  <2>2. QED
    BY <1>2, <2>1, EditedOK DEF Add
<1>3. CASE ConfirmDelete
  <2>1. dialog.index \in DOMAIN canvas /\ canvas # <<>>
    BY <1>1, <1>3 DEF ConfirmDelete
  <2>2. \A S : Holds(canvas, S) => Holds(RemoveAt(canvas, dialog.index), S)
    BY <2>1, RemovedHolds
  <2>3. QED
    BY <1>3, <2>1, <2>2, EditedOK DEF ConfirmDelete
<1>4. ASSUME NEW i \in DOMAIN canvas, NEW j \in DOMAIN canvas, MoveOrRewrite(i, j)
      PROVE  StudioInv'
  <2>1. canvas # <<>>
    BY <1>1
  <2>2. \A S : Holds(canvas, S) => Holds(Moved(canvas, i, j), S)
    BY MovedHolds
  <2>3. QED
    BY <1>4, <2>1, <2>2, EditedOK DEF MoveOrRewrite
<1>5. ASSUME CancelDelete \/ \E i \in DOMAIN canvas : AskDelete(i)
      PROVE  StudioInv'
  <2>1. /\ UNCHANGED <<vars, open, canvas, timer, saved, edits, awaited, told, edited,
                       rendered, shipped>>
        /\ dialog' = NoDialog \/ \E i \in DOMAIN canvas :
                                   dialog' = [index |-> i, slide |-> canvas[i]]
    BY <1>5 DEF CancelDelete, AskDelete
  <2>2. ServiceInv' /\ KeptOn
    BY <1>1, <2>1, ServiceUntouched
  <2>3. dialog'.index \in Nat /\ dialog'.slide \in Slides \cup {None}
    BY <1>1, <2>1 DEF NoDialog
  <2>4. PageOK'
    BY <1>1, <2>1, <2>3 DEF PageOK
  <2>5. CanvasOK'
    BY <2>1, <2>2, CanvasKept
  <2>6. QED
    BY <2>2, <2>4, <2>5, Parts DEF StudioInv, ServiceInv
<1>6. QED
  BY <1>2, <1>3, <1>4, <1>5 DEF Editor

-----------------------------------------------------------------------------
\* Steps of the service, or none, that leave the deck on the screen.
LEMMA ServedOK ==
  ASSUME StudioInv, ServiceInv', KeptOn, UNCHANGED <<open, canvas>>, PageOK'
  PROVE  StudioInv'
BY CanvasKept, Parts DEF StudioInv, ServiceInv

LEMMA RequestsSent ==
  ASSUME StudioInv, NEW r \in Requests, Save(r) \/ AskServer(r) \/ AskZip(r)
  PROVE  StudioInv'
<1>1. /\ PageOK /\ ServiceInv /\ CanvasOK /\ TypeOK
  BY Parts DEF StudioInv
<1>2. /\ <<>> \in Seq(Slides) /\ {} \in SUBSET Stories
      /\ \A k : Holds(<<>>, Into(k))
  BY DEF Holds
<1>3. None \notin exists /\ \A k \in exists : k \in CarouselIds /\ k # None /\ Born(k)
  BY <1>1, CarouselsAssumption DEF TypeOK, ServiceInv, RowsOK
<1>4. open # None => open \in CarouselIds /\ Born(open)
  BY <1>1 DEF CanvasOK, PageOK
<1>5. \A S \in Selections : S \in SUBSET Stories
  BY DEF Selections
<1>6. ASSUME Save(r) PROVE ServiceInv' /\ KeptOn /\ timer' \in BOOLEAN /\ (timer' => timer)
                           /\ UNCHANGED <<dialog, edits, rendered>>
  <2>1. open # None /\ timer' = FALSE /\ UNCHANGED <<dialog, edits, rendered>>
    BY <1>1, <1>6 DEF Save, PageOK
  <2>2. CASE UNCHANGED vars
    BY <1>1, <2>1, <2>2, ServiceUntouched
  <2>3. CASE Send(r, "save", open, {}, canvas)
    <3>1. canvas \in Seq(Slides) /\ (open \in exists => Holds(canvas, Into(open)))
      BY <1>1 DEF CanvasOK, PageOK
    <3>2. ServiceInv' /\ KeptOn
      BY <1>1, <1>2, <1>4, <2>1, <2>3, <3>1, SendOK
    <3>3. QED
      BY <2>1, <3>2
  <2>4. QED
    BY <1>6, <2>2, <2>3 DEF Save
<1>7. ASSUME AskServer(r) PROVE ServiceInv' /\ KeptOn
  <2>1. CASE \E S \in Selections : Send(r, "create", None, S, <<>>)
    BY <1>1, <1>2, <1>3, <1>5, <2>1, SendOK
  <2>2. CASE canvas # <<>> /\ \E S \in Pickable : Send(r, "add", open, S, <<>>)
    <3>1. open # None /\ \A S \in Pickable : S \in SUBSET Stories
      BY <1>1, <1>5, <2>2 DEF CanvasOK, Pickable
    <3>2. QED
      BY <1>1, <1>2, <1>4, <2>2, <3>1, SendOK
  <2>3. CASE \E k \in exists, op \in {"open", "delete"} \cap Asks : Send(r, op, k, {}, <<>>)
    BY <1>1, <1>2, <1>3, <2>3, SendOK
  <2>4. QED
    BY <1>7, <2>1, <2>2, <2>3 DEF AskServer
<1>8. ASSUME AskZip(r) PROVE ServiceInv' /\ KeptOn
  <2>1. open # None /\ Send(r, "zip", open, {}, <<>>)
    BY <1>1, <1>8 DEF AskZip, CanvasOK
  <2>2. QED
    BY <1>1, <1>2, <1>4, <2>1, SendOK
<1>9. PageOK'
  <2>1. awaited' \subseteq Requests
    BY <1>1 DEF Save, AskServer, AskZip, PageOK
  <2>2. rendered' \in [Requests -> 0..MaxEdits]
    BY <1>1 DEF Save, AskServer, AskZip, PageOK
  <2>3. UNCHANGED <<open, canvas, saved, dialog, edits, told, edited, shipped>>
        /\ (timer' = FALSE \/ timer' = timer)
    BY DEF Save, AskServer, AskZip
  <2>4. timer' \in BOOLEAN /\ (timer' => open # None)
    <3>1. CASE timer' = FALSE
      BY <3>1
    <3>2. CASE timer' = timer
      BY <1>1, <3>2, Zenon DEF PageOK
    <3>3. QED
      BY <2>3, <3>1, <3>2
  <2>5. saved' \in BOOLEAN
    BY <1>1, <2>3 DEF PageOK
  <2>6. QED
    BY <1>1, <2>1, <2>2, <2>3, <2>4, <2>5 DEF PageOK
<1>10. UNCHANGED <<open, canvas>>
  BY DEF Save, AskServer, AskZip
<1>11. QED
  BY <1>6, <1>7, <1>8, <1>9, <1>10, ServedOK

LEMMA ServeLoseOK ==
  ASSUME StudioInv, NEW r \in Requests, Serve(r) \/ Lose(r)
  PROVE  StudioInv'
<1>1. /\ PageOK /\ ServiceInv
  BY Parts DEF StudioInv
<1>2. ServiceInv' /\ KeptOn
  BY <1>1, HandleOK DEF Serve, Lose
<1>3. /\ UNCHANGED <<open, canvas, timer, saved, dialog, edits, awaited, told, edited, rendered>>
      /\ shipped' = shipped \/ shipped' = [shipped EXCEPT ![request[r].carousel] = rendered[r]]
  BY DEF Serve, Lose, client
<1>4. shipped' \in [CarouselIds -> 0..MaxEdits]
  BY <1>1, <1>3 DEF PageOK
<1>5. PageOK'
  BY <1>1, <1>3, <1>4, PageKept DEF PageOK
<1>6. QED
  BY <1>2, <1>3, <1>5, ServedOK

LEMMA ReloadOK ==
  ASSUME StudioInv, Reload
  PROVE  StudioInv'
<1>1. /\ PageOK /\ ServiceInv
  BY Parts DEF StudioInv
<1>2. ServiceInv' /\ KeptOn
  BY <1>1, ServiceUntouched DEF Reload
<1>3. PageOK'
  BY <1>1 DEF Reload, PageOK, NoDialog
<1>4. QED
  BY <1>2, <1>3, ServedOK DEF Reload

LEMMA AnswerOK ==
  ASSUME StudioInv, NEW r \in Requests, Answer(r)
  PROVE  StudioInv'
<1>. PICK k : k = request[r].carousel
  OBVIOUS
<1>1. PageOK /\ ServiceInv /\ CanvasOK /\ RequestOK(r) /\ request[r] \in Request
  BY Parts, TheRequest DEF StudioInv
<1>2. Receive(r)
  BY DEF Answer, Load, AckSave, AckDelete, Ignore, Answered
<1>3. ServiceInv' /\ KeptOn /\ UNCHANGED <<exists, city, picks>>
  BY <1>1, <1>2, HandleOK DEF Receive
<1>4. request[r].stage = "done" => k \in CarouselIds /\ Born(k) /\ k # None
  BY <1>1 DEF RequestOK, Born
<1>5. awaited' \subseteq Requests
  BY <1>1 DEF Answer, Load, AckSave, AckDelete, Ignore, Answered, PageOK
<1>6. CASE Load(r)
  <2>1. /\ request[r].stage = "done" /\ open' = k /\ canvas' = request[r].deck
        /\ timer' = FALSE /\ saved' = FALSE
        /\ UNCHANGED <<dialog, edits, told, edited, rendered, shipped>>
    BY <1>6 DEF Load, Answered, At, Loaded
  <2>2. PageOK'
    <3>1. request[r].deck \in Seq(Slides)
      BY <1>1 DEF Request
    <3>2. QED
      BY <1>1, <1>4, <1>5, <2>1, <3>1 DEF PageOK
  <2>3. k \in exists => Holds(request[r].deck, Into(k))
    <3>1. Promised(r) = {}
      BY <2>1 DEF Promised
    <3>2. QED
      BY <1>1, <2>1, <3>1 DEF RequestOK
  <2>4. Into(k)' = Into(k) /\ (Born(k)' <=> Born(k))
    BY <1>3 DEF Into, Born
  <2>5. CanvasOK'
    BY <1>3, <1>4, <2>1, <2>3, <2>4 DEF CanvasOK
  <2>6. QED
    BY <1>3, <2>2, <2>5, Parts DEF StudioInv, ServiceInv
<1>7. CASE AckSave(r)
  <2>1. /\ request[r].stage = "done" /\ saved' = (saved \/ k = open)
        /\ told' = [told EXCEPT !.saved = told.saved \cup {k}]
        /\ UNCHANGED <<open, canvas, timer, dialog, edits, edited, rendered, shipped>>
    BY <1>7 DEF AckSave, Answered, At, Stamps
  <2>2. told' \in [saved : SUBSET CarouselIds, deleted : SUBSET CarouselIds]
    BY <1>1, <1>4, <2>1 DEF PageOK
  <2>3. saved' \in BOOLEAN
    BY <2>1
  <2>4. PageOK'
    BY <1>1, <1>5, <2>1, <2>2, <2>3 DEF PageOK
  <2>5. QED
    BY <1>3, <2>1, <2>4, ServedOK
<1>8. CASE AckDelete(r)
  <2>1. /\ request[r].stage = "done"
        /\ told' = [told EXCEPT !.deleted = told.deleted \cup {k}]
        /\ \/ open' = None /\ canvas' = <<>> /\ timer' = FALSE
           \/ UNCHANGED <<open, canvas, timer>>
        /\ UNCHANGED <<saved, dialog, edits, edited, rendered, shipped>>
    BY <1>8 DEF AckDelete, Answered, At, Cancelled
  <2>2. told' \in [saved : SUBSET CarouselIds, deleted : SUBSET CarouselIds]
    BY <1>1, <1>4, <2>1 DEF PageOK
  <2>3. PageOK'
    <3>1. /\ <<>> \in Seq(Slides) /\ saved' \in BOOLEAN
          /\ timer = FALSE \/ timer = TRUE
      BY <1>1, <2>1 DEF PageOK
    <3>2. CASE open' = None /\ canvas' = <<>> /\ timer' = FALSE
      BY <1>1, <1>5, <2>1, <2>2, <3>1, <3>2 DEF PageOK
    <3>3. CASE UNCHANGED <<open, canvas, timer>>
      <4>1. timer' \in BOOLEAN /\ (timer' => open' # None)
        BY <1>1, <3>3, Zenon DEF PageOK
      <4>2. QED
        BY <1>1, <1>5, <2>1, <2>2, <3>1, <3>3, <4>1 DEF PageOK
    <3>4. QED
      BY <2>1, <3>2, <3>3
  <2>4. CASE open' = None /\ canvas' = <<>>
    <3>1. None \notin exists'
      BY <1>3, CarouselsAssumption DEF ServiceInv, TypeOK
    <3>2. CanvasOK'
      BY <2>4, <3>1 DEF CanvasOK
    <3>3. QED
      BY <1>3, <2>3, <3>2, Parts DEF StudioInv, ServiceInv
  <2>5. CASE UNCHANGED <<open, canvas>>
    BY <1>3, <2>3, <2>5, ServedOK
  <2>6. QED
    BY <2>1, <2>4, <2>5
<1>9. CASE Ignore(r)
  <2>1. UNCHANGED <<open, canvas, timer, saved, dialog, edits, told, edited, rendered, shipped>>
    BY <1>9 DEF Ignore
  <2>2. PageOK'
    BY <1>1, <1>5, <2>1 DEF PageOK
  <2>3. QED
    BY <1>3, <2>1, <2>2, ServedOK
<1>10. QED
  BY <1>6, <1>7, <1>8, <1>9 DEF Answer

LEMMA StudioInvariant == StudioSpec => []StudioInv
<1>1. StudioInit => StudioInv
  <2> SUFFICES ASSUME StudioInit PROVE StudioInv
    OBVIOUS
  <2>1. ServiceInv
    BY InitOK DEF StudioInit
  <2>2. 0 \in 0..MaxEdits /\ <<>> \in Seq(Slides)
    BY StudioAssumption
  <2>3. PageOK
    BY <2>2 DEF StudioInit, PageOK, NoDialog
  <2>4. CanvasOK
    BY <2>2, CarouselsAssumption DEF StudioInit, Init, CanvasOK
  <2>5. QED
    BY <2>1, <2>3, <2>4, Parts DEF StudioInv, ServiceInv
<1>2. StudioInv /\ [StudioNext]_all => StudioInv'
  <2> SUFFICES ASSUME StudioInv, [StudioNext]_all PROVE StudioInv'
    OBVIOUS
  <2>1. CASE UNCHANGED all
    <3>1. ServiceInv' /\ KeptOn
      BY <2>1, ServiceUntouched DEF all, StudioInv
    <3>2. PageOK'
      BY <2>1, Parts DEF all, client, StudioInv, PageOK
    <3>3. QED
      BY <2>1, <3>1, <3>2, ServedOK DEF all, client
  <2>2. CASE Editor
    BY <2>2, EditorOK
  <2>3. CASE Reload
    BY <2>3, ReloadOK
  <2>4. ASSUME NEW r \in Requests, Save(r) \/ AskServer(r) \/ AskZip(r) PROVE StudioInv'
    BY <2>4, RequestsSent
  <2>5. ASSUME NEW r \in Requests, Serve(r) \/ Lose(r) PROVE StudioInv'
    BY <2>5, ServeLoseOK
  <2>6. ASSUME NEW r \in Requests, Answer(r) PROVE StudioInv'
    BY <2>6, AnswerOK
  <2>7. QED
    BY <2>1, <2>2, <2>3, <2>4, <2>5, <2>6 DEF StudioNext
<1>3. QED
  BY <1>1, <1>2, PTL DEF StudioSpec

-----------------------------------------------------------------------------
\* Every variable of the service and of the page keeps its type; the timer never
\* runs without a carousel to save to (slides.js:86-119, 174-181).
THEOREM TypeCorrect == StudioSpec => []StudioTypeOK
BY StudioInvariant, PTL DEF StudioInv

\* Answers that replace the deck while autosaves of the one before are under way,
\* deletes, reloads and lost requests put no story into a stored deck that was not
\* recorded as picked into it (slides.js:93-119, 161-181; carousel.py:148-222).
THEOREM EvidenceCompleteHolds == StudioSpec => []EvidenceComplete
<1>1. StudioInv => EvidenceComplete
  BY EvidenceInService DEF StudioInv
<1>2. QED
  BY <1>1, StudioInvariant, PTL

-----------------------------------------------------------------------------
\* Only the service writes the tables.
LEMMA ServiceSteps ==
  [StudioNext]_all =>
    UNCHANGED <<exists, stamp, picks>> \/ \E r \in Requests : Handle(r)
<1> SUFFICES ASSUME [StudioNext]_all
             PROVE  UNCHANGED <<exists, stamp, picks>> \/ \E r \in Requests : Handle(r)
  OBVIOUS
<1>1. CASE UNCHANGED all
  BY <1>1 DEF all, vars
<1>2. CASE Editor
  BY <1>2 DEF Editor, Add, ConfirmDelete, CancelDelete, MoveOrRewrite, AskDelete, vars
<1>3. CASE Reload
  BY <1>3 DEF Reload, vars
<1>4. ASSUME NEW r \in Requests, Save(r) \/ AskServer(r) \/ AskZip(r)
      PROVE  UNCHANGED <<exists, stamp, picks>>
  BY <1>4 DEF Save, AskServer, AskZip, Send, vars
<1>5. ASSUME NEW r \in Requests, Serve(r) PROVE Handle(r)
  BY <1>5 DEF Serve
<1>6. ASSUME NEW r \in Requests, Lose(r) PROVE UNCHANGED <<exists, stamp, picks>>
  BY <1>6 DEF Lose, Fail
<1>7. ASSUME NEW r \in Requests, Answer(r) PROVE UNCHANGED <<exists, stamp, picks>>
  BY <1>7 DEF Answer, Load, AckSave, AckDelete, Ignore, Answered, Receive
<1>8. QED
  BY <1>1, <1>2, <1>3, <1>4, <1>5, <1>6, <1>7 DEF StudioNext

\* What a step of the service does to stamps and picks: those of a carousel that
\* stays are kept.
LEMMA Kept ==
  ASSUME ServiceInv, NEW r \in Requests, Handle(r)
  PROVE  /\ \A k \in exists \cap exists' : stamp[k].downloaded => stamp'[k].downloaded
         /\ \A p \in picks :
              /\ \E q \in picks' : q.story = p.story /\ q.number = p.number
              /\ p.carousel \in exists' => p \in picks'
<1> DEFINE Goal ==
      /\ \A k \in exists \cap exists' : stamp[k].downloaded => stamp'[k].downloaded
      /\ \A p \in picks :
           /\ \E q \in picks' : q.story = p.story /\ q.number = p.number
           /\ p.carousel \in exists' => p \in picks'
<1>1. exists \subseteq CarouselIds /\ stamp \in [CarouselIds -> Stamp] /\ picks \subseteq Pick
  BY DEF ServiceInv, TypeOK
<1>0. request[r].held \in Stamp
  BY TheRequest DEF Request
<1>2. ASSUME picks \subseteq picks',
             \A c \in exists : stamp[c].downloaded => stamp'[c].downloaded
      PROVE  Goal
  BY <1>2
<1>3. CASE Get(r) \/ Compose(r) \/ Refuse(r) \/ Respond(r)
  BY <1>2, <1>3 DEF Get, Compose, Refuse, Respond
<1>4. ASSUME NEW k \in CarouselIds, CommitCreate(r, k) PROVE Goal
  <2>1. stamp[k] \in Stamp /\ stamp' = [stamp EXCEPT ![k] = [stamp[k] EXCEPT !.edited = TRUE]]
    BY <1>1, <1>4 DEF CommitCreate
  <2>2. [stamp[k] EXCEPT !.edited = TRUE].downloaded = stamp[k].downloaded
    BY <2>1 DEF Stamp
  <2>3. QED
    BY <1>1, <1>2, <1>4, <2>1, <2>2 DEF CommitCreate
<1>5. CASE CommitAdd(r) \/ CommitSave(r)
  <2>. PICK k : k = request[r].carousel
    OBVIOUS
  <2>1. SaveDeck(r, k) /\ k \in exists /\ picks \subseteq picks'
    BY <1>5 DEF CommitAdd, CommitSave
  <2>2. PICK edit :
          edit = Flushed(stamp[k], [request[r].held EXCEPT !.edited = TRUE], {"edited"})
    OBVIOUS
  <2>3. edit.downloaded = stamp[k].downloaded
    BY <1>0, <1>1, <2>1, <2>2, FlushedEdit
  <2>4. stamp' = [stamp EXCEPT ![k] = [edited |-> edit.edited, downloaded |-> edit.downloaded,
                                      stale |-> edit.downloaded]]
    BY <2>1, <2>2 DEF SaveDeck
  <2>5. \A c \in exists : stamp[c].downloaded => stamp'[c].downloaded
    BY <1>1, <2>1, <2>3, <2>4
  <2>6. QED
    BY <1>2, <2>1, <2>5
<1>6. CASE CommitZip(r)
  <2>. PICK k : k = request[r].carousel
    OBVIOUS
  <2>1. k \in exists /\ picks' = picks
    BY <1>6 DEF CommitZip
  <2>2. PICK file :
          file = Flushed(stamp[k], [request[r].held EXCEPT !.downloaded = TRUE], {"downloaded"})
    OBVIOUS
  <2>3. file.downloaded = TRUE
    BY <1>0, <1>1, <2>1, <2>2, FlushedFile
  <2>4. stamp' = [stamp EXCEPT ![k] = [edited |-> file.edited, downloaded |-> file.downloaded,
                                      stale |-> FALSE]]
    BY <1>6, <2>2 DEF CommitZip
  <2>5. \A c \in exists : stamp[c].downloaded => stamp'[c].downloaded
    BY <1>1, <2>1, <2>3, <2>4
  <2>6. QED
    BY <1>2, <2>1, <2>5
<1>7. CASE CommitDelete(r)
  <2>. PICK k : k = request[r].carousel
    OBVIOUS
  <2>1. exists' = exists \ {k} /\ stamp' = [stamp EXCEPT ![k] = Unstamped]
        /\ picks' = Orphaned(k)
    BY <1>7 DEF CommitDelete
  <2>2. \A c \in exists \cap exists' : stamp'[c] = stamp[c]
    BY <1>1, <2>1
  <2>3. \A p \in picks : /\ [p EXCEPT !.carousel = None].story = p.story
                         /\ [p EXCEPT !.carousel = None].number = p.number
    BY <1>1 DEF Pick
  <2>4. \A p \in picks :
          /\ p.carousel # k => p \in picks'
          /\ p.carousel = k => [p EXCEPT !.carousel = None] \in picks'
    BY <2>1 DEF Orphaned
  <2>5. ASSUME NEW p \in picks
        PROVE  /\ \E q \in picks' : q.story = p.story /\ q.number = p.number
               /\ p.carousel \in exists' => p \in picks'
    <3>1. CASE p.carousel = k
      BY <2>1, <2>3, <2>4, <3>1
    <3>2. CASE p.carousel # k
      BY <2>4, <3>2
    <3>3. QED
      BY <3>1, <3>2
  <2>6. QED
    BY <2>2, <2>5
<1>8. QED
  BY <1>3, <1>4, <1>5, <1>6, <1>7 DEF Handle

\* Deleting a carousel, or whatever else overlaps, takes nothing from the evidence:
\* a pick stays, with its carousel while there is one (db/models/selection.py:80-82).
THEOREM PicksSurviveHolds == StudioSpec => PicksSurvive
<1>1. StudioInv /\ [StudioNext]_all =>
        [\A p \in picks :
           /\ \E q \in picks' : q.story = p.story /\ q.number = p.number
           /\ p.carousel \in exists' => p \in picks']_vars
  <2> SUFFICES ASSUME StudioInv, [StudioNext]_all
               PROVE  \A p \in picks :
                        /\ \E q \in picks' : q.story = p.story /\ q.number = p.number
                        /\ p.carousel \in exists' => p \in picks'
    OBVIOUS
  <2>1. CASE UNCHANGED <<exists, stamp, picks>>
    BY <2>1
  <2>2. QED
    BY <2>1, Kept, ServiceSteps DEF StudioInv
<1>2. QED
  BY <1>1, StudioInvariant, PTL DEF StudioSpec, PicksSurvive

\* No save whose session loaded the row before a download writes its copy of the
\* column back over it, whatever that copy says
\* (services/carousel.py:148-167, endpoints/carousels.py:213-217).
THEOREM StaysDownloadedHolds == StudioSpec => StaysDownloaded
<1>1. StudioInv /\ [StudioNext]_all =>
        [\A k \in exists \cap exists' :
           stamp[k].downloaded => stamp'[k].downloaded]_vars
  <2> SUFFICES ASSUME StudioInv, [StudioNext]_all
               PROVE  \A k \in exists \cap exists' :
                        stamp[k].downloaded => stamp'[k].downloaded
    OBVIOUS
  <2>1. CASE UNCHANGED <<exists, stamp, picks>>
    BY <2>1
  <2>2. QED
    BY <2>1, Kept, ServiceSteps DEF StudioInv
<1>2. QED
  BY <1>1, StudioInvariant, PTL DEF StudioSpec, StaysDownloaded

-----------------------------------------------------------------------------
\* What answers told the page is kept apart by what they told.
ToldOK == told = [saved |-> told.saved, deleted |-> told.deleted]

\* "Saved" is never on the screen without an answered save of the carousel that is
\* on it, whatever else is answered in between (slides.js:93-119, 161-181).
THEOREM SavedHonestHolds == StudioSpec => []SavedHonest
<1>1. StudioInit => ToldOK /\ SavedHonest
  BY DEF StudioInit, ToldOK, SavedHonest
<1>2. ToldOK /\ SavedHonest /\ [StudioNext]_all => ToldOK' /\ SavedHonest'
  <2> SUFFICES ASSUME ToldOK, SavedHonest, [StudioNext]_all
               PROVE  ToldOK' /\ SavedHonest'
    OBVIOUS
  <2>1. CASE UNCHANGED <<open, saved, told>>
    BY <2>1 DEF ToldOK, SavedHonest
  <2>2. CASE Editor
    BY <2>1, <2>2 DEF Editor, Add, ConfirmDelete, CancelDelete, MoveOrRewrite,
                      AskDelete, Edited
  <2>3. CASE Reload
    BY <2>3 DEF Reload, ToldOK, SavedHonest
  <2>4. ASSUME NEW r \in Requests,
               Save(r) \/ AskServer(r) \/ AskZip(r) \/ Serve(r) \/ Lose(r)
        PROVE  UNCHANGED <<open, saved, told>>
    BY <2>4 DEF Save, AskServer, AskZip, Serve, Lose, client
  <2>5. ASSUME NEW r \in Requests, Load(r) PROVE ToldOK' /\ SavedHonest'
    BY <2>5 DEF Load, ToldOK, SavedHonest
  <2>6. ASSUME NEW r \in Requests, AckSave(r) PROVE ToldOK' /\ SavedHonest'
    <3>1. told' = [saved |-> told.saved \cup {request[r].carousel},
                   deleted |-> told.deleted]
      BY <2>6 DEF AckSave, ToldOK
    <3>2. open' = open /\ saved' = (saved \/ request[r].carousel = open)
      BY <2>6 DEF AckSave, Stamps
    <3>3. QED
      BY <3>1, <3>2 DEF ToldOK, SavedHonest
  <2>7. ASSUME NEW r \in Requests, AckDelete(r) PROVE ToldOK' /\ SavedHonest'
    <3>1. told' = [saved |-> told.saved,
                   deleted |-> told.deleted \cup {request[r].carousel}]
      BY <2>7 DEF AckDelete, ToldOK
    <3>2. saved' = saved /\ (open' = None \/ open' = open)
      BY <2>7 DEF AckDelete
    <3>3. QED
      BY <3>1, <3>2 DEF ToldOK, SavedHonest
  <2>8. ASSUME NEW r \in Requests, Ignore(r) PROVE UNCHANGED <<open, saved, told>>
    BY <2>8 DEF Ignore
  <2>9. CASE UNCHANGED all
    BY <2>1, <2>9 DEF all, client
  <2>10. QED
    BY <2>1, <2>2, <2>3, <2>4, <2>5, <2>6, <2>7, <2>8, <2>9 DEF StudioNext, Answer
<1>3. QED
  BY <1>1, <1>2, PTL DEF StudioSpec
=============================================================================
