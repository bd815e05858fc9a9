-------------------------------- MODULE Studio --------------------------------
(***************************************************************************)
(* The canvas (static/js/slides.js, with the parts of studio.js, feed.js   *)
(* and gallery.js that call it) working against the carousel service: one  *)
(* tab holds the deck, every edit restarts a timer, and when it fires the  *)
(* whole deck goes to the server. Requests are not waited for, so several  *)
(* are under way at once, and each answer acts on the deck as it then is.  *)
(*                                                                         *)
(* Reloading the page keeps the deck, which is in sessionStorage, and      *)
(* drops the timer and whoever awaited an answer.                          *)
(***************************************************************************)
EXTENDS Carousels

CONSTANTS
  Asks,      \* what the editor asks of the server
  MaxEdits,  \* bound: edits of the deck
  Lossy,     \* requests and answers may be lost
  Reloads    \* the page may be reloaded

ASSUME StudioAssumption ==
  /\ Asks \subseteq {"create", "add", "open", "delete", "zip"}
  /\ MaxEdits \in Nat /\ MaxRequests >= MaxEdits
  /\ Lossy \in BOOLEAN /\ Reloads \in BOOLEAN

VARIABLES
  open,     \* carouselId: which carousel the deck is
  canvas,   \* deck
  timer,    \* saveTimer is running
  saved,    \* savedAt is set: the header says the deck was saved
  dialog,   \* the slide a delete confirmation names, and its index
  edits,    \* how many edits were made
  awaited,  \* the requests whose caller is still there
  told,     \* what answers told this page: carousels saved, carousels deleted
  edited,   \* edited[k]: the number of the last edit of k's deck
  rendered, \* rendered[r]: how many edits had been made when r's slides were rendered
  shipped   \* shipped[k]: the same of k's last zip

client == <<open, canvas, timer, saved, dialog, edits, awaited, told, edited,
            rendered, shipped>>
all    == <<vars, client>>

NoDialog == [index |-> 0, slide |-> None]

\* A timer runs for a carousel: there is nothing to save against without one.
StudioTypeOK ==
  /\ TypeOK
  /\ open \in CarouselIds \cup {None}
  /\ canvas \in Seq(Slides)
  /\ timer \in BOOLEAN /\ saved \in BOOLEAN /\ (timer => open # None)
  /\ dialog.index \in Nat /\ dialog.slide \in Slides \cup {None}
  /\ edits \in 0..MaxEdits
  /\ awaited \subseteq Requests
  /\ told \in [saved : SUBSET CarouselIds, deleted : SUBSET CarouselIds]
  /\ edited \in [CarouselIds -> 0..MaxEdits]
  /\ rendered \in [Requests -> 0..MaxEdits]
  /\ shipped \in [CarouselIds -> 0..MaxEdits]

StudioInit ==
  /\ Init
  /\ open = None /\ canvas = <<>>
  /\ timer = FALSE /\ saved = FALSE
  /\ dialog = NoDialog
  /\ edits = 0
  /\ awaited = {}
  /\ told = [saved |-> {}, deleted |-> {}]
  /\ edited = [k \in CarouselIds |-> 0]
  /\ rendered = [r \in Requests |-> 0]
  /\ shipped = [k \in CarouselIds |-> 0]

------------------------------------------------------------------------------
\* Edits. Each goes through persist(), which writes sessionStorage and restarts
\* the timer, unless no carousel is loaded.

\* Mutant of Scheduled: an edit does not restart a timer that has fired.
ScheduledNot == timer

Scheduled == open # None

Edited(deck) ==
  /\ edits < MaxEdits
  /\ canvas' = deck
  /\ timer' = Scheduled
  /\ edits' = edits + 1
  /\ edited' = IF open = None THEN edited ELSE [edited EXCEPT ![open] = edits + 1]
  /\ UNCHANGED <<open, saved, awaited, told, rendered, shipped>>

\* A dialog is modal: nothing else can be clicked while it is open.
Free == dialog = NoDialog

Add ==
  /\ Free /\ canvas # <<>> /\ Len(canvas) < MaxSlides
  /\ Edited(Append(canvas, Blank))
  /\ UNCHANGED <<vars, dialog>>

\* Moving a slide, or rewriting its text, which leaves the list as it is.
MoveOrRewrite(i, j) ==
  /\ Free
  /\ Edited(Moved(canvas, i, j))
  /\ UNCHANGED <<vars, dialog>>

\* deleteSlide asks first, and removes what is at the index by then.
AskDelete(i) ==
  /\ Free
  /\ dialog' = [index |-> i, slide |-> canvas[i]]
  /\ UNCHANGED <<vars, open, canvas, timer, saved, edits, awaited, told, edited, rendered, shipped>>

ConfirmDelete ==
  /\ dialog.index \in DOMAIN canvas
  /\ Edited(RemoveAt(canvas, dialog.index))
  /\ dialog' = NoDialog
  /\ UNCHANGED vars

\* Answering no, or yes about an index the deck no longer has.
CancelDelete ==
  /\ ~Free
  /\ dialog' = NoDialog
  /\ UNCHANGED <<vars, open, canvas, timer, saved, edits, awaited, told, edited, rendered, shipped>>

------------------------------------------------------------------------------
\* Requests.

\* The timer fires: the deck as it is now goes to the carousel it is now. The
\* server refuses a deck with more slides than it holds.
Save(r) ==
  /\ timer
  /\ timer' = FALSE
  /\ IF Len(canvas) <= MaxSlides
     THEN Send(r, "save", open, {}, canvas) /\ awaited' = awaited \cup {r}
     ELSE UNCHANGED <<vars, awaited>>
  /\ UNCHANGED <<open, canvas, saved, dialog, edits, told, edited, rendered, shipped>>

\* Bound: what the editor asks for leaves a request for every edit to come.
Spare == sent + (MaxEdits - edits) + (IF timer THEN 1 ELSE 0) < MaxRequests

\* The picker offers the stories the deck does not hold, up to the room in it.
Pickable ==
  {S \in Selections : /\ S \cap StoriesIn(canvas) = {}
                      /\ Cardinality(S) <= MaxSlides - Len(canvas)}

AskServer(r) ==
  /\ Free /\ Spare
  /\ \/ "create" \in Asks /\ Unborn # {}
        /\ \E S \in Selections : Send(r, "create", None, S, <<>>)
     \/ "add" \in Asks /\ canvas # <<>> /\ \E S \in Pickable : Send(r, "add", open, S, <<>>)
     \/ \E k \in exists, op \in {"open", "delete"} \cap Asks : Send(r, op, k, {}, <<>>)
  /\ awaited' = awaited \cup {r}
  /\ UNCHANGED <<open, canvas, timer, saved, dialog, edits, told, edited, rendered, shipped>>

\* downloadZip: the slides are rendered at the click, from the deck as it is.
AskZip(r) ==
  /\ Free /\ Spare /\ "zip" \in Asks
  /\ Len(canvas) \in 1..MaxSlides
  /\ Send(r, "zip", open, {}, <<>>)
  /\ awaited' = awaited \cup {r}
  /\ rendered' = [rendered EXCEPT ![r] = edits]
  /\ UNCHANGED <<open, canvas, timer, saved, dialog, edits, told, edited, shipped>>

Serve(r) ==
  /\ Handle(r)
  /\ shipped' = IF CommitZip(r) THEN [shipped EXCEPT ![request[r].carousel] = rendered[r]]
                ELSE shipped
  /\ UNCHANGED <<open, canvas, timer, saved, dialog, edits, awaited, told, edited, rendered>>

Lose(r)  == Lossy /\ Fail(r) /\ UNCHANGED client

------------------------------------------------------------------------------
\* Answers.

Answered(r, op, stage) ==
  /\ At(r, op, stage)
  /\ Receive(r)
  /\ awaited' = awaited \ {r}

\* Mutant of Loaded: the deck is replaced, the carousel it saves to is not.
LoadedDeckOnly(k) == IF open = None THEN k ELSE open

\* load(): deck and id together; whatever was queued is dropped.
Loaded(k) == k

Load(r) ==
  /\ r \in awaited
  /\ \E op \in {"create", "add", "open"} : Answered(r, op, "done")
  /\ open' = Loaded(request[r].carousel)
  /\ canvas' = request[r].deck
  /\ timer' = FALSE /\ saved' = FALSE
  /\ UNCHANGED <<dialog, edits, told, edited, rendered, shipped>>

\* Mutant of Stamps: every save that comes back stamps the deck on the screen.
StampsAny(k) == TRUE

\* A save that comes back stamps the deck it was a save of.
Stamps(k) == k = open

AckSave(r) ==
  /\ r \in awaited
  /\ Answered(r, "save", "done")
  /\ saved' = (saved \/ Stamps(request[r].carousel))
  /\ told' = [told EXCEPT !.saved = @ \cup {request[r].carousel}]
  /\ UNCHANGED <<open, canvas, timer, dialog, edits, edited, rendered, shipped>>

\* Mutant of Cancelled: the deck is dropped and its timer is not.
CancelledNot == timer

Cancelled == FALSE

\* The deck that was just deleted is dropped: clear() does nothing to a deck
\* that has no slides left.
AckDelete(r) ==
  LET k == request[r].carousel
      dropped == k = open /\ canvas # <<>>
  IN
  /\ r \in awaited
  /\ Answered(r, "delete", "done")
  /\ told' = [told EXCEPT !.deleted = @ \cup {k}]
  /\ IF dropped THEN open' = None /\ canvas' = <<>> /\ timer' = Cancelled
                ELSE UNCHANGED <<open, canvas, timer>>
  /\ UNCHANGED <<saved, dialog, edits, edited, rendered, shipped>>

\* No answer but a file, or an error, or nobody who awaits it.
Ignore(r) ==
  /\ \/ \E op \in {"create", "add", "save", "open", "delete", "zip"} :
          Answered(r, op, "failed")
     \/ Answered(r, "zip", "done")
     \/ r \notin awaited /\ request[r].stage = "done" /\ Receive(r) /\ UNCHANGED awaited
  /\ UNCHANGED <<open, canvas, timer, saved, dialog, edits, told, edited, rendered, shipped>>

Reload ==
  /\ Reloads
  /\ timer' = FALSE /\ saved' = FALSE
  /\ dialog' = NoDialog
  /\ awaited' = {}
  /\ told' = [saved |-> {}, deleted |-> {}]
  /\ UNCHANGED <<vars, open, canvas, edits, edited, rendered, shipped>>

------------------------------------------------------------------------------
Editor ==
  \/ Add \/ ConfirmDelete \/ CancelDelete
  \/ \E i, j \in DOMAIN canvas : MoveOrRewrite(i, j)
  \/ \E i \in DOMAIN canvas : AskDelete(i)

Answer(r) == Load(r) \/ AckSave(r) \/ AckDelete(r) \/ Ignore(r)

StudioNext ==
  \/ Editor \/ Reload
  \/ \E r \in Requests :
       Save(r) \/ AskServer(r) \/ AskZip(r) \/ Serve(r) \/ Lose(r) \/ Answer(r)

StudioSpec == StudioInit /\ [][StudioNext]_all

\* The timer fires once the typing stops, the server answers what reaches it
\* and the page takes the answer. The editor owes nothing.
StudioFairness ==
  /\ WF_all(\E r \in Requests : Save(r))
  /\ \A r \in Requests : WF_all(Serve(r)) /\ WF_all(Answer(r))

FairStudioSpec == StudioSpec /\ StudioFairness

------------------------------------------------------------------------------
\* Properties. EvidenceComplete is one of them: here it says that the deck and
\* the carousel it is saved to belong together, whatever answers arrive while it
\* is edited, for a deck saved to another carousel brings stories never picked
\* into that.

\* "Saved" in the header reports a write: an autosave of the carousel on the
\* screen was answered since the page was loaded.
SavedHonest == saved /\ open # None => open \in told.saved

\* In the end the server holds the deck that is on the screen.
Autosaved == <>[](open \in exists => Deck(open) = canvas)

\* The answer to adding stories brings those stories and takes nothing: the
\* slides on the screen and their order are what the editor left.
AddKeepsEdits ==
  [][\A r \in Requests :
       Load(r) /\ request[r].op = "add" /\ request[r].carousel = open =>
         SelectSeq(canvas', LAMBDA slide : slide \notin request[r].stories) = canvas]_all

\* A confirmed deletion removes the slide the question named.
DeletesWhatItNamed == [][ConfirmDelete => canvas[dialog.index] = dialog.slide]_all

\* Once the page knows a carousel to be deleted, no autosave into it is pending.
DeckDropped == timer => open \notin told.deleted

\* The Gallery says of a downloaded carousel that it was edited since exactly
\* when it was: looked at with nothing under way, and with no stories added.
Quiet == ~timer /\ \A r \in Requests : request[r].stage = "idle"

StaleNoteTrue ==
  Quiet => \A k \in exists :
    stamp[k].downloaded => (stamp[k].stale <=> edited[k] > shipped[k])
=============================================================================
