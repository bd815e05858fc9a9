------------------------------- MODULE Crossings -------------------------------
(***************************************************************************)
(* Saves that cross. An add or an autosave replaces the rows its session   *)
(* loaded, so it crosses another when that one's commit falls between its  *)
(* own load and its own commit. Here Carousels is followed by two history  *)
(* variables that record just that, to say what crossing can spoil and     *)
(* what nothing else can.                                                  *)
(***************************************************************************)
EXTENDS Carousels

VARIABLES
  crossed,  \* the requests a save came between the load and the commit of
  tangled   \* the carousels such a request committed to

crossVars == <<vars, crossed, tangled>>

\* An add or an autosave whose session has loaded the rows it will replace.
Holding(r) == request[r].op \in {"add", "save"} /\ request[r].stage \in {"loaded", "ready"}

\* In this step its commit went through.
Saves(r) == Holding(r) /\ request'[r].stage \in {"committed", "done"}

Crosses(r) ==
  \E q \in Requests \ {r} : Saves(q) /\ request[q].carousel = request[r].carousel

Track ==
  /\ crossed' = {r \in Requests : Holding(r)' /\ (r \in crossed \/ Crosses(r))}
  /\ tangled' = tangled \cup {request[r].carousel : r \in {q \in crossed : Saves(q)}}

CrossInit == Init /\ crossed = {} /\ tangled = {}
CrossNext == Next /\ Track
CrossSpec == CrossInit /\ [][CrossNext]_crossVars

------------------------------------------------------------------------------
\* Properties.

\* Crossing saves are the only way a deck outgrows what the zip endpoint takes
\* (its brackets and the cap on stories): whatever adds, edits, deletions and
\* losses come in whatever overlap, a deck no crossed save was committed to fits.
UncrossedFits == \A k \in CarouselIds \ tangled : Fitting(k)

\* And the only way a story comes into a deck twice, though adding reads the deck
\* a second time, after others may have committed.
UncrossedOnce == \A k \in CarouselIds \ tangled : EachOnce(k)

\* A save that was not crossed replaces the deck wholesale: the stored deck is
\* the one it sent, also where crossed saves before it left several decks mixed.
SaveRepairs ==
  [][\A r \in Requests \ crossed : CommitAdd(r) \/ CommitSave(r) => Leaves(r)]_crossVars

=============================================================================
