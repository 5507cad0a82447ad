------------------------------- MODULE ConfigForm -------------------------------
(***************************************************************************)
(* The list of measurements in the form tab of the admin page.  The cards   *)
(* on the page are the only state of the form: every operation collects     *)
(* them (collectMeasurements), changes the collected list and renders it    *)
(* again.  Collecting leaves out a card whose id or target is empty.  The   *)
(* lists of keys, ranges and canary targets are edited in the same way.     *)
(*                                                                          *)
(* A measurement is its name, and whether it carries settings for which a   *)
(* card has no field: a category, a label, a key of another type.           *)
(***************************************************************************)
EXTENDS Naturals, Sequences, SequencesExt, Filter

CONSTANTS
  Names,        \* measurements, those the user may add included
  File,         \* builtin_measurements as delivered
  None

Measurement == [name : Names, more : BOOLEAN]

Card == [name : Names, filled : BOOLEAN]

ConfigFormAssumption ==
  /\ File \in Seq(Measurement) /\ IsInjective([i \in DOMAIN File |-> File[i].name])
  /\ None \notin Names

VARIABLES
  stored,       \* builtin_measurements in config.yaml
  cards,        \* the cards on the page, in order
  untouched,    \* history: nothing was changed since the form was loaded
  chosen        \* history: the card whose remove button was pressed last

vars == <<stored, cards, untouched, chosen>>

NamesOf(s) == {s[i].name : i \in DOMAIN s}

Collected(s) == At(s, {i \in DOMAIN s : s[i].filled})

Rendered(s) == [i \in DOMAIN s |-> [name |-> s[i].name, filled |-> TRUE]]

Init ==
  /\ stored = File /\ cards = Rendered(File)
  /\ untouched = TRUE /\ chosen = None

Load ==
  /\ cards' = Rendered(stored)
  /\ untouched' = TRUE /\ chosen' = None
  /\ UNCHANGED stored

Touched == untouched' = FALSE /\ chosen' = None /\ UNCHANGED stored

(* The user empties a field of card i, or completes it.                     *)
Type(i) ==
  /\ cards' = [cards EXCEPT ![i].filled = ~@]
  /\ Touched

(* The new card has no target yet; its id is made from the time of day.     *)
Add(n) ==
  /\ n \notin NamesOf(cards) \cup NamesOf(stored)
  /\ cards' = Append(Collected(cards), [name |-> n, filled |-> FALSE])
  /\ Touched

(* Another type: the cards are rendered again with that type's fields.      *)
ChangeType(i) ==
  /\ cards' = Collected(cards)
  /\ Touched

Splice(s, i) == IF i \in DOMAIN s THEN RemoveAt(s, i) ELSE s

(* Bug: splice without its second argument takes the rest of the list.      *)
RemoveCard_Rest_Bug(i) ==
  /\ cards' = SubSeq(Collected(cards), 1, i - 1)
  /\ untouched' = FALSE /\ chosen' = cards[i].name
  /\ UNCHANGED stored

(* The button carries the card's place among all cards.                     *)
RemoveCard(i) ==
  /\ cards' = Splice(Collected(cards), i)
  /\ untouched' = FALSE /\ chosen' = cards[i].name
  /\ UNCHANGED stored

(* The collected list is stored, or the server refuses it (a field of the   *)
(* form that is no number, no registration key) or cannot be reached.       *)
Save ==
  /\ \/ stored' = LET s == Collected(cards)
                  IN [i \in DOMAIN s |-> [name |-> s[i].name, more |-> FALSE]]
     \/ UNCHANGED stored
  /\ chosen' = None
  /\ UNCHANGED <<cards, untouched>>

Next ==
  \/ Load \/ Save
  \/ \E n \in Names : Add(n)
  \/ \E i \in DOMAIN cards : Type(i) \/ ChangeType(i) \/ RemoveCard(i)

Spec == Init /\ [][Next]_vars

--------------------------------------------------------------------------------
(* Properties                                                               *)

(* Type invariant; names on the page and in the file are distinct.          *)
TypeOK ==
  /\ stored \in Seq(Measurement) /\ IsInjective([i \in DOMAIN stored |-> stored[i].name])
  /\ cards \in Seq(Card) /\ IsInjective([i \in DOMAIN cards |-> cards[i].name])
  /\ untouched \in BOOLEAN
  /\ chosen \in Names \cup {None}

(* What a removal costs when some cards are incomplete and collecting has   *)
(* shifted the places: one complete card at most, never one that stands     *)
(* before the chosen one, and the chosen one itself if no card up to it is  *)
(* incomplete.                                                              *)
RemoveTakesNoneBefore ==
  [][chosen' # None =>
       \E i \in DOMAIN cards :
         LET gone == NamesOf(Collected(cards)) \ NamesOf(cards')
         IN /\ cards[i].name = chosen'
            /\ \A k \in DOMAIN cards : k < i => cards[k].name \notin gone
            /\ \A m, n \in gone : m = n
            /\ (\A k \in DOMAIN cards : k <= i => cards[k].filled) => gone = {chosen'}]_vars

--------------------------------------------------------------------------------
(* What the documents say and the code does not keep: no run checks these,  *)
(* TLC refutes each of them (see the README).                               *)

(* The remove button of a card takes no other complete card away, whatever  *)
(* else is on the page.                                                     *)
RemoveTakesTheChosen ==
  [][chosen' # None => NamesOf(Collected(cards)) \ NamesOf(cards') \subseteq {chosen'}]_vars

(* Choosing another type renders the cards again and loses none of them.    *)
NewTypeKeepsCards ==
  [][~untouched' /\ chosen' = None /\ NamesOf(cards') \subseteq NamesOf(cards)
       => NamesOf(cards') = NamesOf(cards)]_vars

(* Saving a form in which nothing was changed changes nothing in the file.  *)
SaveRoundTrips == [][untouched /\ untouched' => stored' = stored]_vars

================================================================================
