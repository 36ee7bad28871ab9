--------------------------------- MODULE Deck ---------------------------------
(***************************************************************************)
(* The slide deck, mount-deck.ts and deck-helpers.ts: a slide is mounted a *)
(* transition after it was asked for, faded in on the next frame, and its  *)
(* texts are written in by interval timers; whatever is asked for next     *)
(* clears the timers and frames of what was asked for before.              *)
(***************************************************************************)
EXTENDS Integers

CONSTANTS NoSlide, LastSlide

ASSUME DeckAssumption == LastSlide \in Nat /\ NoSlide \notin 0..LastSlide

VARIABLE deck

SlideIndex == 0..LastSlide
clamp_index(i) == IF i < 0 THEN 0 ELSE IF i > LastSlide THEN LastSlide ELSE i

\* Mutant: interval timers that write texts are not cleared.
clear_timers_once(k) == [k EXCEPT !.timeout = FALSE, !.frame = FALSE]

clear_timers(k) == [k EXCEPT !.timeout = FALSE, !.frame = FALSE, !.writing = FALSE]

render_current(k) ==
  [clear_timers(k) EXCEPT !.counter = k.index, !.opaque = FALSE, !.timeout = TRUE]

open_deck == ~deck.isOpen /\ deck' = render_current([deck EXCEPT !.isOpen = TRUE])
close_deck == deck.isOpen /\ deck' = clear_timers([deck EXCEPT !.isOpen = FALSE])

\* The buttons and the keys of an open deck.
goTo(i) ==
  /\ deck.isOpen /\ clamp_index(i) # deck.index
  /\ deck' = render_current([deck EXCEPT !.index = clamp_index(i)])

\* The transition is over: the slide is mounted and its texts, if it has any,
\* are begun.
mount_slide ==
  /\ deck.timeout
  /\ \E texts \in BOOLEAN :
       deck' = [deck EXCEPT !.timeout = FALSE, !.mounted = deck.index, !.frame = TRUE,
                            !.writing = texts, !.written = ~texts]

FadeIn == deck.frame /\ deck' = [deck EXCEPT !.frame = FALSE, !.opaque = TRUE]
write_text_value == deck.writing /\ deck' = [deck EXCEPT !.writing = FALSE, !.written = TRUE]

dispose_deck == deck' = clear_timers([deck EXCEPT !.disposed = TRUE, !.isOpen = FALSE])

DeckInit ==
  deck = [isOpen |-> FALSE, index |-> 0, counter |-> 0, mounted |-> NoSlide, opaque |-> FALSE,
          written |-> TRUE, timeout |-> FALSE, frame |-> FALSE, writing |-> FALSE,
          disposed |-> FALSE]

DeckNext ==
  /\ ~deck.disposed
  /\ \/ open_deck \/ close_deck \/ goTo(deck.index + 1) \/ goTo(deck.index - 1)
     \/ mount_slide \/ FadeIn \/ write_text_value \/ dispose_deck

DeckSpec == DeckInit /\ [][DeckNext]_deck

-----------------------------------------------------------------------------
DeckTypeOK ==
  /\ {deck.index, deck.counter} \subseteq SlideIndex /\ deck.mounted \in SlideIndex \union {NoSlide}
  /\ {deck.isOpen, deck.opaque, deck.written, deck.timeout, deck.frame, deck.writing,
      deck.disposed} \subseteq BOOLEAN

(* However keys, buttons, timers and frames interleave, an open deck shows *)
(* the slide it counts, faded in and fully written, or has the timer still *)
(* running that will; a closed or disposed deck has no timer left running, *)
(* so nothing is written into a slide that was replaced.                   *)
DeckSettles ==
  /\ deck.isOpen =>
       /\ deck.counter = deck.index
       /\ \/ deck.timeout /\ ~deck.frame /\ ~deck.writing
          \/ deck.mounted = deck.index /\ (deck.frame \/ deck.opaque) /\ (deck.writing \/ deck.written)
  /\ ~deck.isOpen => ~deck.timeout /\ ~deck.frame /\ ~deck.writing
=============================================================================
