------------------------------- MODULE Boards -------------------------------
(***************************************************************************)
(* The three boards a lesson is played on (web/frontend/src/components):   *)
(* the state each runner keeps in its reducer, and what a tap, a traced    *)
(* character and the Next button make of it.                               *)
(*                                                                         *)
(* Left out: the counts of strokes and the pair just matched, which drive  *)
(* a label and a highlight only, the order of the cards, and the clock     *)
(* that times a match.  Redo is left out too: its button is there only     *)
(* while the character is not complete, when it changes nothing but the    *)
(* counts.  Indexes start from 0, as in the code.                          *)
(***************************************************************************)
EXTENDS Integers, Sequences, FiniteSets

-----------------------------------------------------------------------------
(* Match.  The cards a wrong pair is made of stay selected and wrong until *)
(* the timer clears them.                                                  *)

Card(side, pair) == [side |-> side, pair |-> pair]
NoCard == Card("none", 0)
Cards(pairs) == {Card(side, p) : side \in {"hanzi", "meaning"}, p \in 1 .. pairs}

InitialMatch == [selected |-> NoCard, wrong |-> {}, matched |-> {}]

MatchFinished(board, pairs) == Cardinality(board.matched) = pairs

\* Select the card, take the selection back, or move it on the same side.
Select(board, card) ==
    [board EXCEPT !.selected = IF @ = card THEN NoCard ELSE card]

\* Close the pair of the selected card and one of the other side.
Close(board, card) ==
    IF board.selected.pair = card.pair
    THEN [board EXCEPT !.matched = @ \cup {card.pair}, !.selected = NoCard]
    ELSE [board EXCEPT !.wrong = {board.selected, card}]

TapCard(board, card) ==
    IF board.wrong # {} \/ card.pair \in board.matched
    THEN board
    ELSE IF board.selected.side \in {"none", card.side}
         THEN Select(board, card)
         ELSE Close(board, card)

\* Mutant: the very millisecond of wrongResetAtMs is too early.
MutantResetAfter(board, late) ==
    IF late <= 0 THEN board ELSE [board EXCEPT !.selected = NoCard, !.wrong = {}]

\* The timer fires, late milliseconds after wrongResetAtMs by the clock.
ResetWrong(board, late) ==
    IF late < 0 THEN board ELSE [board EXCEPT !.selected = NoCard, !.wrong = {}]

-----------------------------------------------------------------------------
(* Trace: count characters, one after the other.                           *)

InitialTrace == [index |-> 0, complete |-> FALSE, finished |-> FALSE]

CompleteCharacter(board) == [board EXCEPT !.complete = TRUE]

\* Mutant: the last character but one counts as the last.
MutantNextTrace(board, count) ==
    IF ~board.complete THEN board
    ELSE IF board.index >= count - 2
         THEN [board EXCEPT !.finished = TRUE]
         ELSE [board EXCEPT !.index = @ + 1, !.complete = FALSE]

NextTrace(board, count) ==
    IF ~board.complete THEN board
    ELSE IF board.index >= count - 1
         THEN [board EXCEPT !.finished = TRUE]
         ELSE [board EXCEPT !.index = @ + 1, !.complete = FALSE]

-----------------------------------------------------------------------------
(* Sentences: the n-th has lengths[n + 1] characters, each traced in turn. *)

InitialSentence ==
    [sentence |-> 0, index |-> 0, complete |-> FALSE, whole |-> FALSE,
     finished |-> FALSE]

CompleteInSentence(board, lengths) ==
    [board EXCEPT !.complete = TRUE,
                  !.whole = board.index >= lengths[board.sentence + 1] - 1]

\* The character that follows in the sentence, if there is one.
NextCharacter(board, length) ==
    IF ~board.complete \/ board.index >= length - 1
    THEN board
    ELSE [board EXCEPT !.index = @ + 1, !.complete = FALSE, !.whole = FALSE]

NextSentence(board, count) ==
    IF ~board.whole \/ board.sentence >= count - 1
    THEN board
    ELSE [board EXCEPT !.sentence = @ + 1, !.index = 0, !.complete = FALSE,
                       !.whole = FALSE]

NextInSentence(board, lengths) ==
    IF ~board.whole
    THEN NextCharacter(board, lengths[board.sentence + 1])
    ELSE IF board.sentence >= Len(lengths) - 1
         THEN [board EXCEPT !.finished = TRUE]
         ELSE NextSentence(board, Len(lengths))
=============================================================================
