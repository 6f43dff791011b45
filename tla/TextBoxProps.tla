---------------------------- MODULE TextBoxProps ----------------------------
(***************************************************************************)
(* What a text box has to keep in step, and what it shows.                 *)
(***************************************************************************)
EXTENDS TextBox

Edited == IF focus THEN work ELSE current

\* Between two calls both indices know as many entries as the text has characters and the
\* place behind it, and point into it: the positions that insert(), erase() and substr()
\* are given (TextBox.cpp:246, 280, 305, 482, 494) are those of characters.  A box cut
\* while it has not the focus (197) keeps the index of its old text until it gets it.
IndexMatchesText ==
    loop = Idle =>
        \/ ~focus /\ current = <<>>
        \/ /\ front.size = Len(Edited) + 1 /\ CursorAbs(front) <= Len(Edited)
           /\ back.size = Len(Edited) + 1 /\ CursorAbs(back) <= Len(Edited)

\* No call throws, and the one loop without an end is that of a text that was handed in
\* longer than mLenMax and loses some characters (492).
LostOnlyThere ==
    /\ loop.pc # "thrown"
    /\ loop.pc = "endless" => Len(work) > LenMax

\* Where ListIdx::sanityCheck() takes the cursor away from its entry: the text gets shorter
\* than the window while it is scrolled.
Drifts(len) == IdxLow.offset # 0 /\ len + 1 < front.win

\* The text that comes of rest when something is put in at a position.
PutIn(rest, at) ==
    /\ at <= Len(rest) /\ Len(rest) <= Len(work')
    /\ SubSeq(work', 1, at) = SubSeq(rest, 1, at)
    /\ SubSeq(work', Len(work') - Len(rest) + at + 1, Len(work')) = SubSeq(rest, at + 1, Len(rest))

\* What selectionReplace() leaves of the text, and what it makes of it: the selection goes and
\* nothing else, the new characters stand where the cursor then is, which is where the
\* selection was unless the window drifts, and its loop will take the cursor behind them.
Remainder == Removed(work, CursorAbs(IdxLow), CursorAbs(IdxHigh) - CursorAbs(IdxLow))
Replaced ==
    /\ PutIn(Remainder, CursorAbs(front'))
    /\ loop'.turns = Len(work') - Len(Remainder)
    /\ CursorAbs(front') = CursorAbs(IdxLow) \/ Drifts(Len(Remainder))

\* An edit is made where the cursor is seen, and leaves the cursor behind it: a selection that
\* is replaced, turn by turn of the loop, a character that is typed in (TextBox.cpp:293-297),
\* and one that is taken away.
EditInPlace == [][ front.win # 0 =>
    /\ loop = Idle /\ loop'.pc = "replace" => Replaced
    /\ ReplaceTurn /\ loop.turns > 0 => CursorAbs(front') = CursorAbs(front) + 1
    /\ (\E ch \in Allowed : PrintKey(ch)) =>
          /\ PutIn(work, CursorAbs(front)) /\ Len(work') = Len(work) + 1
          /\ CursorAbs(front') = CursorAbs(front) + 1
    /\ BackspaceKey => /\ CursorAbs(front') = CursorAbs(front) - 1
                       /\ work' = Removed(work, CursorAbs(front'), 1)
    /\ DeleteKey => /\ CursorAbs(front') = CursorAbs(front)
                    /\ work' = Removed(work, CursorAbs(front), 1)
  ]_vars

\* What print() shows of the box.
Picture == <<Edited, focus, front.win, front.offset,
             IF focus THEN <<CursorAbs(front), CursorAbs(IdxLow), CursorAbs(IdxHigh)>> ELSE <<>> >>

\* A key that changes the picture says so (TextBox.h:78 "Widget needs to be redrawn"): at
\* once, or for a jump at the end of the loop, which keeps in mind over all its turns that
\* one of them has moved the cursor.
KeyTells == [][
    /\ KeyProcess \/ JumpDone => Picture' = Picture \/ dirty' \/ loop'.pc \in {"replace", "endless", "thrown"}
    /\ loop = Idle /\ loop'.pc = "replace" => dirty' \/ \E t \in Given : Paste(t)
    /\ PageTurn \/ WordTurn => (Picture' = Picture /\ ~loop.changed) \/ loop'.changed
    /\ JumpDone /\ loop.changed => dirty'
  ]_vars

=============================================================================
