------------------------------- MODULE TextBox -------------------------------
(***************************************************************************)
(* widgets-term/TextBox.cpp: a line of text edited in a window that is     *)
(* narrower than the text.  Where the cursor is in the text is known to    *)
(* two ListIdx only - mIdxFront, that moves, and mIdxBack, where the       *)
(* selection began - and every change of the text has to be made to both   *)
(* of them as well.                                                        *)
(*                                                                         *)
(* The box belongs to one thread.  Its loops (the turns of an insertion, a *)
(* jump over a page or a word) are steps of their own, during which no     *)
(* other call is made.                                                     *)
(***************************************************************************)
EXTENDS ListIdx, Sequences, FiniteSets

CONSTANTS Chars,          \* the characters of a text
          Boundaries,     \* those that keyIsBoundary() knows
          Digits,
          LenMax,         \* lenMaxSet()
          NumbersOnly,    \* numbersOnlySet()
          WidthDefault,   \* 10
          Given,          \* the texts the program hands in
          Widths, Bounds, \* the arguments of widthSet() and cursorBoundSet(),
          Frames, Paddings,  \* of frameEnabledSet() and paddingEnabledSet()
          KeptMax         \* a bound: the longest edited text that is accepted

\* What the program hands in is sound and far below the range of a word.
ASSUME TextAssumption ==
    /\ WidthDefault \in 4 .. MaxWin /\ Widths \subseteq 0 .. MaxWin
    /\ Frames \subseteq BOOLEAN /\ Paddings \subseteq BOOLEAN /\ Bounds \subseteq U32
    /\ LenMax \in Nat /\ LenMax < MaxSize
    /\ Digits \subseteq Chars
    /\ \A t \in Given : t \in Seq(Chars) /\ Len(t) < MaxSize

VARIABLES front, back,    \* mIdxFront, mIdxBack
          work,           \* mUstrWork
          current,        \* mUstrCurrent
          shown,          \* mCurrent
          clip,           \* mClipboard
          focus, dirty,
          width, frame, padding,
          loop            \* the loop that runs, and its locals

box    == <<front, back>>
text   == <<work, current, shown>>
layout == <<width, frame, padding>>
vars   == <<box, text, clip, focus, dirty, layout, loop>>

Idle == [pc |-> "idle", turns |-> 0, at |-> 0, right |-> FALSE, shift |-> FALSE, changed |-> FALSE]
Running(pc) == [Idle EXCEPT !.pc = pc]

Init ==
    /\ front = SizeSet(WinSet(NewIdx, WidthDefault), 1)
    /\ back = front
    /\ work = <<>> /\ current = <<>> /\ shown = <<>> /\ clip = <<>>
    /\ focus = FALSE /\ dirty = FALSE
    /\ width = WidthDefault /\ frame = TRUE /\ padding = TRUE
    /\ loop = Idle

-----------------------------------------------------------------------------
(* Text, and what of it is selected *)

Removed(s, from, num) == SubSeq(s, 1, from) \o SubSeq(s, from + num + 1, Len(s))
Inserted(s, at, t)    == SubSeq(s, 1, at) \o t \o SubSeq(s, at + 1, Len(s))

\* listIdxLow(), listIdxHigh().
IdxLow  == IF CursorAbs(front) > CursorAbs(back) THEN back ELSE front
IdxHigh == IF CursorAbs(front) > CursorAbs(back) THEN front ELSE back

IsSelection == CursorAbs(front) # CursorAbs(back)
Selection   == SubSeq(work, CursorAbs(IdxLow) + 1, CursorAbs(IdxHigh))

\* substr(), erase() and insert() of a position past the end of the text throw.
Throws == /\ loop' = Running("thrown")
          /\ UNCHANGED <<box, text, clip, focus, dirty, layout>>

\* selectionReplace(): what is selected goes, the lower index is resized and stands for
\* both, the new text is put at its cursor, and the loop at 497 takes the cursor behind it.
\* The characters there is room for are counted without regard to a text that is longer
\* than mLenMax already: the subtraction at 492 then wraps and the loop has no end.
ReplaceHigh(t) ==                                                            \* variant
    LET rest == Removed(work, CursorAbs(IdxLow), CursorAbs(IdxHigh) - CursorAbs(IdxLow))
        idx  == SizeSet(IdxHigh, Len(rest) + 1)
        new  == SubSeq(t, 1, Lower(Len(t), LenMax))
    IN /\ work' = Inserted(rest, CursorAbs(idx), new)
       /\ front' = idx /\ back' = idx
       /\ loop' = [Running("replace") EXCEPT !.turns = Len(new)]
SelectionReplace(t) ==
    LET rest == Removed(work, CursorAbs(IdxLow), CursorAbs(IdxHigh) - CursorAbs(IdxLow))
        idx  == SizeSet(IdxLow, Len(rest) + 1)
        room == IF Len(rest) > LenMax THEN Len(t) ELSE LenMax - Len(rest)
        new  == SubSeq(t, 1, Lower(Len(t), room))
    IN /\ work' = Inserted(rest, CursorAbs(idx), new)
       /\ front' = idx /\ back' = idx
       /\ loop' = IF Len(rest) > LenMax THEN Running("endless")
                  ELSE [Running("replace") EXCEPT !.turns = Len(new)]

\* Where that, or clipboardSet(), may be called at all.
InText(i) == CursorAbs(i) <= Len(work)
CanReplace == /\ InText(IdxLow)
              /\ LET rest == Removed(work, CursorAbs(IdxLow),
                                     CursorAbs(IdxHigh) - CursorAbs(IdxLow))
                 IN CursorAbs(SizeSet(IdxLow, Len(rest) + 1)) <= Len(rest)

-----------------------------------------------------------------------------
(* Configuration *)

\* widthSet().
Fit(wid, fra, pad) ==
    LET win == wid - (IF fra THEN 2 ELSE 0) - (IF pad THEN 2 ELSE 0)
    IN front' = WinSet(front, win) /\ back' = WinSet(back, win)

Resize(wid, fra, pad) ==
    /\ loop = Idle
    /\ width' = wid /\ frame' = fra /\ padding' = pad
    /\ Fit(wid, fra, pad)
    /\ UNCHANGED <<text, clip, focus, dirty, loop>>

WidthSet          == \E wid \in Widths : wid >= 4 /\ Resize(wid, frame, padding)
FrameEnabledSet   == \E val \in Frames : Resize(width, val, padding)
PaddingEnabledSet == \E val \in Paddings : Resize(width, frame, val)

BoundSet ==
    /\ loop = Idle
    /\ \E bnd \in Bounds : /\ front' = CursorBoundSet(front, bnd)
                           /\ back' = CursorBoundSet(back, bnd)
    /\ UNCHANGED <<text, clip, focus, dirty, layout, loop>>

\* focusSet(true): the text is taken over for editing, the cursor is put behind it.
Focus ==
    /\ loop = Idle
    /\ focus' = TRUE /\ work' = current
    /\ front' = CursorEndSet(SizeSet(front, Len(current) + 1))
    /\ back' = front'
    /\ UNCHANGED <<current, shown, clip, dirty, layout, loop>>

\* focusSet(false, accept).
UnfocusStay(accept) ==                                                       \* variant
    /\ loop = Idle
    /\ focus' = FALSE
    /\ current' = IF accept THEN work ELSE current
    /\ shown' = IF accept THEN work ELSE shown
    /\ front' = Reset(front)
    /\ back' = front'
    /\ UNCHANGED <<work, clip, dirty, layout, loop>>
Unfocus(accept) ==
    /\ loop = Idle
    /\ focus' = FALSE
    /\ current' = IF accept THEN work ELSE current
    /\ shown' = IF accept THEN work ELSE shown
    /\ front' = Reset(SizeSet(front, Len(current') + 1))
    /\ back' = front'
    /\ UNCHANGED <<work, clip, dirty, layout, loop>>
\* selectionSet(): both indices are moved there from the start, one by one.
SelectionSet(start, len) ==
    LET last == Len(IF focus THEN work ELSE current)
        from == Lower(start, last)
        to   == IF len = 0 THEN last ELSE Lower(start + len, last)
    IN /\ loop = Idle
       /\ front' = Reset(front)
       /\ loop' = [Running("from") EXCEPT !.turns = from, !.at = to - from]
       /\ UNCHANGED <<back, text, clip, focus, dirty, layout>>

SelectionTurn ==
    /\ loop.pc \in {"from", "to"}
    /\ IF loop.turns > 0
       THEN /\ front' = Inc(front)
            /\ loop' = [loop EXCEPT !.turns = @ - 1]
            /\ UNCHANGED back
       ELSE /\ IF loop.pc = "from"
               THEN back' = front /\ loop' = [Running("to") EXCEPT !.turns = loop.at]
               ELSE UNCHANGED back /\ loop' = Idle
            /\ UNCHANGED front
    /\ UNCHANGED <<text, clip, focus, dirty, layout>>

-----------------------------------------------------------------------------
(* Input of the program *)

\* currentSet(), operator=(): a focused box keeps the text it is editing.
CurrentSet(t) ==
    /\ current' = t /\ shown' = t
    /\ IF focus THEN UNCHANGED box
       ELSE /\ front' = SizeSet(front, Len(t) + 1)
            /\ back' = SizeSet(back, Len(t) + 1)
    /\ UNCHANGED <<work, clip, focus, dirty, layout, loop>>

UstrWorkSetBare(t) ==                                                        \* variant
    /\ loop = Idle
    /\ work' = t
    /\ UNCHANGED <<box, current, shown, clip, focus, dirty, layout, loop>>
UstrWorkSet(t) ==
    /\ loop = Idle
    /\ work' = t
    /\ IF focus THEN /\ front' = CursorEndSet(SizeSet(front, Len(t) + 1))
                     /\ back' = front'
                ELSE UNCHANGED box
    /\ UNCHANGED <<current, shown, clip, focus, dirty, layout, loop>>

Paste(t) ==
    /\ loop = Idle
    /\ \/ ~focus /\ CurrentSet(t)
       \/ /\ focus
          /\ IF CanReplace
             THEN SelectionReplace(t) /\ UNCHANGED <<current, shown, clip, focus, dirty, layout>>
             ELSE Throws

Hand == \E t \in Given : Paste(t) \/ UstrWorkSet(t) \/ (focus /\ loop = Idle /\ CurrentSet(t))

\* dirty(): asking takes the answer away.
DirtyAsk == /\ loop = Idle
            /\ dirty' = FALSE
            /\ UNCHANGED <<box, text, clip, focus, layout, loop>>

-----------------------------------------------------------------------------
(* Keys: mDirty is cleared first, and set by those that changed something *)

CutKey ==
    /\ loop = Idle
    /\ \/ /\ ~focus
          /\ clip' = shown /\ current' = <<>> /\ dirty' = TRUE
          /\ UNCHANGED <<box, work, shown, focus, layout, loop>>
       \/ /\ focus
          /\ IF CanReplace
             THEN /\ clip' = Selection /\ SelectionReplace(<<>>) /\ dirty' = TRUE
                  /\ UNCHANGED <<current, shown, focus, layout>>
             ELSE Throws

CopyKey ==
    /\ loop = Idle
    /\ IF focus => InText(IdxLow)
       THEN /\ clip' = IF focus THEN Selection ELSE shown
            /\ dirty' = FALSE
            /\ UNCHANGED <<box, text, focus, layout, loop>>
       ELSE Throws

\* What a key of a focused box begins with.
Key == loop = Idle /\ focus /\ UNCHANGED <<current, shown, clip, focus, layout>>

\* A key that nothing comes of, and any other key of a box that has not the focus.
IgnoredKey == /\ loop = Idle
              /\ dirty' = FALSE
              /\ UNCHANGED <<box, text, clip, focus, layout, loop>>

AllKey ==
    /\ Key
    /\ back' = Reset(back) /\ front' = CursorEndSet(front)
    /\ dirty' = (box' # box)
    /\ UNCHANGED <<work, loop>>

\* navigate(): Home, End, the arrows.
NavigateKey(shift) ==
    /\ Key
    /\ front' \in {Reset(front), CursorEndSet(front), Dec(front), Inc(front)}
    /\ back' = IF shift THEN back ELSE front'
    /\ dirty' = (~shift \/ front' # front)
    /\ UNCHANGED <<work, loop>>

\* navigate(): PgUp and PgDn are sizeJump rows, Ctrl-Left and Ctrl-Right a word.
JumpKey(shift, right) ==
    /\ Key
    /\ dirty' = FALSE
    /\ \/ loop' = [Running("page") EXCEPT !.shift = shift, !.right = right, !.turns = front.jump]
       \/ loop' = [Running("word") EXCEPT !.shift = shift, !.right = right,
                       !.turns = IF work = <<>> THEN 0 ELSE 1, !.at = CursorAbs(front)]
    /\ UNCHANGED <<box, work>>

\* After the loop navigate() lets the back follow, unless Shift holds it.
JumpDone ==
    /\ loop.pc \in {"page", "word"}
    /\ loop.pc = "page" => loop.turns = 0
    /\ loop.pc = "word" =>
          \/ loop.turns = 0
          \/ loop.at = IF loop.right THEN Len(work) ELSE 0
    /\ loop' = Idle
    /\ back' = IF loop.shift THEN back ELSE front
    /\ dirty' = (~loop.shift \/ loop.changed)
    /\ UNCHANGED <<front, text, clip, focus, layout>>

Move(right) == IF right THEN Inc(front) ELSE Dec(front)

PageTurn ==
    /\ loop.pc = "page" /\ loop.turns > 0
    /\ front' = Move(loop.right)
    /\ loop' = [loop EXCEPT !.turns = @ - 1, !.changed = @ \/ front' # front]
    /\ UNCHANGED <<back, text, clip, focus, dirty, layout>>

\* cursorJump(): to the right up to the end of a word, to the left up to its start; at the
\* ends of the text it stops anyway.
OnBoundary(pos) == pos \in 1 .. Len(work) /\ work[pos] \in Boundaries
WordTurn ==
    LET at == IF loop.right THEN loop.at + 1 ELSE loop.at - 1
    IN /\ loop.pc = "word" /\ loop.turns > 0
       /\ loop.at # IF loop.right THEN Len(work) ELSE 0
       /\ front' = Move(loop.right)
       /\ loop' = [loop EXCEPT !.at = at, !.changed = TRUE,
                      !.turns = IF /\ at # 0
                                   /\ OnBoundary(at) = ~loop.right
                                   /\ OnBoundary(at + 1) = loop.right
                                THEN 0 ELSE 1]
       /\ UNCHANGED <<back, text, clip, focus, dirty, layout>>

\* A key that replaces the selection.
ReplaceKey(t) ==
    /\ Key /\ IsSelection
    /\ IF CanReplace THEN SelectionReplace(t) /\ dirty' = TRUE
       ELSE loop' = Running("thrown") /\ UNCHANGED <<box, work, dirty>>

BackspaceKey ==
    /\ Key /\ ~IsSelection
    /\ CursorAbs(front) # 0
    /\ front' = PrevErase(front) /\ back' = front'
    /\ IF CursorAbs(front') <= Len(work)
       THEN work' = Removed(work, CursorAbs(front'), 1) /\ dirty' = TRUE /\ UNCHANGED loop
       ELSE loop' = Running("thrown") /\ UNCHANGED <<work, dirty>>

\* The position is taken before the list is changed (272).
DeleteKey ==
    /\ Key /\ ~IsSelection
    /\ CursorAbs(front) # Sub(front.size, 1)
    /\ front' = CurrErase(front) /\ back' = front'
    /\ IF CursorAbs(front) <= Len(work)
       THEN work' = Removed(work, CursorAbs(front), 1) /\ dirty' = TRUE /\ UNCHANGED loop
       ELSE loop' = Running("thrown") /\ UNCHANGED <<work, dirty>>

PrintKeyQuiet(ch) ==                                                         \* variant
    /\ Key /\ ~IsSelection
    /\ Len(work) < LenMax
    /\ work' = Inserted(work, CursorAbs(front), <<ch>>)
    /\ front' = Insert(front) /\ back' = front'
    /\ dirty' = (front'.offset # front.offset) /\ UNCHANGED loop
PrintKey(ch) ==
    /\ Key /\ ~IsSelection
    /\ Len(work) < LenMax
    /\ IF InText(front)
       THEN /\ work' = Inserted(work, CursorAbs(front), <<ch>>)
            /\ front' = Insert(front) /\ back' = front'
            /\ dirty' = TRUE /\ UNCHANGED loop
       ELSE loop' = Running("thrown") /\ UNCHANGED <<box, work, dirty>>

\* The loop of selectionReplace() and its last line.
ReplaceTurn ==
    /\ loop.pc = "replace"
    /\ IF loop.turns > 0
       THEN /\ front' = Insert(front)
            /\ loop' = [loop EXCEPT !.turns = @ - 1]
            /\ UNCHANGED back
       ELSE back' = front /\ loop' = Idle /\ UNCHANGED front
    /\ UNCHANGED <<text, clip, focus, dirty, layout>>

Allowed == IF NumbersOnly THEN Digits ELSE Chars

KeyProcess ==
    \/ CutKey \/ CopyKey \/ IgnoredKey \/ AllKey
    \/ \E shift \in BOOLEAN : NavigateKey(shift) \/ \E right \in BOOLEAN : JumpKey(shift, right)
    \/ BackspaceKey \/ DeleteKey \/ ReplaceKey(<<>>)
    \/ \E ch \in Allowed : PrintKey(ch) \/ ReplaceKey(<<ch>>)

Turn == SelectionTurn \/ JumpDone \/ PageTurn \/ WordTurn \/ ReplaceTurn

Config == WidthSet \/ FrameEnabledSet \/ PaddingEnabledSet \/ BoundSet
FocusSet == Focus \/ \E accept \in BOOLEAN : (accept => Len(work) <= KeptMax) /\ Unfocus(accept)
Select == \E start, len \in 0 .. LenMax : SelectionSet(start, len)

Next == Config \/ FocusSet \/ Select \/ Hand \/ DirtyAsk \/ KeyProcess \/ Turn

Spec == Init /\ [][Next]_vars
=============================================================================
