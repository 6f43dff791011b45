----------------------------- MODULE ListIdxUse -----------------------------
(***************************************************************************)
(* A ListIdx in the hands of a client that calls any of its methods in any *)
(* order.  incJump() and decJump() are loops of inc() and dec(); a turn of *)
(* the loop is a step.                                                     *)
(*                                                                         *)
(* The client asks for no window wider than MaxWin, for no list longer     *)
(* than MaxSize.                                                           *)
(***************************************************************************)
EXTENDS ListIdx

CONSTANT MaxJump

ASSUME UseAssumption == MaxJump \in Nat /\ MaxJump < Word

VARIABLES idx,
          turns,     \* of the loop in incJump() or decJump(), that are still to come
          down       \* the loop is that of incJump()

useVars == <<idx, turns, down>>

UseInit == idx = NewIdx /\ turns = 0 /\ down = FALSE

\* A method that is one step.
Call(i) == turns = 0 /\ idx' = i /\ UNCHANGED <<turns, down>>

Window  == \E win \in 0 .. MaxWin : Call(WinSet(idx, win))
Size    == \E size \in 0 .. MaxSize : Call(SizeSet(idx, size))
Remove  == \E num \in 1 .. MaxSize : Call(Shrink(idx, num))
BoundSets == \E bnd \in U32 : Call(CursorBoundSet(idx, bnd)) \/ Call(CursorLboundSet(idx, bnd))
                              \/ Call(CursorUboundSet(idx, bnd))
TextMode == Call(TextModeSet(idx))
Jump    == \E size \in 0 .. MaxJump : Call(SizeJumpSet(idx, size))
Ends    == Call(Reset(idx)) \/ Call(CursorEndSet(idx))
Rows    == Call(IncOffset(idx)) \/ Call(DecOffset(idx)) \/ Call(IncCursor(idx)) \/ Call(DecCursor(idx))
MoveKeys == Call(Inc(idx)) \/ Call(Dec(idx))

\* operator++ and operator+=.
AppendTo == \E num \in 1 .. MaxSize :
               idx.size + num <= MaxSize /\ Call(SizeSet(idx, Add(idx.size, num)))
InsertAt   == idx.size < MaxSize /\ Call(Insert(idx))
EraseAt    == Call(CurrErase(idx))
EraseLeft  == Call(PrevErase(idx))

JumpStart ==
    /\ turns = 0
    /\ turns' = idx.jump
    /\ down' \in BOOLEAN
    /\ UNCHANGED idx

JumpTurn ==
    /\ turns > 0
    /\ turns' = turns - 1
    /\ idx' = IF down THEN Inc(idx) ELSE Dec(idx)
    /\ UNCHANGED down

UseNext == \/ Window \/ Size \/ Remove \/ BoundSets \/ TextMode \/ Jump \/ Ends \/ Rows \/ MoveKeys
           \/ AppendTo \/ InsertAt \/ EraseAt \/ EraseLeft
           \/ JumpStart \/ JumpTurn

UseSpec == UseInit /\ [][UseNext]_useVars

-----------------------------------------------------------------------------
UseTypeOK == idx \in Indices /\ turns \in U32 /\ down \in BOOLEAN

\* ListIdx.cpp:87, "Resize if necessary": whatever the calls, the cursor is in a row of the
\* window that holds an entry of the list, and while earlier entries are hidden the window
\* is full; so cursor() and cursorAbs() index what the client shows and what it has.
InList(i) == /\ i.cursor <= HardUbound(i)
             /\ i.offset = 0 \/ i.offset + i.win <= i.size
             /\ i.win <= MaxWin /\ i.size <= MaxSize
             /\ i.lbound <= i.win /\ i.ubound <= i.win
             /\ i.win # 0 => i.lbound < i.win /\ i.ubound < i.win
CursorInList == InList(idx)

\* With no row on screen the list need not be in step, and a list that gets shorter than the
\* window while it was scrolled takes the cursor further down than its entry.
Scrolled(i, size) == i.offset # 0 /\ size < i.win

\* The entry under the cursor, at every change of the list: it stays under the cursor when
\* others come and go at the end, moves down by one when something is inserted before it, up
\* by one when the one before it is erased, and its successor takes its place when it is
\* erased itself.
EntryKept == [][ idx.win # 0 =>
    /\ (/\ AppendTo \/ Remove \/ Size
        /\ idx.size # 0 /\ idx'.size # 0 /\ ~Scrolled(idx, idx'.size)) =>
          CursorAbs(idx') = Lower(CursorAbs(idx), idx'.size - 1)
    /\ InsertAt /\ idx.size # 0 => CursorAbs(idx') = CursorAbs(idx) + 1
    /\ EraseLeft /\ CursorAbs(idx) # 0 => CursorAbs(idx') = CursorAbs(idx) - 1
    /\ EraseAt /\ idx.size > 1 => CursorAbs(idx') = Lower(CursorAbs(idx), idx'.size - 1)
  ]_useVars

\* inc() reaches every entry from every other, one at a time, and so does dec().
MovesByOne == [][
    /\ JumpTurn /\ down /\ ~Empty(idx) => CursorAbs(idx') = Lower(CursorAbs(idx) + 1, idx.size - 1)
    /\ JumpTurn /\ ~down => CursorAbs(idx') = Lower(CursorAbs(idx), Sub(CursorAbs(idx), 1))
  ]_useVars
=============================================================================
