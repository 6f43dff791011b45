------------------------------- MODULE ListIdx -------------------------------
(***************************************************************************)
(* ListIdx.cpp: the cursor of a list of which a window is shown.  An index *)
(* is a record with the members of the class; each method is an operator   *)
(* from index to index.  A method that says whether something has changed  *)
(* does so by the comparison of the two.                                   *)
(*                                                                         *)
(* The members are uint32_t.  Word stands for 2^32; what wraps in the code *)
(* wraps here.  Its users have windows and lists far below that: of MaxWin *)
(* rows and MaxSize entries at most.                                       *)
(***************************************************************************)
EXTENDS Integers

CONSTANTS Word, MaxWin, MaxSize

ASSUME WordAssumption == Word \in Nat /\ Word > 3

ASSUME RangeAssumption ==
    /\ MaxWin \in Nat /\ MaxSize \in Nat
    /\ MaxWin + MaxWin + MaxSize + 1 < Word

U32 == 0 .. Word - 1

Add(a, b) == IF a + b < Word THEN a + b ELSE a + b - Word
Sub(a, b) == IF b <= a THEN a - b ELSE a - b + Word
Lower(a, b) == IF a < b THEN a ELSE b

Indices == [win : U32, size : U32, jump : U32, cursor : U32, offset : U32,
            lbound : U32, ubound : U32]

SizeJumpDefault == 3

\* ListIdx(): nothing is shown and nothing is there.
NewIdx == [win |-> 0, size |-> 0, jump |-> SizeJumpDefault, cursor |-> 0, offset |-> 0,
           lbound |-> 0, ubound |-> 0]

CursorAbs(i)  == Add(i.offset, i.cursor)
EndReached(i) == Add(i.offset, i.win) >= i.size

\* hardUbound, where there is one: the last row of the window that holds an entry.
HardUbound(i) == IF i.win = 0 \/ i.size = 0 THEN 0 ELSE Lower(i.win, i.size) - 1
Empty(i)      == i.win = 0 \/ i.size = 0

-----------------------------------------------------------------------------
(* Size and window *)

\* The window is moved up when it reaches past the end of the list, the cursor is kept
\* on its entry and within the rows.
SanityCheckStay(i) == [i EXCEPT !.cursor = Lower(@, HardUbound(i))]          \* variant
SanityCheck(i) ==
    LET past == i.offset # 0 /\ Add(i.offset, i.win) > i.size
        rows == IF past THEN Add(i.cursor, Sub(Add(i.offset, i.win), i.size)) ELSE i.cursor
    IN [i EXCEPT !.cursor = Lower(rows, HardUbound(i)),
                 !.offset = IF past THEN IF i.size > i.win THEN i.size - i.win ELSE 0 ELSE @]

SizeSet(i, size) == SanityCheck([i EXCEPT !.size = size])

Bounded(i, bnd) == IF bnd < i.win THEN bnd ELSE IF i.win # 0 THEN i.win - 1 ELSE 0
CursorLboundSet(i, bnd) == [i EXCEPT !.lbound = Bounded(i, bnd)]
CursorUboundSet(i, bnd) == [i EXCEPT !.ubound = Bounded(i, bnd)]

\* The list moves under a cursor in the middle of the window.  For a window of 0 rows
\* the lower bound wraps, and is then cut by Bounded().
WinSet(i, win) ==
    LET checked == SanityCheck([i EXCEPT !.win = win])
        half    == win \div 2
    IN CursorUboundSet(CursorLboundSet(checked, IF win % 2 = 0 THEN Sub(half, 1) ELSE half), half)

CursorBoundSet(i, bnd) ==
    LET cut == IF i.win < Add(bnd, 1) THEN i.win - 1 ELSE bnd
    IN IF i.win = 0 THEN i
       ELSE CursorUboundSet(CursorLboundSet(i, cut), Sub(i.win - 1, cut))

TextModeSet(i) == CursorUboundSet(CursorLboundSet(i, i.win), 0)

SizeJumpSet(i, size) == [i EXCEPT !.jump = IF size < 1 THEN 1 ELSE size]

-----------------------------------------------------------------------------
(* Movement *)

Reset(i) == [i EXCEPT !.cursor = 0, !.offset = 0]

CursorEndSet(i) ==
    IF Empty(i) THEN i
    ELSE [i EXCEPT !.cursor = HardUbound(i),
                   !.offset = IF i.size > i.win THEN i.size - i.win ELSE 0]

IncOffset(i) == IF EndReached(i) THEN i ELSE [i EXCEPT !.offset = Add(@, 1)]
DecOffset(i) == IF i.offset = 0 THEN i ELSE [i EXCEPT !.offset = @ - 1]
IncCursor(i) == IF Empty(i) \/ i.cursor = HardUbound(i) THEN i
                ELSE [i EXCEPT !.cursor = Add(@, 1)]
DecCursor(i) == IF i.cursor = 0 THEN i ELSE [i EXCEPT !.cursor = @ - 1]

\* inc(), dec(): the absolute cursor.  From its bound on the list moves instead.
IncOffEnd(i) == IF Empty(i) THEN i                                           \* variant
          ELSE IF i.cursor >= i.ubound THEN [i EXCEPT !.offset = Add(@, 1)]
          ELSE IF i.cursor < HardUbound(i) THEN [i EXCEPT !.cursor = Add(@, 1)]
          ELSE i
Inc(i) == IF Empty(i) THEN i
          ELSE IF i.cursor >= i.ubound /\ ~EndReached(i) THEN [i EXCEPT !.offset = Add(@, 1)]
          ELSE IF i.cursor < HardUbound(i) THEN [i EXCEPT !.cursor = Add(@, 1)]
          ELSE i
Dec(i) == IF i.cursor <= i.lbound /\ i.offset # 0 THEN [i EXCEPT !.offset = @ - 1]
          ELSE IF i.cursor # 0 THEN [i EXCEPT !.cursor = @ - 1]
          ELSE i

-----------------------------------------------------------------------------
(* Changes of the list *)

Insert(i) == Inc(SizeSet(i, Add(i.size, 1)))

\* currErase(): at the end of the list the window moves up and the cursor stays on the
\* entry that follows.
CurrEraseRow(i) == IF i.size = 0 THEN i ELSE SizeSet(                        \* variant
    IF EndReached(i) /\ i.size > i.win THEN DecOffset(i) ELSE i, Sub(i.size, 1))
CurrErase(i) ==
    IF i.size = 0 THEN i
    ELSE SizeSet(IF EndReached(i) /\ i.size > i.win THEN IncCursor(DecOffset(i)) ELSE i,
                 i.size - 1)

PrevErase(i) ==
    IF CursorAbs(i) = 0 THEN i
    ELSE SizeSet(IF EndReached(i) /\ i.size > i.win THEN DecOffset(i) ELSE Dec(i), Sub(i.size, 1))

Shrink(i, num) == SizeSet(i, i.size - Lower(num, i.size))
=============================================================================
