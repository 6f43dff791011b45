--------------------------- MODULE ListIdxProofs ---------------------------
(***************************************************************************)
(* The cursor of a ListIdx never leaves the list, for every window, list   *)
(* and order of calls, and stays on its entry.  One lemma per method; none *)
(* of the additions wraps, so the arithmetic is that of the naturals.      *)
(*                                                                         *)
(* With these lemmas the TextBox, which is built from two ListIdx: both of *)
(* them stay in step with the text, so that no call throws, and an edit is *)
(* made where the cursor is seen.                                          *)
(***************************************************************************)
EXTENDS ListIdxUse, TextBoxProps, SequenceTheorems, TLAPS

\* The bounds of an index need not be in step with a window that has just changed.
Held(i) == /\ i \in Indices
           /\ i.cursor <= MaxWin /\ i.offset <= MaxSize
           /\ i.win <= MaxWin /\ i.size <= MaxSize

\* What sanityCheck() restores.
InRow(i) == /\ i.cursor <= HardUbound(i)
            /\ i.offset = 0 \/ i.offset + i.win <= i.size

Good(i) == i \in Indices /\ InList(i)

\* Small numbers add up as they do on paper.
LEMMA AddIsPlus ==
    ASSUME NEW a \in Nat, NEW b \in Nat, a + b < Word
    PROVE  Add(a, b) = a + b
BY DEF Add

\* The last row is a row of the window and of the list.
LEMMA HardUboundRow ==
    ASSUME NEW i \in Indices
    PROVE  /\ HardUbound(i) \in Nat
           /\ HardUbound(i) <= i.win /\ HardUbound(i) <= i.size
           /\ i.win # 0 /\ i.size # 0 => HardUbound(i) < i.win /\ HardUbound(i) < i.size
BY WordAssumption DEF Indices, U32, HardUbound, Lower

\* An index in order is one that sanityCheck() may be given.
LEMMA GoodIsHeld ==
    ASSUME NEW i, Good(i)
    PROVE  Held(i)
<1>1. i \in Indices /\ HardUbound(i) <= i.win /\ HardUbound(i) \in Nat
  BY HardUboundRow DEF Good
<1> QED
  BY <1>1, RangeAssumption, WordAssumption DEF Good, InList, Held, Indices, U32

\* sanityCheck() brings cursor and offset back into the list and leaves the rest alone.
LEMMA SanityCheckInRow ==
    ASSUME NEW i, Held(i)
    PROVE  /\ SanityCheck(i) \in Indices
           /\ InRow(SanityCheck(i))
           /\ \A m \in {"win", "size", "jump", "lbound", "ubound"} : SanityCheck(i)[m] = i[m]
<1> DEFINE s == SanityCheck(i)
<1>0. i \in Indices /\ i.win \in U32 /\ i.size \in U32 /\ i.cursor \in U32 /\ i.offset \in U32
  BY DEF Held, Indices
<1>1. Add(i.offset, i.win) = i.offset + i.win
  BY <1>0, AddIsPlus, RangeAssumption, WordAssumption DEF Held, U32
<1>2. /\ s \in [win : {i.win}, size : {i.size}, jump : {i.jump}, cursor : {s.cursor},
                offset : {s.offset}, lbound : {i.lbound}, ubound : {i.ubound}]
  BY <1>0 DEF SanityCheck, Indices
<1>3. HardUbound(s) = HardUbound(i)
  BY <1>2 DEF HardUbound
<1>4. HardUbound(i) \in Nat /\ HardUbound(i) <= i.win
  BY <1>0, HardUboundRow
<1>5. s.cursor \in U32 /\ s.cursor <= HardUbound(i)
  <2> DEFINE rows == IF i.offset # 0 /\ Add(i.offset, i.win) > i.size
                     THEN Add(i.cursor, Sub(Add(i.offset, i.win), i.size)) ELSE i.cursor
  <2>1. s.cursor = Lower(rows, HardUbound(i))
    BY <1>0 DEF SanityCheck, Indices
  <2>2. rows \in Nat
    BY <1>0, <1>1, WordAssumption DEF Add, Sub, U32
  <2> HIDE DEF rows, s
  <2> QED
    BY <2>1, <2>2, <1>0, <1>4, WordAssumption DEF Lower, U32
<1>6. s.offset \in U32 /\ (s.offset = 0 \/ s.offset + i.win <= i.size)
  <2>1. s.offset = IF i.offset # 0 /\ i.offset + i.win > i.size
                   THEN IF i.size > i.win THEN i.size - i.win ELSE 0 ELSE i.offset
    BY <1>0, <1>1 DEF SanityCheck, Indices
  <2> HIDE DEF s
  <2> QED
    BY <2>1, <1>0, WordAssumption DEF U32
<1> HIDE DEF s
<1>7. s \in Indices
  BY <1>2, <1>5, <1>6, <1>0 DEF Indices
<1>8. InRow(s)
  BY <1>2, <1>3, <1>5, <1>6 DEF InRow
<1>9. \A m \in {"win", "size", "jump", "lbound", "ubound"} : s[m] = i[m]
  BY <1>2
<1> QED
  BY <1>7, <1>8, <1>9 DEF s

\* A list of another size.
LEMMA SizeSetGood ==
    ASSUME NEW i, Good(i), NEW size \in Nat, size <= MaxSize
    PROVE  Good(SizeSet(i, size)) /\ SizeSet(i, size).size = size /\ SizeSet(i, size).win = i.win
<1> DEFINE r == [i EXCEPT !.size = size]
<1>1. Held(i)
  BY GoodIsHeld
<1>2. size \in U32
  BY RangeAssumption, WordAssumption DEF U32
<1>3. Held(r) /\ r.size = size /\ r.win = i.win /\ r.lbound = i.lbound /\ r.ubound = i.ubound
  BY <1>1, <1>2 DEF Held, Indices
<1> HIDE DEF r
<1>4. /\ SanityCheck(r) \in Indices /\ InRow(SanityCheck(r))
      /\ SanityCheck(r).win = i.win /\ SanityCheck(r).size = size
      /\ SanityCheck(r).lbound = i.lbound /\ SanityCheck(r).ubound = i.ubound
  BY <1>3, SanityCheckInRow
<1>5. SizeSet(i, size) = SanityCheck(r)
  BY DEF SizeSet, r
<1> QED
  BY <1>4, <1>5 DEF Good, InList, InRow

\* Every bound is cut to a row of the window.
LEMMA BoundedRow ==
    ASSUME NEW i \in Indices, NEW bnd \in Nat
    PROVE  /\ Bounded(i, bnd) \in U32 /\ Bounded(i, bnd) <= i.win
           /\ i.win # 0 => Bounded(i, bnd) < i.win
BY WordAssumption DEF Bounded, Indices, U32

\* Setting one bound.
LEMMA BoundGood ==
    ASSUME NEW i, Good(i), NEW bnd \in Nat
    PROVE  Good(CursorLboundSet(i, bnd)) /\ Good(CursorUboundSet(i, bnd))
           /\ CursorLboundSet(i, bnd).win = i.win
<1>1. i \in Indices
  BY DEF Good
<1>2. /\ Bounded(i, bnd) \in U32 /\ Bounded(i, bnd) <= i.win
      /\ i.win # 0 => Bounded(i, bnd) < i.win
  BY <1>1, BoundedRow
<1> QED
  BY <1>1, <1>2 DEF Good, InList, Indices, HardUbound, CursorLboundSet, CursorUboundSet

\* A window of another height: sanityCheck() first, then both bounds are cut anew.
LEMMA WinSetGood ==
    ASSUME NEW i, Good(i), NEW win \in Nat, win <= MaxWin
    PROVE  Good(WinSet(i, win))
<1> DEFINE r == [i EXCEPT !.win = win]
           c == SanityCheck(r)
           half == win \div 2
           low == IF win % 2 = 0 THEN Sub(half, 1) ELSE half
<1>1. Held(r) /\ r.win = win /\ r.size = i.size
  BY GoodIsHeld, RangeAssumption, WordAssumption DEF Held, Indices, U32
<1>2. c \in Indices /\ InRow(c) /\ c.win = win /\ c.size = i.size
  BY <1>1, SanityCheckInRow
<1>3. half \in Nat /\ low \in Nat
  <2>1. half \in Nat
    OBVIOUS
  <2> QED
    BY <2>1, WordAssumption DEF Sub
<1>4. i.size <= MaxSize
  BY DEF Good, InList
<1>5. WinSet(i, win) = CursorUboundSet(CursorLboundSet(c, low), half)
  BY DEF WinSet
<1> HIDE DEF r, c, half, low
<1>6. /\ Bounded(c, low) \in U32 /\ Bounded(c, low) <= win
      /\ win # 0 => Bounded(c, low) < win
  BY <1>2, <1>3, BoundedRow
<1>7. /\ Bounded(c, half) \in U32 /\ Bounded(c, half) <= win
      /\ win # 0 => Bounded(c, half) < win
  BY <1>2, <1>3, BoundedRow
<1> DEFINE l == CursorLboundSet(c, low)
<1>8. l \in Indices /\ l.win = win /\ Bounded(l, half) = Bounded(c, half)
  BY <1>2, <1>6 DEF CursorLboundSet, Indices, Bounded
<1>9. WinSet(i, win) \in [win : {win}, size : {i.size}, jump : U32, cursor : {c.cursor},
          offset : {c.offset}, lbound : {Bounded(c, low)}, ubound : {Bounded(c, half)}]
  BY <1>2, <1>5, <1>6, <1>7, <1>8 DEF CursorLboundSet, CursorUboundSet, Indices
<1>10. WinSet(i, win) \in Indices
  BY <1>2, <1>6, <1>7, <1>9 DEF Indices
<1>11. HardUbound(WinSet(i, win)) = HardUbound(c)
  BY <1>2, <1>9 DEF HardUbound
<1> QED
  BY <1>2, <1>4, <1>6, <1>7, <1>9, <1>10, <1>11 DEF Good, InList, InRow

\* Both bounds at once.
LEMMA CursorBoundSetGood ==
    ASSUME NEW i, Good(i), NEW bnd \in U32
    PROVE  Good(CursorBoundSet(i, bnd))
<1> DEFINE cut == IF i.win < Add(bnd, 1) THEN i.win - 1 ELSE bnd
<1>1. CASE i.win = 0
  BY <1>1 DEF CursorBoundSet
<1>2. CASE i.win # 0
  <2>1. i.win \in U32
    BY DEF Good, Indices
  <2>2. cut \in Nat
    BY <2>1, <1>2, WordAssumption DEF U32
  <2>3. Sub(i.win - 1, cut) \in Nat
    BY <2>1, <2>2, <1>2, WordAssumption DEF Sub, U32, Add
  <2>4. CursorBoundSet(i, bnd) = CursorUboundSet(CursorLboundSet(i, cut), Sub(i.win - 1, cut))
    BY <1>2 DEF CursorBoundSet
  <2> HIDE DEF cut
  <2> QED
    BY <2>2, <2>3, <2>4, BoundGood
<1> QED
  BY <1>1, <1>2

Moved(i, cursor, offset) == [i EXCEPT !.cursor = cursor, !.offset = offset]

\* A method that moves cursor and offset within the list.
LEMMA MovedGood ==
    ASSUME NEW i, Good(i), NEW cursor \in Nat, NEW offset \in Nat,
           cursor <= HardUbound(i), offset = 0 \/ offset + i.win <= i.size
    PROVE  Good(Moved(i, cursor, offset))
<1> DEFINE r == [i EXCEPT !.cursor = cursor, !.offset = offset]
<1>1. i \in Indices /\ HardUbound(i) <= i.win /\ HardUbound(i) \in Nat
  BY HardUboundRow DEF Good
<1>2. cursor \in U32 /\ offset \in U32
  BY <1>1, WordAssumption DEF Indices, U32
<1>3. r \in Indices /\ r.cursor = cursor /\ r.offset = offset
      /\ r.win = i.win /\ r.size = i.size /\ r.lbound = i.lbound /\ r.ubound = i.ubound
  BY <1>1, <1>2 DEF Indices
<1> HIDE DEF r
<1>4. HardUbound(r) = HardUbound(i)
  BY <1>3 DEF HardUbound
<1> QED
  BY <1>3, <1>4 DEF Good, InList, Moved, r

\* What the numbers of an index in order are.
LEMMA GoodNumbers ==
    ASSUME NEW i, Good(i)
    PROVE  /\ i \in Indices
           /\ i.win \in Nat /\ i.size \in Nat /\ i.cursor \in Nat /\ i.offset \in Nat
           /\ i.cursor <= HardUbound(i) /\ HardUbound(i) \in Nat
           /\ i.offset = 0 \/ i.offset + i.win <= i.size
           /\ i.win <= MaxWin /\ i.size <= MaxSize /\ i.offset <= MaxSize
           /\ i.cursor + 1 < Word /\ i.offset + 1 < Word
           /\ Add(i.offset, i.win) = i.offset + i.win
<1>1. Held(i) /\ i \in Indices /\ HardUbound(i) \in Nat
  BY GoodIsHeld, HardUboundRow DEF Good
<1>2. /\ i.win \in Nat /\ i.size \in Nat /\ i.cursor \in Nat /\ i.offset \in Nat
  BY <1>1, WordAssumption DEF Indices, U32
<1>3. Add(i.offset, i.win) = i.offset + i.win
  BY <1>1, <1>2, AddIsPlus, RangeAssumption, WordAssumption DEF Held
<1> QED
  BY <1>1, <1>2, <1>3, RangeAssumption, WordAssumption DEF Good, InList, Held

\* A record is itself with its own members.
LEMMA SameMembers ==
    ASSUME NEW i \in Indices
    PROVE  /\ \A n \in Nat : [i EXCEPT !.offset = n] = Moved(i, i.cursor, n)
           /\ \A n \in Nat : [i EXCEPT !.cursor = n] = Moved(i, n, i.offset)
BY DEF Indices, Moved

\* reset() and cursorEndSet().
LEMMA EndsGood ==
    ASSUME NEW i, Good(i)
    PROVE  Good(Reset(i)) /\ Good(CursorEndSet(i))
<1>n. /\ i.win \in Nat /\ i.size \in Nat /\ i.cursor \in Nat /\ i.offset \in Nat
      /\ i.cursor <= HardUbound(i) /\ HardUbound(i) \in Nat
      /\ i.offset = 0 \/ i.offset + i.win <= i.size
  BY GoodNumbers
<1>1. Good(Reset(i))
  <2>1. Reset(i) = Moved(i, 0, 0)
    BY DEF Reset, Moved
  <2> QED
    BY <2>1, MovedGood, <1>n
<1>2. Good(CursorEndSet(i))
  <2>1. CASE Empty(i)
    BY <2>1 DEF CursorEndSet
  <2>2. CASE ~Empty(i)
    <3> DEFINE top == IF i.size > i.win THEN i.size - i.win ELSE 0
    <3>1. top \in Nat /\ (top = 0 \/ top + i.win <= i.size)
      BY GoodNumbers
    <3>2. CursorEndSet(i) = Moved(i, HardUbound(i), top)
      BY <2>2 DEF CursorEndSet, Moved
    <3> HIDE DEF top
    <3> QED
      BY <3>1, <3>2, MovedGood, <1>n
  <2> QED
    BY <2>1, <2>2
<1> QED
  BY <1>1, <1>2

\* The four methods that move one of the two.
LEMMA RowsGood ==
    ASSUME NEW i, Good(i)
    PROVE  Good(IncOffset(i)) /\ Good(DecOffset(i)) /\ Good(IncCursor(i)) /\ Good(DecCursor(i))
           /\ DecOffset(i).size = i.size /\ DecOffset(i).win = i.win
           /\ IncCursor(i).size = i.size
<1>0. i \in Indices
  BY DEF Good
<1>n. /\ i.win \in Nat /\ i.size \in Nat /\ i.cursor \in Nat /\ i.offset \in Nat
      /\ i.cursor <= HardUbound(i) /\ HardUbound(i) \in Nat
      /\ i.offset = 0 \/ i.offset + i.win <= i.size
  BY GoodNumbers
<1>1. Good(IncOffset(i))
  <2>1. CASE EndReached(i)
    BY <2>1 DEF IncOffset
  <2>2. CASE ~EndReached(i)
    <3>1. i.offset + 1 + i.win <= i.size
      BY <2>2, GoodNumbers DEF EndReached
    <3>2. Add(i.offset, 1) = i.offset + 1
      BY GoodNumbers, AddIsPlus
    <3>3. IncOffset(i) = Moved(i, i.cursor, i.offset + 1)
      BY <2>2, <3>2, <1>0, SameMembers, GoodNumbers DEF IncOffset
    <3> QED
      BY <3>1, <3>3, MovedGood, <1>n
  <2> QED
    BY <2>1, <2>2
<1>2. Good(DecOffset(i))
  <2>1. CASE i.offset = 0
    BY <2>1 DEF DecOffset
  <2>2. CASE i.offset # 0
    <3>1. i.offset - 1 \in Nat /\ i.offset - 1 + i.win <= i.size
      BY <2>2, GoodNumbers
    <3>2. DecOffset(i) = Moved(i, i.cursor, i.offset - 1)
      BY <2>2, <3>1, <1>0, SameMembers DEF DecOffset
    <3> QED
      BY <3>1, <3>2, MovedGood, <1>n
  <2> QED
    BY <2>1, <2>2
<1>3. Good(IncCursor(i))
  <2>1. CASE Empty(i) \/ i.cursor = HardUbound(i)
    BY <2>1 DEF IncCursor
  <2>2. CASE ~(Empty(i) \/ i.cursor = HardUbound(i))
    <3>1. i.cursor + 1 <= HardUbound(i)
      BY <2>2, GoodNumbers
    <3>2. Add(i.cursor, 1) = i.cursor + 1
      BY GoodNumbers, AddIsPlus
    <3>3. IncCursor(i) = Moved(i, i.cursor + 1, i.offset)
      BY <2>2, <3>2, <1>0, SameMembers, GoodNumbers DEF IncCursor
    <3> QED
      BY <3>1, <3>3, MovedGood, <1>n
  <2> QED
    BY <2>1, <2>2
<1>4. Good(DecCursor(i))
  <2>1. CASE i.cursor = 0
    BY <2>1 DEF DecCursor
  <2>2. CASE i.cursor # 0
    <3>1. i.cursor - 1 \in Nat /\ i.cursor - 1 <= HardUbound(i)
      BY <2>2, GoodNumbers
    <3>2. DecCursor(i) = Moved(i, i.cursor - 1, i.offset)
      BY <2>2, <3>1, <1>0, SameMembers DEF DecCursor
    <3> QED
      BY <3>1, <3>2, MovedGood, <1>n
  <2> QED
    BY <2>1, <2>2
<1>5. DecOffset(i).size = i.size /\ DecOffset(i).win = i.win /\ IncCursor(i).size = i.size
  BY <1>0 DEF DecOffset, IncCursor, Indices
<1> QED
  BY <1>1, <1>2, <1>3, <1>4, <1>5

\* inc() and dec().
LEMMA MoveGood ==
    ASSUME NEW i, Good(i)
    PROVE  Good(Inc(i)) /\ Good(Dec(i)) /\ Dec(i).size = i.size
<1>0. i \in Indices
  BY DEF Good
<1>1. Inc(i) \in {i, IncOffset(i), IncCursor(i)}
  <2>1. CASE ~Empty(i) /\ i.cursor >= i.ubound /\ ~EndReached(i)
    BY <2>1 DEF Inc, IncOffset
  <2>2. CASE ~Empty(i) /\ ~(i.cursor >= i.ubound /\ ~EndReached(i)) /\ i.cursor < HardUbound(i)
    <3>1. i.cursor # HardUbound(i)
      BY <2>2, GoodNumbers
    <3> QED
      BY <2>2, <3>1 DEF Inc, IncCursor
  <2> QED
    BY <2>1, <2>2 DEF Inc
<1>2. Dec(i) \in {i, DecOffset(i), DecCursor(i)} /\ Dec(i).size = i.size
  BY <1>0 DEF Dec, DecOffset, DecCursor, Indices
<1> QED
  BY <1>1, <1>2, RowsGood

\* currErase() and prevErase().
LEMMA EraseGood ==
    ASSUME NEW i, Good(i)
    PROVE  Good(CurrErase(i)) /\ Good(PrevErase(i))
<1>1. Good(CurrErase(i))
  <2>1. CASE i.size = 0
    BY <2>1 DEF CurrErase
  <2>2. CASE i.size # 0
    <3> DEFINE r == IF EndReached(i) /\ i.size > i.win THEN IncCursor(DecOffset(i)) ELSE i
    <3>1. Good(r)
      BY RowsGood
    <3>2. CurrErase(i) = SizeSet(r, i.size - 1) /\ i.size - 1 \in Nat /\ i.size - 1 <= MaxSize
      BY <2>2, GoodNumbers, RangeAssumption DEF CurrErase
    <3> HIDE DEF r
    <3> QED
      BY <3>1, <3>2, SizeSetGood
  <2> QED
    BY <2>1, <2>2
<1>2. Good(PrevErase(i))
  <2>1. CASE CursorAbs(i) = 0
    BY <2>1 DEF PrevErase
  <2>2. CASE CursorAbs(i) # 0
    <3> DEFINE r == IF EndReached(i) /\ i.size > i.win THEN DecOffset(i) ELSE Dec(i)
    <3>1. Good(r)
      BY RowsGood, MoveGood
    <3>2. i.size # 0
      BY <2>2, HardUboundRow, GoodNumbers, RangeAssumption, WordAssumption DEF CursorAbs, Add
    <3>3. i.size - 1 \in Nat /\ i.size - 1 <= MaxSize /\ Sub(i.size, 1) = i.size - 1
      BY <3>2, GoodNumbers, RangeAssumption DEF Sub
    <3>4. PrevErase(i) = SizeSet(r, i.size - 1)
      BY <2>2, <3>3 DEF PrevErase
    <3> HIDE DEF r
    <3> QED
      BY <3>1, <3>3, <3>4, SizeSetGood
  <2> QED
    BY <2>1, <2>2
<1> QED
  BY <1>1, <1>2

-----------------------------------------------------------------------------
(* The entry under the cursor *)

\* An index in order that shows something: its numbers, and where its cursor is.
LEMMA ShownNumbers ==
    ASSUME NEW i, Good(i), ~Empty(i)
    PROVE  /\ i.win \in Nat /\ i.size \in Nat /\ i.cursor \in Nat /\ i.offset \in Nat
           /\ i.win > 0 /\ i.size > 0
           /\ i.lbound \in Nat /\ i.ubound \in Nat /\ i.lbound < i.win /\ i.ubound < i.win
           /\ i.offset = 0 \/ i.offset + i.win <= i.size
           /\ i.cursor < i.win /\ i.offset + i.cursor < i.size
           /\ CursorAbs(i) = i.offset + i.cursor
           /\ HardUbound(i) = Lower(i.win, i.size) - 1
           /\ EndReached(i) <=> i.offset + i.win >= i.size
<1>1. /\ i.win \in Nat /\ i.size \in Nat /\ i.cursor \in Nat /\ i.offset \in Nat
      /\ i.win # 0 /\ i.size # 0
      /\ i.offset = 0 \/ i.offset + i.win <= i.size
  BY GoodNumbers DEF Empty
<1>2. i.lbound \in Nat /\ i.ubound \in Nat /\ i.lbound < i.win /\ i.ubound < i.win
  BY <1>1, WordAssumption DEF Good, InList, Indices, U32
<1>3. HardUbound(i) = Lower(i.win, i.size) - 1
  BY <1>1 DEF HardUbound
<1>4. HardUbound(i) \in Nat /\ HardUbound(i) < i.win /\ HardUbound(i) < i.size /\ i.cursor <= HardUbound(i)
  BY <1>1, HardUboundRow, GoodNumbers
<1>5. i.cursor < i.win /\ i.offset + i.cursor < i.size
  BY <1>1, <1>4
<1>6. i.offset + i.cursor < Word
  BY <1>1, <1>5, GoodNumbers, RangeAssumption, WordAssumption
<1>7. CursorAbs(i) = i.offset + i.cursor
  BY <1>1, <1>6, AddIsPlus DEF CursorAbs
<1>8. EndReached(i) <=> i.offset + i.win >= i.size
  BY GoodNumbers DEF EndReached
<1> QED
  BY <1>1, <1>2, <1>3, <1>5, <1>7, <1>8

\* operator=(): the cursor stays on its entry, or gets to the last one.
LEMMA SizeSetEntry ==
    ASSUME NEW i, Good(i), ~Empty(i),
           NEW size \in Nat, size # 0, size <= MaxSize, ~Scrolled(i, size)
    PROVE  CursorAbs(SizeSet(i, size)) = Lower(CursorAbs(i), size - 1)
<1> DEFINE r == [i EXCEPT !.size = size]
           s == SizeSet(i, size)
<1>1. /\ i.win \in Nat /\ i.size \in Nat /\ i.cursor \in Nat /\ i.offset \in Nat
      /\ i.win > 0 /\ i.size > 0
      /\ i.offset = 0 \/ i.offset + i.win <= i.size
      /\ i.cursor < i.win /\ i.offset + i.cursor < i.size
      /\ CursorAbs(i) = i.offset + i.cursor
  BY ShownNumbers
<1>2. /\ i \in Indices /\ i.win <= MaxWin /\ i.size <= MaxSize /\ i.offset <= MaxSize
      /\ Add(i.offset, i.win) = i.offset + i.win
  BY GoodNumbers
<1>3. i.offset = 0 \/ i.win <= size
  BY <1>1 DEF Scrolled
<1>4. /\ r \in Indices /\ r.size = size /\ r.win = i.win /\ r.cursor = i.cursor /\ r.offset = i.offset
  BY <1>2, RangeAssumption, WordAssumption DEF Indices, U32
<1>5. Good(s) /\ s.size = size /\ s.win = i.win /\ ~Empty(s)
  BY <1>1, SizeSetGood DEF Empty
<1>6. HardUbound(r) = Lower(i.win, size) - 1
  BY <1>1, <1>4 DEF HardUbound
<1>7. s = SanityCheck(r)
  BY DEF SizeSet
<1>8. CursorAbs(s) = s.offset + s.cursor
  BY <1>5, ShownNumbers
<1> SUFFICES CursorAbs(s) = Lower(CursorAbs(i), size - 1)
  OBVIOUS
<1> HIDE DEF r, s
<1>9. CASE i.offset # 0 /\ i.offset + i.win > size
  <2>1. Sub(i.offset + i.win, size) = i.offset + i.win - size
    BY <1>1, <1>9 DEF Sub
  <2>2. Add(i.cursor, i.offset + i.win - size) = i.cursor + (i.offset + i.win - size)
    <3>1. i.offset + i.win - size \in Nat
      BY <1>1, <1>9
    <3>2. i.cursor + (i.offset + i.win - size) < Word
      BY <1>1, <1>2, <1>9, RangeAssumption, WordAssumption
    <3> QED
      BY <1>1, <3>1, <3>2, AddIsPlus
  <2>3. /\ s.cursor = Lower(i.cursor + (i.offset + i.win - size), Lower(i.win, size) - 1)
        /\ s.offset = IF size > i.win THEN size - i.win ELSE 0
    BY <1>2, <1>4, <1>6, <1>7, <1>9, <2>1, <2>2 DEF SanityCheck, Indices
  <2> QED
    BY <1>1, <1>3, <1>8, <1>9, <2>3 DEF Lower
<1>10. CASE ~(i.offset # 0 /\ i.offset + i.win > size)
  <2>1. s.cursor = Lower(i.cursor, Lower(i.win, size) - 1) /\ s.offset = i.offset
    BY <1>2, <1>4, <1>6, <1>7, <1>10 DEF SanityCheck, Indices
  <2> QED
    BY <1>1, <1>3, <1>8, <1>10, <2>1 DEF Lower
<1> QED
  BY <1>9, <1>10

\* inc() and dec() take one entry at a time, and stop at the ends.
LEMMA MoveEntry ==
    ASSUME NEW i, Good(i)
    PROVE  /\ ~Empty(i) => CursorAbs(Inc(i)) = Lower(CursorAbs(i) + 1, i.size - 1)
           /\ CursorAbs(Dec(i)) = Lower(CursorAbs(i), Sub(CursorAbs(i), 1))
<1>0. i \in Indices
  BY DEF Good
<1>n. /\ i.win \in Nat /\ i.size \in Nat /\ i.cursor \in Nat /\ i.offset \in Nat
      /\ i.cursor + 1 < Word /\ i.offset + 1 < Word
  BY GoodNumbers
<1>m. Add(i.offset, 1) = i.offset + 1 /\ Add(i.cursor, 1) = i.cursor + 1
  BY <1>n, AddIsPlus
<1>1. ASSUME ~Empty(i) PROVE CursorAbs(Inc(i)) = Lower(CursorAbs(i) + 1, i.size - 1)
  <2>1. /\ i.win > 0 /\ i.size > 0
        /\ i.ubound \in Nat /\ i.ubound < i.win
        /\ i.offset = 0 \/ i.offset + i.win <= i.size
        /\ i.cursor < i.win /\ i.offset + i.cursor < i.size
        /\ CursorAbs(i) = i.offset + i.cursor
        /\ HardUbound(i) = Lower(i.win, i.size) - 1
        /\ EndReached(i) <=> i.offset + i.win >= i.size
    BY <1>1, ShownNumbers
  <2>2. Good(Inc(i)) /\ Inc(i).win = i.win /\ Inc(i).size = i.size
    BY <1>0, MoveGood DEF Inc, Indices
  <2>3. CursorAbs(Inc(i)) = Inc(i).offset + Inc(i).cursor
    BY <1>1, <2>2, ShownNumbers DEF Empty
  <2>4. CASE i.cursor >= i.ubound /\ ~EndReached(i)
    <3>1. Inc(i).offset = i.offset + 1 /\ Inc(i).cursor = i.cursor
      BY <1>0, <1>1, <1>m, <2>4 DEF Inc, Indices
    <3> QED
      BY <1>n, <2>1, <2>3, <2>4, <3>1 DEF Lower
  <2>5. CASE ~(i.cursor >= i.ubound /\ ~EndReached(i)) /\ i.cursor < HardUbound(i)
    <3>1. Inc(i).offset = i.offset /\ Inc(i).cursor = i.cursor + 1
      BY <1>0, <1>1, <1>m, <2>5 DEF Inc, Indices
    <3> QED
      BY <1>n, <2>1, <2>3, <2>5, <3>1 DEF Lower
  <2>6. CASE ~(i.cursor >= i.ubound /\ ~EndReached(i)) /\ ~(i.cursor < HardUbound(i))
    <3>1. Inc(i) = i
      BY <1>1, <2>6 DEF Inc
    <3> QED
      BY <1>n, <2>1, <2>6, <3>1 DEF Lower
  <2> QED
    BY <2>4, <2>5, <2>6
<1>2. CursorAbs(Dec(i)) = Lower(CursorAbs(i), Sub(CursorAbs(i), 1))
  <2>0. HardUbound(i) \in Nat /\ i.cursor <= HardUbound(i) /\ HardUbound(i) <= i.win
        /\ i.offset <= MaxSize /\ i.win <= MaxWin
    BY <1>0, GoodNumbers, HardUboundRow
  <2>1. i.offset + i.cursor < Word
    BY <1>n, <2>0, RangeAssumption, WordAssumption
  <2>2. CursorAbs(i) = i.offset + i.cursor
    BY <1>n, <2>1, AddIsPlus DEF CursorAbs
  <2>3. CASE i.cursor <= i.lbound /\ i.offset # 0
    <3>1. Dec(i).offset = i.offset - 1 /\ Dec(i).cursor = i.cursor
      BY <1>0, <2>3 DEF Dec, Indices
    <3>2. CursorAbs(Dec(i)) = i.offset - 1 + i.cursor
      <4>1. i.offset - 1 \in Nat /\ i.offset - 1 + i.cursor < Word
        BY <1>n, <2>1, <2>3, WordAssumption
      <4> QED
        BY <1>n, <3>1, <4>1, AddIsPlus DEF CursorAbs
    <3> QED
      BY <1>n, <2>2, <2>3, <3>2 DEF Lower, Sub
  <2>4. CASE ~(i.cursor <= i.lbound /\ i.offset # 0) /\ i.cursor # 0
    <3>1. Dec(i).offset = i.offset /\ Dec(i).cursor = i.cursor - 1
      BY <1>0, <2>4 DEF Dec, Indices
    <3>2. CursorAbs(Dec(i)) = i.offset + (i.cursor - 1)
      <4>1. i.cursor - 1 \in Nat /\ i.offset + (i.cursor - 1) < Word
        BY <1>n, <2>1, <2>4, WordAssumption
      <4> QED
        BY <1>n, <3>1, <4>1, AddIsPlus DEF CursorAbs
    <3> QED
      BY <1>n, <2>2, <2>4, <3>2 DEF Lower, Sub
  <2>5. CASE ~(i.cursor <= i.lbound /\ i.offset # 0) /\ i.cursor = 0
    <3>1. Dec(i) = i
      BY <2>5 DEF Dec
    <3>2. i.lbound \in Nat
      BY <1>0, WordAssumption DEF Indices, U32
    <3>3. i.offset = 0
      BY <2>5, <3>2
    <3> QED
      BY <1>n, <2>2, <2>5, <3>1, <3>3, WordAssumption DEF Lower, Sub
  <2> QED
    BY <2>3, <2>4, <2>5
<1> QED
  BY <1>1, <1>2

\* operator-=(): what is left of the list is no longer than it was.
LEMMA ShrinkLeaves ==
    ASSUME NEW i, Good(i), NEW num \in Nat
    PROVE  /\ i.size - Lower(num, i.size) \in Nat
           /\ i.size - Lower(num, i.size) <= MaxSize
           /\ Shrink(i, num).size = i.size - Lower(num, i.size)
<1>1. i.size - Lower(num, i.size) \in Nat /\ i.size - Lower(num, i.size) <= MaxSize
  BY GoodNumbers, RangeAssumption DEF Lower
<1> QED
  BY <1>1, SizeSetGood DEF Shrink

\* insert(): what was under the cursor is behind the new entry.
LEMMA InsertEntry ==
    ASSUME NEW i, Good(i), ~Empty(i), i.size < MaxSize
    PROVE  /\ Good(Insert(i)) /\ Insert(i).win = i.win /\ Insert(i).size = i.size + 1
           /\ CursorAbs(Insert(i)) = CursorAbs(i) + 1
<1> DEFINE g == SizeSet(i, i.size + 1)
<1>1. Add(i.size, 1) = i.size + 1 /\ i.size + 1 \in Nat /\ i.size + 1 <= MaxSize
  BY AddIsPlus, GoodNumbers, RangeAssumption, WordAssumption
<1>2. Good(g) /\ g.size = i.size + 1 /\ g.win = i.win
  BY <1>1, SizeSetGood
<1>3. /\ i.win > 0 /\ i.size \in Nat /\ i.size > 0 /\ i.win \in Nat
      /\ i.offset = 0 \/ i.offset + i.win <= i.size
      /\ i.offset \in Nat
      /\ CursorAbs(i) \in Nat /\ CursorAbs(i) < i.size
  BY ShownNumbers
<1>4. ~Scrolled(i, i.size + 1)
  BY <1>3 DEF Scrolled
<1>5. CursorAbs(g) = CursorAbs(i)
  <2>1. CursorAbs(g) = Lower(CursorAbs(i), i.size + 1 - 1)
    BY <1>1, <1>3, <1>4, SizeSetEntry
  <2> QED
    BY <1>3, <2>1 DEF Lower
<1>6. Insert(i) = Inc(g)
  BY <1>1 DEF Insert
<1> HIDE DEF g
<1>7. ~Empty(g)
  BY <1>2, <1>3 DEF Empty
<1>8. CursorAbs(Inc(g)) = Lower(CursorAbs(g) + 1, g.size - 1)
  BY <1>2, <1>7, MoveEntry
<1>9. Good(Inc(g)) /\ Inc(g).win = g.win /\ Inc(g).size = g.size
  BY <1>2, MoveGood DEF Good, Inc, Indices
<1> QED
  BY <1>2, <1>3, <1>5, <1>6, <1>8, <1>9 DEF Lower

\* At the end of a scrolled list an erasure first moves the window up.
LEMMA EndScrolled ==
    ASSUME NEW i, Good(i), ~Empty(i), EndReached(i), i.size > i.win
    PROVE  /\ i.offset > 0 /\ i.offset + i.win = i.size
           /\ Good(DecOffset(i)) /\ ~Empty(DecOffset(i))
           /\ DecOffset(i).offset = i.offset - 1 /\ DecOffset(i).cursor = i.cursor
           /\ DecOffset(i).size = i.size /\ DecOffset(i).win = i.win
           /\ \A j : Good(j) /\ ~Empty(j) /\ j.win = i.win /\ j.size = i.size =>
                        ~Scrolled(j, i.size - 1)
<1>1. /\ i.win \in Nat /\ i.size \in Nat /\ i.cursor \in Nat /\ i.offset \in Nat
      /\ i.offset = 0 \/ i.offset + i.win <= i.size
      /\ EndReached(i) <=> i.offset + i.win >= i.size
  BY ShownNumbers
<1>2. i.offset > 0 /\ i.offset + i.win = i.size
  BY <1>1
<1>3. /\ Good(DecOffset(i)) /\ DecOffset(i).size = i.size /\ DecOffset(i).win = i.win
  BY RowsGood
<1>4. DecOffset(i).offset = i.offset - 1 /\ DecOffset(i).cursor = i.cursor
  BY <1>1, <1>2 DEF Good, DecOffset, Indices
<1> QED
  BY <1>1, <1>2, <1>3, <1>4 DEF Empty, Scrolled

\* An index in order keeps its entry when its list gets shorter by one.
LEMMA ShorterByOne ==
    ASSUME NEW i, Good(i), ~Empty(i), i.size > 1
    PROVE  /\ i.size - 1 \in Nat /\ i.size - 1 # 0 /\ i.size - 1 <= MaxSize
           /\ CursorAbs(SizeSet(i, i.size - 1)) = Lower(CursorAbs(i), i.size - 1 - 1)
<1>1. /\ i.win \in Nat /\ i.size \in Nat /\ i.offset \in Nat
      /\ i.offset = 0 \/ i.offset + i.win <= i.size
  BY ShownNumbers
<1>2. i.size - 1 \in Nat /\ i.size - 1 # 0 /\ i.size - 1 <= MaxSize
  BY <1>1, GoodNumbers, RangeAssumption
<1>3. ~Scrolled(i, i.size - 1)
  BY <1>1 DEF Scrolled
<1> QED
  BY <1>2, <1>3, SizeSetEntry

\* currErase(): the cursor stays where it is, on what follows, or on the last entry.
LEMMA CurrEraseEntry ==
    ASSUME NEW i, Good(i), ~Empty(i), i.size > 1
    PROVE  /\ CurrErase(i).size = i.size - 1
           /\ CursorAbs(CurrErase(i)) = Lower(CursorAbs(i), i.size - 1 - 1)
<1>1. /\ i.win \in Nat /\ i.size \in Nat /\ i.cursor \in Nat /\ i.offset \in Nat
      /\ i.win > 0 /\ i.cursor < i.win /\ i.offset + i.cursor < i.size
      /\ CursorAbs(i) = i.offset + i.cursor
  BY ShownNumbers
<1>2. CASE ~(EndReached(i) /\ i.size > i.win)
  <2>1. CurrErase(i) = SizeSet(i, i.size - 1)
    BY <1>2 DEF CurrErase, Empty
  <2> QED
    BY <2>1, ShorterByOne, SizeSetGood
<1>3. CASE EndReached(i) /\ i.size > i.win
  <2> DEFINE d == DecOffset(i)
             j == IncCursor(d)
  <2>1. /\ i.offset > 0 /\ i.offset + i.win = i.size
        /\ Good(d) /\ ~Empty(d)
        /\ d.offset = i.offset - 1 /\ d.cursor = i.cursor /\ d.size = i.size /\ d.win = i.win
    BY <1>3, EndScrolled
  <2>2. CurrErase(i) = SizeSet(j, i.size - 1)
    BY <1>3 DEF CurrErase, Empty
  <2> HIDE DEF d
  <2>3. Good(j) /\ j.win = d.win /\ j.size = d.size /\ j.offset = d.offset
    BY <2>1, RowsGood DEF Good, IncCursor, Indices
  <2>4. j.cursor = Lower(i.cursor + 1, i.win - 1)
    <3>1. HardUbound(d) = i.win - 1
      BY <1>1, <1>3, <2>1, ShownNumbers DEF Lower
    <3>2. Add(d.cursor, 1) = d.cursor + 1
      BY <2>1, GoodNumbers, AddIsPlus
    <3>3. CASE d.cursor = HardUbound(d)
      BY <1>1, <2>1, <3>1, <3>3 DEF IncCursor, Lower
    <3>4. CASE d.cursor # HardUbound(d)
      <4>1. j.cursor = d.cursor + 1
        BY <2>1, <3>2, <3>4 DEF Good, IncCursor, Indices
      <4> QED
        BY <1>1, <2>1, <3>1, <3>4, <4>1 DEF Lower
    <3> QED
      BY <3>3, <3>4
  <2>5. ~Empty(j) /\ j.size > 1
    BY <2>1, <2>3 DEF Empty
  <2> HIDE DEF j
  <2>6. CursorAbs(j) = j.offset + j.cursor
    BY <2>3, <2>5, ShownNumbers
  <2>7. CursorAbs(SizeSet(j, i.size - 1)) = Lower(CursorAbs(j), i.size - 1 - 1)
        /\ SizeSet(j, i.size - 1).size = i.size - 1
    BY <2>1, <2>3, <2>5, ShorterByOne, SizeSetGood
  <2> QED
    BY <1>1, <2>1, <2>2, <2>3, <2>4, <2>6, <2>7 DEF Lower
<1> QED
  BY <1>2, <1>3

\* prevErase(): the cursor follows its entry up.
LEMMA PrevEraseEntry ==
    ASSUME NEW i, Good(i), ~Empty(i), CursorAbs(i) # 0
    PROVE  /\ PrevErase(i).size = i.size - 1
           /\ CursorAbs(PrevErase(i)) = CursorAbs(i) - 1
<1>1. /\ i.win \in Nat /\ i.size \in Nat /\ i.cursor \in Nat /\ i.offset \in Nat
      /\ i.win > 0 /\ i.cursor < i.win /\ i.offset + i.cursor < i.size
      /\ CursorAbs(i) = i.offset + i.cursor
  BY ShownNumbers
<1>2. i.size > 1 /\ Sub(i.size, 1) = i.size - 1
  BY <1>1 DEF Sub
<1>3. CASE EndReached(i) /\ i.size > i.win
  <2> DEFINE d == DecOffset(i)
  <2>1. /\ i.offset > 0
        /\ Good(d) /\ ~Empty(d)
        /\ d.offset = i.offset - 1 /\ d.cursor = i.cursor /\ d.size = i.size /\ d.win = i.win
    BY <1>3, EndScrolled
  <2>2. PrevErase(i) = SizeSet(d, i.size - 1)
    BY <1>2, <1>3 DEF PrevErase
  <2> HIDE DEF d
  <2>3. CursorAbs(d) = i.offset - 1 + i.cursor
    BY <2>1, ShownNumbers
  <2>4. CursorAbs(SizeSet(d, i.size - 1)) = Lower(CursorAbs(d), i.size - 1 - 1)
        /\ SizeSet(d, i.size - 1).size = i.size - 1
    BY <1>2, <2>1, ShorterByOne, SizeSetGood
  <2> QED
    BY <1>1, <2>1, <2>2, <2>3, <2>4 DEF Lower
<1>4. CASE ~(EndReached(i) /\ i.size > i.win)
  <2> DEFINE d == Dec(i)
  <2>1. Good(d) /\ d.size = i.size /\ d.win = i.win
    BY MoveGood DEF Good, Dec, Indices
  <2>2. CursorAbs(d) = CursorAbs(i) - 1
    <3>1. CursorAbs(d) = Lower(CursorAbs(i), Sub(CursorAbs(i), 1))
      BY MoveEntry
    <3> QED
      BY <1>1, <3>1 DEF Lower, Sub
  <2>3. PrevErase(i) = SizeSet(d, i.size - 1)
    BY <1>2, <1>4 DEF PrevErase
  <2> HIDE DEF d
  <2>4. ~Empty(d)
    BY <2>1 DEF Empty
  <2>5. CursorAbs(SizeSet(d, i.size - 1)) = Lower(CursorAbs(d), i.size - 1 - 1)
        /\ SizeSet(d, i.size - 1).size = i.size - 1
    BY <1>2, <2>1, <2>4, ShorterByOne, SizeSetGood
  <2> QED
    BY <1>1, <2>2, <2>3, <2>5 DEF Lower
<1> QED
  BY <1>3, <1>4

-----------------------------------------------------------------------------
IndexInv == UseTypeOK /\ CursorInList

\* A method that leaves the index in order keeps the invariant.
LEMMA CallKeeps ==
    ASSUME IndexInv, NEW i, Good(i), Call(i)
    PROVE  IndexInv'
BY DEF IndexInv, UseTypeOK, CursorInList, Call, Good

\* The list of a ListIdx is empty when it is made.
LEMMA NewIdxGood == Good(NewIdx)
<1>1. NewIdx \in Indices
  BY WordAssumption DEF NewIdx, Indices, U32, SizeJumpDefault
<1>2. InList(NewIdx)
  BY RangeAssumption DEF NewIdx, InList, HardUbound
<1> QED
  BY <1>1, <1>2 DEF Good

\* A fresh index is in order, whatever its client does next.
LEMMA IndexInit == UseInit => IndexInv
<1> SUFFICES ASSUME UseInit
             PROVE  IndexInv
  OBVIOUS
<1>1. Good(NewIdx)
  BY NewIdxGood
<1>2. 0 \in U32
  BY WordAssumption DEF U32
<1> QED
  BY <1>1, <1>2 DEF UseInit, IndexInv, UseTypeOK, CursorInList, Good

\* Every call of the client keeps the cursor in the list.
LEMMA IndexNext == IndexInv /\ [UseNext]_useVars => IndexInv'
<1> SUFFICES ASSUME IndexInv, [UseNext]_useVars
             PROVE  IndexInv'
  OBVIOUS
<1>0. Good(idx) /\ idx \in Indices
  BY DEF IndexInv, UseTypeOK, CursorInList, Good
<1>1. CASE Window
  BY <1>1, <1>0, WinSetGood, CallKeeps, RangeAssumption DEF Window
<1>2. CASE Size
  BY <1>2, <1>0, SizeSetGood, CallKeeps, RangeAssumption DEF Size
<1>3. CASE Remove
  <2>1. PICK num \in 1 .. MaxSize : Call(Shrink(idx, num))
    BY <1>3 DEF Remove
  <2>2. idx.size - Lower(num, idx.size) \in Nat /\ idx.size - Lower(num, idx.size) <= MaxSize
    BY <1>0, GoodNumbers, RangeAssumption DEF Lower
  <2>3. Good(Shrink(idx, num))
    BY <1>0, <2>2, SizeSetGood DEF Shrink
  <2> QED
    BY <2>1, <2>3, CallKeeps
<1>4. CASE BoundSets
  <2>1. PICK bnd \in U32 : Call(CursorBoundSet(idx, bnd)) \/ Call(CursorLboundSet(idx, bnd))
                           \/ Call(CursorUboundSet(idx, bnd))
    BY <1>4 DEF BoundSets
  <2>2. bnd \in Nat
    BY WordAssumption DEF U32
  <2>3. /\ Good(CursorBoundSet(idx, bnd)) /\ Good(CursorLboundSet(idx, bnd))
        /\ Good(CursorUboundSet(idx, bnd))
    BY <1>0, <2>2, BoundGood, CursorBoundSetGood
  <2> QED
    BY <2>1, <2>3, CallKeeps
<1>5. CASE TextMode
  <2>1. Good(TextModeSet(idx))
    BY <1>0, BoundGood, GoodNumbers DEF TextModeSet
  <2> QED
    BY <1>5, <2>1, CallKeeps DEF TextMode
<1>6. CASE Jump
  <2>1. PICK size \in 0 .. MaxJump : Call(SizeJumpSet(idx, size))
    BY <1>6 DEF Jump
  <2>2. size \in U32 /\ 1 \in U32
    BY UseAssumption, WordAssumption DEF U32
  <2>3. Good(SizeJumpSet(idx, size))
    BY <1>0, <2>2 DEF SizeJumpSet, Good, InList, HardUbound, Indices
  <2> QED
    BY <2>1, <2>3, CallKeeps
<1>7. CASE Ends
  BY <1>7, <1>0, EndsGood, CallKeeps DEF Ends
<1>8. CASE Rows
  BY <1>8, <1>0, RowsGood, CallKeeps DEF Rows
<1>9. CASE MoveKeys
  BY <1>9, <1>0, MoveGood, CallKeeps DEF MoveKeys
<1>10. CASE AppendTo
  <2>1. PICK num \in 1 .. MaxSize :
            idx.size + num <= MaxSize /\ Call(SizeSet(idx, Add(idx.size, num)))
    BY <1>10 DEF AppendTo
  <2>2. Add(idx.size, num) = idx.size + num
    BY <1>0, <2>1, AddIsPlus, GoodNumbers, RangeAssumption, WordAssumption
  <2>3. idx.size + num \in Nat
    BY <1>0, GoodNumbers, RangeAssumption
  <2> QED
    BY <1>0, <2>1, <2>2, <2>3, SizeSetGood, CallKeeps
<1>11. CASE InsertAt
  <2>1. Add(idx.size, 1) = idx.size + 1 /\ idx.size + 1 \in Nat /\ idx.size + 1 <= MaxSize
    BY <1>0, <1>11, AddIsPlus, GoodNumbers, RangeAssumption, WordAssumption DEF InsertAt
  <2>2. Good(Insert(idx))
    BY <1>0, <2>1, SizeSetGood, MoveGood DEF Insert
  <2> QED
    BY <1>11, <2>2, CallKeeps DEF InsertAt
<1>12. CASE EraseAt
  BY <1>12, <1>0, EraseGood, CallKeeps DEF EraseAt
<1>13. CASE EraseLeft
  BY <1>13, <1>0, EraseGood, CallKeeps DEF EraseLeft
<1>14. CASE JumpStart
  BY <1>14, <1>0 DEF JumpStart, IndexInv, UseTypeOK, CursorInList, Indices
<1>15. CASE JumpTurn
  <2>1. Good(idx')
    BY <1>15, <1>0, MoveGood DEF JumpTurn
  <2>2. turns' \in U32 /\ down' \in BOOLEAN
    BY <1>15, WordAssumption DEF JumpTurn, IndexInv, UseTypeOK, U32
  <2> QED
    BY <2>1, <2>2 DEF IndexInv, UseTypeOK, CursorInList, Good
<1>16. CASE UNCHANGED useVars
  BY <1>16 DEF useVars, IndexInv, UseTypeOK, CursorInList
<1> QED
  BY <1>1, <1>2, <1>3, <1>4, <1>5, <1>6, <1>7, <1>8, <1>9, <1>10, <1>11, <1>12, <1>13,
     <1>14, <1>15, <1>16 DEF UseNext

\* The invariant holds in every state.
LEMMA IndexAlways == UseSpec => []IndexInv
  BY IndexInit, IndexNext, PTL DEF UseSpec

\* The invariant, for every bound on window and list: cursor() and cursorAbs()
\* (ListIdx.cpp:204-212) always index what is shown and what is there.
THEOREM CursorStaysInList == UseSpec => []CursorInList
  BY IndexAlways, PTL DEF IndexInv

\* What EntryKept says of a step.
LEMMA EntryStep ==
    ASSUME IndexInv, idx.win # 0
    PROVE  /\ (/\ AppendTo \/ Remove \/ Size
               /\ idx.size # 0 /\ idx'.size # 0 /\ ~Scrolled(idx, idx'.size)) =>
                 CursorAbs(idx') = Lower(CursorAbs(idx), idx'.size - 1)
           /\ InsertAt /\ idx.size # 0 => CursorAbs(idx') = CursorAbs(idx) + 1
           /\ EraseLeft /\ CursorAbs(idx) # 0 => CursorAbs(idx') = CursorAbs(idx) - 1
           /\ EraseAt /\ idx.size > 1 => CursorAbs(idx') = Lower(CursorAbs(idx), idx'.size - 1)
<1>0. Good(idx) /\ idx.size \in Nat
  BY GoodNumbers DEF IndexInv, UseTypeOK, CursorInList, Good
<1>1. ASSUME AppendTo \/ Remove \/ Size, idx.size # 0, idx'.size # 0, ~Scrolled(idx, idx'.size)
      PROVE  CursorAbs(idx') = Lower(CursorAbs(idx), idx'.size - 1)
  <2>1. ASSUME NEW size \in Nat, size <= MaxSize, idx' = SizeSet(idx, size)
        PROVE  CursorAbs(idx') = Lower(CursorAbs(idx), idx'.size - 1)
    <3>1. idx'.size = size
      BY <1>0, <2>1, SizeSetGood
    <3> QED
      BY <1>0, <1>1, <2>1, <3>1, SizeSetEntry DEF Empty
  <2>2. CASE AppendTo
    <3>1. PICK num \in 1 .. MaxSize :
              idx.size + num <= MaxSize /\ idx' = SizeSet(idx, Add(idx.size, num))
      BY <2>2 DEF AppendTo, Call
    <3>2. Add(idx.size, num) = idx.size + num
      BY <1>0, <3>1, AddIsPlus, RangeAssumption, WordAssumption
    <3> QED
      BY <1>0, <2>1, <3>1, <3>2
  <2>3. CASE Remove
    <3>1. PICK num \in 1 .. MaxSize : idx' = Shrink(idx, num)
      BY <2>3 DEF Remove, Call
    <3> QED
      BY <1>0, <2>1, <3>1, ShrinkLeaves, RangeAssumption DEF Shrink
  <2>4. CASE Size
    BY <2>1, <2>4, RangeAssumption DEF Size, Call
  <2> QED
    BY <1>1, <2>2, <2>3, <2>4
<1>2. ASSUME InsertAt, idx.size # 0 PROVE CursorAbs(idx') = CursorAbs(idx) + 1
  BY <1>0, <1>2, InsertEntry DEF InsertAt, Call, Empty
<1>3. ASSUME EraseLeft, CursorAbs(idx) # 0 PROVE CursorAbs(idx') = CursorAbs(idx) - 1
  <2>1. idx.size # 0
    <3> SUFFICES ASSUME idx.size = 0 PROVE FALSE
      OBVIOUS
    <3>1. /\ idx.cursor \in Nat /\ idx.offset \in Nat /\ idx.win \in Nat
          /\ idx.cursor <= HardUbound(idx) /\ HardUbound(idx) = 0
          /\ idx.offset = 0 \/ idx.offset + idx.win <= 0
      BY <1>0, GoodNumbers DEF HardUbound
    <3>2. idx.cursor = 0 /\ idx.offset = 0
      BY <3>1
    <3> QED
      BY <1>3, <3>2, AddIsPlus, WordAssumption DEF CursorAbs
  <2> QED
    BY <1>0, <1>3, <2>1, PrevEraseEntry DEF EraseLeft, Call, Empty
<1>4. ASSUME EraseAt, idx.size > 1 PROVE CursorAbs(idx') = Lower(CursorAbs(idx), idx'.size - 1)
  BY <1>0, <1>4, CurrEraseEntry DEF EraseAt, Call, Empty
<1> QED
  BY <1>1, <1>2, <1>3, <1>4

\* For every window and list: whatever is inserted, erased, appended or cut off, the
\* cursor stays on the entry it was on (ListIdx.cpp:75-103 and 401-466).
THEOREM EntryStaysUnderCursor == UseSpec => EntryKept
<1>1. IndexInv => [ idx.win # 0 =>
          /\ (/\ AppendTo \/ Remove \/ Size
              /\ idx.size # 0 /\ idx'.size # 0 /\ ~Scrolled(idx, idx'.size)) =>
                CursorAbs(idx') = Lower(CursorAbs(idx), idx'.size - 1)
          /\ InsertAt /\ idx.size # 0 => CursorAbs(idx') = CursorAbs(idx) + 1
          /\ EraseLeft /\ CursorAbs(idx) # 0 => CursorAbs(idx') = CursorAbs(idx) - 1
          /\ EraseAt /\ idx.size > 1 => CursorAbs(idx') = Lower(CursorAbs(idx), idx'.size - 1)
        ]_useVars
  BY EntryStep
<1> QED
  BY <1>1, IndexAlways, PTL DEF EntryKept

\* incJump() and decJump() go from entry to entry, for every window, bound and list.
THEOREM CursorMovesByOne == UseSpec => MovesByOne
<1>1. IndexInv => [
          /\ JumpTurn /\ down /\ ~Empty(idx) => CursorAbs(idx') = Lower(CursorAbs(idx) + 1, idx.size - 1)
          /\ JumpTurn /\ ~down => CursorAbs(idx') = Lower(CursorAbs(idx), Sub(CursorAbs(idx), 1))
        ]_useVars
  BY MoveEntry DEF IndexInv, UseTypeOK, CursorInList, Good, JumpTurn
<1> QED
  BY <1>1, IndexAlways, PTL DEF MovesByOne

-----------------------------------------------------------------------------
(* TextBox: pieces of a text *)

\* What was put together can be taken apart.
LEMMA PiecesOfConcat ==
    ASSUME NEW S, NEW u \in Seq(S), NEW v \in Seq(S)
    PROVE  /\ u \o v \in Seq(S) /\ Len(u \o v) = Len(u) + Len(v)
           /\ SubSeq(u \o v, 1, Len(u)) = u
           /\ SubSeq(u \o v, Len(u) + 1, Len(u) + Len(v)) = v
<1> DEFINE w == u \o v
           p == SubSeq(w, 1, Len(u))
           q == SubSeq(w, Len(u) + 1, Len(u) + Len(v))
<1>1. /\ w \in Seq(S) /\ Len(w) = Len(u) + Len(v) /\ Len(u) \in Nat /\ Len(v) \in Nat
      /\ \A i \in 1 .. Len(u) + Len(v) : w[i] = IF i <= Len(u) THEN u[i] ELSE v[i - Len(u)]
  BY ConcatProperties
<1> HIDE DEF w
<1>2. \A i \in 1 .. Len(u) + Len(v) : w[i] \in S
  BY <1>1
<1>3. p = u
  <2>1. /\ p \in Seq(S) /\ Len(p) = IF 1 <= Len(u) THEN Len(u) - 1 + 1 ELSE 0
        /\ \A i \in 1 .. Len(u) - 1 + 1 : p[i] = w[1 + i - 1]
    BY <1>1, <1>2, SubSeqProperties
  <2> HIDE DEF p
  <2>2. Len(p) = Len(u) /\ \A i \in 1 .. Len(u) : p[i] = u[i]
    BY <1>1, <2>1
  <2> QED
    BY <2>1, <2>2, SeqEqual
<1>4. q = v
  <2>1. /\ q \in Seq(S)
        /\ Len(q) = IF Len(u) + 1 <= Len(u) + Len(v) THEN Len(u) + Len(v) - (Len(u) + 1) + 1 ELSE 0
        /\ \A i \in 1 .. Len(u) + Len(v) - (Len(u) + 1) + 1 : q[i] = w[Len(u) + 1 + i - 1]
    BY <1>1, <1>2, SubSeqProperties
  <2> HIDE DEF q
  <2>2. Len(q) = Len(v)
    BY <1>1, <2>1
  <2>3. ASSUME NEW i \in 1 .. Len(v) PROVE q[i] = v[i]
    <3>1. /\ i \in 1 .. Len(u) + Len(v) - (Len(u) + 1) + 1 /\ Len(u) + 1 + i - 1 = Len(u) + i
          /\ Len(u) + i \in 1 .. Len(u) + Len(v) /\ ~(Len(u) + i <= Len(u)) /\ Len(u) + i - Len(u) = i
      BY <1>1
    <3>2. q[i] = w[Len(u) + i]
      BY <2>1, <3>1
    <3> QED
      BY <1>1, <3>1, <3>2
  <2> QED
    BY <2>1, <2>2, <2>3, SeqEqual
<1> QED
  BY <1>1, <1>3, <1>4 DEF w

\* A piece from the start, and one up to the end.
LEMMA PieceLength ==
    ASSUME NEW S, NEW s \in Seq(S), NEW n \in 0 .. Len(s)
    PROVE  /\ SubSeq(s, 1, n) \in Seq(S) /\ Len(SubSeq(s, 1, n)) = n
           /\ SubSeq(s, n + 1, Len(s)) \in Seq(S) /\ Len(SubSeq(s, n + 1, Len(s))) = Len(s) - n
<1>1. Len(s) \in Nat /\ n \in Nat /\ n <= Len(s) /\ \A i \in 1 .. Len(s) : s[i] \in S
  OBVIOUS
<1>2. /\ SubSeq(s, 1, n) \in Seq(S)
      /\ Len(SubSeq(s, 1, n)) = IF 1 <= n THEN n - 1 + 1 ELSE 0
  BY <1>1, SubSeqProperties
<1>3. /\ SubSeq(s, n + 1, Len(s)) \in Seq(S)
      /\ Len(SubSeq(s, n + 1, Len(s))) = IF n + 1 <= Len(s) THEN Len(s) - (n + 1) + 1 ELSE 0
  BY <1>1, SubSeqProperties
<1> QED
  BY <1>1, <1>2, <1>3

\* u32string::erase(): what is before and behind stays.
LEMMA RemovedText ==
    ASSUME NEW S, NEW s \in Seq(S), NEW from \in Nat, NEW num \in Nat, from + num <= Len(s)
    PROVE  /\ Removed(s, from, num) \in Seq(S) /\ Len(Removed(s, from, num)) = Len(s) - num
           /\ SubSeq(Removed(s, from, num), 1, from) = SubSeq(s, 1, from)
           /\ SubSeq(Removed(s, from, num), from + 1, Len(s) - num)
                 = SubSeq(s, from + num + 1, Len(s))
<1> DEFINE fore == SubSeq(s, 1, from)
           aft == SubSeq(s, from + num + 1, Len(s))
<1>1. from \in 0 .. Len(s) /\ from + num \in 0 .. Len(s) /\ Len(s) \in Nat
  OBVIOUS
<1>2. fore \in Seq(S) /\ Len(fore) = from /\ aft \in Seq(S) /\ Len(aft) = Len(s) - (from + num)
  BY <1>1, PieceLength
<1>3. Removed(s, from, num) = fore \o aft
  BY DEF Removed
<1>4. fore = SubSeq(s, 1, from) /\ aft = SubSeq(s, from + num + 1, Len(s))
  OBVIOUS
<1> HIDE DEF fore, aft
<1>5. Len(fore) + Len(aft) = Len(s) - num
  BY <1>1, <1>2
<1>6. fore \in Seq(S) /\ aft \in Seq(S)
  BY <1>2
<1>7. /\ fore \o aft \in Seq(S) /\ Len(fore \o aft) = Len(fore) + Len(aft)
      /\ SubSeq(fore \o aft, 1, Len(fore)) = fore
      /\ SubSeq(fore \o aft, Len(fore) + 1, Len(fore) + Len(aft)) = aft
  BY <1>6, PiecesOfConcat
<1> QED
  BY <1>2, <1>3, <1>4, <1>5, <1>7

\* The same for a single character, as backspace and delete take it.
LEMMA OneRemoved ==
    ASSUME NEW S, NEW s \in Seq(S), NEW from \in Nat, from + 1 <= Len(s)
    PROVE  Removed(s, from, 1) \in Seq(S) /\ Len(Removed(s, from, 1)) = Len(s) - 1
<1>1. 1 \in Nat
  OBVIOUS
<1> QED
  BY <1>1, RemovedText

\* u32string::insert(): what is before and behind stays.
LEMMA InsertedText ==
    ASSUME NEW S, NEW s \in Seq(S), NEW t \in Seq(S), NEW at \in 0 .. Len(s)
    PROVE  /\ Inserted(s, at, t) \in Seq(S) /\ Len(Inserted(s, at, t)) = Len(s) + Len(t)
           /\ SubSeq(Inserted(s, at, t), 1, at) = SubSeq(s, 1, at)
           /\ SubSeq(Inserted(s, at, t), at + Len(t) + 1, Len(s) + Len(t))
                 = SubSeq(s, at + 1, Len(s))
<1> DEFINE fore == SubSeq(s, 1, at)
           aft == SubSeq(s, at + 1, Len(s))
           head == fore \o t
<1>1. at \in Nat /\ Len(s) \in Nat /\ Len(t) \in Nat /\ at <= Len(s)
  OBVIOUS
<1>2. fore \in Seq(S) /\ Len(fore) = at /\ aft \in Seq(S) /\ Len(aft) = Len(s) - at
  BY PieceLength
<1>3. Inserted(s, at, t) = head \o aft /\ head = fore \o t
  BY DEF Inserted
<1>4. fore = SubSeq(s, 1, at) /\ aft = SubSeq(s, at + 1, Len(s))
  OBVIOUS
<1> HIDE DEF fore, aft, head
<1>c. fore \in Seq(S) /\ aft \in Seq(S)
  BY <1>2
<1>5. head \in Seq(S) /\ Len(head) = Len(fore) + Len(t)
  BY <1>2, <1>3, PiecesOfConcat
<1>e. (fore \o t) \o aft = fore \o (t \o aft)
  BY <1>c, ConcatAssociative, SMTT(30)
<1>6. Inserted(s, at, t) = fore \o (t \o aft)
  BY <1>3, <1>e
<1>7. t \o aft \in Seq(S)
  BY <1>2, PiecesOfConcat
<1>8. SubSeq(fore \o (t \o aft), 1, Len(fore)) = fore
  BY <1>c, <1>7, PiecesOfConcat
<1>d. head \in Seq(S)
  BY <1>5
<1>9. /\ head \o aft \in Seq(S) /\ Len(head \o aft) = Len(head) + Len(aft)
      /\ SubSeq(head \o aft, Len(head) + 1, Len(head) + Len(aft)) = aft
  BY <1>c, <1>d, PiecesOfConcat
<1>10. Len(head) = at + Len(t) /\ Len(head) + Len(aft) = Len(s) + Len(t)
  BY <1>1, <1>2, <1>5
<1> QED
  BY <1>2, <1>3, <1>4, <1>6, <1>8, <1>9, <1>10

-----------------------------------------------------------------------------
(* TextBox: its two indices *)

\* An index after a method that changes neither window nor list.
Kept(i, j) == Good(j) /\ j.win = i.win /\ j.size = i.size

\* The methods that do not.
LEMMA MethodsKeep ==
    ASSUME NEW i, Good(i)
    PROVE  /\ Kept(i, i) /\ Kept(i, Reset(i)) /\ Kept(i, CursorEndSet(i))
           /\ Kept(i, Inc(i)) /\ Kept(i, Dec(i))
           /\ \A bnd \in U32 : Kept(i, CursorBoundSet(i, bnd))
<1>1. i \in Indices
  BY DEF Good
<1>2. Kept(i, i) /\ Kept(i, Reset(i)) /\ Kept(i, CursorEndSet(i))
  BY <1>1, EndsGood DEF Kept, Reset, CursorEndSet, Indices
<1>3. Kept(i, Inc(i)) /\ Kept(i, Dec(i))
  BY <1>1, MoveGood DEF Kept, Inc, Dec, Indices
<1>4. ASSUME NEW bnd \in U32 PROVE Kept(i, CursorBoundSet(i, bnd))
  <2>1. Good(CursorBoundSet(i, bnd))
    BY <1>4, CursorBoundSetGood
  <2>2. CursorBoundSet(i, bnd).win = i.win /\ CursorBoundSet(i, bnd).size = i.size
    BY <1>1 DEF CursorBoundSet, CursorUboundSet, CursorLboundSet, Indices
  <2> QED
    BY <2>1, <2>2 DEF Kept
<1> QED
  BY <1>2, <1>3, <1>4

\* winSet() takes the window it is given and leaves the list.
LEMMA WinSetKeeps ==
    ASSUME NEW i, Good(i), NEW win \in Nat, win <= MaxWin
    PROVE  Good(WinSet(i, win)) /\ WinSet(i, win).win = win /\ WinSet(i, win).size = i.size
<1> DEFINE r == [i EXCEPT !.win = win]
           c == SanityCheck(r)
<1>1. i \in Indices /\ win \in U32
  BY RangeAssumption, WordAssumption DEF Good, U32
<1>2. r.win = win /\ r.size = i.size
  BY <1>1 DEF Indices
<1>3. Held(r)
  <2>1. Held(i)
    BY GoodIsHeld
  <2> QED
    BY <1>1, <2>1 DEF Held, Indices
<1>4. c \in Indices /\ c.win = win /\ c.size = i.size
  BY <1>2, <1>3, SanityCheckInRow
<1>5. WinSet(i, win).win = c.win /\ WinSet(i, win).size = c.size
  <2> HIDE DEF c
  <2>1. \A a, b : /\ CursorUboundSet(CursorLboundSet(c, a), b).win = c.win
                  /\ CursorUboundSet(CursorLboundSet(c, a), b).size = c.size
    BY <1>4 DEF CursorUboundSet, CursorLboundSet, Indices
  <2> QED
    BY <2>1 DEF WinSet, c
<1> QED
  BY <1>4, <1>5, WinSetGood

\* The two erase methods leave the window.
LEMMA EraseWindow ==
    ASSUME NEW i, Good(i)
    PROVE  CurrErase(i).win = i.win /\ PrevErase(i).win = i.win
<1>1. i \in Indices /\ i.size \in Nat /\ i.win \in Nat
  BY GoodNumbers
<1>2. \A j, size : SizeSet(j, size).win = [j EXCEPT !.size = size].win
  BY DEF SizeSet, SanityCheck
<1>3. /\ Good(DecOffset(i)) /\ DecOffset(i).win = i.win
      /\ Good(Dec(i)) /\ Dec(i).win = i.win
  BY <1>1, RowsGood, MoveGood DEF Dec, Indices
<1>4. Good(IncCursor(DecOffset(i))) /\ IncCursor(DecOffset(i)).win = i.win
  BY <1>1, <1>3, RowsGood DEF IncCursor, Good, Indices
<1> QED
  BY <1>1, <1>2, <1>3, <1>4 DEF CurrErase, PrevErase, Good, Indices

\* A cursor that is shown is at a character or right behind the last one.
LEMMA CursorInText ==
    ASSUME NEW i, Good(i), i.win # 0, i.size # 0
    PROVE  CursorAbs(i) \in Nat /\ CursorAbs(i) < i.size /\ i.size \in Nat /\ i.size <= MaxSize
<1>1. ~Empty(i)
  BY DEF Empty
<1> QED
  BY <1>1, ShownNumbers, GoodNumbers

-----------------------------------------------------------------------------
(* TextBox: both indices stay in step with the text *)

\* No width leaves the text without a column (a width of 4 does, with frame and padding).
AlwaysShown == WidthDefault # 4 /\ 4 \notin Widths

Loops == [pc : {"idle", "from", "to", "page", "word", "replace", "endless"},
          turns : Int, at : Int, right : BOOLEAN, shift : BOOLEAN, changed : BOOLEAN]

\* The loops during which nothing but a cursor moves, and the state between two calls.
Resting == {"idle", "from", "to", "page", "word"}

BoxTypes ==
    /\ Good(front) /\ Good(back) /\ front.win # 0 /\ back.win = front.win
    /\ work \in Seq(Chars) /\ current \in Seq(Chars) /\ Len(current) < MaxSize
    /\ focus \in BOOLEAN /\ width \in 5 .. MaxWin /\ frame \in BOOLEAN /\ padding \in BOOLEAN
    /\ loop \in Loops

\* A box that was cut while it had not the focus has an index of its old text.
InStep == \/ ~focus /\ current = <<>>
          \/ front.size = Len(Edited) + 1 /\ back.size = Len(Edited) + 1

\* What a loop has still to do is what the front index is behind the text; a loop
\* without an end has no use for it.
LoopInv ==
    /\ loop.pc \in Resting => InStep /\ Len(work) < MaxSize
    /\ loop.pc \in {"page", "word"} => focus
    /\ loop.pc = "replace" => /\ focus /\ loop.turns >= 0 /\ Len(work) < MaxSize
                              /\ front.size # 0 /\ front.size + loop.turns = Len(work) + 1
    /\ loop.pc = "endless" => Len(work) > LenMax

BoxInv == BoxTypes /\ LoopInv

\* A loop as it begins.
LEMMA LoopBegins ==
    /\ Idle \in Loops /\ Idle.pc = "idle"
    /\ \A pc \in Resting \cup {"replace", "endless"} :
          Running(pc) \in Loops /\ Running(pc).pc = pc
<1>1. Idle \in Loops /\ Idle.pc = "idle"
  BY DEF Idle, Loops
<1> QED
  BY <1>1 DEF Running, Loops, Resting

\* A turn of a loop over pages.
LEMMA LoopGoesOn ==
    ASSUME NEW l \in Loops, NEW n \in Int, NEW ch \in BOOLEAN
    PROVE  /\ [l EXCEPT !.turns = n, !.changed = ch] \in Loops
           /\ [l EXCEPT !.turns = n, !.changed = ch].pc = l.pc
BY DEF Loops

\* A step between two changes of the text: only cursors, and the loop.
LEMMA BoxKeeps ==
    ASSUME BoxInv, loop.pc \in Resting,
           Kept(front, front'), Kept(back, back'), UNCHANGED <<work, current, focus, layout>>,
           loop' \in Loops, loop'.pc \in Resting, loop'.pc \in {"page", "word"} => focus
    PROVE  BoxInv'
<1>1. BoxTypes'
  BY DEF BoxInv, BoxTypes, Kept, layout
<1>2. InStep' /\ Len(work') < MaxSize
  BY DEF BoxInv, LoopInv, InStep, Edited, Kept
<1>3. loop'.pc \notin {"replace", "endless"}
  BY DEF Resting
<1> QED
  BY <1>1, <1>2, <1>3 DEF BoxInv, LoopInv

\* The selection of a focused box, and what is left without it.
lowAbs  == CursorAbs(IdxLow)
highAbs == CursorAbs(IdxHigh)
cutText == Removed(work, lowAbs, highAbs - lowAbs)
cutIdx  == SizeSet(IdxLow, Len(cutText) + 1)

\* What selectionReplace() begins with (TextBox.cpp:472-485).
LEMMA Selected ==
    ASSUME BoxInv, focus, loop.pc \in Resting
    PROVE  /\ Len(work) \in Nat /\ Len(work) < MaxSize
           /\ lowAbs \in Nat /\ highAbs \in Nat /\ lowAbs <= highAbs /\ highAbs <= Len(work)
           /\ Good(IdxLow) /\ IdxLow.win = front.win /\ ~Empty(IdxLow)
           /\ cutText \in Seq(Chars) /\ Len(cutText) = Len(work) - (highAbs - lowAbs)
           /\ Good(cutIdx) /\ cutIdx.win = front.win /\ cutIdx.size = Len(cutText) + 1
           /\ CursorAbs(cutIdx) \in 0 .. Len(cutText)
           /\ ~Scrolled(IdxLow, Len(cutText) + 1) => CursorAbs(cutIdx) = lowAbs
<1>1. /\ Good(front) /\ Good(back) /\ front.win # 0 /\ back.win = front.win
      /\ front.size = Len(work) + 1 /\ back.size = Len(work) + 1
      /\ work \in Seq(Chars) /\ Len(work) \in Nat /\ Len(work) < MaxSize
  BY DEF BoxInv, BoxTypes, LoopInv, InStep, Edited
<1>2. /\ CursorAbs(front) \in Nat /\ CursorAbs(front) <= Len(work)
      /\ CursorAbs(back) \in Nat /\ CursorAbs(back) <= Len(work)
  BY <1>1, CursorInText
<1>3. /\ lowAbs \in Nat /\ highAbs \in Nat /\ lowAbs <= highAbs /\ highAbs <= Len(work)
      /\ Good(IdxLow) /\ IdxLow.win = front.win /\ IdxLow.size = Len(work) + 1 /\ ~Empty(IdxLow)
  <2>1. CASE CursorAbs(front) > CursorAbs(back)
    BY <1>1, <1>2, <2>1 DEF lowAbs, highAbs, IdxLow, IdxHigh, Empty
  <2>2. CASE ~(CursorAbs(front) > CursorAbs(back))
    BY <1>1, <1>2, <2>2 DEF lowAbs, highAbs, IdxLow, IdxHigh, Empty
  <2> QED
    BY <2>1, <2>2
<1>4. highAbs - lowAbs \in Nat /\ lowAbs + (highAbs - lowAbs) <= Len(work)
  BY <1>3
<1>5. cutText \in Seq(Chars) /\ Len(cutText) = Len(work) - (highAbs - lowAbs)
  BY <1>1, <1>3, <1>4, RemovedText DEF cutText
<1>6. Len(cutText) \in Nat /\ Len(cutText) + 1 <= MaxSize /\ Len(cutText) + 1 # 0 /\ lowAbs <= Len(cutText)
  BY <1>1, <1>3, <1>5, RangeAssumption
<1>7. Good(cutIdx) /\ cutIdx.win = front.win /\ cutIdx.size = Len(cutText) + 1
  BY <1>3, <1>6, SizeSetGood DEF cutIdx
<1>8. CursorAbs(cutIdx) \in 0 .. Len(cutText)
  BY <1>1, <1>6, <1>7, CursorInText
<1>9. ASSUME ~Scrolled(IdxLow, Len(cutText) + 1) PROVE CursorAbs(cutIdx) = lowAbs
  <2>1. CursorAbs(cutIdx) = Lower(lowAbs, Len(cutText) + 1 - 1)
    BY <1>3, <1>6, <1>9, SizeSetEntry DEF cutIdx, lowAbs
  <2> QED
    BY <1>3, <1>6, <2>1 DEF Lower
<1> QED
  BY <1>1, <1>3, <1>5, <1>7, <1>8, <1>9

\* erase() and insert() of selectionReplace() are given positions in the text.
LEMMA NeverThrows ==
    ASSUME BoxInv, focus, loop.pc \in Resting
    PROVE  CanReplace /\ InText(IdxLow) /\ InText(front)
<1>1. InText(IdxLow)
  BY Selected DEF InText, lowAbs
<1>2. CursorAbs(SizeSet(IdxLow, Len(cutText) + 1)) <= Len(cutText)
  BY Selected DEF cutIdx
<1>3. InText(front)
  <2>1. Good(front) /\ front.win # 0 /\ front.size = Len(work) + 1 /\ Len(work) \in Nat
    BY DEF BoxInv, BoxTypes, LoopInv, InStep, Edited
  <2> QED
    BY <2>1, CursorInText DEF InText
<1> QED
  BY <1>1, <1>2, <1>3 DEF CanReplace, cutText, lowAbs, highAbs

\* What selectionReplace() leaves: the text as it will be, and a front index that the
\* loop has still to take behind what is new.
LEMMA ReplaceLeaves ==
    ASSUME BoxInv, focus, loop.pc \in Resting, NEW t \in Seq(Chars), SelectionReplace(t)
    PROVE  \E new \in Seq(Chars) :
             /\ work' = Inserted(cutText, CursorAbs(cutIdx), new)
             /\ work' \in Seq(Chars) /\ Len(work') = Len(cutText) + Len(new)
             /\ front' = cutIdx /\ back' = cutIdx /\ loop' \in Loops
             /\ \/ loop'.pc = "endless" /\ Len(work') > LenMax
                \/ loop'.pc = "replace" /\ Len(work') <= LenMax /\ loop'.turns = Len(new)
<1> DEFINE room == IF Len(cutText) > LenMax THEN Len(t) ELSE LenMax - Len(cutText)
           new  == SubSeq(t, 1, Lower(Len(t), room))
<1>1. /\ cutText \in Seq(Chars) /\ Len(cutText) \in Nat
      /\ CursorAbs(cutIdx) \in 0 .. Len(cutText)
  BY Selected
<1>2. Len(t) \in Nat /\ LenMax \in Nat
  BY TextAssumption
<1>3. Lower(Len(t), room) \in 0 .. Len(t)
  BY <1>1, <1>2 DEF Lower
<1>4. new \in Seq(Chars) /\ Len(new) = Lower(Len(t), room)
  BY <1>3, PieceLength
<1>5. /\ work' = Inserted(cutText, CursorAbs(cutIdx), new)
      /\ front' = cutIdx /\ back' = cutIdx
      /\ loop' = IF Len(cutText) > LenMax THEN Running("endless")
                 ELSE [Running("replace") EXCEPT !.turns = Len(new)]
  BY DEF SelectionReplace, cutText, cutIdx, lowAbs, highAbs
<1>6. ~(Len(cutText) > LenMax) => Len(cutText) + Len(new) <= LenMax
  BY <1>1, <1>2, <1>4 DEF Lower
<1> HIDE DEF new, room
<1>7. work' \in Seq(Chars) /\ Len(work') = Len(cutText) + Len(new)
  BY <1>1, <1>4, <1>5, InsertedText
<1>8. Len(new) \in Nat
  BY <1>4
<1>9. CASE Len(cutText) > LenMax
  <2>1. loop' = Running("endless")
    BY <1>5, <1>9
  <2>2. loop' \in Loops /\ loop'.pc = "endless"
    BY <2>1, LoopBegins
  <2>3. Len(work') > LenMax
    BY <1>1, <1>2, <1>7, <1>8, <1>9
  <2> QED
    BY <1>4, <1>5, <1>7, <2>2, <2>3
<1>10. CASE ~(Len(cutText) > LenMax)
  <2>1. loop' = [Running("replace") EXCEPT !.turns = Len(new)]
    BY <1>5, <1>10
  <2>2. loop' \in Loops /\ loop'.pc = "replace" /\ loop'.turns = Len(new)
    BY <1>8, <2>1, LoopBegins DEF Loops
  <2> QED
    BY <1>4, <1>5, <1>6, <1>7, <1>10, <2>2
<1> QED
  BY <1>9, <1>10

\* selectionReplace() keeps the box in step, and ends in its loop or in none.
LEMMA ReplaceStep ==
    ASSUME BoxInv, focus, loop.pc \in Resting, NEW t \in Seq(Chars), SelectionReplace(t),
           UNCHANGED <<current, focus, layout>>
    PROVE  BoxInv'
<1>1. PICK new \in Seq(Chars) :
          /\ work' \in Seq(Chars) /\ Len(work') = Len(cutText) + Len(new)
          /\ front' = cutIdx /\ back' = cutIdx /\ loop' \in Loops
          /\ \/ loop'.pc = "endless" /\ Len(work') > LenMax
             \/ loop'.pc = "replace" /\ Len(work') <= LenMax /\ loop'.turns = Len(new)
  BY ReplaceLeaves
<1>2. /\ Good(cutIdx) /\ cutIdx.win = front.win /\ cutIdx.size = Len(cutText) + 1
      /\ Len(cutText) \in Nat
  BY Selected
<1>3. BoxTypes'
  BY <1>1, <1>2 DEF BoxInv, BoxTypes, layout
<1>4. CASE loop'.pc = "endless"
  BY <1>1, <1>3, <1>4 DEF BoxInv, LoopInv, Resting
<1>5. CASE loop'.pc = "replace"
  <2>1. /\ Len(new) \in Nat /\ Len(work') <= LenMax /\ loop'.turns = Len(new) /\ loop'.pc # "endless"
    BY <1>1, <1>5
  <2>2. Len(work') < MaxSize
    BY <1>1, <1>2, <2>1, RangeAssumption, TextAssumption
  <2>3. front'.size # 0 /\ front'.size + loop'.turns = Len(work') + 1
    BY <1>1, <1>2, <2>1
  <2> QED
    BY <1>3, <1>5, <2>1, <2>2, <2>3 DEF BoxInv, LoopInv, Resting
<1> QED
  BY <1>1, <1>4, <1>5

\* A text that takes the place of another, of an index that is put in step with it.
LEMMA TextStep ==
    ASSUME BoxInv, loop' = Idle, UNCHANGED layout,
           Good(front'), front'.win = front.win, Good(back'), back'.win = front.win,
           work' \in Seq(Chars), Len(work') < MaxSize,
           current' \in Seq(Chars), Len(current') < MaxSize,
           focus' \in BOOLEAN, InStep'
    PROVE  BoxInv'
<1>1. loop' \in Loops /\ loop'.pc = "idle"
  BY LoopBegins
<1>2. BoxTypes'
  BY <1>1 DEF BoxInv, BoxTypes, layout
<1> QED
  BY <1>1, <1>2 DEF BoxInv, LoopInv

\* Configuration and focus.
LEMMA ConfigKeeps == AlwaysShown /\ BoxInv /\ (Config \/ FocusSet) => BoxInv'
<1> SUFFICES ASSUME AlwaysShown, BoxInv, Config \/ FocusSet
             PROVE  BoxInv'
  OBVIOUS
<1>0. Good(front) /\ Good(back) /\ loop \in Loops /\ front.win # 0 /\ back.win = front.win
      /\ work \in Seq(Chars) /\ current \in Seq(Chars) /\ Len(current) < MaxSize
  BY DEF BoxInv, BoxTypes
<1>i. loop = Idle => loop.pc \in Resting /\ loop.pc = "idle" /\ InStep /\ Len(work) < MaxSize
  BY LoopBegins DEF BoxInv, LoopInv, Resting
<1>1. ASSUME NEW wid \in 5 .. MaxWin, NEW fra \in BOOLEAN, NEW pad \in BOOLEAN, Resize(wid, fra, pad)
      PROVE  BoxInv'
  <2> DEFINE win == wid - (IF fra THEN 2 ELSE 0) - (IF pad THEN 2 ELSE 0)
  <2>1. win \in Nat /\ win # 0 /\ win <= MaxWin
    BY RangeAssumption
  <2>2. front' = WinSet(front, win) /\ back' = WinSet(back, win)
    BY <1>1 DEF Resize, Fit
  <2> HIDE DEF win
  <2>3. /\ Good(front') /\ front'.win = win /\ front'.size = front.size
        /\ Good(back') /\ back'.win = win /\ back'.size = back.size
    BY <1>0, <2>1, <2>2, WinSetKeeps
  <2>4. /\ UNCHANGED <<work, current, focus, loop>> /\ loop = Idle
        /\ width' = wid /\ frame' = fra /\ padding' = pad
    BY <1>1 DEF Resize, text
  <2>5. BoxTypes'
    BY <2>1, <2>3, <2>4 DEF BoxInv, BoxTypes
  <2>6. LoopInv'
    BY <2>3, <2>4, LoopBegins DEF BoxInv, LoopInv, InStep, Edited, Resting
  <2> QED
    BY <2>5, <2>6 DEF BoxInv
<1>2. CASE WidthSet
  <2>1. PICK wid \in Widths : wid >= 4 /\ Resize(wid, frame, padding)
    BY <1>2 DEF WidthSet
  <2>2. wid \in 5 .. MaxWin
    BY <2>1, TextAssumption, RangeAssumption DEF AlwaysShown
  <2> QED
    BY <1>1, <2>1, <2>2 DEF BoxInv, BoxTypes
<1>3. CASE FrameEnabledSet
  BY <1>1, <1>3, TextAssumption DEF FrameEnabledSet, BoxInv, BoxTypes
<1>4. CASE PaddingEnabledSet
  BY <1>1, <1>4, TextAssumption DEF PaddingEnabledSet, BoxInv, BoxTypes
<1>5. CASE BoundSet
  <2>1. PICK bnd \in Bounds : front' = CursorBoundSet(front, bnd) /\ back' = CursorBoundSet(back, bnd)
    BY <1>5 DEF BoundSet
  <2>2. bnd \in U32
    BY <2>1, TextAssumption
  <2>3. Kept(front, front') /\ Kept(back, back')
    BY <1>0, <2>1, <2>2, MethodsKeep
  <2>4. UNCHANGED <<work, current, focus, layout, loop>> /\ loop = Idle
    BY <1>5 DEF BoundSet, text
  <2> QED
    BY <1>0, <1>i, <2>3, <2>4, BoxKeeps
<1>6. CASE Focus
  <2> DEFINE r == SizeSet(front, Len(current) + 1)
  <2>1. Len(current) + 1 \in Nat /\ Len(current) + 1 <= MaxSize
    BY <1>0, RangeAssumption
  <2>2. Good(r) /\ r.size = Len(current) + 1 /\ r.win = front.win
    BY <1>0, <2>1, SizeSetGood
  <2>3. Kept(r, CursorEndSet(r))
    BY <2>2, MethodsKeep
  <2>4. /\ front' = CursorEndSet(r) /\ back' = front' /\ focus' = TRUE /\ work' = current
        /\ UNCHANGED <<current, layout>> /\ loop' = Idle
    BY <1>6 DEF Focus
  <2> HIDE DEF r
  <2>5. InStep'
    BY <2>2, <2>3, <2>4 DEF InStep, Edited, Kept
  <2> QED
    BY <1>0, <2>2, <2>3, <2>4, <2>5, TextStep DEF Kept
<1>7. ASSUME NEW accept \in BOOLEAN, Unfocus(accept)
      PROVE  BoxInv'
  <2> DEFINE r == SizeSet(front, Len(current') + 1)
  <2>1. /\ front' = Reset(r) /\ back' = front' /\ focus' = FALSE
        /\ UNCHANGED <<work, layout>> /\ loop' = Idle /\ loop = Idle
        /\ current' = work \/ current' = current
    BY <1>7 DEF Unfocus
  <2>2. current' \in Seq(Chars) /\ Len(current') < MaxSize
    BY <1>0, <1>i, <2>1
  <2>3. Len(current') + 1 \in Nat /\ Len(current') + 1 <= MaxSize
    BY <2>2, RangeAssumption
  <2>4. Good(r) /\ r.size = Len(current') + 1 /\ r.win = front.win
    BY <1>0, <2>3, SizeSetGood
  <2>5. Kept(r, Reset(r))
    BY <2>4, MethodsKeep
  <2> HIDE DEF r
  <2>6. InStep'
    BY <2>1, <2>4, <2>5 DEF InStep, Edited, Kept
  <2> QED
    BY <1>0, <1>i, <2>1, <2>2, <2>4, <2>5, <2>6, TextStep DEF Kept
<1> QED
  BY <1>2, <1>3, <1>4, <1>5, <1>6, <1>7 DEF Config, FocusSet

\* What the program hands in, and what it asks for.
LEMMA HandKeeps == BoxInv /\ (Hand \/ DirtyAsk \/ Select) => BoxInv'
<1> SUFFICES ASSUME BoxInv, Hand \/ DirtyAsk \/ Select
             PROVE  BoxInv'
  OBVIOUS
<1>0. Good(front) /\ Good(back) /\ loop \in Loops /\ front.win # 0 /\ back.win = front.win
      /\ work \in Seq(Chars) /\ current \in Seq(Chars) /\ Len(current) < MaxSize /\ focus \in BOOLEAN
  BY DEF BoxInv, BoxTypes
<1>i. loop = Idle => loop.pc \in Resting /\ loop.pc = "idle" /\ InStep /\ Len(work) < MaxSize
  BY LoopBegins DEF BoxInv, LoopInv, Resting
<1>1. ASSUME NEW t \in Given, loop = Idle, CurrentSet(t)
      PROVE  BoxInv'
  <2>1. /\ t \in Seq(Chars) /\ Len(t) < MaxSize /\ Len(t) + 1 \in Nat /\ Len(t) + 1 <= MaxSize
    BY TextAssumption, RangeAssumption
  <2>2. /\ current' = t /\ UNCHANGED <<work, focus, layout, loop>>
        /\ focus => UNCHANGED <<front, back>>
        /\ ~focus => front' = SizeSet(front, Len(t) + 1) /\ back' = SizeSet(back, Len(t) + 1)
    BY <1>1 DEF CurrentSet, box
  <2>3. CASE focus
    <3>1. InStep'
      BY <1>1, <1>i, <2>2, <2>3 DEF InStep, Edited
    <3> QED
      BY <1>0, <1>1, <1>i, <2>1, <2>2, <2>3, <3>1, TextStep
  <2>4. CASE ~focus
    <3>1. /\ Good(front') /\ front'.win = front.win /\ front'.size = Len(t) + 1
          /\ Good(back') /\ back'.win = back.win /\ back'.size = Len(t) + 1
      BY <1>0, <2>1, <2>2, <2>4, SizeSetGood
    <3>2. InStep'
      BY <2>2, <2>4, <3>1 DEF InStep, Edited
    <3> QED
      BY <1>0, <1>1, <1>i, <2>1, <2>2, <3>1, <3>2, TextStep
  <2> QED
    BY <2>3, <2>4
<1>2. ASSUME NEW t \in Given, UstrWorkSet(t)
      PROVE  BoxInv'
  <2>1. /\ t \in Seq(Chars) /\ Len(t) < MaxSize /\ Len(t) + 1 \in Nat /\ Len(t) + 1 <= MaxSize
    BY TextAssumption, RangeAssumption
  <2> DEFINE r == SizeSet(front, Len(t) + 1)
  <2>2. Good(r) /\ r.size = Len(t) + 1 /\ r.win = front.win /\ Kept(r, CursorEndSet(r))
    BY <1>0, <2>1, SizeSetGood, MethodsKeep
  <2>3. /\ work' = t /\ UNCHANGED <<current, focus, layout>> /\ loop' = Idle /\ loop = Idle
        /\ focus => front' = CursorEndSet(r) /\ back' = front'
        /\ ~focus => UNCHANGED <<front, back>>
    BY <1>2 DEF UstrWorkSet, box
  <2> HIDE DEF r
  <2>4. CASE focus
    <3>1. /\ Good(front') /\ front'.win = front.win /\ front'.size = Len(t) + 1 /\ back' = front'
      BY <2>2, <2>3, <2>4 DEF Kept
    <3>2. InStep'
      BY <2>3, <2>4, <3>1 DEF InStep, Edited
    <3> QED
      BY <1>0, <2>1, <2>3, <3>1, <3>2, TextStep
  <2>5. CASE ~focus
    <3>1. InStep'
      BY <1>i, <2>3, <2>5 DEF InStep, Edited
    <3> QED
      BY <1>0, <2>1, <2>3, <2>5, <3>1, TextStep
  <2> QED
    BY <2>4, <2>5
<1>3. ASSUME NEW t \in Given, Paste(t)
      PROVE  BoxInv'
  <2>1. CASE ~focus
    BY <1>1, <1>3, <2>1 DEF Paste
  <2>2. CASE focus
    <3>1. loop = Idle /\ CanReplace
      BY <1>3, <1>i, <2>2, NeverThrows DEF Paste
    <3>2. SelectionReplace(t) /\ UNCHANGED <<current, focus, layout>>
      BY <1>3, <2>2, <3>1 DEF Paste
    <3> QED
      BY <1>i, <2>2, <3>1, <3>2, ReplaceStep, TextAssumption
  <2> QED
    BY <2>1, <2>2
<1>4. CASE DirtyAsk
  BY <1>4, <1>0, <1>i, MethodsKeep, BoxKeeps DEF DirtyAsk, box, text
<1>5. ASSUME NEW start \in 0 .. LenMax, NEW len \in 0 .. LenMax, SelectionSet(start, len)
      PROVE  BoxInv'
  <2>1. PICK from, to : loop' = [Running("from") EXCEPT !.turns = from, !.at = to] /\ from \in Int /\ to \in Int
    <3> DEFINE last == Len(IF focus THEN work ELSE current)
               from == Lower(start, last)
               to   == IF len = 0 THEN last ELSE Lower(start + len, last)
    <3>1. last \in Nat /\ start \in Nat /\ len \in Nat
      BY <1>0, TextAssumption
    <3>2. loop' = [Running("from") EXCEPT !.turns = from, !.at = to - from]
      BY <1>5 DEF SelectionSet
    <3> HIDE DEF last
    <3>3. from \in Int /\ to - from \in Int
      BY <3>1 DEF Lower
    <3> QED
      BY <3>2, <3>3
  <2>2. loop' \in Loops /\ loop'.pc = "from"
    BY <2>1, LoopBegins DEF Loops, Resting
  <2>3. /\ front' = Reset(front) /\ back' = back /\ loop = Idle
        /\ UNCHANGED <<work, current, focus, layout>>
    BY <1>5 DEF SelectionSet, text
  <2>4. Kept(front, front') /\ Kept(back, back')
    BY <1>0, <2>3, MethodsKeep
  <2> QED
    BY <1>i, <2>2, <2>3, <2>4, BoxKeeps DEF Resting
<1> QED
  BY <1>1, <1>2, <1>3, <1>4, <1>5 DEF Hand, Select

\* keyProcess().
LEMMA KeysKeep == BoxInv /\ KeyProcess => BoxInv'
<1> SUFFICES ASSUME BoxInv, KeyProcess
             PROVE  BoxInv'
  OBVIOUS
<1>0. Good(front) /\ Good(back) /\ loop \in Loops /\ front.win # 0 /\ back.win = front.win
      /\ work \in Seq(Chars) /\ current \in Seq(Chars) /\ Len(current) < MaxSize /\ focus \in BOOLEAN
      /\ Len(work) \in Nat
  BY DEF BoxInv, BoxTypes
<1>i. loop = Idle => loop.pc \in Resting /\ loop.pc = "idle" /\ InStep /\ Len(work) < MaxSize
  BY LoopBegins DEF BoxInv, LoopInv, Resting
<1>f. ASSUME loop = Idle, focus
      PROVE  /\ front.size = Len(work) + 1 /\ Len(work) < MaxSize
             /\ CursorAbs(front) \in Nat /\ CursorAbs(front) < front.size
             /\ ~Empty(front) /\ CanReplace /\ InText(IdxLow) /\ InText(front)
  <2>1. front.size = Len(work) + 1 /\ front.size # 0
    BY <1>0, <1>i, <1>f DEF InStep, Edited
  <2> QED
    BY <1>0, <1>i, <1>f, <2>1, CursorInText, NeverThrows DEF Empty
<1>1. CASE CutKey
  <2>1. CASE ~focus
    <3>1. /\ current' = <<>> /\ UNCHANGED <<front, back, work, focus, layout, loop>> /\ loop = Idle
      BY <1>1, <2>1 DEF CutKey, box
    <3>2. current' \in Seq(Chars) /\ Len(current') < MaxSize
      <4>1. Len(current) \in Nat /\ 0 < MaxSize
        BY <1>0, RangeAssumption
      <4> QED
        BY <3>1, <4>1
    <3>3. InStep'
      BY <2>1, <3>1 DEF InStep
    <3> QED
      BY <1>0, <1>i, <3>1, <3>2, <3>3, TextStep
  <2>2. CASE focus
    <3>1. loop = Idle
      BY <1>1 DEF CutKey
    <3>2. SelectionReplace(<<>>) /\ UNCHANGED <<current, focus, layout>>
      BY <1>1, <1>f, <2>2, <3>1 DEF CutKey
    <3>3. <<>> \in Seq(Chars)
      OBVIOUS
    <3> QED
      BY <1>i, <2>2, <3>1, <3>2, <3>3, ReplaceStep
  <2> QED
    BY <2>1, <2>2
<1>2. CASE CopyKey
  <2>1. loop = Idle /\ (focus => InText(IdxLow))
    BY <1>2, <1>f DEF CopyKey
  <2>2. UNCHANGED <<front, back, work, current, focus, layout, loop>>
    BY <1>2, <2>1 DEF CopyKey, box, text
  <2> QED
    BY <1>0, <1>i, <2>1, <2>2, MethodsKeep, BoxKeeps
<1>3. CASE IgnoredKey
  <2>1. loop = Idle /\ UNCHANGED <<front, back, work, current, focus, layout, loop>>
    BY <1>3 DEF IgnoredKey, box, text
  <2> QED
    BY <1>0, <1>i, <2>1, MethodsKeep, BoxKeeps
<1>4. CASE AllKey
  <2>1. /\ loop = Idle /\ UNCHANGED <<work, current, focus, layout, loop>>
        /\ front' = CursorEndSet(front) /\ back' = Reset(back)
    BY <1>4 DEF AllKey, Key
  <2>2. Kept(front, front') /\ Kept(back, back')
    BY <1>0, <2>1, MethodsKeep
  <2> QED
    BY <1>0, <1>i, <2>1, <2>2, BoxKeeps
<1>5. ASSUME NEW shift \in BOOLEAN, NavigateKey(shift) PROVE BoxInv'
  <2>1. /\ loop = Idle /\ focus /\ UNCHANGED <<work, current, focus, layout, loop>>
        /\ front' \in {Reset(front), CursorEndSet(front), Dec(front), Inc(front)}
        /\ back' = back \/ back' = front'
    BY <1>5 DEF NavigateKey, Key
  <2>2. Kept(front, front')
    BY <1>0, <2>1, MethodsKeep
  <2>3. front.size = back.size
    BY <1>i, <2>1 DEF InStep
  <2>4. Kept(back, back')
    BY <1>0, <2>1, <2>2, <2>3, MethodsKeep DEF Kept
  <2> QED
    BY <1>0, <1>i, <2>1, <2>2, <2>4, BoxKeeps
<1>6. ASSUME NEW shift \in BOOLEAN, NEW right \in BOOLEAN, JumpKey(shift, right) PROVE BoxInv'
  <2>1. /\ loop = Idle /\ focus /\ UNCHANGED <<front, back, work, current, focus, layout>>
    BY <1>6 DEF JumpKey, Key, box
  <2>2. front.jump \in Int /\ CursorAbs(front) \in Int
    BY <1>0, <1>f, <2>1, WordAssumption DEF Good, Indices, U32
  <2>3. loop' \in Loops /\ loop'.pc \in {"page", "word"}
    <3>1. CASE loop' = [Running("page") EXCEPT !.shift = shift, !.right = right, !.turns = front.jump]
      BY <2>2, <3>1, LoopBegins DEF Loops, Resting
    <3>2. CASE loop' = [Running("word") EXCEPT !.shift = shift, !.right = right,
                            !.turns = IF work = <<>> THEN 0 ELSE 1, !.at = CursorAbs(front)]
      <4>1. PICK n \in Int : n = IF work = <<>> THEN 0 ELSE 1
        OBVIOUS
      <4>2. loop' = [Running("word") EXCEPT !.shift = shift, !.right = right,
                         !.turns = n, !.at = CursorAbs(front)]
        BY <3>2, <4>1
      <4> QED
        BY <2>2, <4>2, LoopBegins DEF Loops, Resting
    <3> QED
      BY <1>6, <3>1, <3>2 DEF JumpKey
  <2> QED
    BY <1>0, <1>i, <2>1, <2>3, MethodsKeep, BoxKeeps DEF Resting
<1>7. CASE BackspaceKey
  <2>1. /\ loop = Idle /\ focus /\ UNCHANGED <<current, focus, layout>>
        /\ CursorAbs(front) # 0 /\ front' = PrevErase(front) /\ back' = front'
    BY <1>7 DEF BackspaceKey, Key
  <2>2. /\ Good(front') /\ front'.size = Len(work) /\ front'.win = front.win
        /\ CursorAbs(front') = CursorAbs(front) - 1
    <3>1. front'.size = front.size - 1 /\ CursorAbs(front') = CursorAbs(front) - 1 /\ Good(front')
      BY <1>0, <1>f, <2>1, PrevEraseEntry, EraseGood
    <3>2. front'.win = front.win
      BY <1>0, <1>f, <2>1, EraseWindow
    <3> QED
      BY <1>0, <1>f, <2>1, <3>1, <3>2
  <2>3. work' = Removed(work, CursorAbs(front'), 1) /\ loop' = Idle
    BY <1>0, <1>f, <1>7, <2>1, <2>2 DEF BackspaceKey
  <2>4. work' \in Seq(Chars) /\ Len(work') = Len(work) - 1
    <3>1. CursorAbs(front') \in Nat /\ CursorAbs(front') + 1 <= Len(work)
      BY <1>0, <1>f, <2>1, <2>2
    <3>2. work \in Seq(Chars)
      BY <1>0
    <3> QED
      BY <2>3, <3>1, <3>2, OneRemoved
  <2>5. InStep' /\ Len(work') < MaxSize
    BY <1>0, <1>f, <2>1, <2>2, <2>4, RangeAssumption DEF InStep, Edited
  <2> QED
    BY <1>0, <2>1, <2>2, <2>3, <2>4, <2>5, TextStep
<1>8. CASE DeleteKey
  <2>1. /\ loop = Idle /\ focus /\ UNCHANGED <<current, focus, layout>>
        /\ CursorAbs(front) # Sub(front.size, 1) /\ front' = CurrErase(front) /\ back' = front'
    BY <1>8 DEF DeleteKey, Key
  <2>2. CursorAbs(front) + 1 <= Len(work) /\ front.size > 1
    BY <1>0, <1>f, <2>1 DEF Sub
  <2>3. Good(front') /\ front'.size = Len(work) /\ front'.win = front.win
    BY <1>0, <1>f, <2>1, <2>2, CurrEraseEntry, EraseGood, EraseWindow
  <2>4. work' = Removed(work, CursorAbs(front), 1) /\ loop' = Idle
    BY <1>0, <1>f, <1>8, <2>1, <2>2 DEF DeleteKey
  <2>5. work' \in Seq(Chars) /\ Len(work') = Len(work) - 1
    <3>1. CursorAbs(front) \in Nat /\ work \in Seq(Chars)
      BY <1>0, <1>f, <2>1
    <3> QED
      BY <2>2, <2>4, <3>1, OneRemoved
  <2>6. InStep' /\ Len(work') < MaxSize
    BY <1>0, <1>f, <2>1, <2>3, <2>5, RangeAssumption DEF InStep, Edited
  <2> QED
    BY <1>0, <2>1, <2>3, <2>4, <2>5, <2>6, TextStep
<1>9. ASSUME NEW t \in Seq(Chars), ReplaceKey(t) PROVE BoxInv'
  <2>1. loop = Idle /\ focus /\ UNCHANGED <<current, focus, layout>>
    BY <1>9 DEF ReplaceKey, Key
  <2>2. SelectionReplace(t)
    BY <1>9, <1>f, <2>1 DEF ReplaceKey
  <2> QED
    BY <1>i, <2>1, <2>2, ReplaceStep
<1>10. ASSUME NEW ch \in Chars, PrintKey(ch) PROVE BoxInv'
  <2>1. /\ loop = Idle /\ focus /\ UNCHANGED <<current, focus, layout>> /\ Len(work) < LenMax
    BY <1>10 DEF PrintKey, Key
  <2>2. /\ work' = Inserted(work, CursorAbs(front), <<ch>>)
        /\ front' = Insert(front) /\ back' = front' /\ loop' = Idle
    BY <1>10, <1>f, <2>1 DEF PrintKey
  <2>3. front.size < MaxSize
    BY <1>0, <1>f, <2>1, TextAssumption, RangeAssumption
  <2>4. Good(front') /\ front'.win = front.win /\ front'.size = Len(work) + 1 + 1
    BY <1>0, <1>f, <2>1, <2>2, <2>3, InsertEntry
  <2>5. <<ch>> \in Seq(Chars) /\ Len(<<ch>>) = 1 /\ CursorAbs(front) \in 0 .. Len(work)
    BY <1>0, <1>f, <2>1
  <2>6. work' \in Seq(Chars) /\ Len(work') = Len(work) + 1
    BY <1>0, <2>2, <2>5, InsertedText
  <2>7. InStep' /\ Len(work') < MaxSize
    BY <1>0, <2>1, <2>2, <2>4, <2>6, TextAssumption, RangeAssumption DEF InStep, Edited
  <2> QED
    BY <1>0, <2>1, <2>2, <2>4, <2>6, <2>7, TextStep
<1>11. Allowed \subseteq Chars /\ <<>> \in Seq(Chars) /\ \A ch \in Chars : <<ch>> \in Seq(Chars)
  BY TextAssumption DEF Allowed
<1> QED
  BY <1>1, <1>2, <1>3, <1>4, <1>5, <1>6, <1>7, <1>8, <1>9, <1>10, <1>11 DEF KeyProcess

\* The turns of the loops.
LEMMA TurnsKeep == BoxInv /\ Turn => BoxInv'
<1> SUFFICES ASSUME BoxInv, Turn
             PROVE  BoxInv'
  OBVIOUS
<1>0. Good(front) /\ Good(back) /\ loop \in Loops /\ front.win # 0 /\ back.win = front.win
      /\ work \in Seq(Chars) /\ Len(work) \in Nat /\ current \in Seq(Chars) /\ Len(current) < MaxSize
      /\ focus \in BOOLEAN
  BY DEF BoxInv, BoxTypes
<1>i. loop.pc \in Resting => (front.size = back.size \/ (~focus /\ current = <<>>))
  BY DEF BoxInv, LoopInv, InStep
<1>1. CASE SelectionTurn
  <2>1. loop.pc \in {"from", "to"} /\ UNCHANGED <<work, current, focus, layout>>
    BY <1>1 DEF SelectionTurn, text
  <2>2. CASE loop.turns > 0
    <3>1. front' = Inc(front) /\ back' = back /\ loop' = [loop EXCEPT !.turns = @ - 1]
      BY <1>1, <2>2 DEF SelectionTurn
    <3>2. loop' \in Loops /\ loop'.pc = loop.pc
      <4>1. loop \in Loops
        BY <1>0
      <4>2. PICK left \in Int : left = loop.turns - 1
        BY <4>1 DEF Loops
      <4> QED
        BY <3>1, <4>1, <4>2 DEF Loops
    <3>3. Kept(front, front') /\ Kept(back, back')
      BY <1>0, <3>1, MethodsKeep
    <3> QED
      BY <2>1, <3>2, <3>3, BoxKeeps DEF Resting
  <2>3. CASE ~(loop.turns > 0) /\ loop.pc = "from"
    <3>1. back' = front /\ front' = front /\ loop' = [Running("to") EXCEPT !.turns = loop.at]
      BY <1>1, <2>3 DEF SelectionTurn
    <3>2. loop' \in Loops /\ loop'.pc = "to" /\ Len(work) < MaxSize
      BY <1>0, <2>1, <3>1, LoopBegins DEF Loops, Resting, BoxInv, LoopInv
    <3>3. BoxTypes'
      BY <1>0, <2>1, <3>1, <3>2 DEF BoxInv, BoxTypes, layout
    <3>4. InStep'
      BY <2>1, <3>1 DEF BoxInv, LoopInv, InStep, Edited, Resting
    <3> QED
      BY <2>1, <3>2, <3>3, <3>4 DEF BoxInv, LoopInv
  <2>4. CASE ~(loop.turns > 0) /\ loop.pc # "from"
    <3>1. front' = front /\ back' = back /\ loop' = Idle
      BY <1>1, <2>4 DEF SelectionTurn
    <3> QED
      BY <1>0, <2>1, <3>1, MethodsKeep, LoopBegins, BoxKeeps DEF Resting
  <2> QED
    BY <2>2, <2>3, <2>4
<1>2. CASE JumpDone
  <2>1. /\ loop.pc \in {"page", "word"} /\ loop' = Idle /\ UNCHANGED <<front, work, current, focus, layout>>
        /\ back' = back \/ back' = front
    BY <1>2 DEF JumpDone, text
  <2>2. front.size = back.size
    BY <1>i, <2>1 DEF BoxInv, LoopInv, Resting
  <2>3. Kept(front, front') /\ Kept(back, back')
    BY <1>0, <2>1, <2>2, MethodsKeep DEF Kept
  <2> QED
    BY <2>1, <2>3, LoopBegins, BoxKeeps DEF Resting
<1>3. CASE PageTurn \/ WordTurn
  <2>1. /\ loop.pc \in {"page", "word"} /\ front' \in {Inc(front), Dec(front)}
        /\ UNCHANGED <<back, work, current, focus, layout>>
    BY <1>3 DEF PageTurn, WordTurn, Move, text
  <2>2. ASSUME PageTurn PROVE loop' \in Loops /\ loop'.pc = loop.pc
    <3>1. PICK ch \in BOOLEAN : ch = (loop.changed \/ front' # front)
      OBVIOUS
    <3>2. loop' = [loop EXCEPT !.turns = @ - 1, !.changed = ch]
      BY <2>2, <3>1 DEF PageTurn
    <3>3. loop.turns - 1 \in Int
      BY <1>0 DEF Loops
    <3>4. loop \in Loops
      BY <1>0
    <3> QED
      BY <3>1, <3>2, <3>3, <3>4, LoopGoesOn
  <2>3. ASSUME WordTurn PROVE loop' \in Loops /\ loop'.pc = loop.pc
    <3>1. PICK at \in Int, n \in Int :
              loop' = [loop EXCEPT !.at = at, !.changed = TRUE, !.turns = n]
      <4> DEFINE at == IF loop.right THEN loop.at + 1 ELSE loop.at - 1
                 n  == IF /\ at # 0
                          /\ OnBoundary(at) = ~loop.right
                          /\ OnBoundary(at + 1) = loop.right
                       THEN 0 ELSE 1
      <4>1. loop' = [loop EXCEPT !.at = at, !.changed = TRUE, !.turns = n]
        BY <2>3 DEF WordTurn
      <4>2. at \in Int
        BY <1>0 DEF Loops
      <4> HIDE DEF at
      <4>3. n \in Int
        OBVIOUS
      <4> QED
        BY <4>1, <4>2, <4>3
    <3> QED
      BY <1>0, <3>1 DEF Loops
  <2>4. Kept(front, front') /\ Kept(back, back')
    BY <1>0, <2>1, MethodsKeep
  <2>5. focus
    BY <2>1 DEF BoxInv, LoopInv
  <2>6. loop' \in Loops /\ loop'.pc = loop.pc
    BY <1>3, <2>2, <2>3
  <2> QED
    BY <2>1, <2>4, <2>5, <2>6, BoxKeeps DEF Resting
<1>4. CASE ReplaceTurn
  <2>1. /\ loop.pc = "replace" /\ UNCHANGED <<work, current, focus, layout>>
    BY <1>4 DEF ReplaceTurn, text
  <2>2. /\ focus /\ loop.turns \in Nat /\ Len(work) < MaxSize
        /\ front.size # 0 /\ front.size + loop.turns = Len(work) + 1
    BY <1>0, <2>1 DEF BoxInv, LoopInv, Loops
  <2>3. front.size \in Nat
    BY <1>0, GoodNumbers
  <2>4. CASE loop.turns > 0
    <3>1. front' = Insert(front) /\ back' = back /\ loop' = [loop EXCEPT !.turns = @ - 1]
      BY <1>4, <2>4 DEF ReplaceTurn
    <3>2. loop' \in Loops /\ loop'.pc = "replace" /\ loop'.turns = loop.turns - 1
      BY <1>0, <2>1, <3>1 DEF Loops
    <3>3. front.size < MaxSize /\ ~Empty(front)
      BY <1>0, <2>2, <2>3, <2>4, RangeAssumption DEF Empty
    <3>4. Good(front') /\ front'.win = front.win /\ front'.size = front.size + 1
      BY <1>0, <3>1, <3>3, InsertEntry
    <3>5. BoxTypes'
      BY <2>1, <3>1, <3>2, <3>4 DEF BoxInv, BoxTypes, layout
    <3>6. front'.size # 0 /\ front'.size + loop'.turns = Len(work') + 1 /\ loop'.turns >= 0
      BY <2>1, <2>2, <2>3, <2>4, <3>2, <3>4
    <3> QED
      BY <2>1, <2>2, <3>2, <3>5, <3>6 DEF BoxInv, LoopInv, Resting
  <2>5. CASE ~(loop.turns > 0)
    <3>1. front' = front /\ back' = front /\ loop' = Idle
      BY <1>4, <2>5 DEF ReplaceTurn
    <3>2. front.size = Len(work) + 1
      BY <1>0, <2>2, <2>3, <2>5
    <3>3. InStep'
      BY <2>1, <2>2, <3>1, <3>2 DEF InStep, Edited
    <3> QED
      BY <1>0, <2>1, <2>2, <3>1, <3>3, TextStep
  <2> QED
    BY <2>4, <2>5
<1> QED
  BY <1>1, <1>2, <1>3, <1>4 DEF Turn

\* Two indices of ten columns for a text of no character.
LEMMA BoxInit == AlwaysShown /\ Init => BoxInv
<1> SUFFICES ASSUME AlwaysShown, Init
             PROVE  BoxInv
  OBVIOUS
<1> DEFINE r == WinSet(NewIdx, WidthDefault)
<1>1. WidthDefault \in Nat /\ WidthDefault <= MaxWin /\ WidthDefault \in 5 .. MaxWin
      /\ 1 \in Nat /\ 1 <= MaxSize /\ 0 < MaxSize
  BY TextAssumption, RangeAssumption DEF AlwaysShown
<1>2. Good(r) /\ r.win = WidthDefault
  BY <1>1, NewIdxGood, WinSetKeeps
<1>3. Good(SizeSet(r, 1)) /\ SizeSet(r, 1).win = WidthDefault /\ SizeSet(r, 1).size = 1
  BY <1>1, <1>2, SizeSetGood
<1>4. /\ front = SizeSet(r, 1) /\ back = front /\ loop = Idle /\ work = <<>> /\ current = <<>>
      /\ focus = FALSE /\ width = WidthDefault /\ frame = TRUE /\ padding = TRUE
  BY DEF Init
<1> HIDE DEF r
<1>5. BoxTypes
  <2>1. Good(front) /\ Good(back) /\ front.win # 0 /\ back.win = front.win
    BY <1>1, <1>3, <1>4
  <2>2. work \in Seq(Chars) /\ current \in Seq(Chars) /\ Len(current) < MaxSize
    BY <1>1, <1>4
  <2> QED
    BY <1>1, <1>4, <2>1, <2>2, LoopBegins DEF BoxTypes
<1>6. LoopInv
  BY <1>1, <1>4, LoopBegins DEF LoopInv, InStep
<1> QED
  BY <1>5, <1>6 DEF BoxInv

\* The invariant of the box holds in every state.
LEMMA BoxAlways == AlwaysShown => (Spec => []BoxInv)
<1> SUFFICES ASSUME AlwaysShown PROVE Spec => []BoxInv
  OBVIOUS
<1>1. Init => BoxInv
  BY BoxInit
<1>2. BoxInv /\ [Next]_vars => BoxInv'
  <2>1. BoxInv /\ Next => BoxInv'
    BY ConfigKeeps, HandKeeps, KeysKeep, TurnsKeep DEF Next
  <2>2. BoxInv /\ UNCHANGED vars => BoxInv'
    BY DEF vars, box, text, layout, BoxInv, BoxTypes, LoopInv, InStep, Edited
  <2> QED
    BY <2>1, <2>2
<1> QED
  BY <1>1, <1>2, PTL DEF Spec

\* TextBox.cpp:246-305 and 472-497: for every box, text and order of calls the indices know
\* the characters there are, wherever a box shows at least one column.
THEOREM IndexAlwaysMatches == AlwaysShown => (Spec => []IndexMatchesText)
<1> SUFFICES ASSUME AlwaysShown PROVE Spec => []IndexMatchesText
  OBVIOUS
<1>1. BoxInv => IndexMatchesText
  <2> SUFFICES ASSUME BoxInv, loop = Idle, ~(~focus /\ current = <<>>)
               PROVE  /\ front.size = Len(Edited) + 1 /\ CursorAbs(front) <= Len(Edited)
                      /\ back.size = Len(Edited) + 1 /\ CursorAbs(back) <= Len(Edited)
    BY DEF IndexMatchesText
  <2>1. front.size = Len(Edited) + 1 /\ back.size = Len(Edited) + 1
    BY LoopBegins DEF BoxInv, LoopInv, Resting, InStep
  <2>2. Good(front) /\ Good(back) /\ front.win # 0 /\ back.win # 0 /\ Len(Edited) \in Nat
    BY DEF BoxInv, BoxTypes, Edited
  <2> QED
    BY <2>1, <2>2, CursorInText
<1> QED
  BY <1>1, BoxAlways, PTL

\* No position a call hands to the text is outside of it, and the loop at TextBox.cpp:497
\* ends but for a text that is longer than mLenMax.
THEOREM LoopsAlwaysEnd == AlwaysShown => (Spec => []LostOnlyThere)
<1> SUFFICES ASSUME AlwaysShown PROVE Spec => []LostOnlyThere
  OBVIOUS
<1>1. BoxInv => LostOnlyThere
  BY DEF BoxInv, BoxTypes, LoopInv, Loops, LostOnlyThere
<1> QED
  BY <1>1, BoxAlways, PTL

-----------------------------------------------------------------------------
(* TextBox: where an edit is made, and what a key tells *)

\* The loop of selectionReplace() begins in the three places that call it.
LEMMA ReplaceBegins ==
    ASSUME BoxInv, Next, loop = Idle, loop'.pc = "replace"
    PROVE  /\ focus /\ loop.pc \in Resting
           /\ \E t \in Seq(Chars) : SelectionReplace(t)
           /\ dirty' \/ \E t \in Given : Paste(t)
<1>0. loop.pc = "idle" /\ loop.pc \in Resting /\ loop' # Idle
  BY LoopBegins DEF Resting
<1>1. CASE Config \/ FocusSet \/ DirtyAsk
  BY <1>0, <1>1 DEF Config, WidthSet, FrameEnabledSet, PaddingEnabledSet, Resize, BoundSet, FocusSet,
     Focus, Unfocus, DirtyAsk
<1>2. CASE Select
  <2>1. PICK start \in 0 .. LenMax, len \in 0 .. LenMax : SelectionSet(start, len)
    BY <1>2 DEF Select
  <2>2. \A m, n : [Running("from") EXCEPT !.turns = m, !.at = n].pc = "from"
    BY LoopBegins DEF Loops, Resting
  <2>3. loop'.pc = "from"
    BY <2>1, <2>2 DEF SelectionSet
  <2> QED
    BY <2>3
<1>3. CASE Hand
  <2>1. PICK t \in Given : Paste(t) \/ UstrWorkSet(t) \/ (focus /\ CurrentSet(t))
    BY <1>3 DEF Hand
  <2>2. ~UstrWorkSet(t) /\ ~CurrentSet(t)
    BY <1>0 DEF UstrWorkSet, CurrentSet
  <2>3. Paste(t) /\ focus
    BY <2>1, <2>2 DEF Paste
  <2>4. SelectionReplace(t)
    BY <1>0, <2>3, NeverThrows DEF Paste
  <2> QED
    BY <1>0, <2>1, <2>3, <2>4, TextAssumption
<1>4. CASE KeyProcess
  <2>1. CASE CutKey
    <3>1. focus
      BY <1>0, <2>1 DEF CutKey
    <3>2. SelectionReplace(<<>>) /\ dirty' = TRUE
      BY <1>0, <2>1, <3>1, NeverThrows DEF CutKey
    <3>3. <<>> \in Seq(Chars)
      OBVIOUS
    <3> QED
      BY <1>0, <3>1, <3>2, <3>3
  <2>2. ASSUME NEW t \in Seq(Chars), ReplaceKey(t)
        PROVE  focus /\ SelectionReplace(t) /\ dirty'
    <3>1. focus
      BY <2>2 DEF ReplaceKey, Key
    <3>2. CanReplace
      BY <1>0, <3>1, NeverThrows
    <3> QED
      BY <2>2, <3>1, <3>2 DEF ReplaceKey
  <2>3. CASE CopyKey \/ IgnoredKey \/ AllKey \/ \E shift \in BOOLEAN : NavigateKey(shift)
    <3>1. CASE CopyKey
      <4>1. focus => InText(IdxLow)
        BY <1>0, NeverThrows
      <4> QED
        BY <1>0, <3>1, <4>1 DEF CopyKey
    <3> QED
      BY <1>0, <2>3, <3>1 DEF IgnoredKey, AllKey, NavigateKey
  <2>4. ASSUME NEW shift \in BOOLEAN, NEW right \in BOOLEAN, JumpKey(shift, right) PROVE FALSE
    <3>1. \A n : [Running("page") EXCEPT !.shift = shift, !.right = right, !.turns = n].pc = "page"
      BY LoopBegins DEF Loops, Resting
    <3>2. \A m, n : [Running("word") EXCEPT !.shift = shift, !.right = right,
                         !.turns = m, !.at = n].pc = "word"
      BY LoopBegins DEF Loops, Resting
    <3>3. PICK n : n = IF work = <<>> THEN 0 ELSE 1
      OBVIOUS
    <3>4. \/ loop' = [Running("page") EXCEPT !.shift = shift, !.right = right, !.turns = front.jump]
          \/ loop' = [Running("word") EXCEPT !.shift = shift, !.right = right,
                                             !.turns = n, !.at = CursorAbs(front)]
      BY <2>4, <3>3 DEF JumpKey
    <3>5. PICK j : j = front.jump
      OBVIOUS
    <3>6. CASE loop' = [Running("page") EXCEPT !.shift = shift, !.right = right, !.turns = j]
      <4>1. loop'.pc = "page"
        BY <3>1, <3>6
      <4> QED
        BY <1>0, <4>1
    <3>7. CASE loop' = [Running("word") EXCEPT !.shift = shift, !.right = right,
                                              !.turns = n, !.at = CursorAbs(front)]
      <4>1. loop'.pc = "word"
        BY <3>2, <3>7
      <4> QED
        BY <1>0, <4>1
    <3> QED
      BY <3>4, <3>5, <3>6, <3>7
  <2>5. CASE BackspaceKey \/ DeleteKey \/ \E ch \in Allowed : PrintKey(ch)
    <3>1. Running("thrown").pc = "thrown"
      BY DEF Running, Idle
    <3> QED
      BY <1>0, <2>5, <3>1 DEF BackspaceKey, DeleteKey, PrintKey
  <2>6. Allowed \subseteq Chars /\ <<>> \in Seq(Chars) /\ \A ch \in Chars : <<ch>> \in Seq(Chars)
    BY TextAssumption DEF Allowed
  <2> QED
    BY <1>0, <1>4, <2>1, <2>2, <2>3, <2>4, <2>5, <2>6 DEF KeyProcess
<1>5. CASE Turn
  BY <1>0, <1>5 DEF Turn, SelectionTurn, JumpDone, PageTurn, WordTurn, ReplaceTurn
<1> QED
  BY <1>1, <1>2, <1>3, <1>4, <1>5 DEF Next

\* Something put into a text stands at its position, with the rest around it.
LEMMA PutInInserted ==
    ASSUME NEW s \in Seq(Chars), NEW t \in Seq(Chars), NEW at \in 0 .. Len(s),
           work' = Inserted(s, at, t)
    PROVE  PutIn(s, at) /\ Len(work') = Len(s) + Len(t)
<1>1. Len(s) \in Nat /\ Len(t) \in Nat /\ at \in Nat /\ at <= Len(s)
  OBVIOUS
<1>2. /\ Len(Inserted(s, at, t)) = Len(s) + Len(t)
      /\ SubSeq(Inserted(s, at, t), 1, at) = SubSeq(s, 1, at)
      /\ SubSeq(Inserted(s, at, t), at + Len(t) + 1, Len(s) + Len(t)) = SubSeq(s, at + 1, Len(s))
  BY InsertedText, ZenonT(60)
<1>3. PICK m \in Nat, n \in Nat : m = Len(s) /\ n = Len(t)
  BY <1>1
<1>4. Len(work') = m + n
  BY <1>2, <1>3
<1>5. (m + n) - m + at + 1 = at + n + 1 /\ m <= m + n
  BY <1>1, <1>3
<1>6. Len(work') - Len(s) + at + 1 = at + Len(t) + 1 /\ Len(s) <= Len(work')
  BY <1>3, <1>4, <1>5
<1>7. SubSeq(work', Len(work') - Len(s) + at + 1, Len(work')) = SubSeq(s, at + 1, Len(s))
  BY <1>2, <1>6
<1> QED
  BY <1>1, <1>2, <1>6, <1>7 DEF PutIn

\* What is before and behind the selection is there after selectionReplace() as well.
LEMMA ReplacesInPlace ==
    ASSUME BoxInv, focus, loop.pc \in Resting, NEW t \in Seq(Chars), SelectionReplace(t),
           loop'.pc = "replace"
    PROVE  Replaced
<1>1. /\ Len(work) \in Nat /\ lowAbs \in Nat /\ highAbs \in Nat /\ lowAbs <= highAbs
      /\ highAbs <= Len(work) /\ IdxLow.win = front.win
      /\ cutText \in Seq(Chars) /\ CursorAbs(cutIdx) \in 0 .. Len(cutText)
      /\ ~Scrolled(IdxLow, Len(cutText) + 1) => CursorAbs(cutIdx) = lowAbs
  BY Selected
<1>2. CursorAbs(cutIdx) = lowAbs \/ Drifts(Len(cutText))
  BY <1>1 DEF Scrolled, Drifts
<1>3. PICK new \in Seq(Chars) : /\ work' = Inserted(cutText, CursorAbs(cutIdx), new) /\ front' = cutIdx
                                /\ Len(work') = Len(cutText) + Len(new)
                                /\ loop'.turns = Len(new)
  <2>1. "endless" # "replace"
    OBVIOUS
  <2> QED
    BY <2>1, ReplaceLeaves
<1>4. PutIn(cutText, CursorAbs(cutIdx))
  <2>1. PICK s \in Seq(Chars) : s = cutText
    BY <1>1
  <2>2. PICK at \in 0 .. Len(s) : at = CursorAbs(cutIdx)
    BY <1>1, <2>1
  <2>3. work' = Inserted(s, at, new)
    BY <1>3, <2>1, <2>2
  <2>4. PutIn(s, at)
    BY <2>3, PutInInserted
  <2> QED
    BY <2>1, <2>2, <2>4
<1>5. loop'.turns = Len(work') - Len(cutText)
  <2>1. PICK m \in Nat, n \in Nat : m = Len(cutText) /\ n = Len(new)
    BY <1>1
  <2> QED
    BY <1>3, <2>1
<1>6. cutText = Remainder
  BY DEF cutText, lowAbs, highAbs, Remainder
<1> QED
  BY <1>2, <1>3, <1>4, <1>5, <1>6 DEF Replaced, lowAbs

\* What EditInPlace says of a step.
LEMMA EditStep ==
    ASSUME BoxInv, Next
    PROVE  /\ loop = Idle /\ loop'.pc = "replace" =>
                 Replaced
           /\ ReplaceTurn /\ loop.turns > 0 => CursorAbs(front') = CursorAbs(front) + 1
           /\ (\E ch \in Allowed : PrintKey(ch)) =>
                 /\ PutIn(work, CursorAbs(front)) /\ Len(work') = Len(work) + 1
                 /\ CursorAbs(front') = CursorAbs(front) + 1
           /\ BackspaceKey => /\ CursorAbs(front') = CursorAbs(front) - 1
                              /\ work' = Removed(work, CursorAbs(front'), 1)
           /\ DeleteKey => /\ CursorAbs(front') = CursorAbs(front)
                           /\ work' = Removed(work, CursorAbs(front), 1)
<1>0. Good(front) /\ front.win # 0 /\ Len(work) \in Nat /\ loop \in Loops
  BY DEF BoxInv, BoxTypes
<1>1. ASSUME loop = Idle, loop'.pc = "replace"
      PROVE  Replaced
  BY <1>1, ReplaceBegins, ReplacesInPlace
<1>2. ASSUME ReplaceTurn, loop.turns > 0 PROVE CursorAbs(front') = CursorAbs(front) + 1
  <2>1. loop.pc = "replace" /\ front' = Insert(front)
    BY <1>2 DEF ReplaceTurn
  <2>2. /\ loop.turns \in Int /\ Len(work) < MaxSize
        /\ front.size # 0 /\ front.size + loop.turns = Len(work) + 1 /\ front.size \in Nat
    BY <1>0, <2>1, GoodNumbers DEF BoxInv, LoopInv, Loops
  <2>3. front.size < MaxSize /\ ~Empty(front)
    BY <1>0, <1>2, <2>2, RangeAssumption DEF Empty
  <2> QED
    BY <1>0, <2>1, <2>3, InsertEntry
<1>3. ASSUME loop = Idle, focus
      PROVE  /\ front.size = Len(work) + 1 /\ ~Empty(front)
             /\ CursorAbs(front) \in Nat /\ CursorAbs(front) < front.size
  <2>1. front.size = Len(work) + 1 /\ front.size # 0
    BY <1>0, <1>3, LoopBegins DEF BoxInv, LoopInv, InStep, Edited, Resting
  <2> QED
    BY <1>0, <2>1, CursorInText DEF Empty
<1>4. ASSUME BackspaceKey
      PROVE  CursorAbs(front') = CursorAbs(front) - 1 /\ work' = Removed(work, CursorAbs(front'), 1)
  <2>1. loop = Idle /\ focus /\ CursorAbs(front) # 0 /\ front' = PrevErase(front)
    BY <1>4 DEF BackspaceKey, Key
  <2>2. CursorAbs(front') = CursorAbs(front) - 1
    BY <1>0, <1>3, <2>1, PrevEraseEntry
  <2>3. CursorAbs(front') <= Len(work)
    BY <1>0, <1>3, <2>1, <2>2
  <2> QED
    BY <1>4, <2>2, <2>3 DEF BackspaceKey
<1>5. ASSUME DeleteKey
      PROVE  CursorAbs(front') = CursorAbs(front) /\ work' = Removed(work, CursorAbs(front), 1)
  <2>1. loop = Idle /\ focus /\ CursorAbs(front) # Sub(front.size, 1) /\ front' = CurrErase(front)
    BY <1>5 DEF DeleteKey, Key
  <2>2. CursorAbs(front) + 1 <= Len(work) /\ front.size > 1
    BY <1>0, <1>3, <2>1 DEF Sub
  <2>3. CursorAbs(front') = Lower(CursorAbs(front), front.size - 1 - 1)
    BY <1>0, <1>3, <2>1, <2>2, CurrEraseEntry
  <2>4. CursorAbs(front') = CursorAbs(front)
    BY <1>0, <1>3, <2>1, <2>2, <2>3 DEF Lower
  <2>5. CursorAbs(front) <= Len(work)
    BY <1>0, <1>3, <2>1, <2>2
  <2> QED
    BY <1>5, <2>4, <2>5 DEF DeleteKey
<1>6. ASSUME NEW ch \in Allowed, PrintKey(ch)
      PROVE  /\ PutIn(work, CursorAbs(front)) /\ Len(work') = Len(work) + 1
             /\ CursorAbs(front') = CursorAbs(front) + 1
  <2>1. loop = Idle /\ focus /\ Len(work) < LenMax
    BY <1>6 DEF PrintKey, Key
  <2>2. CursorAbs(front) \in 0 .. Len(work)
    BY <1>0, <1>3, <2>1
  <2>3. work' = Inserted(work, CursorAbs(front), <<ch>>) /\ front' = Insert(front)
    BY <1>6, <2>2 DEF PrintKey, InText
  <2>4. work \in Seq(Chars) /\ <<ch>> \in Seq(Chars)
    BY TextAssumption DEF Allowed, BoxInv, BoxTypes
  <2>5. PutIn(work, CursorAbs(front)) /\ Len(work') = Len(work) + 1
    <3>1. PICK s \in Seq(Chars), t \in Seq(Chars) : s = work /\ t = <<ch>>
      BY <2>4
    <3>2. PICK at \in 0 .. Len(s) : at = CursorAbs(front)
      BY <2>2, <3>1
    <3>3. work' = Inserted(s, at, t) /\ Len(t) = 1
      BY <2>3, <3>1, <3>2
    <3>4. PutIn(s, at) /\ Len(work') = Len(s) + Len(t)
      BY <3>3, PutInInserted
    <3> QED
      BY <3>1, <3>2, <3>3, <3>4
  <2>6. front.size < MaxSize
    BY <1>0, <1>3, <2>1, TextAssumption, RangeAssumption
  <2> QED
    BY <1>0, <1>3, <2>1, <2>3, <2>5, <2>6, InsertEntry
<1> QED
  BY <1>1, <1>2, <1>4, <1>5, <1>6

\* For every text, selection and input: what the user does not select stays as it was and
\* where it was, a typed character and a replacement stand at the cursor, and the cursor ends
\* up behind what is new (TextBox.cpp:240-305 and 472-499).
THEOREM EditsInPlace == AlwaysShown => (Spec => EditInPlace)
<1> SUFFICES ASSUME AlwaysShown PROVE Spec => EditInPlace
  OBVIOUS
<1>1. BoxInv /\ [Next]_vars => [ front.win # 0 =>
    /\ loop = Idle /\ loop'.pc = "replace" => Replaced
    /\ ReplaceTurn /\ loop.turns > 0 => CursorAbs(front') = CursorAbs(front) + 1
    /\ (\E ch \in Allowed : PrintKey(ch)) =>
          /\ PutIn(work, CursorAbs(front)) /\ Len(work') = Len(work) + 1
          /\ CursorAbs(front') = CursorAbs(front) + 1
    /\ BackspaceKey => /\ CursorAbs(front') = CursorAbs(front) - 1
                       /\ work' = Removed(work, CursorAbs(front'), 1)
    /\ DeleteKey => /\ CursorAbs(front') = CursorAbs(front)
                    /\ work' = Removed(work, CursorAbs(front), 1)
  ]_vars
  BY EditStep
<1> QED
  BY <1>1, BoxAlways, PTL DEF Spec, EditInPlace

\* What KeyTells says of a step: keyProcess() either leaves what print() shows or says so.
LEMMA KeyStep ==
    ASSUME BoxInv, Next
    PROVE  /\ KeyProcess \/ JumpDone =>
                 Picture' = Picture \/ dirty' \/ loop'.pc \in {"replace", "endless", "thrown"}
           /\ loop = Idle /\ loop'.pc = "replace" => dirty' \/ \E t \in Given : Paste(t)
           /\ PageTurn \/ WordTurn => (Picture' = Picture /\ ~loop.changed) \/ loop'.changed
           /\ JumpDone /\ loop.changed => dirty'
<1>0. UNCHANGED <<front, back, work, current, focus>> => Picture' = Picture
  BY DEF Picture, Edited, IdxLow, IdxHigh
<1>t. Running("thrown").pc = "thrown" /\ loop \in Loops
  BY DEF Running, Idle, BoxInv, BoxTypes
<1>1. ASSUME KeyProcess
      PROVE  Picture' = Picture \/ dirty' \/ loop'.pc \in {"replace", "endless", "thrown"}
  <2>1. CASE CutKey
    BY <2>1, <1>t DEF CutKey, Throws
  <2>2. CASE CopyKey \/ IgnoredKey
    BY <2>2, <1>0, <1>t DEF CopyKey, IgnoredKey, Throws, box, text
  <2>3. CASE AllKey
    <3>1. UNCHANGED <<work, current, focus>> /\ (dirty' = (box' # box))
      BY <2>3 DEF AllKey, Key
    <3>2. CASE box' = box
      BY <1>0, <3>1, <3>2 DEF box
    <3>3. CASE box' # box
      BY <3>1, <3>3
    <3> QED
      BY <3>2, <3>3
  <2>4. ASSUME NEW shift \in BOOLEAN, NavigateKey(shift)
        PROVE  Picture' = Picture \/ dirty'
    <3>1. UNCHANGED <<work, current, focus>> /\ (dirty' = (~shift \/ front' # front))
          /\ (shift => back' = back)
      BY <2>4 DEF NavigateKey, Key
    <3>2. CASE shift /\ front' = front
      BY <1>0, <3>1, <3>2
    <3>3. CASE ~shift \/ front' # front
      BY <3>1, <3>3
    <3> QED
      BY <3>2, <3>3
  <2>5. ASSUME NEW shift \in BOOLEAN, NEW right \in BOOLEAN, JumpKey(shift, right)
        PROVE  Picture' = Picture
    BY <2>5, <1>0 DEF JumpKey, Key, box
  <2>6. CASE BackspaceKey \/ DeleteKey \/ \E ch \in Allowed : PrintKey(ch)
    BY <2>6, <1>t DEF BackspaceKey, DeleteKey, PrintKey
  <2>7. ASSUME NEW t, ReplaceKey(t)
        PROVE  dirty' \/ loop'.pc = "thrown"
    BY <2>7, <1>t DEF ReplaceKey
  <2> QED
    BY <1>1, <2>1, <2>2, <2>3, <2>4, <2>5, <2>6, <2>7 DEF KeyProcess
<1>2. ASSUME JumpDone
      PROVE  Picture' = Picture \/ dirty'
  <2>1. UNCHANGED <<front, work, current, focus>> /\ (dirty' = (~loop.shift \/ loop.changed))
        /\ (loop.shift => back' = back)
    BY <1>2 DEF JumpDone, text
  <2>2. CASE ~loop.shift \/ loop.changed
    BY <2>1, <2>2
  <2>3. CASE loop.shift /\ ~loop.changed
    BY <1>0, <2>1, <2>3
  <2> QED
    BY <2>2, <2>3
<1>3. ASSUME PageTurn \/ WordTurn
      PROVE  (Picture' = Picture /\ ~loop.changed) \/ loop'.changed
  <2>1. UNCHANGED <<back, work, current, focus>>
    BY <1>3 DEF PageTurn, WordTurn, text
  <2>2. (front' = front /\ ~loop.changed) \/ loop'.changed
    BY <1>3, <1>t DEF PageTurn, WordTurn, Loops
  <2> QED
    BY <1>0, <2>1, <2>2
<1>4. loop = Idle /\ loop'.pc = "replace" => dirty' \/ \E t \in Given : Paste(t)
  BY ReplaceBegins
<1>5. ASSUME JumpDone, loop.changed PROVE dirty'
  <2>1. dirty' = (~loop.shift \/ loop.changed)
    BY <1>5 DEF JumpDone
  <2> QED
    BY <1>5, <2>1
<1> QED
  BY <1>1, <1>2, <1>3, <1>4, <1>5

\* A widget that asks dirty() after each key never shows an old picture of the box: the key
\* sets it, or, for a jump, the end of the loop does if any of its turns moved the cursor.
THEOREM KeysTell == AlwaysShown => (Spec => KeyTells)
<1> SUFFICES ASSUME AlwaysShown PROVE Spec => KeyTells
  OBVIOUS
<1>1. BoxInv /\ [Next]_vars => [
    /\ KeyProcess \/ JumpDone => Picture' = Picture \/ dirty' \/ loop'.pc \in {"replace", "endless", "thrown"}
    /\ loop = Idle /\ loop'.pc = "replace" => dirty' \/ \E t \in Given : Paste(t)
    /\ PageTurn \/ WordTurn => (Picture' = Picture /\ ~loop.changed) \/ loop'.changed
    /\ JumpDone /\ loop.changed => dirty'
  ]_vars
  BY KeyStep
<1> QED
  BY <1>1, BoxAlways, PTL DEF Spec, KeyTells
=============================================================================
