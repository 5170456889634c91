---------------------------- MODULE ShowUiProofs ----------------------------
(***************************************************************************)
(* Theorems about ShowUi, for every number of rows, every size of the      *)
(* terminal and all widths of the columns.                                 *)
(***************************************************************************)
EXTENDS ShowUi, SeqLemmas, TLAPS

\* Outside of the assertion the selection is not above the screen, and the
\* number of rows shown is the one for the height of the terminal.
IInv ==
    /\ TypeOK
    /\ nlines = Shown(lines)
    /\ status = Running /\ interactive => first <= selected
    /\ SelectedShown
    /\ AbortsOnlyWithoutRoom
    /\ PrintsRows

\* A terminal never shows more rows than there are.
LEMMA ShownBounds ==
  ASSUME NEW height \in Heights, nrows \in RowCounts
  PROVE  Shown(height) \in 0 .. nrows
  <1>1. /\ nrows \in Nat /\ height \in Nat \ {0} /\ Wrap \in Nat
        /\ 2 * nrows + 2 < Wrap /\ 2 * height + 2 < Wrap
    BY ShowUiAssumption
  <1>2. Bars \in 0 .. 2
    BY DEF Bars
  <1> QED
    BY <1>1, <1>2 DEF Shown, Wrapped, Least

\* What a handler may ask Layout for: a row that exists to be selected and a
\* screen that holds it.
Asked(f, s, n) ==
    /\ f \in 0 .. Wrap - 1 /\ s \in 0 .. Wrap - 1 /\ f + n < Wrap
    /\ nrows > 0 => s < nrows
    /\ interactive /\ n > 0 => f <= s /\ f <= nrows

\* The layout keeps the screen inside the table, and the selection below its top.
LEMMA LayoutKeeps ==
  ASSUME TypeOK, NEW f, NEW s, NEW height \in Heights,
         Layout(f, s, height), Asked(f, s, Shown(height))
  PROVE  /\ nlines' = Shown(height) /\ nlines' \in 0 .. nrows
         /\ first' \in 0 .. nrows - nlines'
         /\ selected' = s
         /\ interactive /\ nlines' > 0 => first' <= f /\ first' <= s
         /\ interactive /\ nlines' > 0 /\ s < f + nlines' => s < first' + nlines'
         /\ status' \in {Running, Aborted}
         /\ status' = Running /\ interactive => first' <= s
         /\ status' = Aborted => nlines' = 0
  <1>1. nrows \in Nat /\ Wrap \in Nat /\ 2 * nrows + 2 < Wrap
    BY ShowUiAssumption DEF TypeOK
  <1>2. nlines' = Shown(height) /\ nlines' \in 0 .. nrows
    BY ShownBounds DEF Layout, TypeOK
  <1>3. first' \in 0 .. nrows - nlines'
    BY <1>1, <1>2 DEF Layout, FirstShown, Asked, Wrapped
  <1>4. selected' = s /\ s \in Nat
    BY <1>1 DEF Layout, Asked
  <1>5. interactive /\ nlines' > 0 => f \in Nat /\ f <= nrows /\ f <= s /\ s < nrows
    BY <1>1, <1>2, <1>4 DEF Asked
  <1>6. interactive /\ nlines' > 0 =>
          first' <= f /\ first' <= s /\ (s < f + nlines' => s < first' + nlines')
    BY <1>1, <1>2, <1>4, <1>5 DEF Layout, FirstShown, Wrapped
  <1>7. status' \in {Running, Aborted} /\ (status' = Running /\ interactive => first' <= s)
    BY <1>3, <1>4, <1>2, <1>1 DEF Layout, Running, Aborted
  <1>8. status' = Aborted => nlines' = 0
    BY <1>2, <1>3, <1>4, <1>6, <1>1 DEF Layout, Running, Aborted
  <1> QED
    BY <1>2, <1>3, <1>4, <1>6, <1>7, <1>8

\* A handler that ends in the top of the loop keeps the invariant.
LEMMA HandlerKeeps ==
  ASSUME IInv, NEW f, NEW s, Layout(f, s, lines), Asked(f, s, nlines),
         interactive /\ ~shrunk /\ nlines > 0 => s < f + nlines,
         UNCHANGED <<table, lines, cols, shrunk>>,
         beeped' \in BOOLEAN,
         \/ UNCHANGED printLines
         \/ s = selected /\ printLines' = Append(printLines, selected)
  PROVE  IInv'
  <1>1. TypeOK /\ lines \in Heights /\ nlines = Shown(lines)
    BY DEF IInv, TypeOK
  <1>2. /\ nlines' = Shown(lines) /\ nlines' \in 0 .. nrows
        /\ first' \in 0 .. nrows - nlines'
        /\ selected' = s
        /\ interactive /\ nlines' > 0 => first' <= f /\ first' <= s
        /\ interactive /\ nlines' > 0 /\ s < f + nlines' => s < first' + nlines'
        /\ status' \in {Running, Aborted}
        /\ status' = Running /\ interactive => first' <= s
        /\ status' = Aborted => nlines' = 0
    BY <1>1, LayoutKeeps
  <1>3. nlines' = nlines /\ Shown(lines)' = Shown(lines)
    BY <1>1, <1>2 DEF table, Shown, Bars, Wrapped, Least
  <1>4. nrows \in Nat /\ nrows' = nrows /\ interactive' = interactive /\ shrunk' = shrunk
    BY <1>1, ShowUiAssumption DEF TypeOK, table
  <1>5. printLines' \in Seq(0 .. Wrap - 1)
    <2>1. \A S : printLines \in Seq(S) /\ selected \in S => Append(printLines, selected) \in Seq(S)
      OBVIOUS
    <2> QED
      BY <1>1, <2>1 DEF TypeOK
  <1>6. TypeOK'
    <2>1. /\ UNCHANGED <<nrows, columns, interactive, header, lines, cols, shrunk>>
          /\ beeped' \in BOOLEAN
      BY DEF table
    <2>2. s \in 0 .. Wrap - 1 /\ (nrows > 0 => s < nrows)
      BY DEF Asked
    <2>3. first' \in Nat /\ nlines' \in Nat /\ first' + nlines' <= nrows
      BY ONLY <1>2, <1>4
    <2>4. status' \in {Running, Quit, Aborted}
      BY <1>2
    <2> QED
      BY ONLY <1>1, <1>2, <1>5, <2>1, <2>2, <2>3, <2>4 DEF TypeOK
  <1>7. SelectedShown'
    <2> SUFFICES ASSUME interactive, ~shrunk, nlines > 0
                 PROVE  selected' \in first' .. first' + nlines' - 1
      BY <1>3, <1>4 DEF SelectedShown
    <2>1. s \in Int
      BY ShowUiAssumption DEF Asked
    <2>2. nlines' > 0 /\ s < f + nlines'
      BY <1>3
    <2>3. s < first' + nlines' /\ first' <= s
      BY <1>2, <2>2
    <2> QED
      BY <1>2, <1>4, <2>1, <2>3
  <1>8. PrintsRows'
    <2>1. CASE UNCHANGED printLines
      BY <2>1, <1>4 DEF IInv, PrintsRows
    <2>2. CASE s = selected /\ printLines' = Append(printLines, selected)
      <3> SUFFICES ASSUME nrows > 0, NEW k \in DOMAIN printLines'
                   PROVE  printLines'[k] \in 0 .. nrows - 1
        BY <1>4 DEF PrintsRows
      <3>1. printLines \in Seq(0 .. Wrap - 1) /\ selected \in 0 .. nrows - 1
        BY <1>1, <1>4, ShowUiAssumption DEF TypeOK
      <3>2. k \in DOMAIN printLines \/ printLines'[k] = selected
        BY <2>2, <3>1
      <3>3. k \in DOMAIN printLines => printLines'[k] = printLines[k]
        BY <2>2, <3>1
      <3> QED
        BY <3>1, <3>2, <3>3 DEF IInv, PrintsRows
    <2> QED
      BY <2>1, <2>2
  <1> QED
    BY <1>2, <1>3, <1>4, <1>6, <1>7, <1>8 DEF IInv, AbortsOnlyWithoutRoom

-----------------------------------------------------------------------------
(* The keys *)

\* A screen and a selection that a handler may leave for the top of the loop.
Fits(f, s) ==
    /\ Asked(f, s, nlines)
    /\ interactive /\ ~shrunk /\ nlines > 0 => s < f + nlines

Shows(f, s) == Show(f, s) \/ ShowAndBeep(f, s)

\* What the invariant says about the positions while the program runs.
LEMMA Positions ==
  ASSUME IInv, status = Running
  PROVE  /\ nrows \in Nat /\ first \in Nat /\ nlines \in Nat /\ selected \in Nat /\ Wrap \in Nat
         /\ 2 * nrows + 2 < Wrap /\ selected < Wrap
         /\ first + nlines <= nrows
         /\ nrows > 0 => selected < nrows
         /\ interactive => first <= selected
         /\ interactive /\ ~shrunk /\ nlines > 0 => selected < first + nlines
  <1>1. nrows \in Nat /\ first \in Nat /\ nlines \in Nat /\ selected \in Nat /\ Wrap \in Nat
    BY ShowUiAssumption DEF IInv, TypeOK
  <1>2. interactive /\ ~shrunk /\ nlines > 0 => selected < first + nlines
    BY <1>1 DEF IInv, SelectedShown
  <1> QED
    BY <1>1, <1>2, ShowUiAssumption DEF IInv, TypeOK

\* Showing what fits keeps the invariant.
LEMMA ShowKeeps ==
  ASSUME IInv, NEW f, NEW s, Shows(f, s), Fits(f, s)
  PROVE  IInv'
  <1>1. /\ Layout(f, s, lines) /\ beeped' \in BOOLEAN
        /\ UNCHANGED <<table, lines, cols, shrunk>> /\ UNCHANGED printLines
    BY DEF Shows, Show, ShowAndBeep
  <1> QED
    BY <1>1, HandlerKeeps DEF Fits

\* What is on the screen fits.
LEMMA StayFits ==
  ASSUME IInv, status = Running
  PROVE  Fits(first, selected)
  BY Positions DEF Fits, Asked

\* The down key.
LEMMA DownShows ==
  ASSUME IInv, status = Running, Down
  PROVE  \E f, s : Shows(f, s) /\ Fits(f, s)
  <1>1. CASE Beep
    BY <1>1, StayFits DEF Beep, Shows
  <1>2. CASE ~Beep /\ interactive
    <2> DEFINE f == IF Onscreen >= Wrapped(nlines - 1) THEN first + 1 ELSE first
               s == Wrapped(selected + 1)
    <2>1. Show(f, s) /\ s # nrows
      BY <1>2 DEF Down, DownSelecting
    <2>2. Fits(f, s)
      <3>1. s \in 0 .. Wrap - 1 /\ (nrows > 0 => s = selected + 1 /\ s < nrows)
        BY <2>1, Positions DEF Wrapped
      <3>2. Onscreen = selected - first
        BY <1>2, Positions DEF Onscreen, Wrapped
      <3>3. f \in {first, first + 1}
        OBVIOUS
      <3>4. nlines > 0 => f = IF selected - first >= nlines - 1 THEN first + 1 ELSE first
        BY <3>2, Positions DEF Wrapped
      <3>5. nlines > 0 => f <= s /\ f <= nrows
        BY <1>2, <3>1, <3>4, Positions
      <3>6. ~shrunk /\ nlines > 0 => s < f + nlines
        BY <1>2, <3>1, <3>4, Positions
      <3> QED
        BY <3>1, <3>3, <3>5, <3>6, Positions DEF Fits, Asked
    <2> QED
      BY <2>1, <2>2 DEF Shows
  <1>3. CASE ~Beep /\ ~interactive
    <2>1. Show(first + 1, selected) /\ Wrapped(first + nlines) < nrows
      BY <1>3, Positions DEF Down, DownScrolling, Wrapped
    <2>2. Fits(first + 1, selected)
      BY <1>3, <2>1, Positions DEF Fits, Asked, Wrapped
    <2> QED
      BY <2>1, <2>2 DEF Shows
  <1> QED
    BY <1>1, <1>2, <1>3

\* The up key.
LEMMA UpShows ==
  ASSUME IInv, status = Running, Up
  PROVE  \E f, s : Shows(f, s) /\ Fits(f, s)
  <1>1. CASE interactive
    <2> DEFINE s == IF selected > 0 THEN selected - 1 ELSE selected
               f == IF Onscreen = 0 /\ first > 0 THEN first - 1 ELSE first
    <2>1. Shows(f, s)
      BY <1>1 DEF Up, UpSelecting, Shows
    <2>2. Fits(f, s)
      BY <1>1, Positions DEF Fits, Asked, Onscreen, Wrapped
    <2> QED
      BY <2>1, <2>2
  <1>2. CASE ~interactive /\ first > 0
    <2>1. Show(first - 1, selected)
      BY <1>2 DEF Up, UpScrolling
    <2>2. Fits(first - 1, selected)
      BY <1>2, Positions DEF Fits, Asked
    <2> QED
      BY <2>1, <2>2 DEF Shows
  <1>3. CASE ~interactive /\ ~(first > 0)
    BY <1>3, StayFits DEF Up, UpScrolling, Beep, Shows
  <1> QED
    BY <1>1, <1>2, <1>3

\* The page-down and space keys: the new top row was on the screen, or follows it.
LEMMA PageDownShows ==
  ASSUME IInv, status = Running, PageDown
  PROVE  \E f, s : Shows(f, s) /\ Fits(f, s) /\ (nlines > 0 => f \in first .. first + nlines)
  <1>1. CASE Beep
    BY <1>1, StayFits, Positions DEF Beep, Shows
  <1>2. CASE ~Beep /\ interactive
    <2> DEFINE f0 == Wrapped(first + nlines)
               s0 == Wrapped(selected + nlines)
               f == IF Wrapped(f0 + nlines) >= nrows THEN nrows - nlines ELSE f0
               s == IF s0 >= nrows THEN LastRow ELSE s0
    <2>1. Show(f, s) /\ selected # LastRow
      BY <1>2 DEF PageDown, PageDownSelecting
    <2>2. \/ f = nrows - nlines /\ first + 2 * nlines >= nrows
          \/ f = first + nlines /\ f + nlines < nrows
      BY Positions DEF Wrapped
    <2>3. nrows > 0 => \/ s = nrows - 1 /\ selected + nlines >= nrows
                       \/ s = selected + nlines /\ s < nrows
      BY Positions DEF Wrapped, LastRow
    <2>4. nrows = 0 => first = 0 /\ nlines = 0 /\ f = 0 /\ s \in 0 .. Wrap - 1
      BY <2>2, Positions DEF Wrapped, LastRow
    <2>5. CASE nrows > 0
      <3>1. s \in 0 .. nrows - 1 /\ f \in 0 .. nrows
        BY <2>2, <2>3, <2>5, Positions
      <3>2. nlines > 0 => f <= s /\ f \in first .. first + nlines
        BY <2>2, <2>3, <2>5, <1>2, Positions
      <3>3. interactive /\ ~shrunk /\ nlines > 0 => s < f + nlines
        BY <2>2, <2>3, <2>5, Positions
      <3>4. Fits(f, s)
        BY <2>2, <2>5, <3>1, <3>2, <3>3, Positions DEF Fits, Asked
      <3> QED
        BY <2>1, <3>2, <3>4 DEF Shows
    <2>6. CASE nrows = 0
      <3>1. Fits(f, s)
        BY <2>4, <2>6, Positions DEF Fits, Asked
      <3> QED
        BY <2>1, <2>4, <2>6, <3>1 DEF Shows
    <2> QED
      BY <2>5, <2>6, Positions
  <1>3. CASE ~Beep /\ ~interactive
    <2> DEFINE f == Wrapped(first + Wrapped(nlines - 1))
    <2>1. Show(f, selected) /\ Wrapped(first + nlines) < nrows
      BY <1>3, Positions DEF PageDown, PageDownScrolling, Wrapped
    <2>2. nlines > 0 => f = first + nlines - 1
      BY Positions DEF Wrapped
    <2>3. nlines = 0 => f \in 0 .. Wrap - 1
      <3> SUFFICES ASSUME nlines = 0 PROVE f \in 0 .. Wrap - 1
        OBVIOUS
      <3>1. Wrapped(nlines - 1) = Wrap - 1
        BY Positions DEF Wrapped
      <3>2. f = Wrapped(first + Wrap - 1)
        BY <3>1, Positions
      <3>3. \A n \in 0 .. 2 * Wrap - 1 : Wrapped(n) \in 0 .. Wrap - 1
        BY Positions DEF Wrapped
      <3> QED
        BY <3>2, <3>3, Positions
    <2>4. Fits(f, selected)
      BY <1>3, <2>1, <2>2, <2>3, Positions DEF Fits, Asked, Wrapped
    <2>5. nlines > 0 => f \in first .. first + nlines
      BY <2>2, Positions
    <2> QED
      BY <2>1, <2>4, <2>5 DEF Shows
  <1> QED
    BY <1>1, <1>2, <1>3

\* The page-up and backspace keys: the old top row stays on the screen, or
\* follows it.
LEMMA PageUpShows ==
  ASSUME IInv, status = Running, PageUp
  PROVE  \E f, s : Shows(f, s) /\ Fits(f, s) /\ (nlines > 0 => f \in first - nlines .. first)
  <1>1. CASE interactive
    <2> DEFINE s == IF selected > nlines THEN selected - nlines ELSE 0
               f == IF first >= nlines THEN first - nlines ELSE IF first = 0 THEN first ELSE 0
    <2>1. Shows(f, s)
      BY <1>1 DEF PageUp, PageUpSelecting, Shows
    <2>2. Fits(f, s) /\ (nlines > 0 => f \in first - nlines .. first)
      BY <1>1, Positions DEF Fits, Asked
    <2> QED
      BY <2>1, <2>2
  <1>2. CASE ~interactive
    <2> DEFINE page == Wrapped(nlines - 1)
               f == IF first >= page THEN first - page ELSE 0
    <2>1. Shows(f, selected)
      BY <1>2 DEF PageUp, PageUpScrolling, Beep, Shows
    <2>2. page \in Nat /\ (nlines > 0 => page = nlines - 1)
      BY Positions DEF Wrapped
    <2>3. f \in 0 .. first /\ (nlines > 0 => f \in first - nlines .. first)
      BY <2>2, Positions
    <2>4. Fits(f, selected)
      BY <1>2, <2>3, Positions DEF Fits, Asked
    <2> QED
      BY <2>1, <2>3, <2>4
  <1> QED
    BY <1>1, <1>2

\* The home and end keys.
LEMMA HomeEndShows ==
  ASSUME IInv, status = Running, Home \/ End
  PROVE  \E f, s : Shows(f, s) /\ Fits(f, s)
  <1>1. CASE Beep
    BY <1>1, StayFits DEF Beep, Shows
  <1>2. CASE ~Beep /\ interactive /\ Home
    <2>1. Show(0, 0)
      BY <1>2 DEF Home
    <2>2. Fits(0, 0)
      BY Positions DEF Fits, Asked
    <2> QED
      BY <2>1, <2>2 DEF Shows
  <1>3. CASE ~Beep /\ ~interactive /\ Home
    <2>1. Show(0, selected)
      BY <1>3 DEF Home
    <2>2. Fits(0, selected)
      BY <1>3, Positions DEF Fits, Asked
    <2> QED
      BY <2>1, <2>2 DEF Shows
  <1>4. CASE ~Beep /\ interactive /\ End
    <2>1. Show(nrows - nlines, LastRow)
      BY <1>4 DEF End
    <2>2. LastRow \in 0 .. Wrap - 1 /\ (nrows > 0 => LastRow = nrows - 1)
      BY Positions DEF LastRow, Wrapped
    <2>3. Fits(nrows - nlines, LastRow)
      BY <2>2, Positions DEF Fits, Asked
    <2> QED
      BY <2>1, <2>3 DEF Shows
  <1>5. CASE ~Beep /\ ~interactive /\ End
    <2>1. Show(nrows - nlines, selected)
      BY <1>5 DEF End
    <2>2. Fits(nrows - nlines, selected)
      BY <1>5, Positions DEF Fits, Asked
    <2> QED
      BY <2>1, <2>2 DEF Shows
  <1> QED
    BY <1>1, <1>2, <1>3, <1>4, <1>5

\* The keys that scroll sideways leave the rows alone.
LEMMA ColumnKeyKeeps ==
  ASSUME IInv, status = Running, ColumnKey
  PROVE  IInv'
  <1>1. CASE Beep
    BY <1>1, StayFits, ShowKeeps DEF Beep, Shows
  <1>2. CASE \E x : ShiftTo(x) /\ beeped' \in BOOLEAN
    <2>1. /\ Layout(first, selected, lines) /\ beeped' \in BOOLEAN
          /\ UNCHANGED <<table, lines, cols, shrunk>> /\ UNCHANGED printLines
      BY <1>2 DEF ShiftTo
    <2> QED
      BY <2>1, StayFits, HandlerKeeps DEF Fits
  <1>3. Beep \/ \E x : ShiftTo(x) /\ beeped' \in BOOLEAN
    <2>1. \A x : Shift(x) \/ ShiftOrBeep(x) => ShiftTo(x) /\ beeped' \in BOOLEAN
      BY DEF Shift, ShiftOrBeep
    <2> QED
      BY <2>1 DEF ColumnKey, Right, Left, ShiftHome, ShiftEnd, ColumnLeft, ColumnRight
  <1> QED
    BY <1>1, <1>2, <1>3

\* An action that returns to the interface keeps the invariant.
LEMMA ActionReturningKeeps ==
  ASSUME IInv, status = Running, ActionReturning
  PROVE  IInv'
  <1>1. /\ Layout(first, selected, lines) /\ beeped' \in BOOLEAN
        /\ UNCHANGED <<table, lines, cols, shrunk>>
        /\ printLines' = Append(printLines, selected)
    BY DEF ActionReturning
  <1> QED
    BY <1>1, StayFits, HandlerKeeps DEF Fits

\* Leaving the interface keeps the invariant.
LEMMA QuittingKeeps ==
  ASSUME IInv, status = Running, ActionQuitting \/ KeyQ
  PROVE  IInv'
  <1>1. /\ UNCHANGED <<table, lines, cols, view, shrunk, beeped>> /\ status' = Quit
        /\ UNCHANGED printLines \/ printLines' = Append(printLines, selected)
    BY DEF ActionQuitting, KeyQ
  <1>2. printLines \in Seq(0 .. Wrap - 1) /\ selected \in 0 .. Wrap - 1 /\ nrows \in Nat
    BY ShowUiAssumption DEF IInv, TypeOK
  <1>3. printLines' \in Seq(0 .. Wrap - 1)
    <2>1. \A S : printLines \in Seq(S) /\ selected \in S => Append(printLines, selected) \in Seq(S)
      OBVIOUS
    <2> QED
      BY <1>1, <1>2, <2>1
  <1>4. TypeOK'
    BY <1>1, <1>3 DEF IInv, TypeOK, table, view
  <1>5. PrintsRows'
    <2> SUFFICES ASSUME nrows > 0, NEW k \in DOMAIN printLines'
                 PROVE  printLines'[k] \in 0 .. nrows - 1
      BY <1>1 DEF PrintsRows, table
    <2>1. selected \in 0 .. nrows - 1
      BY <1>2 DEF IInv, TypeOK
    <2>2. \/ k \in DOMAIN printLines /\ printLines'[k] = printLines[k]
          \/ printLines'[k] = selected
      BY <1>1, <1>2
    <2> QED
      BY <2>1, <2>2 DEF IInv, PrintsRows
  <1>6. nlines' = Shown(lines)' /\ SelectedShown' /\ AbortsOnlyWithoutRoom'
    BY <1>1 DEF IInv, table, view, Shown, Bars, Wrapped, Least, SelectedShown,
                AbortsOnlyWithoutRoom, Quit, Aborted
  <1> QED
    BY <1>1, <1>4, <1>5, <1>6 DEF IInv, Quit, Running

\* A terminal of any other size keeps the invariant.
LEMMA ResizeKeeps ==
  ASSUME IInv, status = Running, Resize
  PROVE  IInv'
  <1>1. PICK height \in Heights, width \in Widths :
          /\ lines' = height /\ cols' = width
          /\ Layout(first, selected, height)
          /\ shrunk' = (shrunk \/ height # lines)
    BY DEF Resize
  <1>2. UNCHANGED <<table, printLines>> /\ beeped' \in BOOLEAN
    BY DEF Resize
  <1>3. TypeOK /\ Shown(height) \in 0 .. nrows
    BY ShownBounds DEF IInv, TypeOK
  <1>4. Asked(first, selected, Shown(height))
    BY <1>3, Positions DEF Asked
  <1>5. /\ nlines' = Shown(height) /\ nlines' \in 0 .. nrows
        /\ first' \in 0 .. nrows - nlines'
        /\ selected' = selected
        /\ interactive /\ nlines' > 0 => first' <= first /\ first' <= selected
        /\ interactive /\ nlines' > 0 /\ selected < first + nlines' => selected < first' + nlines'
        /\ status' \in {Running, Aborted}
        /\ status' = Running /\ interactive => first' <= selected
        /\ status' = Aborted => nlines' = 0
    BY <1>1, <1>3, <1>4, LayoutKeeps
  <1>6. TypeOK'
    BY <1>1, <1>2, <1>3, <1>5, Positions DEF TypeOK, table
  <1>7. nlines' = Shown(lines)'
    BY <1>1, <1>2, <1>5 DEF table, Shown, Bars, Wrapped, Least
  <1>8. SelectedShown'
    <2> SUFFICES ASSUME interactive, ~shrunk', nlines' > 0
                 PROVE  selected' \in first' .. first' + nlines' - 1
      BY <1>2 DEF SelectedShown, table
    <2>1. ~shrunk /\ height = lines
      BY <1>1
    <2>2. nlines' = nlines
      BY <1>5, <2>1 DEF IInv
    <2>3. selected < first + nlines'
      BY <2>1, <2>2, Positions
    <2> QED
      BY <1>5, <2>3, Positions
  <1>9. PrintsRows'
    BY <1>2 DEF IInv, PrintsRows, table
  <1> QED
    BY <1>2, <1>5, <1>6, <1>7, <1>8, <1>9 DEF IInv, table, AbortsOnlyWithoutRoom

-----------------------------------------------------------------------------
(* Theorems *)

\* The first screen.
LEMMA InitKeeps == Init => IInv
  <1> SUFFICES ASSUME Init PROVE IInv
    OBVIOUS
  <1>1. nrows \in Nat /\ lines \in Heights /\ nlines \in 0 .. nrows /\ 2 * nrows + 2 < Wrap
    BY ShownBounds, ShowUiAssumption DEF Init
  <1>2. TypeOK
    <2>1. \A S : <<>> \in Seq(S)
      OBVIOUS
    <2>2. Wrap \in Nat /\ 0 \in 0 .. Wrap - 1
      BY <1>1, ShowUiAssumption
    <2>3. printLines \in Seq(0 .. Wrap - 1)
      BY <2>1 DEF Init
    <2>4. first + nlines <= nrows /\ selected \in 0 .. Wrap - 1 /\ (nrows > 0 => selected < nrows)
      BY <1>1, <2>2 DEF Init
    <2>5. beeped \in BOOLEAN /\ shrunk \in BOOLEAN /\ status \in {Running, Quit, Aborted}
      BY DEF Init
    <2>6. /\ nrows \in RowCounts /\ columns \in ColumnLengths
          /\ interactive \in BOOLEAN /\ header \in BOOLEAN
          /\ lines \in Heights /\ cols \in Widths
          /\ first \in Nat /\ nlines \in Nat
      BY <1>1 DEF Init
    <2> QED
      BY <2>3, <2>4, <2>5, <2>6 DEF TypeOK
  <1> QED
    BY <1>1, <1>2 DEF Init, IInv, SelectedShown, AbortsOnlyWithoutRoom, PrintsRows, Running, Aborted

\* Every key, and every resize, keeps the invariant.
LEMMA NextKeeps == IInv /\ [Next]_vars => IInv'
  <1> SUFFICES ASSUME IInv, [Next]_vars PROVE IInv'
    OBVIOUS
  <1>1. CASE UNCHANGED vars
    BY <1>1 DEF vars, table, view, IInv, TypeOK, Shown, Bars, Wrapped, Least, SelectedShown,
                AbortsOnlyWithoutRoom, PrintsRows
  <1>2. CASE status = Running /\ RowKey
    <2>1. \E f, s : Shows(f, s) /\ Fits(f, s)
      BY <1>2, DownShows, UpShows, PageDownShows, PageUpShows, HomeEndShows DEF RowKey
    <2> QED
      BY <2>1, ShowKeeps
  <1>3. CASE status = Running /\ ColumnKey
    BY <1>3, ColumnKeyKeeps
  <1>4. CASE status = Running /\ ActionReturning
    BY <1>4, ActionReturningKeeps
  <1>5. CASE status = Running /\ (ActionQuitting \/ KeyQ)
    BY <1>5, QuittingKeeps
  <1>6. CASE status = Running /\ Resize
    BY <1>6, ResizeKeeps
  <1> QED
    BY <1>1, <1>2, <1>3, <1>4, <1>5, <1>6 DEF Next

THEOREM UiInvariance == Spec => []IInv
  BY InitKeeps, NextKeeps, PTL DEF Spec

\* No position wraps around while there are rows, and only rows of the table
\* are drawn.
THEOREM UiTypeCorrect == Spec => []TypeOK
  <1>1. IInv => TypeOK
    BY DEF IInv
  <1> QED
    BY <1>1, UiInvariance, PTL

\* The selected row is on the screen unless the terminal has changed its height.
THEOREM SelectionOnScreen == Spec => []SelectedShown
  <1>1. IInv => SelectedShown
    BY DEF IInv
  <1> QED
    BY <1>1, UiInvariance, PTL

\* With room for one row, assert(selected_line >= first_line) never fails,
\* whatever keys are pressed and however the terminal is resized.
THEOREM AssertionWithRoom == Spec => []AbortsOnlyWithoutRoom
  <1>1. IInv => AbortsOnlyWithoutRoom
    BY DEF IInv
  <1> QED
    BY <1>1, UiInvariance, PTL

\* Actions get rows of the table, if it has any.
THEOREM ActionsGetRows == Spec => []PrintsRows
  <1>1. IInv => PrintsRows
    BY DEF IInv
  <1> QED
    BY <1>1, UiInvariance, PTL

\* Where a page of the screen begins after a handler asked for row f.
LEMMA PageBegins ==
  ASSUME IInv, status = Running, nlines > 0, NEW f, NEW s, Shows(f, s), Fits(f, s),
         f \in first - nlines .. first + nlines
  PROVE  first' <= first + nlines /\ first' + nlines >= first
  <1>1. nlines' = nlines /\ first' = FirstShown(f, nlines)
    BY DEF Shows, Show, ShowAndBeep, Layout, IInv
  <1>2. first' = f \/ (first' = nrows - nlines /\ f + nlines > nrows)
    BY <1>1, Positions DEF FirstShown, Fits, Asked, Wrapped
  <1> QED
    BY <1>2, Positions

\* Paging up and down skips no row.
THEOREM PagingComplete == Spec => PagingSkipsNothing
  <1>1. IInv /\ [Next]_vars
          => [(PageDown \/ PageUp) /\ nlines > 0 =>
                first' <= first + nlines /\ first' + nlines >= first]_vars
    <2> SUFFICES ASSUME IInv, Next, PageDown \/ PageUp, nlines > 0
                 PROVE  first' <= first + nlines /\ first' + nlines >= first
      OBVIOUS
    <2>1. status = Running
      BY DEF Next
    <2>2. PICK f, s : Shows(f, s) /\ Fits(f, s) /\ f \in first - nlines .. first + nlines
      <3>1. CASE PageDown
        BY <2>1, <3>1, PageDownShows, Positions
      <3>2. CASE PageUp
        BY <2>1, <3>2, PageUpShows, Positions
      <3> QED
        BY <3>1, <3>2
    <2> QED
      BY <2>1, <2>2, PageBegins
  <1> QED
    BY <1>1, UiInvariance, PTL DEF Spec, PagingSkipsNothing
-----------------------------------------------------------------------------
(* Columns *)

\* Where the columns end.
LEMMA WidthsAdd ==
  ASSUME TypeOK
  PROVE  /\ Len(columns) \in Nat /\ DOMAIN columns = 1 .. Len(columns)
         /\ Width[0] = 0
         /\ \A k \in 0 .. Len(columns) : Width[k] \in Nat
  <1>1. columns \in Seq(Nat)
    BY ShowUiAssumption DEF TypeOK
  <1>2. columns \in Seq(Int) /\ \A k \in 1 .. Len(columns) : columns[k] \in Nat
    BY <1>1
  <1>3. Width = CHOOSE g : g = [k \in 0 .. Len(columns) |->
                                  IF k = 0 THEN 0 ELSE g[k - 1] + columns[k]]
    BY DEF Width
  <1>4. /\ Width[0] = 0
        /\ \A k \in 1 .. Len(columns) : Width[k] = Width[k - 1] + columns[k]
    BY <1>2, <1>3, PartialSums
  <1> DEFINE U == {k \in Nat : Width[k] \in Nat}
  <1>5. 0 .. Len(columns) \subseteq U
    <2>1. 0 \in U
      BY <1>4
    <2>2. \A k \in 0 .. Len(columns) - 1 : k \in U => k + 1 \in U
      <3> SUFFICES ASSUME NEW k \in 0 .. Len(columns) - 1, Width[k] \in Nat PROVE k + 1 \in U
        OBVIOUS
      <3>1. k + 1 \in 1 .. Len(columns) /\ (k + 1) - 1 = k
        BY <1>1
      <3>2. Width[k + 1] = Width[k] + columns[k + 1] /\ columns[k + 1] \in Nat
        BY <1>2, <1>4, <3>1
      <3> QED
        BY <3>1, <3>2
    <2>3. Len(columns) \in Nat
      BY <1>1
    <2> HIDE DEF U
    <2> QED
      BY <2>1, <2>2, <2>3, UpToInduction
  <1> QED
    BY <1>1, <1>4, <1>5

\* What the keys that scroll sideways ask for.
LEMMA ColumnKeyShows ==
  ASSUME TypeOK, ColumnsShown, ColumnKey
  PROVE  ColumnsShown'
  <1> DEFINE M == MaxLine
             Fine(x) == x = 0 \/ x \in 1 .. M - 1
  <1>1. M \in Nat /\ cols \in Nat \ {0} /\ Half \in 0 .. cols /\ Fine(xoff)
    <2>1. MaxLine \in Nat
      BY WidthsAdd DEF MaxLine
    <2>2. cols \in Nat \ {0}
      BY ShowUiAssumption DEF TypeOK
    <2> HIDE DEF M
    <2>3. Half \in 0 .. cols
      BY <2>2 DEF Half
    <2> QED
      BY <2>1, <2>2, <2>3 DEF ColumnsShown, M
  <1>2. xoff \in Nat
    BY <1>1
  <1>3. ASSUME NEW x, Fine(x), ShiftTo(x) PROVE ColumnsShown'
    <2>1. xoff' = x /\ columns' = columns
      BY <1>3 DEF ShiftTo, table
    <2>2. MaxLine' = MaxLine
      BY <2>1 DEF MaxLine, Width
    <2> QED
      BY <1>3, <2>1, <2>2 DEF ColumnsShown
  <1>4. \A x : Shift(x) \/ ShiftOrBeep(x) => ShiftTo(x)
    BY DEF Shift, ShiftOrBeep
  <1>5. ASSUME Beep PROVE ColumnsShown'
    <2>1. xoff' = xoff /\ columns' = columns
      BY <1>5 DEF Beep, ShowAndBeep, table
    <2>2. MaxLine' = MaxLine
      BY <2>1 DEF MaxLine, Width
    <2> QED
      BY <2>1, <2>2 DEF ColumnsShown
  <1>6. CASE Right
    <2>1. CASE xoff + cols < M
      <3>1. Shift(xoff + Half)
        BY <1>6, <2>1 DEF Right
      <3>2. Fine(xoff + Half)
        <4> HIDE DEF M
        <4> QED
          BY <1>1, <1>2, <2>1
      <3> HIDE DEF Fine
      <3> QED
        BY <1>3, <1>4, <3>1, <3>2
    <2>2. CASE ~(xoff + cols < M)
      BY <1>5, <1>6, <2>2 DEF Right
    <2> QED
      BY <2>1, <2>2
  <1>7. CASE Left
    <2>1. CASE xoff >= Half
      <3>1. Shift(xoff - Half)
        BY <1>7, <2>1 DEF Left
      <3>2. Fine(xoff - Half)
        <4> HIDE DEF M
        <4> QED
          BY <1>1, <1>2, <2>1
      <3> HIDE DEF Fine
      <3> QED
        BY <1>3, <1>4, <3>1, <3>2
    <2>2. CASE ~(xoff >= Half) /\ xoff = 0
      BY <1>5, <1>7, <2>2 DEF Left
    <2>3. CASE ~(xoff >= Half) /\ xoff # 0
      BY <1>3, <1>4, <1>7, <2>3 DEF Left
    <2> QED
      BY <2>1, <2>2, <2>3
  <1>8. CASE ShiftHome
    BY <1>3, <1>4, <1>8 DEF ShiftHome
  <1>9. CASE ShiftEnd
    <2> DEFINE x == IF M > cols THEN M - cols ELSE 0
    <2>1. ShiftTo(x)
      BY <1>4, <1>9 DEF ShiftEnd
    <2>2. Fine(x)
      <3> HIDE DEF M
      <3> QED
        BY <1>1
    <2> HIDE DEF Fine, x
    <2> QED
      BY <1>3, <2>1, <2>2
  <1>10. CASE ColumnLeft
    <2> DEFINE reaching == {k \in DOMAIN columns : Width[k] >= xoff}
               k1 == CHOOSE k \in reaching : \A j \in reaching : k <= j
               x == IF reaching = {} THEN xoff ELSE Width[k1 - 1]
    <2>1. ShiftTo(x)
      BY <1>4, <1>10 DEF ColumnLeft
    <2>2. CASE reaching = {}
      BY <1>1, <1>3, <2>1, <2>2
    <2>3. CASE reaching # {}
      <3>1. DOMAIN columns \subseteq Nat
        BY WidthsAdd
      <3>2. k1 \in reaching /\ \A j \in reaching : k1 <= j
        <4>1. reaching \in SUBSET Nat
          BY <3>1
        <4> HIDE DEF reaching
        <4>2. \E k \in reaching : \A j \in reaching : k <= j
          BY <2>3, <4>1, LeastMember
        <4> QED
          BY <4>2
      <3> HIDE DEF k1
      <3>3. k1 \in 1 .. Len(columns)
        BY <3>2, WidthsAdd
      <3>4. CASE k1 = 1
        <4>1. Width[k1 - 1] = 0
          BY <3>4, WidthsAdd
        <4> QED
          BY <1>3, <2>1, <2>3, <4>1
      <3>5. CASE k1 # 1
        <4>1. k1 - 1 \in 1 .. Len(columns) /\ ~(k1 <= k1 - 1) /\ k1 - 1 \in 0 .. Len(columns)
          BY <3>3, <3>5, WidthsAdd
        <4>2. k1 - 1 \notin reaching
          BY <3>2, <4>1
        <4>3. Width[k1 - 1] \in Nat /\ ~(Width[k1 - 1] >= xoff)
          BY <4>1, <4>2, WidthsAdd
        <4>4. Fine(Width[k1 - 1])
          <5> HIDE DEF M
          <5> QED
            BY <1>1, <1>2, <4>3
        <4> HIDE DEF Fine, reaching
        <4> QED
          BY <1>3, <2>1, <2>3, <4>4
      <3> QED
        BY <3>4, <3>5
    <2> QED
      BY <2>2, <2>3
  <1>11. CASE ColumnRight
    <2> DEFINE behind == {k \in DOMAIN columns : Width[k] > xoff}
               next == CHOOSE k \in behind : \A j \in behind : k <= j
               x == IF behind = {} \/ Width[next] >= M THEN xoff ELSE Width[next]
    <2>1. ShiftTo(x)
      BY <1>4, <1>11 DEF ColumnRight
    <2>2. CASE behind = {} \/ Width[next] >= M
      BY <1>1, <1>3, <2>1, <2>2
    <2>3. CASE behind # {} /\ ~(Width[next] >= M)
      <3>1. behind \in SUBSET Nat
        BY WidthsAdd
      <3>2. next \in behind
        <4> HIDE DEF behind
        <4>1. \E k \in behind : \A j \in behind : k <= j
          BY <2>3, <3>1, LeastMember
        <4> QED
          BY <4>1
      <3> HIDE DEF next
      <3>3. Width[next] \in Nat /\ Width[next] > xoff
        BY <3>2, WidthsAdd
      <3>4. Fine(Width[next])
        <4> HIDE DEF M
        <4> QED
          BY <1>1, <1>2, <2>3, <3>3
      <3> HIDE DEF Fine, behind
      <3> QED
        BY <1>3, <2>1, <2>3, <3>4
    <2> QED
      BY <2>2, <2>3
  <1> QED
    BY <1>6, <1>7, <1>8, <1>9, <1>10, <1>11 DEF ColumnKey

\* The other keys leave the columns and their offset alone.
LEMMA OtherKeyShows ==
  ASSUME TypeOK, ColumnsShown, xoff' = xoff, columns' = columns
  PROVE  ColumnsShown'
  <1>1. MaxLine' = MaxLine
    BY DEF MaxLine, Width
  <1> QED
    BY <1>1 DEF ColumnsShown

\* However the keys that scroll sideways are combined, and whatever the widths
\* of the columns are, the first character shown is one of the table.
THEOREM ColumnsOnScreen == Spec => []ColumnsShown
  <1>1. Init => ColumnsShown
    BY DEF Init, ColumnsShown
  <1>2. IInv /\ ColumnsShown /\ [Next]_vars => ColumnsShown'
    <2> SUFFICES ASSUME IInv, ColumnsShown, [Next]_vars PROVE ColumnsShown'
      OBVIOUS
    <2>1. TypeOK
      BY DEF IInv
    <2>2. CASE UNCHANGED vars
      BY <2>1, <2>2, OtherKeyShows DEF vars, table
    <2>3. CASE status = Running /\ RowKey
      <3>1. \E f, s : Shows(f, s)
        BY <2>3, DownShows, UpShows, PageDownShows, PageUpShows, HomeEndShows DEF RowKey
      <3>2. xoff' = xoff /\ columns' = columns
        BY <3>1 DEF Shows, Show, ShowAndBeep, table
      <3> QED
        BY <2>1, <3>2, OtherKeyShows
    <2>4. CASE ColumnKey
      BY <2>1, <2>4, ColumnKeyShows
    <2>5. CASE ActionReturning \/ ActionQuitting \/ KeyQ \/ Resize
      <3>1. xoff' = xoff /\ columns' = columns
        BY <2>5 DEF ActionReturning, ActionQuitting, KeyQ, Resize, table
      <3> QED
        BY <2>1, <3>1, OtherKeyShows
    <2> QED
      BY <2>2, <2>3, <2>4, <2>5 DEF Next
  <1> QED
    BY <1>1, <1>2, UiInvariance, PTL DEF Spec
=============================================================================
