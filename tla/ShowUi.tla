------------------------------- MODULE ShowUi -------------------------------
(***************************************************************************)
(* The ncurses interface of csv-show (curses_ui() in                       *)
(* src/src/show_ncurses.c): which rows and columns are on the screen, which *)
(* row is selected in interactive mode, and what each key does to them.    *)
(* A state is the program waiting in getch(); a step is a key, or a resize *)
(* of the terminal, followed by the top of the loop, which lays the screen *)
(* out again.  Positions are size_t: they wrap at Wrap.                    *)
(***************************************************************************)
EXTENDS Integers, Sequences, SequencesExt

CONSTANTS
    RowCounts,      \* numbers of rows
    Heights,        \* heights of the terminal
    ColumnLengths,  \* sequences of column widths, spacing included
    Widths,         \* widths of the terminal
    Wrap,           \* SIZE_MAX + 1
    MaxPrinted      \* bound on the rows selected for printing

ASSUME ShowUiAssumption ==
    /\ RowCounts \subseteq Nat /\ Heights \subseteq Nat \ {0} /\ Widths \subseteq Nat \ {0}
    /\ ColumnLengths \subseteq Seq(Nat)
    /\ MaxPrinted \in Nat
    /\ Wrap \in Nat /\ \A n \in RowCounts \cup Heights : 2 * n + 2 < Wrap

VARIABLES
    nrows, columns,         \* params->nlines; the widths of the shown columns
    interactive, header,    \* -i; no --no-header
    lines, cols,            \* LINES, COLS
    first, selected, nlines,    \* first_line, selected_line, nlines
    xoff,
    printLines,     \* print_lines: rows to print at the end
    beeped,         \* (history) the last key was answered with a beep
    shrunk,         \* (history) the terminal has changed its height
    status

table == <<nrows, columns, interactive, header>>
view == <<first, selected, nlines>>
vars == <<table, lines, cols, view, xoff, printLines, beeped, shrunk, status>>

Running == "running"
Quit == "quit"
Aborted == "aborted"

Wrapped(n) == IF n < 0 THEN n + Wrap ELSE IF n >= Wrap THEN n - Wrap ELSE n
Least(a, b) == IF a < b THEN a ELSE b
Bars == (IF header THEN 1 ELSE 0) + (IF interactive THEN 1 ELSE 0)

-----------------------------------------------------------------------------
(* The top of the loop *)

\* How many rows a terminal shows: LINES - print_header - (key_config_size > 0)
Shown(height) == Least(Wrapped(height - Bars), nrows)

\* Mutant: the last screen may be partly empty.
FirstShownAsIs(f, n) == f
\* The first row shown, where f is the one that is asked for.
FirstShown(f, n) == IF Wrapped(f + n) > nrows THEN nrows - n ELSE f

\* Lay out the screen, then assert(selected_line >= first_line)
Layout(f, s, height) ==
    /\ nlines' = Shown(height)
    /\ first' = FirstShown(f, nlines')
    /\ selected' = s
    /\ status' = IF interactive /\ selected' < first' THEN Aborted ELSE Running

Init ==
    /\ nrows \in RowCounts /\ columns \in ColumnLengths
    /\ interactive \in BOOLEAN /\ header \in BOOLEAN
    /\ lines \in Heights /\ cols \in Widths
    /\ first = 0 /\ selected = 0 /\ nlines = Shown(lines)
    /\ xoff = 0
    /\ printLines = <<>> /\ beeped = FALSE /\ shrunk = FALSE /\ status = Running

-----------------------------------------------------------------------------
(* Rows *)

Show(f, s) ==
    /\ Layout(f, s, lines)
    /\ beeped' = FALSE
    /\ UNCHANGED <<table, lines, cols, xoff, printLines, shrunk>>
ShowAndBeep(f, s) ==
    /\ Layout(f, s, lines)
    /\ beeped' = TRUE
    /\ UNCHANGED <<table, lines, cols, xoff, printLines, shrunk>>
Beep == ShowAndBeep(first, selected)

LastRow == Wrapped(nrows - 1)
Onscreen == Wrapped(selected - first)

\* Mutant: the screen follows the selection one row late.
DownLate ==
    IF Wrapped(selected + 1) = nrows THEN Beep
    ELSE Show(IF Onscreen >= nlines THEN first + 1 ELSE first, Wrapped(selected + 1))
DownSelecting ==
    IF Wrapped(selected + 1) = nrows THEN Beep
    ELSE Show(IF Onscreen >= Wrapped(nlines - 1) THEN first + 1 ELSE first, Wrapped(selected + 1))
DownScrolling == IF Wrapped(first + nlines) >= nrows THEN Beep ELSE Show(first + 1, selected)
Down == (interactive /\ DownSelecting) \/ (~interactive /\ DownScrolling)

\* Mutant: the screen does not follow the selection up.
UpLate ==
    LET s == IF selected > 0 THEN selected - 1 ELSE selected
    IN  IF Onscreen = 0 /\ first = 0 THEN ShowAndBeep(first, s) ELSE Show(first, s)
UpSelecting ==
    LET s == IF selected > 0 THEN selected - 1 ELSE selected
    IN  IF Onscreen # 0 THEN Show(first, s)
        ELSE IF first > 0 THEN Show(first - 1, s) ELSE ShowAndBeep(first, s)
UpScrolling == IF first > 0 THEN Show(first - 1, selected) ELSE Beep
Up == (interactive /\ UpSelecting) \/ (~interactive /\ UpScrolling)

\* Mutant: the selection is not kept inside the table.
PageDownUnbounded ==
    LET f == Wrapped(first + nlines)
    IN  IF selected = LastRow THEN Beep
        ELSE Show(IF Wrapped(f + nlines) >= nrows THEN nrows - nlines ELSE f,
                  Wrapped(selected + nlines))
PageDownSelecting ==
    LET s == Wrapped(selected + nlines)
        f == Wrapped(first + nlines)
    IN  IF selected = LastRow THEN Beep
        ELSE Show(IF Wrapped(f + nlines) >= nrows THEN nrows - nlines ELSE f,
                  IF s >= nrows THEN LastRow ELSE s)
\* Mutant: one row too many.
PageDownTooFar ==
    IF Wrapped(first + nlines) >= nrows THEN Beep ELSE Show(first + nlines + 1, selected)
PageDownScrolling ==
    IF Wrapped(first + nlines) >= nrows THEN Beep
    ELSE Show(Wrapped(first + Wrapped(nlines - 1)), selected)
PageDown == (interactive /\ PageDownSelecting) \/ (~interactive /\ PageDownScrolling)

PageUpSelecting ==
    LET s == IF selected > nlines THEN selected - nlines ELSE 0
    IN  IF first >= nlines THEN Show(first - nlines, s)
        ELSE IF first = 0 THEN ShowAndBeep(first, s) ELSE Show(0, s)
PageUpScrolling ==
    LET page == Wrapped(nlines - 1)
    IN  IF first >= page THEN Show(first - page, selected)
        ELSE IF first = 0 THEN Beep ELSE Show(0, selected)
PageUp == (interactive /\ PageUpSelecting) \/ (~interactive /\ PageUpScrolling)

Home ==
    IF interactive
    THEN IF selected = 0 THEN Beep ELSE Show(0, 0)
    ELSE IF first = 0 THEN Beep ELSE Show(0, selected)

End ==
    IF interactive
    THEN IF selected = LastRow THEN Beep ELSE Show(nrows - nlines, LastRow)
    ELSE IF first = nrows - nlines THEN Beep ELSE Show(nrows - nlines, selected)

-----------------------------------------------------------------------------
(* Columns *)

\* of the first k columns
Width[k \in 0 .. Len(columns)] == IF k = 0 THEN 0 ELSE Width[k - 1] + columns[k]
MaxLine == Width[Len(columns)]
Half == cols \div 2

\* Every key ends in the top of the loop.
ShiftTo(x) ==
    /\ Layout(first, selected, lines)
    /\ xoff' = x
    /\ UNCHANGED <<table, lines, cols, printLines, shrunk>>
Shift(x) == ShiftTo(x) /\ beeped' = FALSE
ShiftOrBeep(x) == ShiftTo(x) /\ beeped' = (x = xoff)

\* Mutant: compared with the end of the screen before the step.
RightFar == IF xoff < MaxLine THEN Shift(xoff + Half) ELSE Beep
Right == IF xoff + cols < MaxLine THEN Shift(xoff + Half) ELSE Beep
Left == IF xoff >= Half THEN Shift(xoff - Half) ELSE IF xoff = 0 THEN Beep ELSE Shift(0)
ShiftHome == ShiftOrBeep(0)
ShiftEnd == ShiftOrBeep(IF MaxLine > cols THEN MaxLine - cols ELSE 0)

\* [ : the first column that ends at xoff or behind it
ColumnLeft ==
    LET reaching == {k \in DOMAIN columns : Width[k] >= xoff}
    IN  ShiftOrBeep(IF reaching = {} THEN xoff
                    ELSE Width[(CHOOSE k \in reaching : \A j \in reaching : k <= j) - 1])

\* ] : behind the first column that ends behind xoff, unless it is the last one
ColumnRight ==
    LET behind == {k \in DOMAIN columns : Width[k] > xoff}
        next == CHOOSE k \in behind : \A j \in behind : k <= j
    IN  ShiftOrBeep(IF behind = {} \/ Width[next] >= MaxLine THEN xoff ELSE Width[next])

-----------------------------------------------------------------------------
(* Other keys *)

\* run_action() "stdout" for the selected row; the interface goes on
ActionReturning ==
    /\ interactive /\ Len(printLines) < MaxPrinted
    /\ printLines' = Append(printLines, selected)
    /\ Layout(first, selected, lines)
    /\ beeped' = FALSE
    /\ UNCHANGED <<table, lines, cols, xoff, shrunk>>

\* ... or ends, without the top of the loop
ActionQuitting ==
    /\ interactive /\ Len(printLines) < MaxPrinted
    /\ printLines' = Append(printLines, selected)
    /\ status' = Quit
    /\ UNCHANGED <<table, lines, cols, view, xoff, beeped, shrunk>>

KeyQ ==
    /\ status' = Quit
    /\ UNCHANGED <<table, lines, cols, view, xoff, printLines, beeped, shrunk>>

\* KEY_RESIZE: ncurses has set LINES and COLS
Resize ==
    /\ \E height \in Heights, width \in Widths :
          /\ lines' = height /\ cols' = width
          /\ Layout(first, selected, height)
          /\ shrunk' = (shrunk \/ height # lines)
    /\ beeped' = FALSE
    /\ UNCHANGED <<table, xoff, printLines>>

RowKey == Down \/ Up \/ PageDown \/ PageUp \/ Home \/ End
ColumnKey == Right \/ Left \/ ShiftHome \/ ShiftEnd \/ ColumnLeft \/ ColumnRight

Next ==
    /\ status = Running
    /\ RowKey \/ ColumnKey \/ ActionReturning \/ ActionQuitting \/ KeyQ \/ Resize

Spec == Init /\ [][Next]_vars

-----------------------------------------------------------------------------
(* Properties *)

\* Types: no position has wrapped around while there are rows, and show() reads
\* only rows that there are.
TypeOK ==
    /\ nrows \in RowCounts /\ columns \in ColumnLengths
    /\ interactive \in BOOLEAN /\ header \in BOOLEAN
    /\ lines \in Heights /\ cols \in Widths
    /\ first \in Nat /\ nlines \in Nat /\ first + nlines <= nrows
    /\ selected \in 0 .. Wrap - 1 /\ (nrows > 0 => selected < nrows)
    /\ printLines \in Seq(0 .. Wrap - 1)
    /\ beeped \in BOOLEAN /\ shrunk \in BOOLEAN
    /\ status \in {Running, Quit, Aborted}

\* As long as the terminal keeps its height, the selected row is on the screen.
SelectedShown ==
    interactive /\ ~shrunk /\ nlines > 0 => selected \in first .. first + nlines - 1

\* The assertion in the loop can fail only if the screen has no room for rows.
AbortsOnlyWithoutRoom == status = Aborted => nlines = 0

\* What is printed at the end are rows of the table.
PrintsRows == nrows > 0 => \A k \in DOMAIN printLines : printLines[k] \in 0 .. nrows - 1

\* The table cannot be scrolled out of the screen sideways.
ColumnsShown == xoff = 0 \/ xoff \in 1 .. MaxLine - 1

\* Paging skips no row: what the screen shows after the key joins what it
\* showed before.
PagingSkipsNothing ==
    [][(PageDown \/ PageUp) /\ nlines > 0 =>
          first' <= first + nlines /\ first' + nlines >= first]_vars

\* assert(selected_line >= first_line)
AssertionHolds == status # Aborted
=============================================================================
