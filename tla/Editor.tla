------------------------------- MODULE Editor -------------------------------
(***************************************************************************)
(* The editor of mbbsd (mbbsd/edit.c): a list of lines, and the pointers   *)
(* and numbers that say where in it the cursor, the window and a selected  *)
(* block are.  One step is one key with everything vedit2 does for it;     *)
(* where a key inserts a string, one step is one character of it.          *)
(* Of the text only the lengths are kept: what stands in a line, two-byte  *)
(* characters, escape codes and the modes that the user may switch at any  *)
(* time decide which of the outcomes here comes about.  Operators that     *)
(* leave such a choice, or choose memory, have a set of buffers as value.  *)
(* adjustline moves a line in memory and all pointers to it along, so that *)
(* a line keeps its identity here.                                         *)
(***************************************************************************)
EXTENDS Integers, Sequences, Functions

CONSTANTS
    Lines,            \* memory for lines (textline_t)
    NoLine,           \* NULL
    WRAPMARGIN,
    EDIT_LINE_LIMIT,
    MAX_EDIT_LINE,    \* or MAX_EDIT_LINE_LARGE, for where that is allowed
    Sizes             \* what b_lines may be

\* term_resize leaves no fewer than 23 (term.c:53); 3 are enough here.
ASSUME EditAssumption ==
    /\ NoLine \notin Lines
    /\ WRAPMARGIN \in Nat /\ WRAPMARGIN >= 2
    /\ EDIT_LINE_LIMIT \in Nat /\ MAX_EDIT_LINE \in Nat
    /\ Sizes \subseteq {n \in Nat : n >= 3}

VARIABLES
    ed,      \* *curr_buf, with the lines of the screen it is shown on
    phase,   \* what vedit2 does next
    shrunk   \* history: the screen shrank after the last edit_window_adjust

editVars == <<ed, phase, shrunk>>

-----------------------------------------------------------------------------
(* The buffer                                                              *)

\* text: the list from firstline on; len, mlength: those of each line.
EditBuffer ==
    [text : Seq(Lines), len : [Lines -> 0..WRAPMARGIN],
     mlength : [Lines -> 0..WRAPMARGIN],
     firstline : Lines, lastline : Lines, currline : Lines, top_of_win : Lines,
     blockline : Lines \cup {NoLine}, deleted_line : Lines \cup {NoLine},
     oldcurrline : Lines \cup {NoLine},
     currln : Nat, totaln : Nat, curr_window_line : Nat, blockln : Nat \cup {-1},
     currpnt : 0..WRAPMARGIN, phone_mode : BOOLEAN, b_lines : Sizes]

\* edit_buffer_constructor
Constructed(p, size) ==
    [text |-> <<p>>, len |-> [l \in Lines |-> 0],
     mlength |-> [l \in Lines |-> IF l = p THEN WRAPMARGIN ELSE 0],
     firstline |-> p, lastline |-> p, currline |-> p, top_of_win |-> p,
     blockline |-> NoLine, deleted_line |-> NoLine, oldcurrline |-> p,
     currln |-> 0, totaln |-> 0, curr_window_line |-> 0, blockln |-> -1,
     currpnt |-> 0, phone_mode |-> FALSE, b_lines |-> size]

\* What alloc_line returns, unless there is none: which line it is does not matter.
Unused(E) == Lines \ (Range(E.text) \cup {E.deleted_line})
alloc_line(E) == {p \in Unused(E) : p = CHOOSE q \in Unused(E) : TRUE}

\* The place of a line in the list; its number is one less.
Row(E, p) == CHOOSE i \in DOMAIN E.text : E.text[i] = p

visible_window_height(E) == IF E.phone_mode THEN E.b_lines - 1 ELSE E.b_lines

\* p_lines is b_lines - 3.
middle_line(E) == (E.b_lines - 3) \div 2 + 1

back_line(E, p, num) ==
    E.text[IF Row(E, p) > num THEN Row(E, p) - num ELSE 1]
forward_line(E, p, num) ==
    E.text[IF Row(E, p) + num <= Len(E.text) THEN Row(E, p) + num ELSE Len(E.text)]

\* It counts up to the start of the list if top_of_win is below.
get_lineno_in_window(E) ==
    LET c == Row(E, E.currline)
        t == Row(E, E.top_of_win)
    IN IF t <= c THEN c - t ELSE c

-----------------------------------------------------------------------------
(* Lines                                                                   *)

\* adjustline, with the free_line in it.
Adjusted(E, p, length) ==
    LET old == IF E.oldcurrline = p THEN NoLine ELSE E.oldcurrline IN
    [E EXCEPT !.mlength[p] = length,
              !.oldcurrline = IF old = NoLine /\ length = WRAPMARGIN
                              THEN E.currline ELSE old]

insert_line(E, line, p) ==
    LET k == Row(E, line) IN
    [E EXCEPT !.text = SubSeq(@, 1, k) \o <<p>> \o SubSeq(@, k + 1, Len(@)),
              !.lastline = IF k = Len(E.text) THEN p ELSE @]

\* The only line is emptied instead.
delete_line(E, line, saved) ==
    LET k == Row(E, line)
        n == Len(E.text)
    IN IF n = 1 THEN [E EXCEPT !.len[line] = 0]
       ELSE [E EXCEPT !.text = SubSeq(@, 1, k - 1) \o SubSeq(@, k + 1, n),
                      !.firstline = IF k = 1 THEN E.text[2] ELSE @,
                      !.lastline = IF k = n THEN E.text[n - 1] ELSE @,
                      !.totaln = @ - 1,
                      !.deleted_line = IF saved THEN line ELSE @,
                      !.oldcurrline = IF @ = line THEN NoLine ELSE @]

block_cancel(E) ==
    IF E.blockln >= 0 THEN [E EXCEPT !.blockln = -1, !.blockline = NoLine] ELSE E

\* Variant: the window follows the cursor only upwards.
WindowAdjustedUp(E) ==
    IF E.curr_window_line < 0
    THEN [E EXCEPT !.curr_window_line = 0, !.top_of_win = E.currline]
    ELSE E

\* Variant: the window follows the cursor only downwards.
WindowAdjustedDown(E) ==
    LET last == visible_window_height(E) - 1 IN
    IF E.curr_window_line > last
    THEN [E EXCEPT !.curr_window_line = last, !.top_of_win = back_line(E, E.currline, last)]
    ELSE E

\* edit_window_adjust
WindowAdjusted(E) ==
    LET last == visible_window_height(E) - 1 IN
    CASE E.curr_window_line < 0 ->
            [E EXCEPT !.curr_window_line = 0, !.top_of_win = E.currline]
      [] E.curr_window_line > last ->
            [E EXCEPT !.curr_window_line = last,
                      !.top_of_win = back_line(E, E.currline, last)]
      [] OTHER -> E

\* edit_window_adjust_middle
MiddleAdjusted(E) ==
    IF E.currln < middle_line(E)
    THEN [E EXCEPT !.top_of_win = E.firstline, !.curr_window_line = E.currln]
    ELSE [E EXCEPT !.top_of_win = E.text[Row(E, E.currline) - middle_line(E)],
                   !.curr_window_line = middle_line(E)]

\* split(line, pos, indent), of which rest bytes and the indent go to p.
\* The cursor goes with them if it stands behind pos.
split(E, line, pos, rest, indent, p) ==
    LET E1 == [E EXCEPT !.totaln = @ + 1, !.len = [@ EXCEPT ![line] = pos, ![p] = rest + indent],
                        !.mlength[p] = WRAPMARGIN]
        col == E.currpnt - pos + indent
    IN IF line = E.currline /\ pos <= E.currpnt
       THEN WindowAdjusted(
               [insert_line(Adjusted(E1, line, pos), line, p) EXCEPT
                   !.currline = p,
                   !.currpnt = IF col <= rest + indent THEN col ELSE rest + indent,
                   !.currln = @ + 1,
                   !.curr_window_line = @ + 1])
       ELSE insert_line(Adjusted(E1, p, rest + indent), line, p)

-----------------------------------------------------------------------------
(* Characters                                                              *)

\* Where a line that is full breaks: after a space (word), so that a space may
\* be added to what follows (blank), or before its last character.
Breaks ==
    {w \in [pos : 1..WRAPMARGIN - 1, rest : 0..WRAPMARGIN, word : BOOLEAN,
            blank : BOOLEAN] :
        IF w.word THEN w.pos >= 2 /\ w.rest = WRAPMARGIN - w.pos
        ELSE w.pos = WRAPMARGIN - 1 /\ w.rest <= 1 /\ ~ w.blank}

Wrapped(E, w, p) ==
    LET E1 == split(E, E.currline, w.pos, w.rest, 0, p)
        E2 == IF w.word /\ p # E1.currline THEN Adjusted(E1, p, E1.len[p] + 1) ELSE E1
    IN IF w.blank THEN [E2 EXCEPT !.len[p] = @ + 1] ELSE E2

Inserted(E) ==
    LET E1 == [E EXCEPT !.len[E.currline] = @ + 1, !.currpnt = @ + 1] IN
    IF E1.len[E.currline] < WRAPMARGIN THEN {E1}
    ELSE {Wrapped(E1, w, p) : w \in Breaks, p \in alloc_line(E)}

Overwritten(E) ==
    {[E EXCEPT !.currpnt = c] : c \in E.currpnt + 1..E.len[E.currline]}

insert_char(E) == Inserted(block_cancel(E)) \cup Overwritten(block_cancel(E))

\* The '\n' of insert_string, and KEY_ENTER of upload_file.
NewLine(E) ==
    {split(block_cancel(E), E.currline, E.currpnt, rest, 0, p) :
        rest \in 0..E.len[E.currline] - E.currpnt, p \in alloc_line(E)}

\* join: all of the next line is taken, but not if it is all spaces.
NextTaken(E, spaces) ==
    LET next == E.text[Row(E, E.currline) + 1] IN
    delete_line([E EXCEPT !.len[E.currline] = IF spaces THEN @ ELSE @ + E.len[next]],
                next, FALSE)

\* Variant: only the length of the next line is looked at.
NextFits(E, next) == E.len[next] < WRAPMARGIN

\* The next line can be taken as a whole: ovfl is negative.
Fits(E, next) == E.len[E.currline] + E.len[next] < WRAPMARGIN

\* Where join may split the next line, after a space that leaves room for it.
Cuts(E, next) ==
    {cut \in [pos : 2..WRAPMARGIN - 1 - E.len[E.currline], rest : 0..WRAPMARGIN] :
        cut.rest <= E.len[next] - cut.pos}

\* join(currline).  The part of the next line that is split off ends with a
\* space, or join gives up.
join(E) ==
    LET k == Row(E, E.currline)
        next == E.text[k + 1]
    IN IF k = Len(E.text) THEN {E}
       ELSE {NextTaken(E, TRUE)} \cup
            IF Fits(E, next) THEN {NextTaken(E, FALSE)}
            ELSE {E} \cup
                 {NextTaken(split(E, next, cut.pos, cut.rest, 0, p), spaces) :
                     cut \in Cuts(E, next), p \in alloc_line(E), spaces \in BOOLEAN}

delete_chars(E, k) == [E EXCEPT !.len[E.currline] = @ - k]

\* KEY_BS: as many bytes as the character has, or the line is joined to the
\* one before it.  In ansimode nothing is deleted.
Backspace(E) ==
    LET k == Row(E, E.currline)
        prev == E.text[k - 1]
        E1 == Adjusted([E EXCEPT !.curr_window_line = @ - 1, !.currln = @ - 1],
                       E.currline, E.len[E.currline])
        E2 == [Adjusted([E1 EXCEPT !.currline = prev], prev, WRAPMARGIN)
                   EXCEPT !.oldcurrline = prev, !.currpnt = E.len[prev]]
        E3 == IF E.currline = E.top_of_win
              THEN [E2 EXCEPT !.top_of_win = prev, !.curr_window_line = 0] ELSE E2
    IN {E} \cup
       IF E.currpnt > 0
       THEN {[delete_chars(E, c) EXCEPT !.currpnt = @ - c] : c \in {1, 2} \cap 1..E.currpnt}
       ELSE IF k > 1 THEN join(E3) ELSE {}

\* KEY_DEL; in ansimode the cursor then skips escape codes.
DeleteHere(E) ==
    LET n == E.len[E.currline] IN
    IF n = E.currpnt THEN join(E)
    ELSE UNION {{[delete_chars(E, k) EXCEPT !.currpnt = c] : c \in E.currpnt..n - k} :
                    k \in {1, 2} \cap 1..n - E.currpnt}

\* ^Y, and ^K in an empty line
LineDeleted(E) ==
    LET k == Row(E, E.currline)
        last == k = Len(E.text)
        p == IF last THEN E.text[k - 1] ELSE E.text[k + 1]
        E1 == [E EXCEPT
                  !.curr_window_line = IF last /\ @ > 0 THEN @ - 1 ELSE @,
                  !.currln = IF last THEN @ - 1 ELSE @,
                  !.top_of_win = IF @ = E.currline THEN p ELSE @]
    IN IF Len(E.text) = 1 THEN [E EXCEPT !.len[E.currline] = 0, !.currpnt = 0]
       ELSE Adjusted([delete_line(E1, E.currline, TRUE)
                         EXCEPT !.currline = p, !.currpnt = 0], p, WRAPMARGIN)

\* ^K
RestDeleted(E) ==
    IF E.len[E.currline] = 0 THEN {LineDeleted(E)}
    ELSE IF E.len[E.currline] = E.currpnt THEN join(E)
    ELSE {[E EXCEPT !.len[E.currline] = E.currpnt]}

\* Variant: the window keeps its top line although another came before it.
undelete_below(E, p) == E.top_of_win

\* undelete_line: the clone takes the place of the current line as the top of
\* the window.
undelete_top(E, p) == IF E.top_of_win = E.currline THEN p ELSE E.top_of_win

undelete_line(E, p) ==
    LET k == Row(E, E.currline)
        n == E.len[E.deleted_line]
        E1 == [E EXCEPT !.text = SubSeq(@, 1, k - 1) \o <<p>> \o SubSeq(@, k, Len(@)),
                        !.len[p] = n, !.mlength[p] = n, !.totaln = @ + 1]
        E2 == [Adjusted(E1, E.currline, E.len[E.currline])
                   EXCEPT !.top_of_win = undelete_top(E, p),
                          !.firstline = IF @ = E.currline THEN p ELSE @,
                          !.currline = p, !.currpnt = 0]
    IN Adjusted(E2, p, WRAPMARGIN)

-----------------------------------------------------------------------------
(* Blocks                                                                  *)

block_select(E) == [E EXCEPT !.blockln = E.currln, !.blockline = E.currline]

\* block_delete; p becomes the only line if none is left.
BlockDeleted(E, p) ==
    LET c == Row(E, E.currline)
        b == Row(E, E.blockline)
        lo == IF E.currln >= E.blockln THEN b ELSE c
        hi == IF E.currln >= E.blockln THEN c ELSE b
        n == Len(E.text)
        block == {E.text[i] : i \in lo..hi}
        count == (IF E.currln > E.blockln THEN E.currln - E.blockln
                  ELSE E.blockln - E.currln) + 1
        ln == IF E.currln > E.blockln THEN E.blockln ELSE E.currln
        \* the line at which the cursor comes to stand
        to == IF hi < n THEN E.text[hi + 1] ELSE IF lo > 1 THEN E.text[lo - 1] ELSE p
        up == IF hi < n \/ lo = 1 THEN 0 ELSE 1
        none == hi = n /\ lo = 1
        win == E.curr_window_line - (IF E.currln > E.blockln THEN count - 1 ELSE 0)
                                  - (IF hi < n THEN 0 ELSE 1)
        E1 == Adjusted([E EXCEPT
                   !.text = IF none THEN <<p>>
                            ELSE SubSeq(@, 1, lo - 1) \o SubSeq(@, hi + 1, n),
                   !.len[p] = IF none THEN 0 ELSE @,
                   !.totaln = @ - count + IF none THEN 1 ELSE 0,
                   !.currln = ln - up,
                   !.currline = to], to, WRAPMARGIN)
    IN block_cancel(
          [E1 EXCEPT !.firstline = IF lo = 1 THEN to ELSE @,
                     !.lastline = IF hi = n THEN to ELSE @,
                     !.curr_window_line = IF win <= 0 THEN 0 ELSE win,
                     !.top_of_win = IF win <= 0 THEN to ELSE @,
                     !.oldcurrline = IF @ \in block THEN NoLine ELSE @,
                     !.currpnt = 0])

block_delete(E) ==
    LET all == {Row(E, E.currline), Row(E, E.blockline)} = {1, Len(E.text)} IN
    {BlockDeleted(E, p) : p \in IF all THEN alloc_line(E) ELSE {E.currline}}

-----------------------------------------------------------------------------
(* The cursor                                                              *)

\* cursor_to_prev_line and KEY_LEFT at the start of a line; cursor_to_next_line
\* and KEY_RIGHT at its end.  lastindent or escape codes decide on the column.
LineUp(E) ==
    LET k == Row(E, E.currline) IN
    IF k = 1 THEN {E}
    ELSE {[E EXCEPT !.currline = E.text[k - 1], !.currln = @ - 1,
                    !.curr_window_line = @ - 1, !.currpnt = c] :
             c \in 0..E.len[E.text[k - 1]]}
LineDown(E) ==
    LET k == Row(E, E.currline) IN
    IF k = Len(E.text) THEN {E}
    ELSE {[E EXCEPT !.currline = E.text[k + 1], !.currln = @ + 1,
                    !.curr_window_line = @ + 1, !.currpnt = c] :
             c \in 0..E.len[E.text[k + 1]]}

\* KEY_LEFT, KEY_RIGHT, KEY_HOME, KEY_END, cursor_to_next_word, cursor_to_prev_word
InLine(E) == {[E EXCEPT !.currpnt = c] : c \in 0..E.len[E.currline]}

\* The end of KEY_PGUP and KEY_PGDN: curr and top are where the lines went, ln
\* what has become of currln.
Paged(E, curr, top, ln) ==
    LET E1 == [E EXCEPT !.currline = curr, !.top_of_win = top, !.currln = ln,
                        !.currpnt = IF @ > E.len[curr] THEN E.len[curr] ELSE @]
    IN [E1 EXCEPT !.curr_window_line = get_lineno_in_window(E1)]

PageUp(E) ==
    LET num == visible_window_height(E) - 1
        curr == back_line(E, E.currline, num)
    IN Paged(E, curr, back_line(E, E.top_of_win, num),
             E.currln - (Row(E, E.currline) - Row(E, curr)))

PageDown(E) ==
    LET num == visible_window_height(E) - 1
        curr == forward_line(E, E.currline, num)
    IN Paged(E, curr, forward_line(E, E.top_of_win, num),
             E.currln + (Row(E, curr) - Row(E, E.currline)))

\* Ctrl-] and Ctrl-T
StartOfFile(E) ==
    [E EXCEPT !.currline = E.firstline, !.top_of_win = E.firstline, !.currpnt = 0,
              !.currln = 0, !.curr_window_line = 0]
TailOfFile(E) ==
    LET E1 == [E EXCEPT !.currline = E.lastline, !.currln = E.totaln, !.currpnt = 0,
                  !.top_of_win = back_line(E, E.lastline, visible_window_height(E) - 1)]
    IN [E1 EXCEPT !.curr_window_line = get_lineno_in_window(E1)]

\* goto_line
goto_line(E, lino) ==
    LET k == IF lino <= Len(E.text) THEN lino ELSE Len(E.text) IN
    MiddleAdjusted([E EXCEPT !.currline = E.text[k], !.currln = lino - 1, !.currpnt = 0])

\* The line and the column at which search_str or match_paren finds something.
Found(E) == {f \in [row : DOMAIN E.text, col : 0..WRAPMARGIN] :
                f.col < E.len[E.text[f.row]]}

CursorFound(E, f) ==
    [E EXCEPT !.currline = E.text[f.row], !.currpnt = f.col,
              !.currln = @ + (f.row - Row(E, E.currline))]

search_str(E) == {MiddleAdjusted(CursorFound(E, f)) : f \in Found(E)}

\* match_paren leaves the window where it is if it can.
match_paren(E) ==
    LET top == E.currln - E.curr_window_line
        bottom == top + visible_window_height(E) - 1
        move(f) == [CursorFound(E, f) EXCEPT
                       !.curr_window_line = @ + (f.row - Row(E, E.currline))]
    IN {IF move(f).currln < top \/ move(f).currln > bottom
        THEN MiddleAdjusted(move(f)) ELSE move(f) : f \in Found(E)}

-----------------------------------------------------------------------------
(* Keys                                                                    *)

\* What vedit2 does after the switch: the window, and the start of a character.
Ended(E) ==
    LET E1 == WindowAdjusted([E EXCEPT !.currln = IF @ < 0 THEN 0 ELSE @]) IN
    {E1} \cup IF E1.currpnt > 0 THEN {[E1 EXCEPT !.currpnt = @ - 1]} ELSE {}

KeyEnds(E) ==
    /\ ed' \in Ended(E)
    /\ phase' = "top" /\ shrunk' = FALSE

Key(S) == phase = "key" /\ \E E \in S : KeyEnds(E)

EditInit ==
    /\ \E p \in Lines, size \in Sizes : ed = Constructed(p, size)
    /\ phase = "load" /\ shrunk = FALSE

\* The editor is left, or an assertion ends the session; the next one begins.
Again ==
    /\ ed' = Constructed(ed.firstline, ed.b_lines)
    /\ phase' = "load" /\ shrunk' = FALSE

\* read_file and do_quote: insert_char and '\n' at the end of what is there.
Load ==
    /\ phase = "load"
    /\ ed' \in Inserted(ed) \cup NewLine(ed)
    /\ UNCHANGED <<phase, shrunk>>

\* The cursor goes to the start.
LoadEnds ==
    LET first == ed.firstline
        E1 == [Adjusted(ed, first, WRAPMARGIN) EXCEPT
                  !.oldcurrline = first, !.currline = first, !.top_of_win = first]
        E2 == IF ed.oldcurrline # first \/ ed.currline # first THEN E1 ELSE ed
    IN /\ phase = "load"
       /\ ed' = [E2 EXCEPT !.currpnt = 0, !.currln = 0, !.curr_window_line = 0]
       /\ phase' = "top" /\ UNCHANGED shrunk

\* The line that the cursor left gives its memory back, the current one gets all.
Exchanged(E) ==
    LET old == E.oldcurrline
        E1 == IF old = NoLine THEN E
              ELSE [Adjusted(E, old, E.len[old]) EXCEPT !.oldcurrline = old]
    IN IF old = E.currline THEN E
       ELSE [Adjusted(E1, E.currline, WRAPMARGIN) EXCEPT !.oldcurrline = E.currline]

\* The top of the loop: edit_check_healthy, whose assertion on the window ends
\* the session, and vkey().
LoopTop ==
    /\ phase = "top"
    /\ IF ed.curr_window_line < visible_window_height(ed)
       THEN ed' = Exchanged(ed) /\ phase' = "key" /\ UNCHANGED shrunk
       ELSE Again

\* The user resizes the terminal while vkey() waits.
Resize ==
    /\ phase = "key"
    /\ \E size \in Sizes \ {ed.b_lines} :
        /\ ed' = [ed EXCEPT !.b_lines = size]
        /\ shrunk' = (shrunk \/ size < ed.b_lines)
    /\ UNCHANGED phase

\* A character is typed; the two bytes that insert_dchar inserts are two steps.
Type ==
    /\ phase \in {"key", "char"}
    /\ ed' \in insert_char(ed)
    /\ phase' \in IF phase = "key" /\ ed.phone_mode THEN {"top", "char"} ELSE {"top"}
    /\ UNCHANGED shrunk

\* A character of what insert_string is called with: the contents of files, escape
\* codes, spaces for a tabulator, or an upload.
TypeString ==
    /\ phase \in {"key", "string"}
    /\ ed' \in insert_char(ed) \cup NewLine(ed)
    /\ phase' = "string" /\ UNCHANGED shrunk

StringEnds == phase = "string" /\ KeyEnds(ed)

\* KEY_ENTER.  In indent_mode the rest of the line loses its spaces, and gets as
\* many as the line before it has, which is this one if the rest is not empty.
EnterKey ==
    LET E == block_cancel(ed)
        n == E.len[E.currline]
    IN Key(IF E.totaln >= EDIT_LINE_LIMIT \/ E.totaln = MAX_EDIT_LINE THEN {E}
           ELSE {split(E, E.currline, E.currpnt, cut.rest, cut.indent, p) :
                    cut \in {c \in [rest : 0..n - E.currpnt, indent : 0..WRAPMARGIN - 1] :
                                c.rest > 0 => c.indent <= n - c.rest},
                    p \in alloc_line(E)})

DeletingKeys ==
    LET E == block_cancel(ed) IN
    Key(Backspace(E) \cup DeleteHere(E) \cup {LineDeleted(E)} \cup RestDeleted(E))

Undelete == ed.deleted_line # NoLine /\
    Key({undelete_line(block_cancel(ed), p) : p \in alloc_line(ed)})

\* delete_current_word; currline_shift_left, currline_shift_right
ChangeLine ==
    LET p == ed.currline
        n == ed.len[p]
    IN Key({[ed EXCEPT !.len[p] = k] : k \in ed.currpnt..n - 1}
           \cup {[ed EXCEPT !.len[p] = n - 1, !.currpnt = c] :
                     c \in {x \in 0..n - 1 : ed.currpnt <= x \/ x = n - 1}}
           \cup (IF n < WRAPMARGIN - 1 THEN {[block_cancel(ed) EXCEPT !.len[p] = n + 1]}
                 ELSE {}))

Block ==
    IF ed.blockln < 0 THEN Key({block_select(ed)})
    ELSE Key({block_cancel(ed)} \cup block_delete(ed))

Move ==
    Key(LineUp(ed) \cup LineDown(ed) \cup InLine(ed)
        \cup {PageUp(ed), PageDown(ed), StartOfFile(ed), TailOfFile(ed)}
        \cup {goto_line(ed, n) : n \in 1..ed.totaln + 1}
        \cup search_str(ed) \cup match_paren(ed))

\* phone_mode_switch
SwitchPhone == Key({[ed EXCEPT !.phone_mode = ~ @]})

\* Ctrl-X and Ctrl-Q
LeaveEditor == phase = "key" /\ Again

EditNext ==
    \/ Load \/ LoadEnds \/ LoopTop \/ Resize
    \/ Type \/ TypeString \/ StringEnds \/ EnterKey \/ DeletingKeys \/ Undelete
    \/ ChangeLine \/ Block \/ Move \/ SwitchPhone \/ LeaveEditor

EditSpec == EditInit /\ [][EditNext]_editVars

-----------------------------------------------------------------------------
(* Properties                                                              *)

\* Buffer, phase and flag keep to their types.
EditTypeOK ==
    /\ ed \in EditBuffer
    /\ phase \in {"load", "top", "key", "string", "char"}
    /\ shrunk \in BOOLEAN

\* edit_check_healthy, with SLOW_CHECK_DETAIL (edit.c:499-591): pointers and numbers
\* agree with the list and no pointer leads to a line that was given back.
ListHealthy ==
    LET text == ed.text
        n == Len(text)
    IN /\ \A i, j \in 1..n : text[i] = text[j] => i = j
       /\ \A i \in 1..n : ed.len[text[i]] <= ed.mlength[text[i]]
       /\ n >= 1 /\ text[1] = ed.firstline /\ text[n] = ed.lastline
       /\ ed.totaln = n - 1
       /\ ed.currln \in 0..n - 1 /\ text[ed.currln + 1] = ed.currline
       /\ ed.currpnt \in 0..ed.len[ed.currline]
       /\ ed.curr_window_line \in 0..ed.currln
       /\ text[ed.currln - ed.curr_window_line + 1] = ed.top_of_win
       /\ ed.deleted_line \notin Range(text)
       /\ ed.oldcurrline \in Range(text) \cup {NoLine}
       /\ IF ed.blockln < 0 THEN ed.blockline = NoLine
          ELSE ed.blockln \in 0..n - 1 /\ text[ed.blockln + 1] = ed.blockline

\* Whoever writes into the current line finds room for a whole one there, as the
\* assertions on mlength say (edit.c:1012, 1032, 1078, 3619): the line that the
\* cursor left was found again, and gave its memory back.
RoomToType ==
    /\ phase # "top" => ed.mlength[ed.currline] = WRAPMARGIN
    /\ phase = "key" => ed.oldcurrline = ed.currline
    /\ \A l \in Range(ed.text) : ed.len[l] < WRAPMARGIN

\* The cursor is in the window whenever the loop begins, as edit_check_healthy
\* asserts (edit.c:557), unless the terminal shrank and only characters were typed
\* since: edit_window_adjust is skipped for them (edit.c:3692, 4142).
CursorInWindow ==
    ed.curr_window_line < visible_window_height(ed) \/ shrunk
=============================================================================
