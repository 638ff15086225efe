---------------------------- MODULE EditorProofs ----------------------------
(***************************************************************************)
(* Proofs about Editor, for any memory, any length of lines, any limits    *)
(* and any heights of the screen: pointers and numbers always fit the list *)
(* of lines, no line outgrows its memory, the window shows the cursor.     *)
(***************************************************************************)
EXTENDS Editor, SequenceTheorems, TLAPS

-----------------------------------------------------------------------------
(* What is true of a buffer, in parts                                      *)

\* A buffer inside of a key: the cursor may be above the window.
Buffer ==
    [text : Seq(Lines), len : [Lines -> 0..WRAPMARGIN],
     mlength : [Lines -> 0..WRAPMARGIN],
     firstline : Lines, lastline : Lines, currline : Lines, top_of_win : Lines,
     blockline : Lines \cup {NoLine}, deleted_line : Lines \cup {NoLine},
     oldcurrline : Lines \cup {NoLine},
     currln : Nat, totaln : Nat, curr_window_line : Int, blockln : Nat \cup {-1},
     currpnt : 0..WRAPMARGIN, phone_mode : BOOLEAN, b_lines : Sizes]

Distinct(t) == \A i, j \in 1..Len(t) : t[i] = t[j] => i = j

\* Ends and number of the lines, and what leads into the list or must not.
Listed(E) ==
    LET n == Len(E.text) IN
    /\ Distinct(E.text)
    /\ n >= 1 /\ E.text[1] = E.firstline /\ E.text[n] = E.lastline
    /\ E.totaln = n - 1
    /\ E.deleted_line \notin Range(E.text)
    /\ E.oldcurrline \in Range(E.text) \cup {NoLine}

\* What is in a line has room in its memory and in any line, the line kept for
\* undelete too; the line that the cursor left last still has all the memory.
Lengths(E) ==
    /\ \A l \in Range(E.text) : E.len[l] <= E.mlength[l] /\ E.len[l] < WRAPMARGIN
    /\ E.deleted_line # NoLine => E.len[E.deleted_line] < WRAPMARGIN
    /\ E.oldcurrline # NoLine => E.mlength[E.oldcurrline] = WRAPMARGIN

Selected(E) ==
    IF E.blockln < 0 THEN E.blockline = NoLine
    ELSE E.blockln \in 0..Len(E.text) - 1 /\ E.text[E.blockln + 1] = E.blockline

Base(E) == E \in Buffer /\ Listed(E) /\ Lengths(E) /\ Selected(E)

CursorAt(E) ==
    /\ E.currln \in 0..Len(E.text) - 1 /\ E.text[E.currln + 1] = E.currline
    /\ E.currpnt \in 0..E.len[E.currline]

WindowAt(E) ==
    /\ E.curr_window_line \in 0..E.currln
    /\ E.text[E.currln - E.curr_window_line + 1] = E.top_of_win

\* What edit_window_adjust needs, and what there is after each step.
Near(E) == Base(E) /\ CursorAt(E) /\ (E.curr_window_line < 0 \/ WindowAt(E))
Sound(E) == Base(E) /\ CursorAt(E) /\ WindowAt(E)

\* The current line has room for a whole one.
Roomy(E) == E.mlength[E.currline] = WRAPMARGIN

Visible(E) == E.curr_window_line < visible_window_height(E)

EditInv ==
    /\ Sound(ed)
    /\ phase \in {"load", "top", "key", "string", "char"}
    /\ shrunk \in BOOLEAN
    /\ phase # "top" => Roomy(ed)
    /\ phase = "key" => ed.oldcurrline = ed.currline
    /\ Visible(ed) \/ shrunk
    /\ phase = "load" => ed.blockln < 0

-----------------------------------------------------------------------------
(* Sequences of lines                                                      *)

\* The set of the lines of a list.
LEMMA RangeIs ==
    ASSUME NEW t \in Seq(Lines)
    PROVE  /\ Len(t) \in Nat /\ DOMAIN t = 1..Len(t)
           /\ Range(t) = {t[i] : i \in 1..Len(t)} /\ Range(t) \subseteq Lines
           /\ \A i \in 1..Len(t) : t[i] \in Lines /\ t[i] \in Range(t)
<1>1. Len(t) \in Nat /\ DOMAIN t = 1..Len(t)
  OBVIOUS
<1>2. \A i \in 1..Len(t) : t[i] \in Lines
  OBVIOUS
<1> QED
  BY <1>1, <1>2 DEF Range

\* One line is put in after the first k.
Spliced(t, k, p) == SubSeq(t, 1, k) \o <<p>> \o SubSeq(t, k + 1, Len(t))

\* What putting a line in makes of a list (insert_line, undelete_line).
LEMMA SplicedIs ==
    ASSUME NEW t \in Seq(Lines), Distinct(t), NEW k \in 0..Len(t),
           NEW p \in Lines \ Range(t)
    PROVE  LET s == Spliced(t, k, p) IN
           /\ s \in Seq(Lines) /\ Len(s) = Len(t) + 1
           /\ \A i \in 1..Len(t) + 1 :
                 s[i] = IF i <= k THEN t[i] ELSE IF i = k + 1 THEN p ELSE t[i - 1]
           /\ Distinct(s) /\ Range(s) = Range(t) \cup {p}
<1> DEFINE n == Len(t)  a == SubSeq(t, 1, k)  b == SubSeq(t, k + 1, n)
           s == Spliced(t, k, p)
<1>1. n \in Nat /\ \A i \in 1..n : t[i] \in Lines /\ t[i] \in Range(t)
  BY RangeIs
<1>2. /\ a \in Seq(Lines) /\ Len(a) = k
      /\ \A i \in 1..k : a[i] = t[i]
  BY <1>1
<1>3. /\ b \in Seq(Lines) /\ Len(b) = n - k
      /\ \A i \in 1..n - k : b[i] = t[k + i]
  BY <1>1
<1>4. /\ a \o <<p>> \in Seq(Lines) /\ Len(a \o <<p>>) = k + 1
      /\ \A i \in 1..k + 1 : (a \o <<p>>)[i] = IF i <= k THEN t[i] ELSE p
  BY <1>1, <1>2
<1> HIDE DEF a, b
<1> DEFINE c == a \o <<p>>
<1> HIDE DEF c
<1>9. /\ c \in Seq(Lines) /\ Len(c) = k + 1
      /\ \A i \in 1..k + 1 : c[i] = IF i <= k THEN t[i] ELSE p
  BY <1>4 DEF c
<1>10. s = c \o b
  BY DEF Spliced, a, b, c
<1>5. s \in Seq(Lines) /\ Len(s) = n + 1
  <2>1. c \o b \in Seq(Lines) /\ Len(c \o b) = Len(c) + Len(b)
    BY <1>3, <1>9, ConcatProperties
  <2> QED
    BY <1>1, <1>3, <1>9, <1>10, <2>1
<1>6. \A i \in 1..n + 1 :
         s[i] = IF i <= k THEN t[i] ELSE IF i = k + 1 THEN p ELSE t[i - 1]
  <2>1. \A i \in 1..Len(c) + Len(b) :
           (c \o b)[i] = IF i <= Len(c) THEN c[i] ELSE b[i - Len(c)]
    BY <1>3, <1>9, ConcatProperties
  <2>5. Len(c) = k + 1 /\ Len(c) + Len(b) = n + 1
    BY <1>1, <1>3, <1>9
  <2> SUFFICES ASSUME NEW i \in 1..n + 1
               PROVE  s[i] = IF i <= k THEN t[i] ELSE IF i = k + 1 THEN p ELSE t[i - 1]
    OBVIOUS
  <2>2. s[i] = IF i <= k + 1 THEN c[i] ELSE b[i - (k + 1)]
    BY <1>10, <2>1, <2>5
  <2>3. CASE i <= k + 1
    BY <1>1, <1>9, <2>2, <2>3
  <2>4. CASE i > k + 1
    <3>1. i - (k + 1) \in 1..n - k /\ k + (i - (k + 1)) = i - 1
      BY <1>1, <2>4
    <3> QED
      BY SMTT(60), <1>1, <1>3, <2>2, <2>4, <3>1
  <2> QED
    BY <1>1, <2>3, <2>4
<1> HIDE DEF s
<1>7. Distinct(s)
  <2> SUFFICES ASSUME NEW i \in 1..n + 1, NEW j \in 1..n + 1, s[i] = s[j], i < j PROVE FALSE
    BY <1>1, <1>5 DEF Distinct
  <2>1. CASE i = k + 1 \/ j = k + 1
    BY <1>1, <1>6, <2>1
  <2>2. CASE i # k + 1 /\ j # k + 1
    BY <1>1, <1>6, <2>2 DEF Distinct
  <2> QED
    BY <2>1, <2>2
<1>8. Range(s) = Range(t) \cup {p}
  <2>1. ASSUME NEW x \in Range(s) PROVE x \in Range(t) \cup {p}
    <3>1. PICK i \in 1..n + 1 : x = s[i]
      BY <1>5, <2>1, RangeIs
    <3> QED
      BY <1>1, <1>6, <3>1
  <2>2. ASSUME NEW x \in Range(t) PROVE x \in Range(s)
    <3>1. PICK i \in 1..n : x = t[i]
      BY <2>2, RangeIs
    <3>2. s[IF i <= k THEN i ELSE i + 1] = x
      BY <1>1, <1>6, <3>1
    <3>3. (IF i <= k THEN i ELSE i + 1) \in 1..Len(s)
      BY <1>1, <1>5
    <3> QED
      BY <1>5, <3>2, <3>3, RangeIs
  <2>3. p \in Range(s)
    <3>1. k + 1 \in 1..Len(s) /\ s[k + 1] = p
      BY <1>1, <1>5, <1>6
    <3> QED
      BY <1>5, <3>1, RangeIs
  <2> QED
    BY <2>1, <2>2, <2>3
<1> QED
  BY <1>5, <1>6, <1>7, <1>8 DEF s

\* The same for a list that has a name.
LEMMA PutIs ==
    ASSUME NEW t \in Seq(Lines), Distinct(t), NEW k \in 0..Len(t),
           NEW p \in Lines \ Range(t), NEW s, s = Spliced(t, k, p)
    PROVE  /\ s \in Seq(Lines) /\ Len(s) = Len(t) + 1
           /\ \A i \in 1..Len(t) + 1 :
                 s[i] = IF i <= k THEN t[i] ELSE IF i = k + 1 THEN p ELSE t[i - 1]
           /\ Distinct(s) /\ Range(s) = Range(t) \cup {p}
  BY SplicedIs

\* The lines from lo to hi are taken out.
Without(t, lo, hi) == SubSeq(t, 1, lo - 1) \o SubSeq(t, hi + 1, Len(t))

\* What taking lines out makes of a list (delete_line, block_delete).
LEMMA WithoutIs ==
    ASSUME NEW t \in Seq(Lines), Distinct(t),
           NEW lo \in 1..Len(t), NEW hi \in lo..Len(t)
    PROVE  LET s == Without(t, lo, hi)
               d == hi - lo + 1
           IN /\ s \in Seq(Lines) /\ Len(s) = Len(t) - d
              /\ \A i \in 1..Len(t) - d : s[i] = IF i < lo THEN t[i] ELSE t[i + d]
              /\ Distinct(s)
              /\ Range(s) = Range(t) \ {t[i] : i \in lo..hi}
<1> DEFINE n == Len(t)  a == SubSeq(t, 1, lo - 1)  b == SubSeq(t, hi + 1, n)
           s == Without(t, lo, hi)  d == hi - lo + 1
<1>1. n \in Nat /\ \A i \in 1..n : t[i] \in Lines /\ t[i] \in Range(t)
  BY RangeIs
<1>2. /\ a \in Seq(Lines) /\ Len(a) = lo - 1
      /\ \A i \in 1..lo - 1 : a[i] = t[i]
  BY <1>1
<1>3. /\ b \in Seq(Lines) /\ Len(b) = n - hi
      /\ \A i \in 1..n - hi : b[i] = t[hi + i]
  BY <1>1
<1> HIDE DEF a, b
<1>8. s = a \o b
  BY DEF Without, a, b
<1>4. s \in Seq(Lines) /\ Len(s) = n - d
  <2>1. a \o b \in Seq(Lines) /\ Len(a \o b) = Len(a) + Len(b)
    BY <1>2, <1>3, ConcatProperties
  <2> QED
    BY <1>1, <1>2, <1>3, <1>8, <2>1
<1>5. \A i \in 1..n - d : s[i] = IF i < lo THEN t[i] ELSE t[i + d]
  <2>1. \A i \in 1..Len(a) + Len(b) :
           (a \o b)[i] = IF i <= Len(a) THEN a[i] ELSE b[i - Len(a)]
    BY <1>2, <1>3, ConcatProperties
  <2>5. Len(a) = lo - 1 /\ Len(a) + Len(b) = n - d
    BY <1>1, <1>2, <1>3
  <2> SUFFICES ASSUME NEW i \in 1..n - d
               PROVE  s[i] = IF i < lo THEN t[i] ELSE t[i + d]
    OBVIOUS
  <2>2. s[i] = IF i <= lo - 1 THEN a[i] ELSE b[i - (lo - 1)]
    BY <1>8, <2>1, <2>5
  <2>3. CASE i < lo
    BY <1>1, <1>2, <2>2, <2>3
  <2>4. CASE i >= lo
    <3>1. i - (lo - 1) \in 1..n - hi /\ hi + (i - (lo - 1)) = i + d
      BY <1>1, <2>4
    <3> QED
      <4> DEFINE j == i - (lo - 1)
      <4>1. ~ (i <= lo - 1)
        BY <2>4
      <4>2. s[i] = b[j]
        BY <2>2, <4>1
      <4>3. j \in 1..n - hi /\ hi + j = i + d /\ ~ (i < lo)
        BY <2>4, <3>1
      <4> HIDE DEF j, d, s
      <4>4. b[j] = t[hi + j]
        BY <1>3, <4>3
      <4> QED
        BY <4>2, <4>3, <4>4
  <2> QED
    BY <1>1, <2>3, <2>4
<1> HIDE DEF s
<1>6. Distinct(s)
  <2> SUFFICES ASSUME NEW i \in 1..n - d, NEW j \in 1..n - d, s[i] = s[j] PROVE i = j
    BY <1>1, <1>4 DEF Distinct
  <2>1. /\ s[i] = t[IF i < lo THEN i ELSE i + d] /\ s[j] = t[IF j < lo THEN j ELSE j + d]
        /\ (IF i < lo THEN i ELSE i + d) \in 1..n /\ (IF j < lo THEN j ELSE j + d) \in 1..n
    BY <1>1, <1>5
  <2>2. (IF i < lo THEN i ELSE i + d) = (IF j < lo THEN j ELSE j + d)
    BY <2>1 DEF Distinct
  <2> QED
    BY <1>1, <2>2
<1>7. Range(s) = Range(t) \ {t[i] : i \in lo..hi}
  <2>1. ASSUME NEW x \in Range(s) PROVE x \in Range(t) /\ x \notin {t[i] : i \in lo..hi}
    <3>1. PICK i \in 1..n - d : x = s[i]
      BY <1>4, <2>1, RangeIs
    <3>2. PICK j \in 1..n : x = t[j] /\ (j < lo \/ j > hi)
      BY <1>1, <1>5, <3>1
    <3> QED
      BY <1>1, <3>2 DEF Distinct
  <2>2. ASSUME NEW x \in Range(t), x \notin {t[i] : i \in lo..hi} PROVE x \in Range(s)
    <3>1. PICK j \in 1..n : x = t[j]
      BY <2>2, RangeIs
    <3>2. j \notin lo..hi
      BY <2>2, <3>1
    <3>3. (IF j < lo THEN j ELSE j - d) \in 1..Len(s)
      BY <1>1, <1>4, <3>2
    <3>4. s[IF j < lo THEN j ELSE j - d] = x
      BY SMTT(60), <1>1, <1>5, <3>1, <3>2
    <3> QED
      BY <1>4, <3>3, <3>4, RangeIs
  <2> QED
    BY <2>1, <2>2
<1> QED
  BY <1>4, <1>5, <1>6, <1>7 DEF s

CutOut(s, t, lo, d, block) ==
    /\ s \in Seq(Lines) /\ Len(s) = Len(t) - d
    /\ \A i \in 1..Len(t) - d : s[i] = IF i < lo THEN t[i] ELSE t[i + d]
    /\ Distinct(s) /\ Range(s) = Range(t) \ block

LEMMA CutIs ==
    ASSUME NEW t \in Seq(Lines), Distinct(t),
           NEW lo \in 1..Len(t), NEW hi \in lo..Len(t), NEW s, s = Without(t, lo, hi),
           NEW d, d = hi - lo + 1, NEW block, block = {t[i] : i \in lo..hi}
    PROVE  CutOut(s, t, lo, d, block)
  BY WithoutIs DEF CutOut

LEMMA RemovedIs ==
    ASSUME NEW t \in Seq(Lines), Distinct(t), NEW i \in 1..Len(t), NEW s, s = Without(t, i, i)
    PROVE  /\ s \in Seq(Lines) /\ Len(s) = Len(t) - 1 /\ Distinct(s)
           /\ \A j \in 1..Len(t) - 1 : s[j] = IF j < i THEN t[j] ELSE t[j + 1]
           /\ Range(s) = Range(t) \ {t[i]}
<1> DEFINE d == i - i + 1
<1>1. i \in i..Len(t) /\ d = 1 /\ {t[j] : j \in i..i} = {t[i]}
  <2>1. i \in Nat /\ i <= Len(t) /\ \A j \in i..i : j = i
    BY RangeIs
  <2> QED
    BY <2>1
<1>2. /\ s \in Seq(Lines) /\ Len(s) = Len(t) - d /\ Distinct(s)
      /\ \A j \in 1..Len(t) - d : s[j] = IF j < i THEN t[j] ELSE t[j + d]
      /\ Range(s) = Range(t) \ {t[j] : j \in i..i}
  BY ZenonT(60), <1>1, WithoutIs
<1> HIDE DEF d
<1> QED
  BY <1>1, <1>2

\* No line is in the list twice, so that it has one place.
LEMMA RowIs ==
    ASSUME NEW E, E.text \in Seq(Lines), Distinct(E.text), NEW i \in 1..Len(E.text)
    PROVE  Row(E, E.text[i]) = i
<1>1. DOMAIN E.text = 1..Len(E.text)
  BY RangeIs
<1>2. \A j \in 1..Len(E.text) : E.text[j] = E.text[i] <=> j = i
  BY DEF Distinct
<1> QED
  BY <1>1, <1>2 DEF Row

\* currln is the number of the current line.
LEMMA CurrentRow ==
    ASSUME NEW E, Base(E), CursorAt(E)
    PROVE  /\ Row(E, E.currline) = E.currln + 1
           /\ E.currln \in 0..E.totaln /\ E.totaln = Len(E.text) - 1
           /\ E.text \in Seq(Lines) /\ Len(E.text) \in Nat
           /\ E.currline \in Range(E.text)
           /\ \A i \in 1..Len(E.text) :
                 /\ E.text[i] \in Lines /\ E.text[i] \in Range(E.text)
                 /\ E.text[i] = E.currline <=> i = E.currln + 1
<1>1. E.text \in Seq(Lines) /\ Distinct(E.text) /\ E.totaln = Len(E.text) - 1
  BY DEF Base, Buffer, Listed
<1>2. Len(E.text) \in Nat /\ E.currln + 1 \in 1..Len(E.text)
  BY <1>1 DEF CursorAt
<1>3. Row(E, E.text[E.currln + 1]) = E.currln + 1
  BY <1>1, <1>2, RowIs
<1>4. \A i \in 1..Len(E.text) : E.text[i] \in Lines /\ E.text[i] \in Range(E.text)
  BY <1>1, RangeIs
<1> QED
  BY <1>1, <1>2, <1>3, <1>4 DEF CursorAt, Distinct

-----------------------------------------------------------------------------
(* What an operator leaves as it was                                       *)

SameText(A, E) ==
    /\ A.text = E.text /\ A.len = E.len /\ A.mlength = E.mlength
    /\ A.firstline = E.firstline /\ A.lastline = E.lastline /\ A.totaln = E.totaln
    /\ A.deleted_line = E.deleted_line /\ A.oldcurrline = E.oldcurrline
SameBlock(A, E) == A.blockln = E.blockln /\ A.blockline = E.blockline
SameCursor(A, E) ==
    A.currline = E.currline /\ A.currln = E.currln /\ A.currpnt = E.currpnt
SameWindow(A, E) ==
    A.top_of_win = E.top_of_win /\ A.curr_window_line = E.curr_window_line
SameScreen(A, E) == A.phone_mode = E.phone_mode /\ A.b_lines = E.b_lines

LEMMA FieldsOf ==
    ASSUME NEW E \in Buffer
    PROVE  /\ E.text \in Seq(Lines)
           /\ E.len \in [Lines -> 0..WRAPMARGIN] /\ E.mlength \in [Lines -> 0..WRAPMARGIN]
           /\ E.firstline \in Lines /\ E.lastline \in Lines
           /\ E.currline \in Lines /\ E.top_of_win \in Lines
           /\ E.blockline \in Lines \cup {NoLine} /\ E.deleted_line \in Lines \cup {NoLine}
           /\ E.oldcurrline \in Lines \cup {NoLine}
           /\ E.currln \in Nat /\ E.totaln \in Nat /\ E.curr_window_line \in Int
           /\ E.blockln \in Int /\ E.blockln >= -1 /\ E.currpnt \in 0..WRAPMARGIN
           /\ E.phone_mode \in BOOLEAN
           /\ E.b_lines \in Sizes /\ E.b_lines \in Nat /\ E.b_lines >= 3
<1>1. /\ E.text \in Seq(Lines)
      /\ E.len \in [Lines -> 0..WRAPMARGIN] /\ E.mlength \in [Lines -> 0..WRAPMARGIN]
      /\ E.firstline \in Lines /\ E.lastline \in Lines
      /\ E.currline \in Lines /\ E.top_of_win \in Lines
      /\ E.blockline \in Lines \cup {NoLine} /\ E.deleted_line \in Lines \cup {NoLine}
      /\ E.oldcurrline \in Lines \cup {NoLine}
      /\ E.currln \in Nat /\ E.totaln \in Nat /\ E.curr_window_line \in Int
      /\ E.blockln \in Nat \cup {-1} /\ E.currpnt \in 0..WRAPMARGIN
      /\ E.phone_mode \in BOOLEAN /\ E.b_lines \in Sizes
  BY DEF Buffer
<1>2. E.blockln \in Int /\ E.blockln >= -1
  <2>1. E.blockln \in Nat \cup {-1}
    BY <1>1
  <2> QED
    BY <2>1
<1>3. E.b_lines \in Nat /\ E.b_lines >= 3
  BY <1>1, EditAssumption
<1> QED
  BY <1>1, <1>2, <1>3

LEMMA SameBase ==
    ASSUME NEW E, NEW A \in Buffer, Base(E), SameText(A, E), SameBlock(A, E)
    PROVE  Base(A)
  BY DEF Base, Listed, Lengths, Selected, SameText, SameBlock

\* block_cancel touches nothing but the block.
LEMMA CancelIs ==
    ASSUME NEW E, Base(E)
    PROVE  LET A == block_cancel(E) IN
           /\ Base(A) /\ A.blockln < 0 /\ SameText(A, E) /\ SameCursor(A, E)
           /\ SameWindow(A, E) /\ SameScreen(A, E)
<1> DEFINE A == block_cancel(E)
<1>1. E \in Buffer
  BY DEF Base
<1>2. /\ A \in Buffer /\ SameText(A, E) /\ SameCursor(A, E)
      /\ SameWindow(A, E) /\ SameScreen(A, E)
      /\ A.blockln < 0 /\ A.blockline = NoLine
  <2>1. CASE E.blockln >= 0
    <3>1. A = [E EXCEPT !.blockln = -1, !.blockline = NoLine]
      BY <2>1 DEF block_cancel
    <3> HIDE DEF A
    <3>2. A \in Buffer
      BY <1>1, <3>1 DEF Buffer
    <3>3. A.blockln = -1 /\ A.blockline = NoLine
      BY <1>1, <3>1 DEF Buffer
    <3>4. SameText(A, E) /\ SameCursor(A, E) /\ SameWindow(A, E) /\ SameScreen(A, E)
      BY <1>1, <3>1 DEF Buffer, SameText, SameCursor, SameWindow, SameScreen
    <3> QED
      BY <3>2, <3>3, <3>4
  <2>2. CASE E.blockln < 0
    <3>1. E.blockline = NoLine
      BY <2>2 DEF Base, Selected
    <3>2. A = E
      BY <1>1, <2>2, FieldsOf DEF block_cancel
    <3> QED
      BY <1>1, <2>2, <3>1, <3>2 DEF SameText, SameCursor, SameWindow, SameScreen
  <2> QED
    BY <1>1, <2>1, <2>2, FieldsOf
<1> HIDE DEF A
<1>3. Base(A)
  BY <1>2 DEF Base, Listed, Lengths, Selected, SameText
<1> QED
  BY <1>2, <1>3 DEF A

\* There are at least two lines to see, in phone mode as well.
LEMMA HeightIs ==
    ASSUME NEW E \in Buffer
    PROVE  visible_window_height(E) \in Nat /\ visible_window_height(E) >= 2
  BY FieldsOf DEF visible_window_height

\* edit_window_adjust shows the cursor, wherever it was.
LEMMA WindowIs ==
    ASSUME NEW E, Near(E)
    PROVE  LET A == WindowAdjusted(E) IN
           /\ Sound(A) /\ Visible(A)
           /\ SameText(A, E) /\ SameBlock(A, E) /\ SameCursor(A, E) /\ SameScreen(A, E)
<1> DEFINE A == WindowAdjusted(E)  last == visible_window_height(E) - 1  c == E.currln
<1>1. E \in Buffer /\ Base(E) /\ CursorAt(E)
  BY DEF Near, Base
<1>2. last \in Nat /\ last >= 1
  BY <1>1, HeightIs
<1>3. /\ Row(E, E.currline) = c + 1 /\ c \in Nat /\ c + 1 \in 1..Len(E.text)
      /\ \A i \in 1..Len(E.text) : E.text[i] \in Lines
  BY <1>1, CurrentRow DEF CursorAt
<1>4. /\ A \in Buffer
      /\ SameText(A, E) /\ SameBlock(A, E) /\ SameCursor(A, E) /\ SameScreen(A, E)
      /\ A.curr_window_line \in 0..c /\ A.curr_window_line <= last
      /\ E.text[c - A.curr_window_line + 1] = A.top_of_win
  <2>1. CASE E.curr_window_line < 0
    <3>1. A = [E EXCEPT !.curr_window_line = 0, !.top_of_win = E.currline]
      <4>1. ~ (E.curr_window_line > last)
        BY <1>1, <1>2, <2>1, FieldsOf
      <4> QED
        BY <2>1, <4>1 DEF WindowAdjusted
    <3>2. /\ A \in Buffer /\ A.curr_window_line = 0 /\ A.top_of_win = E.currline
          /\ SameText(A, E) /\ SameBlock(A, E) /\ SameCursor(A, E) /\ SameScreen(A, E)
      <4> HIDE DEF A
      <4>1. E.currline \in Lines
        BY <1>1, FieldsOf
      <4>3. A.curr_window_line = 0 /\ A.top_of_win = E.currline
        BY <1>1, <3>1 DEF Buffer
      <4>5. A.curr_window_line \in Int /\ A.top_of_win \in Lines
        BY <4>1, <4>3
      <4>2. A \in Buffer
        BY <1>1, <3>1, <4>5 DEF Buffer
      <4>4. SameText(A, E) /\ SameBlock(A, E) /\ SameCursor(A, E) /\ SameScreen(A, E)
        BY <1>1, <3>1 DEF Buffer, SameText, SameBlock, SameCursor, SameScreen
      <4> QED
        BY <4>2, <4>3, <4>4
    <3> QED
      BY <1>1, <1>2, <1>3, <3>2 DEF CursorAt
  <2>2. CASE E.curr_window_line > last
    <3>1. WindowAt(E) /\ E.curr_window_line \in 0..c
      <4>1. ~ (E.curr_window_line < 0)
        BY <1>1, <1>2, <2>2, FieldsOf
      <4> QED
        BY <4>1 DEF Near, WindowAt
    <3>2. back_line(E, E.currline, last) = E.text[c - last + 1]
      BY <1>2, <1>3, <2>2, <3>1 DEF back_line
    <3>3. A = [E EXCEPT !.curr_window_line = last, !.top_of_win = E.text[c - last + 1]]
      <4>1. ~ (E.curr_window_line < 0)
        BY <1>3, <3>1
      <4> QED
        BY <2>2, <3>2, <4>1 DEF WindowAdjusted
    <3>4. c - last + 1 \in 1..Len(E.text)
      BY <1>2, <1>3, <2>2, <3>1
    <3> QED
      <4>1. E.text[c - last + 1] \in Lines /\ last \in Int
        BY <1>2, <1>3, <3>4
      <4>2. /\ A \in Buffer /\ A.curr_window_line = last
            /\ A.top_of_win = E.text[c - last + 1]
            /\ SameText(A, E) /\ SameBlock(A, E) /\ SameCursor(A, E) /\ SameScreen(A, E)
        <5> HIDE DEF last, c, A
        <5> QED
          BY <1>1, <3>3, <4>1 DEF Buffer, SameText, SameBlock, SameCursor, SameScreen
      <4> QED
        BY <1>2, <1>3, <2>2, <3>1, <4>2
  <2>3. CASE E.curr_window_line \in 0..last
    <3>1. A = E
      BY <1>2, <2>3 DEF WindowAdjusted
    <3> QED
      BY <1>1, <1>2, <2>3, <3>1
         DEF Near, WindowAt, SameText, SameBlock, SameCursor, SameScreen
  <2>4. E.curr_window_line \in Int
    BY <1>1 DEF Buffer
  <2> QED
    BY <1>2, <2>1, <2>2, <2>3, <2>4
<1> HIDE DEF A
<1>5. Base(A)
  BY <1>1, <1>4, SameBase
<1>6. CursorAt(A) /\ WindowAt(A)
  BY <1>1, <1>4 DEF CursorAt, WindowAt, SameText, SameCursor
<1>7. Visible(A)
  <2>1. visible_window_height(A) = last + 1
    BY <1>1, <1>4, HeightIs DEF visible_window_height, SameScreen
  <2> QED
    BY <1>2, <1>4, <2>1 DEF Visible
<1> QED
  BY <1>4, <1>5, <1>6, <1>7 DEF Sound, A

\* The end of a key.
LEMMA KeyEndsWell ==
    ASSUME NEW E, Near(E), KeyEnds(E)
    PROVE  EditInv'
<1> DEFINE A == WindowAdjusted(E)
<1>1. E.currln \in Nat /\ E \in Buffer
  BY DEF Near, Base, Buffer
<1>2. [E EXCEPT !.currln = IF E.currln < 0 THEN 0 ELSE E.currln] = E
  BY <1>1 DEF Buffer
<1>3. Sound(A) /\ Visible(A)
  BY WindowIs
<1>4. ed' = A \/ (A.currpnt > 0 /\ ed' = [A EXCEPT !.currpnt = A.currpnt - 1])
  BY <1>2 DEF KeyEnds, Ended
<1> HIDE DEF A
<1>5. Sound(ed') /\ Visible(ed')
  <2>1. CASE ed' = A
    BY <1>3, <2>1
  <2>2. CASE A.currpnt > 0 /\ ed' = [A EXCEPT !.currpnt = A.currpnt - 1]
    <3>1. A \in Buffer /\ CursorAt(A) /\ WindowAt(A) /\ Base(A)
      BY <1>3 DEF Sound, Base
    <3>2. /\ ed' \in Buffer /\ SameText(ed', A) /\ SameBlock(ed', A) /\ SameWindow(ed', A)
          /\ SameScreen(ed', A) /\ ed'.currline = A.currline /\ ed'.currln = A.currln
          /\ ed'.currpnt = A.currpnt - 1
      <4>1. A.currpnt - 1 \in 0..WRAPMARGIN
        BY <2>2, <3>1, EditAssumption, FieldsOf
      <4> QED
        BY <2>2, <3>1, <4>1 DEF Buffer, SameText, SameBlock, SameWindow, SameScreen
    <3>3. Base(ed')
      BY <3>1, <3>2, SameBase
    <3>4. CursorAt(ed') /\ WindowAt(ed')
      <4>1. ed'.currpnt \in 0..ed'.len[ed'.currline]
        <5>1. A.len[A.currline] \in Nat
          BY <3>1, EditAssumption, FieldsOf
        <5> QED
          BY <2>2, <3>1, <3>2, <5>1 DEF CursorAt, SameText
      <4> QED
        BY <3>1, <3>2, <4>1 DEF CursorAt, WindowAt, SameText, SameWindow
    <3> QED
      BY <1>3, <3>2, <3>3, <3>4
         DEF Sound, Visible, visible_window_height, SameScreen, SameWindow
  <2> QED
    BY <1>4, <2>1, <2>2
<1>6. phase' = "top" /\ shrunk' = FALSE
  BY DEF KeyEnds
<1> QED
  BY <1>5, <1>6 DEF EditInv, Visible, visible_window_height

-----------------------------------------------------------------------------
(* Moving in the text                                                      *)

\* A move leaves lines and block alone; these say where it leads.
Moved(A, E) == A \in Buffer /\ SameText(A, E) /\ SameBlock(A, E) /\ SameScreen(A, E)

\* Moving the cursor needs to look after the cursor and the window only.
LEMMA MovedNear ==
    ASSUME NEW E, NEW A, Base(E), Moved(A, E), CursorAt(A),
           A.curr_window_line < 0 \/ WindowAt(A)
    PROVE  Near(A)
<1>1. Base(A)
  BY SameBase DEF Moved
<1> QED
  BY <1>1 DEF Near

\* back_line and forward_line stop at the ends of the list.
LEMMA BackForwardIs ==
    ASSUME NEW E, E.text \in Seq(Lines), Distinct(E.text),
           NEW i \in 1..Len(E.text), NEW num \in Nat
    PROVE  /\ back_line(E, E.text[i], num) = E.text[IF i > num THEN i - num ELSE 1]
           /\ forward_line(E, E.text[i], num) =
                 E.text[IF i + num <= Len(E.text) THEN i + num ELSE Len(E.text)]
  BY RowIs DEF back_line, forward_line

\* What is known of the lines of a list that is in order.
LEMMA TextOf ==
    ASSUME NEW E, Base(E)
    PROVE  /\ E \in Buffer /\ E.text \in Seq(Lines) /\ Distinct(E.text)
           /\ Len(E.text) \in Nat /\ Len(E.text) >= 1
           /\ E.firstline = E.text[1] /\ E.lastline = E.text[Len(E.text)]
           /\ E.totaln = Len(E.text) - 1
           /\ \A i \in 1..Len(E.text) :
                 /\ E.text[i] \in Lines /\ E.text[i] \in Range(E.text)
                 /\ E.len[E.text[i]] \in Nat /\ E.len[E.text[i]] < WRAPMARGIN
                 /\ E.mlength[E.text[i]] \in Nat /\ E.len[E.text[i]] <= E.mlength[E.text[i]]
           /\ \A x \in Range(E.text) :
                 x \in Lines /\ \E i \in 1..Len(E.text) : x = E.text[i]
<1>1. /\ E \in Buffer /\ E.text \in Seq(Lines) /\ Distinct(E.text)
      /\ Len(E.text) >= 1 /\ E.firstline = E.text[1] /\ E.lastline = E.text[Len(E.text)]
      /\ E.totaln = Len(E.text) - 1
  BY FieldsOf DEF Base, Listed
<1>2. /\ Len(E.text) \in Nat /\ Range(E.text) = {E.text[i] : i \in 1..Len(E.text)}
      /\ \A i \in 1..Len(E.text) : E.text[i] \in Lines /\ E.text[i] \in Range(E.text)
  BY <1>1, RangeIs
<1>3. \A l \in Lines : E.len[l] \in Nat /\ E.mlength[l] \in Nat
  BY <1>1, FieldsOf, EditAssumption
<1>4. \A l \in Range(E.text) : E.len[l] <= E.mlength[l] /\ E.len[l] < WRAPMARGIN
  BY DEF Base, Lengths
<1> QED
  BY <1>1, <1>2, <1>3, <1>4

\* edit_window_adjust_middle never goes back beyond the first line.
LEMMA MiddleIs ==
    ASSUME NEW E, Base(E), CursorAt(E)
    PROVE  Near(MiddleAdjusted(E))
<1> DEFINE A == MiddleAdjusted(E)  m == middle_line(E)  c == E.currln
<1>1. m \in Nat /\ m >= 1
  <2>1. E.b_lines \in Nat /\ E.b_lines >= 3
    BY FieldsOf DEF Base
  <2>2. (E.b_lines - 3) \div 2 \in Nat
    BY <2>1
  <2> QED
    BY <2>2 DEF middle_line
<1>2. /\ Row(E, E.currline) = c + 1 /\ c \in Nat /\ c + 1 \in 1..Len(E.text)
      /\ E \in Buffer /\ E.firstline = E.text[1] /\ E.firstline \in Lines
      /\ \A i \in 1..Len(E.text) : E.text[i] \in Lines
  BY CurrentRow, TextOf DEF CursorAt
<1> HIDE DEF A, m
<1>3. /\ Moved(A, E) /\ SameCursor(A, E)
      /\ A.curr_window_line \in 0..c /\ A.top_of_win = E.text[c - A.curr_window_line + 1]
  <2>1. CASE c < m
    <3>1. A = [E EXCEPT !.top_of_win = E.firstline, !.curr_window_line = E.currln]
      BY <2>1 DEF A, m, MiddleAdjusted
    <3>2. A.top_of_win = E.firstline /\ A.curr_window_line = c
      BY <1>2, <3>1 DEF Buffer
    <3>3. A.top_of_win \in Lines /\ A.curr_window_line \in Int
      BY <1>2, <3>2
    <3>4. A \in Buffer
      BY <1>2, <3>1, <3>3 DEF Buffer
    <3>5. SameText(A, E) /\ SameBlock(A, E) /\ SameScreen(A, E) /\ SameCursor(A, E)
      BY <1>2, <3>1 DEF Buffer, SameText, SameBlock, SameScreen, SameCursor
    <3> QED
      BY <1>2, <3>2, <3>4, <3>5 DEF Moved
  <2>2. CASE c >= m
    <3>1. A = [E EXCEPT !.top_of_win = E.text[c + 1 - m], !.curr_window_line = m]
      <4>1. ~ (E.currln < m) /\ Row(E, E.currline) - m = c + 1 - m
        BY <1>1, <1>2, <2>2
      <4> QED
        BY <4>1 DEF A, m, MiddleAdjusted
    <3>2. A.top_of_win = E.text[c + 1 - m] /\ A.curr_window_line = m
      BY <1>2, <3>1 DEF Buffer
    <3>3. A.top_of_win \in Lines /\ A.curr_window_line \in Int
      BY <1>1, <1>2, <2>2, <3>2
    <3>4. A \in Buffer
      BY <1>2, <3>1, <3>3 DEF Buffer
    <3>5. SameText(A, E) /\ SameBlock(A, E) /\ SameScreen(A, E) /\ SameCursor(A, E)
      BY <1>2, <3>1 DEF Buffer, SameText, SameBlock, SameScreen, SameCursor
    <3> QED
      BY <1>1, <1>2, <2>2, <3>2, <3>4, <3>5 DEF Moved
  <2> QED
    BY <1>1, <1>2, <2>1, <2>2
<1>4. CursorAt(A) /\ WindowAt(A)
  BY <1>3 DEF CursorAt, WindowAt, SameText, SameCursor, Moved
<1> QED
  BY <1>3, <1>4, MovedNear DEF A

LEMMA LineUpIs ==
    ASSUME NEW E, Sound(E), NEW A \in LineUp(E)
    PROVE  Near(A)
<1> DEFINE k == Row(E, E.currline)
<1>1. /\ Base(E) /\ CursorAt(E) /\ WindowAt(E) /\ Near(E) /\ E \in Buffer
      /\ k = E.currln + 1 /\ E.currln \in Nat /\ k \in 1..Len(E.text)
      /\ Len(E.text) \in Nat
  BY CurrentRow DEF Sound, Near, CursorAt, Base
<1>2. CASE k = 1
  BY <1>1, <1>2 DEF LineUp
<1>3. CASE k > 1
  <2>1. PICK c \in 0..E.len[E.text[k - 1]] :
           A = [E EXCEPT !.currline = E.text[k - 1], !.currln = @ - 1,
                         !.curr_window_line = @ - 1, !.currpnt = c]
    <3>1. k # 1
      BY <1>1, <1>3
    <3> QED
      BY <3>1 DEF LineUp
  <2>2. k - 1 \in 1..Len(E.text) /\ E.text[k - 1] \in Lines
    BY <1>1, <1>3, TextOf
  <2>3. E.len[E.text[k - 1]] \in 0..WRAPMARGIN
    BY <1>1, <2>2, FieldsOf
  <2> HIDE DEF k
  <2>4. /\ A.currline = E.text[k - 1] /\ A.currln = E.currln - 1
        /\ A.curr_window_line = E.curr_window_line - 1 /\ A.currpnt = c
        /\ A.top_of_win = E.top_of_win
        /\ SameText(A, E) /\ SameBlock(A, E) /\ SameScreen(A, E)
    BY <1>1, <2>1 DEF Buffer, SameText, SameBlock, SameScreen
  <2>5. /\ A.currline \in Lines /\ A.currln \in Nat /\ A.curr_window_line \in Int
        /\ A.currpnt \in 0..WRAPMARGIN
    <3>1. E.curr_window_line \in Int /\ WRAPMARGIN \in Nat
      BY <1>1, FieldsOf, EditAssumption
    <3>2. A.currpnt \in 0..WRAPMARGIN
      BY <2>3, <2>4, <3>1
    <3>4. E.currln \in Nat /\ E.currln >= 1 /\ A.currln = E.currln - 1
      BY <1>1, <1>3, <2>4
    <3>5. A.curr_window_line = E.curr_window_line - 1
      BY <2>4
    <3>3. A.currln \in Nat /\ A.curr_window_line \in Int
      BY <3>1, <3>4, <3>5
    <3> QED
      BY <2>2, <2>4, <3>2, <3>3
  <2>6. A \in Buffer
    BY <1>1, <2>1, <2>5 DEF Buffer
  <2>7. CursorAt(A)
    BY SMTT(60), <1>1, <1>3, <2>2, <2>4 DEF CursorAt, SameText
  <2>8. A.curr_window_line < 0 \/ WindowAt(A)
    <3>1. E.currln - E.curr_window_line = A.currln - A.curr_window_line
      BY <1>1, <2>4, FieldsOf
    <3>2. E.curr_window_line \in 0..E.currln /\ A.curr_window_line <= A.currln
      BY <1>1, <1>3, <2>4 DEF WindowAt
    <3>3. A.text[A.currln - A.curr_window_line + 1] = A.top_of_win
      BY <1>1, <2>4, <3>1 DEF WindowAt, SameText
    <3> QED
      BY <2>5, <3>2, <3>3 DEF WindowAt
  <2> QED
    BY SMTT(60), <1>1, <2>4, <2>6, <2>7, <2>8, MovedNear DEF Moved
<1> QED
  BY <1>1, <1>2, <1>3

LEMMA LineDownIs ==
    ASSUME NEW E, Sound(E), NEW A \in LineDown(E)
    PROVE  Near(A)
<1> DEFINE k == Row(E, E.currline)
<1>1. /\ Base(E) /\ CursorAt(E) /\ WindowAt(E) /\ Near(E) /\ E \in Buffer
      /\ k = E.currln + 1 /\ E.currln \in Nat /\ k \in 1..Len(E.text)
      /\ Len(E.text) \in Nat
  BY CurrentRow DEF Sound, Near, CursorAt, Base
<1>2. CASE k = Len(E.text)
  BY <1>1, <1>2 DEF LineDown
<1>3. CASE k < Len(E.text)
  <2>1. PICK c \in 0..E.len[E.text[k + 1]] :
           A = [E EXCEPT !.currline = E.text[k + 1], !.currln = @ + 1,
                         !.curr_window_line = @ + 1, !.currpnt = c]
    <3>1. k # Len(E.text)
      BY <1>1, <1>3
    <3> QED
      BY <3>1 DEF LineDown
  <2> HIDE DEF k
  <2>2. k + 1 \in 1..Len(E.text) /\ E.text[k + 1] \in Lines
    <3>1. k + 1 \in 1..Len(E.text)
      <4>1. k \in 1..Len(E.text) /\ Len(E.text) \in Nat
        BY <1>1
      <4> QED
        BY <1>3, <4>1
    <3>2. E.text \in Seq(Lines)
      BY <1>1, TextOf
    <3> QED
      BY <3>1, <3>2
  <2>3. E.len[E.text[k + 1]] \in 0..WRAPMARGIN
    BY <1>1, <2>2, FieldsOf
  <2>4. /\ A.currline = E.text[k + 1] /\ A.currln = E.currln + 1
        /\ A.curr_window_line = E.curr_window_line + 1 /\ A.currpnt = c
        /\ A.top_of_win = E.top_of_win
        /\ SameText(A, E) /\ SameBlock(A, E) /\ SameScreen(A, E)
    BY <1>1, <2>1 DEF Buffer, SameText, SameBlock, SameScreen
  <2>5. /\ A.currline \in Lines /\ A.currln \in Nat /\ A.curr_window_line \in Int
        /\ A.currpnt \in 0..WRAPMARGIN
    <3>1. E.curr_window_line \in Int /\ WRAPMARGIN \in Nat
      BY <1>1, FieldsOf, EditAssumption
    <3>2. A.currpnt \in 0..WRAPMARGIN
      BY <2>3, <2>4, <3>1
    <3>3. A.currln \in Nat /\ A.curr_window_line \in Int
      BY <1>1, <1>3, <2>4, <3>1
    <3> QED
      BY <2>2, <2>4, <3>2, <3>3
  <2>6. A \in Buffer
    BY <1>1, <2>1, <2>5 DEF Buffer
  <2>7. CursorAt(A)
    BY <1>1, <1>3, <2>2, <2>4 DEF CursorAt, SameText
  <2>8. A.curr_window_line < 0 \/ WindowAt(A)
    <3>1. E.currln - E.curr_window_line = A.currln - A.curr_window_line
      BY <1>1, <2>4, FieldsOf
    <3>2. E.curr_window_line \in 0..E.currln /\ A.curr_window_line <= A.currln
      BY <1>1, <1>3, <2>4 DEF WindowAt
    <3>3. A.text[A.currln - A.curr_window_line + 1] = A.top_of_win
      BY <1>1, <2>4, <3>1 DEF WindowAt, SameText
    <3> QED
      BY <2>5, <3>2, <3>3 DEF WindowAt
  <2> QED
    BY SMTT(60), <1>1, <2>4, <2>6, <2>7, <2>8, MovedNear DEF Moved
<1> QED
  BY <1>1, <1>2, <1>3

LEMMA InLineIs ==
    ASSUME NEW E, Sound(E), NEW A \in InLine(E)
    PROVE  Near(A)
<1>1. Base(E) /\ CursorAt(E) /\ WindowAt(E) /\ E \in Buffer
  BY DEF Sound, Base
<1>2. PICK c \in 0..E.len[E.currline] : A = [E EXCEPT !.currpnt = c]
  BY DEF InLine
<1>3. c \in 0..WRAPMARGIN
  <2>1. E.len[E.currline] \in 0..WRAPMARGIN
    BY <1>1, FieldsOf
  <2> QED
    BY <2>1, EditAssumption
<1>4. A \in Buffer
  BY <1>1, <1>2, <1>3 DEF Buffer
<1>5. /\ A.currpnt = c /\ A.currline = E.currline /\ A.currln = E.currln
      /\ SameText(A, E) /\ SameBlock(A, E) /\ SameScreen(A, E) /\ SameWindow(A, E)
  BY <1>1, <1>2 DEF Buffer, SameText, SameBlock, SameScreen, SameWindow
<1>6. CursorAt(A) /\ WindowAt(A)
  BY <1>1, <1>5 DEF CursorAt, WindowAt, SameText, SameWindow
<1> QED
  BY <1>1, <1>4, <1>5, <1>6, MovedNear DEF Moved

LEMMA WindowLineIs ==
    ASSUME NEW E, E.text \in Seq(Lines), Distinct(E.text), NEW c \in 1..Len(E.text),
           NEW t \in 1..c, E.currline = E.text[c], E.top_of_win = E.text[t]
    PROVE  get_lineno_in_window(E) = c - t
<1>1. Row(E, E.currline) = c /\ Row(E, E.top_of_win) = t
  BY RowIs
<1> QED
  BY <1>1 DEF get_lineno_in_window

\* A page, to lines that are in this order in the list.
LEMMA PagedIs ==
    ASSUME NEW E, Base(E), NEW c \in 1..Len(E.text), NEW t \in 1..c
    PROVE  Near(Paged(E, E.text[c], E.text[t], c - 1))
<1> DEFINE p == E.text[c]  top == E.text[t]  ln == c - 1
           F == [E EXCEPT !.currline = p, !.top_of_win = top, !.currln = ln,
                          !.currpnt = IF @ > E.len[p] THEN E.len[p] ELSE @]
           A == Paged(E, E.text[c], E.text[t], c - 1)
<1>1. /\ E \in Buffer /\ p \in Lines /\ top \in Lines /\ ln \in Nat /\ Len(E.text) \in Nat
      /\ E.len[p] \in 0..WRAPMARGIN /\ E.currpnt \in 0..WRAPMARGIN /\ WRAPMARGIN \in Nat
      /\ E.text \in Seq(Lines) /\ Distinct(E.text)
  <2>1. /\ E \in Buffer /\ p \in Lines /\ Len(E.text) \in Nat
        /\ E.text \in Seq(Lines) /\ Distinct(E.text)
    BY TextOf
  <2>2. E.len[p] \in 0..WRAPMARGIN /\ E.currpnt \in 0..WRAPMARGIN
    BY <2>1, FieldsOf
  <2>3. top \in Lines /\ ln \in Nat
    BY <2>1, TextOf
  <2> QED
    BY <2>1, <2>2, <2>3, EditAssumption
<1>2. A = [F EXCEPT !.curr_window_line = get_lineno_in_window(F)]
  BY DEF Paged
<1> HIDE DEF A, p, top, ln
<1>3. /\ F.currline = p /\ F.top_of_win = top /\ F.currln = ln
      /\ F.currpnt = (IF E.currpnt > E.len[p] THEN E.len[p] ELSE E.currpnt)
      /\ SameText(F, E) /\ SameBlock(F, E) /\ SameScreen(F, E)
  BY <1>1 DEF Buffer, SameText, SameBlock, SameScreen
<1>4. F.currpnt \in 0..WRAPMARGIN /\ F.currpnt \in 0..E.len[p]
  BY <1>1, <1>3
<1>5. F \in Buffer
  <2>1. F.currline \in Lines /\ F.top_of_win \in Lines /\ F.currln \in Nat
    BY <1>1, <1>3
  <2> QED
    <3>1. E \in Buffer /\ F.currpnt \in 0..WRAPMARGIN
      BY <1>1, <1>4
    <3> DEFINE pnt == IF E.currpnt > E.len[p] THEN E.len[p] ELSE E.currpnt
    <3>2. F = [E EXCEPT !.currline = p, !.top_of_win = top, !.currln = ln, !.currpnt = pnt]
      OBVIOUS
    <3>3. p \in Lines /\ top \in Lines /\ ln \in Nat /\ pnt \in 0..WRAPMARGIN
      BY <1>1, <1>3, <1>4
    <3> HIDE DEF F, pnt
    <3> QED
      BY <3>1, <3>2, <3>3 DEF Buffer
<1>6. get_lineno_in_window(F) = c - t
  <2>1. F.text \in Seq(Lines) /\ Distinct(F.text) /\ c \in 1..Len(F.text)
    BY <1>1, <1>3 DEF SameText
  <2>2. F.currline = F.text[c] /\ F.top_of_win = F.text[t]
    BY <1>3 DEF SameText, p, top
  <2> HIDE DEF F
  <2> QED
    BY <2>1, <2>2, WindowLineIs
<1> HIDE DEF F
<1>7. A = [F EXCEPT !.curr_window_line = c - t]
  BY <1>2, <1>6
<1>8. c - t \in Int
  BY <1>1
<1>9. A \in Buffer
  BY <1>5, <1>7, <1>8 DEF Buffer
<1>10. /\ A.curr_window_line = c - t
       /\ A.currline = p /\ A.top_of_win = top /\ A.currln = ln /\ A.currpnt = F.currpnt
       /\ SameText(A, E) /\ SameBlock(A, E) /\ SameScreen(A, E)
  BY <1>3, <1>5, <1>7 DEF Buffer, SameText, SameBlock, SameScreen
<1>11. CursorAt(A)
  BY <1>1, <1>4, <1>10 DEF CursorAt, SameText, p, ln
<1>12. WindowAt(A)
  <2>1. c - t \in 0..ln /\ ln - (c - t) + 1 = t
    BY <1>1 DEF ln
  <2> QED
    BY <1>10, <2>1 DEF WindowAt, SameText, top
<1> QED
  BY <1>9, <1>10, <1>11, <1>12, MovedNear DEF Moved, A

\* KEY_PGUP and KEY_PGDN keep the top line before the cursor.
LEMMA PagesAre ==
    ASSUME NEW E, Sound(E)
    PROVE  Near(PageUp(E)) /\ Near(PageDown(E))
<1> DEFINE num == visible_window_height(E) - 1
           c == E.currln + 1  t == E.currln - E.curr_window_line + 1  n == Len(E.text)
           up(i) == IF i > num THEN i - num ELSE 1
           down(i) == IF i + num <= n THEN i + num ELSE n
<1>1. Base(E) /\ E \in Buffer /\ E.text \in Seq(Lines) /\ Distinct(E.text) /\ n \in Nat
  BY TextOf DEF Sound
<1>2. num \in Nat
  BY <1>1, HeightIs
<1>3. /\ c \in 1..n /\ t \in 1..c /\ E.currline = E.text[c] /\ E.top_of_win = E.text[t]
      /\ E.currln \in Nat
  BY SMTT(60), <1>1 DEF Sound, CursorAt, WindowAt
<1>4. up(c) \in 1..n /\ up(t) \in 1..up(c) /\ down(c) \in 1..n /\ down(t) \in 1..down(c)
  BY SMTT(60), <1>1, <1>2, <1>3
<1>5. /\ back_line(E, E.currline, num) = E.text[up(c)]
      /\ back_line(E, E.top_of_win, num) = E.text[up(t)]
      /\ forward_line(E, E.currline, num) = E.text[down(c)]
      /\ forward_line(E, E.top_of_win, num) = E.text[down(t)]
  <2>1. t \in 1..n
    BY <1>1, <1>3
  <2> QED
    BY ZenonT(60), <1>1, <1>2, <1>3, <2>1, BackForwardIs
<1>6. /\ Row(E, E.currline) = c /\ Row(E, E.text[up(c)]) = up(c)
      /\ Row(E, E.text[down(c)]) = down(c)
  BY <1>1, <1>3, <1>4, RowIs
<1>7. /\ E.currln - (Row(E, E.currline) - Row(E, E.text[up(c)])) = up(c) - 1
      /\ E.currln + (Row(E, E.text[down(c)]) - Row(E, E.currline)) = down(c) - 1
  <2> HIDE DEF up, down
  <2>1. up(c) \in Int /\ down(c) \in Int
    BY <1>1, <1>4
  <2> QED
    BY SMTT(60), <1>3, <1>6, <2>1
<1>8. /\ PageUp(E) = Paged(E, E.text[up(c)], E.text[up(t)], up(c) - 1)
      /\ PageDown(E) = Paged(E, E.text[down(c)], E.text[down(t)], down(c) - 1)
  BY <1>5, <1>7 DEF PageUp, PageDown
<1> QED
  BY <1>1, <1>4, <1>8, PagedIs

LEMMA StartIs ==
    ASSUME NEW E, Sound(E)
    PROVE  Near(StartOfFile(E))
<1> DEFINE A == StartOfFile(E)
<1>1. /\ Base(E) /\ E \in Buffer /\ E.firstline = E.text[1] /\ 1 \in 1..Len(E.text)
      /\ E.firstline \in Lines
  BY TextOf DEF Sound
<1>2. A = [E EXCEPT !.currline = E.firstline, !.top_of_win = E.firstline, !.currpnt = 0,
                    !.currln = 0, !.curr_window_line = 0]
  BY DEF StartOfFile
<1> HIDE DEF A
<1>3. /\ A.currline = E.firstline /\ A.top_of_win = E.firstline /\ A.currpnt = 0
      /\ A.currln = 0 /\ A.curr_window_line = 0
      /\ SameText(A, E) /\ SameBlock(A, E) /\ SameScreen(A, E)
  BY <1>1, <1>2 DEF Buffer, SameText, SameBlock, SameScreen
<1>4. A \in Buffer
  <2>1. /\ A.currline \in Lines /\ A.top_of_win \in Lines /\ A.currln \in Nat
        /\ A.curr_window_line \in Int /\ A.currpnt \in 0..WRAPMARGIN
    BY <1>1, <1>3, EditAssumption
  <2> QED
    BY <1>1, <1>2, <2>1 DEF Buffer
<1>5. CursorAt(A)
  <2>1. E.len[E.firstline] \in Nat /\ Len(E.text) \in Nat
    BY <1>1, TextOf
  <2> QED
    BY <1>1, <1>3, <2>1 DEF CursorAt, SameText
<1>6. WindowAt(A)
  BY <1>1, <1>3 DEF WindowAt, SameText
<1> QED
  BY <1>1, <1>3, <1>4, <1>5, <1>6, MovedNear DEF Moved, A

LEMMA TailIs ==
    ASSUME NEW E, Sound(E)
    PROVE  Near(TailOfFile(E))
<1> DEFINE n == Len(E.text)
           num == visible_window_height(E) - 1
           t == IF n > num THEN n - num ELSE 1
           F == [E EXCEPT !.currline = E.lastline, !.currln = E.totaln, !.currpnt = 0,
                          !.top_of_win = E.text[t]]
           A == TailOfFile(E)
<1>1. /\ Base(E) /\ E \in Buffer /\ E.lastline = E.text[n] /\ n \in Nat /\ n \in 1..n
      /\ E.lastline \in Lines /\ E.totaln = n - 1 /\ num \in Nat
      /\ E.text \in Seq(Lines) /\ Distinct(E.text) /\ E.len[E.lastline] \in Nat
      /\ \A i \in 1..n : E.text[i] \in Lines
  BY TextOf, HeightIs DEF Sound
<1>2. t \in 1..n /\ back_line(E, E.lastline, num) = E.text[t] /\ E.text[t] \in Lines
  <2>1. back_line(E, E.lastline, num) = E.text[t]
    BY <1>1, BackForwardIs
  <2> QED
    BY <1>1, <2>1
<1>3. A = [F EXCEPT !.curr_window_line = get_lineno_in_window(F)]
  BY <1>2 DEF TailOfFile
<1> HIDE DEF A, t, num
<1>4. /\ F.currline = E.lastline /\ F.top_of_win = E.text[t] /\ F.currln = E.totaln
      /\ F.currpnt = 0
      /\ SameText(F, E) /\ SameBlock(F, E) /\ SameScreen(F, E)
  BY <1>1 DEF Buffer, SameText, SameBlock, SameScreen
<1>5. F \in Buffer
  <2>1. /\ F.currline \in Lines /\ F.top_of_win \in Lines /\ F.currln \in Nat
        /\ F.currpnt \in 0..WRAPMARGIN
    BY <1>1, <1>2, <1>4, EditAssumption
  <2> QED
    BY <1>1, <2>1 DEF Buffer
<1> HIDE DEF F
<1>6. get_lineno_in_window(F) = n - t
  BY SMTT(60), <1>1, <1>2, <1>4, WindowLineIs DEF SameText
<1>7. A = [F EXCEPT !.curr_window_line = n - t]
  BY <1>3, <1>6
<1>8. n - t \in Int
  BY <1>1, <1>2
<1>9. A \in Buffer
  BY <1>5, <1>7, <1>8 DEF Buffer
<1>10. /\ A.curr_window_line = n - t /\ A.currline = E.lastline
       /\ A.top_of_win = E.text[t] /\ A.currln = n - 1 /\ A.currpnt = 0
       /\ SameText(A, E) /\ SameBlock(A, E) /\ SameScreen(A, E)
  BY <1>1, <1>4, <1>5, <1>7 DEF Buffer, SameText, SameBlock, SameScreen
<1>11. CursorAt(A)
  <2>1. n - 1 \in 0..n - 1 /\ n - 1 + 1 = n
    BY <1>1
  <2> QED
    BY <1>1, <1>10, <2>1 DEF CursorAt, SameText
<1>12. WindowAt(A)
  <2>1. n - t \in 0..n - 1 /\ n - 1 - (n - t) + 1 = t
    BY <1>1, <1>2
  <2> QED
    BY <1>10, <2>1 DEF WindowAt, SameText
<1> QED
  BY <1>1, <1>9, <1>10, <1>11, <1>12, MovedNear DEF Moved, A

\* goto_line with any number that the question lets through.
LEMMA GotoIs ==
    ASSUME NEW E, Sound(E), NEW lino \in 1..E.totaln + 1
    PROVE  Near(goto_line(E, lino))
<1> DEFINE A == [E EXCEPT !.currline = E.text[lino], !.currln = lino - 1, !.currpnt = 0]
<1>1. /\ Base(E) /\ E \in Buffer /\ Len(E.text) \in Nat /\ lino \in 1..Len(E.text)
      /\ E.text[lino] \in Lines /\ E.len[E.text[lino]] \in Nat /\ lino - 1 \in Nat
  <2>1. /\ Base(E) /\ E \in Buffer /\ Len(E.text) \in Nat /\ lino \in 1..Len(E.text)
    BY TextOf DEF Sound
  <2> QED
    BY <2>1, TextOf
<1>2. goto_line(E, lino) = MiddleAdjusted(A)
  <2>1. (IF lino <= Len(E.text) THEN lino ELSE Len(E.text)) = lino
    BY <1>1
  <2> QED
    BY <2>1 DEF goto_line
<1>3. /\ A.currline = E.text[lino] /\ A.currln = lino - 1 /\ A.currpnt = 0
      /\ SameText(A, E) /\ SameBlock(A, E)
  BY <1>1 DEF Buffer, SameText, SameBlock
<1>4. A \in Buffer
  <2>1. A.currline \in Lines /\ A.currln \in Nat /\ A.currpnt \in 0..WRAPMARGIN
    BY <1>1, <1>3, EditAssumption
  <2> QED
    BY <1>1, <2>1 DEF Buffer
<1> HIDE DEF A
<1>5. CursorAt(A)
  BY <1>1, <1>3 DEF CursorAt, SameText
<1> QED
  BY <1>1, <1>2, <1>3, <1>4, <1>5, SameBase, MiddleIs

LEMMA CursorFoundIs ==
    ASSUME NEW E, Sound(E), NEW f \in Found(E)
    PROVE  LET A == CursorFound(E, f) IN
           /\ Moved(A, E) /\ Base(A) /\ CursorAt(A)
           /\ A.currln = f.row - 1 /\ f.row \in 1..Len(E.text) /\ SameWindow(A, E)
           /\ f.row - Row(E, E.currline) = A.currln - E.currln
<1> DEFINE A == CursorFound(E, f)
<1>1. /\ Base(E) /\ CursorAt(E) /\ E \in Buffer /\ E.text \in Seq(Lines)
      /\ Len(E.text) \in Nat
  BY TextOf DEF Sound
<1>2. /\ f.row \in 1..Len(E.text) /\ f.col \in 0..WRAPMARGIN
      /\ f.col < E.len[E.text[f.row]]
  BY <1>1 DEF Found
<1>3. /\ E.text[f.row] \in Lines /\ E.len[E.text[f.row]] \in Nat
      /\ Row(E, E.currline) = E.currln + 1 /\ E.currln \in Nat
  BY <1>1, <1>2, TextOf, CurrentRow, FieldsOf
<1>4. E.currln + (f.row - Row(E, E.currline)) = f.row - 1
  BY <1>1, <1>2, <1>3
<1>5. A = [E EXCEPT !.currline = E.text[f.row], !.currpnt = f.col, !.currln = f.row - 1]
  BY <1>4 DEF CursorFound
<1> HIDE DEF A
<1>6. /\ A.currline = E.text[f.row] /\ A.currpnt = f.col /\ A.currln = f.row - 1
      /\ SameText(A, E) /\ SameBlock(A, E) /\ SameScreen(A, E) /\ SameWindow(A, E)
  BY <1>1, <1>5 DEF Buffer, SameText, SameBlock, SameScreen, SameWindow
<1>7. A \in Buffer
  <2>1. A.currline \in Lines /\ A.currpnt \in 0..WRAPMARGIN /\ A.currln \in Nat
    BY <1>1, <1>2, <1>3, <1>6
  <2> QED
    BY <1>1, <1>5, <2>1 DEF Buffer
<1>8. CursorAt(A)
  <2>1. f.col \in 0..E.len[E.text[f.row]]
    BY <1>2, <1>3, EditAssumption
  <2>2. f.row - 1 \in 0..Len(E.text) - 1 /\ f.row - 1 + 1 = f.row
    BY <1>1, <1>2
  <2> QED
    BY <1>6, <2>1, <2>2 DEF CursorAt, SameText
<1>9. f.row - Row(E, E.currline) = A.currln - E.currln
  BY SMTT(60), <1>1, <1>2, <1>3, <1>6
<1> QED
  BY <1>1, <1>2, <1>6, <1>7, <1>8, <1>9, SameBase DEF Moved, A

LEMMA SearchIs ==
    ASSUME NEW E, Sound(E), NEW A \in search_str(E)
    PROVE  Near(A)
<1>1. PICK f \in Found(E) : A = MiddleAdjusted(CursorFound(E, f))
  BY DEF search_str
<1> QED
  BY <1>1, CursorFoundIs, MiddleIs

\* match_paren shifts the cursor inside of the window or puts it in the middle.
LEMMA MatchIs ==
    ASSUME NEW E, Sound(E), NEW A \in match_paren(E)
    PROVE  Near(A)
<1> DEFINE top == E.currln - E.curr_window_line
           bottom == top + visible_window_height(E) - 1
           move(f) == [CursorFound(E, f) EXCEPT
                          !.curr_window_line = @ + (f.row - Row(E, E.currline))]
<1>1. PICK f \in Found(E) :
         A = IF move(f).currln < top \/ move(f).currln > bottom
             THEN MiddleAdjusted(move(f)) ELSE move(f)
  BY DEF match_paren
<1> DEFINE F == CursorFound(E, f)  G == move(f)
<1>2. /\ Moved(F, E) /\ F \in Buffer /\ Base(F) /\ CursorAt(F) /\ SameWindow(F, E)
      /\ f.row - Row(E, E.currline) = F.currln - E.currln
  BY CursorFoundIs DEF Moved
<1>3. /\ E.currln \in Nat /\ F.currln \in Nat /\ E.curr_window_line \in 0..E.currln
      /\ E.text[top + 1] = E.top_of_win
  <2>1. E \in Buffer /\ WindowAt(E)
    BY DEF Sound, Base
  <2> QED
    BY <1>2, <2>1, FieldsOf DEF WindowAt
<1>4. G = [F EXCEPT !.curr_window_line = F.currln - top]
  <2>1. F.curr_window_line + (f.row - Row(E, E.currline)) = F.currln - top
    BY <1>2, <1>3 DEF SameWindow
  <2> QED
    BY <2>1
<1> HIDE DEF F, G, move
<1>5. /\ G.curr_window_line = F.currln - top
      /\ SameText(G, F) /\ SameBlock(G, F) /\ SameScreen(G, F) /\ SameCursor(G, F)
      /\ G.top_of_win = F.top_of_win
  BY <1>2, <1>4 DEF Buffer, SameText, SameBlock, SameScreen, SameCursor
<1>6. G \in Buffer
  <2>1. G.curr_window_line \in Int
    BY <1>3, <1>5
  <2> QED
    BY <1>2, <1>4, <2>1 DEF Buffer
<1>7. Base(G) /\ CursorAt(G)
  <2>1. CursorAt(G)
    BY <1>2, <1>5 DEF CursorAt, SameText, SameCursor
  <2> QED
    BY <1>2, <1>5, <1>6, <2>1, SameBase
<1>8. CASE G.currln < top
  BY <1>1, <1>7, <1>8, MiddleIs DEF G
<1>9. CASE G.currln > bottom
  BY <1>1, <1>7, <1>9, MiddleIs DEF G
<1>10. CASE ~ (G.currln < top) /\ ~ (G.currln > bottom)
  <2>1. A = G
    BY <1>1, <1>10 DEF G
  <2>2. G.curr_window_line \in 0..G.currln /\ G.currln - G.curr_window_line = top
    BY <1>3, <1>5, <1>10 DEF SameCursor
  <2>3. G.text = E.text /\ G.top_of_win = E.top_of_win
    BY <1>2, <1>5 DEF Moved, SameText, SameWindow
  <2>4. WindowAt(G)
    BY <1>3, <2>2, <2>3 DEF WindowAt
  <2> QED
    BY <1>7, <2>1, <2>4 DEF Near
<1> QED
  BY <1>8, <1>9, <1>10

-----------------------------------------------------------------------------
(* Lines that are put in and taken out                                     *)

\* What adjustline changes.
LEMMA AdjustedIs ==
    ASSUME NEW E \in Buffer, NEW p \in Lines, NEW n \in 0..WRAPMARGIN
    PROVE  LET A == Adjusted(E, p, n)
               old == IF E.oldcurrline = p THEN NoLine ELSE E.oldcurrline
           IN /\ A \in Buffer
              /\ A.text = E.text /\ A.len = E.len /\ A.mlength = [E.mlength EXCEPT ![p] = n]
              /\ A.firstline = E.firstline /\ A.lastline = E.lastline
              /\ A.totaln = E.totaln /\ A.deleted_line = E.deleted_line
              /\ A.oldcurrline = IF old = NoLine /\ n = WRAPMARGIN THEN E.currline ELSE old
              /\ SameBlock(A, E) /\ SameCursor(A, E) /\ SameWindow(A, E) /\ SameScreen(A, E)
<1> DEFINE A == Adjusted(E, p, n)
<1>1. /\ A.text = E.text /\ A.len = E.len /\ A.mlength = [E.mlength EXCEPT ![p] = n]
      /\ A.firstline = E.firstline /\ A.lastline = E.lastline
      /\ A.totaln = E.totaln /\ A.deleted_line = E.deleted_line
      /\ A.oldcurrline = LET old == IF E.oldcurrline = p THEN NoLine ELSE E.oldcurrline IN
                         IF old = NoLine /\ n = WRAPMARGIN THEN E.currline ELSE old
      /\ SameBlock(A, E) /\ SameCursor(A, E) /\ SameWindow(A, E) /\ SameScreen(A, E)
  BY DEF Adjusted, Buffer, SameBlock, SameCursor, SameWindow, SameScreen
<1>2. A \in Buffer
  BY ZenonT(60) DEF Adjusted, Buffer
<1> QED
  BY <1>1, <1>2

\* insert_line with its pointer to the last line.
LEMMA InsertIs ==
    ASSUME NEW E \in Buffer, Distinct(E.text), NEW i \in 1..Len(E.text),
           NEW p \in Lines \ Range(E.text)
    PROVE  LET A == insert_line(E, E.text[i], p) IN
           /\ A \in Buffer /\ A.text = Spliced(E.text, i, p)
           /\ A.lastline = IF i = Len(E.text) THEN p ELSE E.lastline
           /\ A.len = E.len /\ A.mlength = E.mlength /\ A.firstline = E.firstline
           /\ A.totaln = E.totaln /\ A.deleted_line = E.deleted_line
           /\ A.oldcurrline = E.oldcurrline
           /\ SameBlock(A, E) /\ SameCursor(A, E) /\ SameWindow(A, E) /\ SameScreen(A, E)
<1> DEFINE A == insert_line(E, E.text[i], p)  s == Spliced(E.text, i, p)
           last == IF i = Len(E.text) THEN p ELSE E.lastline
<1>1. E.text \in Seq(Lines) /\ Len(E.text) \in Nat /\ E.lastline \in Lines
  BY FieldsOf
<1>2. Row(E, E.text[i]) = i
  BY <1>1, RowIs
<1>3. A = [E EXCEPT !.text = s, !.lastline = last]
  BY <1>2 DEF insert_line, Spliced
<1>4. s \in Seq(Lines) /\ last \in Lines
  BY <1>1, SplicedIs
<1> HIDE DEF A, s, last
<1>5. /\ A.text = s /\ A.lastline = last
      /\ A.len = E.len /\ A.mlength = E.mlength /\ A.firstline = E.firstline
      /\ A.totaln = E.totaln /\ A.deleted_line = E.deleted_line
      /\ A.oldcurrline = E.oldcurrline
      /\ SameBlock(A, E) /\ SameCursor(A, E) /\ SameWindow(A, E) /\ SameScreen(A, E)
  BY <1>3 DEF Buffer, SameBlock, SameCursor, SameWindow, SameScreen
<1>6. A \in Buffer
  BY <1>3, <1>4 DEF Buffer
<1> QED
  BY <1>5, <1>6 DEF A, s, last

\* Lengths, but for what is in one line.
LengthsBut(E, line) ==
    /\ \A l \in Range(E.text) \ {line} : E.len[l] <= E.mlength[l] /\ E.len[l] < WRAPMARGIN
    /\ E.deleted_line # NoLine => E.len[E.deleted_line] < WRAPMARGIN
    /\ E.oldcurrline # NoLine => E.mlength[E.oldcurrline] = WRAPMARGIN

\* What split does first: E1 is E with line cut off at pos and the rest in p.
LineMade(E, E1, line, pos, size, p) ==
    /\ E1 \in Buffer /\ E1.totaln = E.totaln + 1
    /\ E1.len = [E.len EXCEPT ![line] = pos, ![p] = size]
    /\ E1.mlength = [E.mlength EXCEPT ![p] = WRAPMARGIN]
    /\ E1.text = E.text /\ E1.firstline = E.firstline /\ E1.lastline = E.lastline
    /\ E1.deleted_line = E.deleted_line /\ E1.oldcurrline = E.oldcurrline
    /\ SameBlock(E1, E) /\ SameCursor(E1, E) /\ SameWindow(E1, E) /\ SameScreen(E1, E)

\* The first steps of split.
LEMMA LineMadeIs ==
    ASSUME NEW E \in Buffer, NEW line \in Lines, NEW p \in Lines,
           NEW pos \in 0..WRAPMARGIN - 1, NEW size \in 0..WRAPMARGIN - 1
    PROVE  LineMade(E, [E EXCEPT !.totaln = @ + 1,
                                 !.len = [@ EXCEPT ![line] = pos, ![p] = size],
                                 !.mlength[p] = WRAPMARGIN], line, pos, size, p)
<1> DEFINE L == [E.len EXCEPT ![line] = pos, ![p] = size]
           M == [E.mlength EXCEPT ![p] = WRAPMARGIN]
           E1 == [E EXCEPT !.totaln = @ + 1, !.len = [@ EXCEPT ![line] = pos, ![p] = size],
                           !.mlength[p] = WRAPMARGIN]
<1>1. /\ E.len \in [Lines -> 0..WRAPMARGIN] /\ E.mlength \in [Lines -> 0..WRAPMARGIN]
      /\ E.totaln \in Nat /\ WRAPMARGIN \in Nat
  BY FieldsOf, EditAssumption
<1>4. L \in [Lines -> 0..WRAPMARGIN] /\ M \in [Lines -> 0..WRAPMARGIN]
  <2>1. pos \in 0..WRAPMARGIN /\ size \in 0..WRAPMARGIN /\ WRAPMARGIN \in 0..WRAPMARGIN
    BY <1>1
  <2> QED
    BY <1>1, <2>1
<1>5. /\ E1.totaln = E.totaln + 1 /\ E1.len = L /\ E1.mlength = M
      /\ E1.text = E.text /\ E1.firstline = E.firstline /\ E1.lastline = E.lastline
      /\ E1.deleted_line = E.deleted_line /\ E1.oldcurrline = E.oldcurrline
      /\ SameBlock(E1, E) /\ SameCursor(E1, E) /\ SameWindow(E1, E) /\ SameScreen(E1, E)
  BY DEF Buffer, SameBlock, SameCursor, SameWindow, SameScreen
<1>6. E1 \in Buffer
  <2>1. E1.totaln \in Nat /\ E1.len \in [Lines -> 0..WRAPMARGIN]
        /\ E1.mlength \in [Lines -> 0..WRAPMARGIN]
    <3> HIDE DEF L, M
    <3> QED
      BY <1>1, <1>4, <1>5
  <2> QED
    BY <2>1 DEF Buffer
<1> QED
  BY <1>5, <1>6 DEF LineMade, E1

\* Then F has p behind line, and q has given all memory but m back.
Parted(F, E, i, line, pos, size, q, m, p) ==
    /\ Base(F) /\ F.text = Spliced(E.text, i, p)
    /\ F.len = [E.len EXCEPT ![line] = pos, ![p] = size]
    /\ F.mlength = [E.mlength EXCEPT ![p] = WRAPMARGIN, ![q] = m]
    /\ F.blockln < 0 /\ F.deleted_line = E.deleted_line
    /\ SameCursor(F, E) /\ SameWindow(F, E) /\ SameScreen(F, E)

\* split, up to the cursor: the line gives memory back (q is line, m is pos) or
\* the new one does (q is p, m its size).
LEMMA SplitBase ==
    ASSUME NEW E \in Buffer, Listed(E), Selected(E), E.blockln < 0,
           NEW i \in 1..Len(E.text), NEW line, line = E.text[i], NEW p \in Unused(E),
           NEW pos \in 0..WRAPMARGIN - 1, NEW size \in 0..WRAPMARGIN - 1,
           LengthsBut(E, line), pos <= E.mlength[line],
           NEW q, NEW m, (q = line /\ m = pos) \/ (q = p /\ m = size),
           NEW E1, LineMade(E, E1, line, pos, size, p)
    PROVE  Parted(insert_line(Adjusted(E1, q, m), line, p), E, i, line, pos, size, q, m, p)
<1> DEFINE n == Len(E.text)  s == Spliced(E.text, i, p)
           L == [E.len EXCEPT ![line] = pos, ![p] = size]
           M == [E.mlength EXCEPT ![p] = WRAPMARGIN]
           E2 == Adjusted(E1, q, m)
           F == insert_line(E2, line, p)
<1>1. /\ E.text \in Seq(Lines) /\ n \in Nat /\ n >= 1 /\ Distinct(E.text)
      /\ E.len \in [Lines -> 0..WRAPMARGIN] /\ E.mlength \in [Lines -> 0..WRAPMARGIN]
      /\ E.totaln \in Nat /\ E.totaln = n - 1 /\ WRAPMARGIN \in Nat
  <2>1. /\ E.text \in Seq(Lines) /\ E.totaln \in Nat
        /\ E.len \in [Lines -> 0..WRAPMARGIN] /\ E.mlength \in [Lines -> 0..WRAPMARGIN]
    BY FieldsOf
  <2>2. n \in Nat /\ n >= 1 /\ Distinct(E.text) /\ E.totaln = n - 1
    BY <2>1 DEF Listed
  <2> QED
    BY <2>1, <2>2, EditAssumption
<1>2. p \in Lines /\ p \notin Range(E.text) /\ p # E.deleted_line /\ p # NoLine
  BY EditAssumption DEF Unused
<1>3. line \in Lines /\ line \in Range(E.text) /\ p # line /\ q \in Lines
      /\ m \in 0..WRAPMARGIN - 1 /\ m \in 0..WRAPMARGIN /\ m # WRAPMARGIN
  <2>1. line \in Lines /\ line \in Range(E.text)
    BY <1>1, RangeIs
  <2>2. q \in Lines /\ p # line
    BY <1>2, <2>1
  <2>3. m \in 0..WRAPMARGIN - 1
    OBVIOUS
  <2>4. m \in 0..WRAPMARGIN /\ m # WRAPMARGIN
    BY <1>1, <2>3
  <2> QED
    BY <2>1, <2>2, <2>3, <2>4
<1>5. /\ E1 \in Buffer /\ E1.totaln = E.totaln + 1 /\ E1.len = L /\ E1.mlength = M
      /\ E1.text = E.text /\ E1.firstline = E.firstline /\ E1.lastline = E.lastline
      /\ E1.deleted_line = E.deleted_line /\ E1.oldcurrline = E.oldcurrline
      /\ SameBlock(E1, E) /\ SameCursor(E1, E) /\ SameWindow(E1, E) /\ SameScreen(E1, E)
  BY DEF LineMade
<1>7. /\ E2 \in Buffer /\ E2.text = E.text /\ E2.len = L
      /\ E2.mlength = [M EXCEPT ![q] = m]
      /\ E2.firstline = E.firstline /\ E2.lastline = E.lastline
      /\ E2.totaln = n /\ E2.deleted_line = E.deleted_line
      /\ E2.oldcurrline = IF E.oldcurrline = q THEN NoLine ELSE E.oldcurrline
      /\ SameBlock(E2, E) /\ SameCursor(E2, E) /\ SameWindow(E2, E) /\ SameScreen(E2, E)
  <2> HIDE DEF L, M
  <2>1. E.totaln + 1 = n
    BY <1>1
  <2> QED
    BY <1>3, <1>5, <2>1, AdjustedIs
       DEF SameBlock, SameCursor, SameWindow, SameScreen
<1> HIDE DEF E2
<1>8. /\ F \in Buffer /\ F.text = s /\ F.lastline = (IF i = n THEN p ELSE E.lastline)
      /\ F.len = L /\ F.mlength = [M EXCEPT ![q] = m] /\ F.firstline = E.firstline
      /\ F.totaln = n /\ F.deleted_line = E.deleted_line
      /\ F.oldcurrline = (IF E.oldcurrline = q THEN NoLine ELSE E.oldcurrline)
      /\ SameBlock(F, E) /\ SameCursor(F, E) /\ SameWindow(F, E) /\ SameScreen(F, E)
  <2> HIDE DEF L, M, s
  <2>1. Distinct(E2.text) /\ p \in Lines \ Range(E2.text) /\ i \in 1..Len(E2.text)
    BY <1>1, <1>2, <1>7
  <2>2. line = E2.text[i]
    BY <1>7
  <2> QED
    <3>1. /\ F \in Buffer /\ F.text = Spliced(E2.text, i, p)
          /\ F.lastline = IF i = Len(E2.text) THEN p ELSE E2.lastline
          /\ F.len = E2.len /\ F.mlength = E2.mlength /\ F.firstline = E2.firstline
          /\ F.totaln = E2.totaln /\ F.deleted_line = E2.deleted_line
          /\ F.oldcurrline = E2.oldcurrline
          /\ SameBlock(F, E2) /\ SameCursor(F, E2) /\ SameWindow(F, E2) /\ SameScreen(F, E2)
      <4>1. F = insert_line(E2, E2.text[i], p)
        BY <2>2 DEF F
      <4> HIDE DEF F
      <4>2. E2 \in Buffer
        BY <1>7
      <4> QED
        BY <2>1, <4>1, <4>2, InsertIs
    <3> HIDE DEF F
    <3>2. SameBlock(F, E) /\ SameCursor(F, E) /\ SameWindow(F, E) /\ SameScreen(F, E)
      BY <1>7, <3>1 DEF SameBlock, SameCursor, SameWindow, SameScreen
    <3>3. F.text = s /\ (F.lastline = IF i = n THEN p ELSE E.lastline)
      BY <1>7, <3>1 DEF s
    <3> QED
      BY <1>7, <3>1, <3>2, <3>3
<1> HIDE DEF F
<1>9. /\ s \in Seq(Lines) /\ Len(s) = n + 1 /\ Distinct(s) /\ Range(s) = Range(E.text) \cup {p}
      /\ \A j \in 1..n + 1 :
            s[j] = IF j <= i THEN E.text[j] ELSE IF j = i + 1 THEN p ELSE E.text[j - 1]
  <2>1. p \in Lines \ Range(E.text) /\ i \in 0..Len(E.text)
    BY <1>1, <1>2
  <2>2. E.text \in Seq(Lines) /\ Distinct(E.text)
    BY <1>1
  <2> HIDE DEF L, M
  <2> QED
    <3> DEFINE T == E.text
    <3>1. /\ T \in Seq(Lines) /\ Distinct(T) /\ i \in 0..Len(T)
          /\ p \in Lines \ Range(T) /\ s = Spliced(T, i, p)
      BY <2>1, <2>2
    <3> HIDE DEF T, s
    <3>2. /\ s \in Seq(Lines) /\ Len(s) = Len(T) + 1
          /\ \A j \in 1..Len(T) + 1 :
                s[j] = IF j <= i THEN T[j] ELSE IF j = i + 1 THEN p ELSE T[j - 1]
          /\ Distinct(s) /\ Range(s) = Range(T) \cup {p}
      BY <3>1, PutIs
    <3> QED
      BY <3>2 DEF T
<1> HIDE DEF s, L, M
<1>10. Listed(F)
  <2>1. F.totaln = Len(F.text) - 1 /\ Len(F.text) >= 1
    BY <1>1, <1>8, <1>9
  <2>6. E.text[1] = E.firstline /\ E.text[n] = E.lastline
    BY DEF Listed
  <2>2. F.text[1] = F.firstline
    <3>1. 1 \in 1..n + 1 /\ 1 <= i
      BY <1>1
    <3>2. s[1] = E.text[1]
      BY <1>9, <3>1
    <3> QED
      BY <1>8, <2>6, <3>2
  <2>3. F.text[Len(F.text)] = F.lastline
    <3>1. n + 1 \in 1..n + 1 /\ ~ (n + 1 <= i) /\ (n + 1 = i + 1 <=> i = n)
          /\ n + 1 - 1 = n
      <4>1. i \in Nat /\ i <= n /\ n \in Nat
        BY <1>1
      <4> HIDE DEF n
      <4> QED
        BY <4>1
    <3>2. s[n + 1] = IF i = n THEN p ELSE E.text[n]
      BY <1>9, <3>1
    <3> QED
      BY <1>8, <1>9, <2>6, <3>2
  <2>4. F.deleted_line \notin Range(F.text)
    BY <1>2, <1>8, <1>9 DEF Listed
  <2>5. F.oldcurrline \in Range(F.text) \cup {NoLine}
    BY <1>8, <1>9 DEF Listed
  <2>7. Distinct(F.text)
    BY <1>8, <1>9
  <2> QED
    BY ZenonT(60), <2>1, <2>2, <2>3, <2>4, <2>5, <2>7 DEF Listed
<1>11. Lengths(F)
  <2>1. ASSUME NEW l \in Range(F.text) PROVE F.len[l] <= F.mlength[l] /\ F.len[l] < WRAPMARGIN
    <3>1. l \in Range(E.text) \/ l = p
      BY <1>8, <1>9
    <3>2. l \in Lines
      BY <1>1, <1>2, <3>1, RangeIs
    <3>3. F.len[l] = (IF l = p THEN size ELSE IF l = line THEN pos ELSE E.len[l])
      BY <1>1, <1>3, <1>8, <3>2 DEF L
    <3>4. F.mlength[l] = (IF l = q THEN m ELSE IF l = p THEN WRAPMARGIN ELSE E.mlength[l])
      BY <1>1, <1>3, <1>8, <3>2 DEF M
    <3>5. l # p /\ l # line => E.len[l] <= E.mlength[l] /\ E.len[l] < WRAPMARGIN
      BY <3>1 DEF LengthsBut
    <3> QED
      <4>4. /\ WRAPMARGIN \in Nat /\ size \in 0..WRAPMARGIN - 1 /\ pos \in 0..WRAPMARGIN - 1
            /\ pos <= E.mlength[line] /\ p # line
            /\ ((q = line /\ m = pos) \/ (q = p /\ m = size))
        BY <1>1, <1>3
      <4> HIDE DEF F
      <4>1. CASE l = p
        BY <3>3, <3>4, <4>1, <4>4
      <4>2. CASE l = line /\ l # p
        BY <3>3, <3>4, <4>2, <4>4
      <4>3. CASE l # line /\ l # p
        BY <3>3, <3>4, <3>5, <4>3, <4>4
      <4> QED
        BY <4>1, <4>2, <4>3
  <2>2. ASSUME F.deleted_line # NoLine PROVE F.len[F.deleted_line] < WRAPMARGIN
    <3>1. F.deleted_line \in Lines /\ F.deleted_line # p /\ F.deleted_line # line
      BY <1>2, <1>3, <1>8, <2>2, FieldsOf DEF Listed
    <3> QED
      BY SMTT(60), <1>1, <1>8, <2>2, <3>1 DEF L, LengthsBut
  <2>3. ASSUME F.oldcurrline # NoLine PROVE F.mlength[F.oldcurrline] = WRAPMARGIN
    <3>1. F.oldcurrline = E.oldcurrline /\ E.oldcurrline # q
      BY <1>8, <2>3
    <3>2. E.oldcurrline \in Lines
      BY <2>3, <3>1, FieldsOf
    <3> QED
      BY <1>1, <1>3, <1>8, <2>3, <3>1, <3>2 DEF M, LengthsBut
  <2> QED
    BY <2>1, <2>2, <2>3 DEF Lengths
<1>12. Selected(F) /\ F.blockln < 0
  BY <1>8 DEF Selected, SameBlock
<1>13. F.mlength = [E.mlength EXCEPT ![p] = WRAPMARGIN, ![q] = m]
  BY <1>8 DEF M
<1> QED
  BY <1>8, <1>10, <1>11, <1>12, <1>13 DEF Base, Parted, F, E2, s, L

\* Then A is sound, and the cursor and the window are known.
Divided(A, E, i, pos, rest, indent, p) ==
    /\ Sound(A) /\ A.blockln < 0 /\ SameScreen(A, E)
    /\ A.text = Spliced(E.text, i, p) /\ A.deleted_line = E.deleted_line
    /\ A.len = [E.len EXCEPT ![E.text[i]] = pos, ![p] = rest + indent]
    /\ IF i = E.currln + 1 /\ pos <= E.currpnt
       THEN A.currline = p /\ Roomy(A) /\ Visible(A)
       ELSE /\ SameCursor(A, E) /\ SameWindow(A, E)
            /\ A.mlength = [E.mlength EXCEPT ![p] = rest + indent]

\* split, of the current line or one below it: either the cursor goes to the new
\* line and the window after it, or both stay.
LEMMA SplitIs ==
    ASSUME NEW E \in Buffer, Listed(E), Selected(E), E.blockln < 0, WindowAt(E),
           E.currln \in 0..Len(E.text) - 1, E.text[E.currln + 1] = E.currline,
           NEW i \in E.currln + 1..Len(E.text), NEW p \in Unused(E),
           NEW pos \in 0..WRAPMARGIN - 1, NEW rest \in Nat, NEW indent \in Nat,
           rest + indent < WRAPMARGIN,
           LengthsBut(E, E.text[i]), pos <= E.mlength[E.text[i]],
           i = E.currln + 1 \/ E.currpnt <= E.len[E.currline]
    PROVE  Divided(split(E, E.text[i], pos, rest, indent, p), E, i, pos, rest, indent, p)
<1> DEFINE line == E.text[i]  n == Len(E.text)  size == rest + indent
           moves == line = E.currline /\ pos <= E.currpnt
           E1 == [E EXCEPT !.totaln = @ + 1, !.len = [@ EXCEPT ![line] = pos, ![p] = size],
                           !.mlength[p] = WRAPMARGIN]
           F1 == insert_line(Adjusted(E1, line, pos), line, p)
           F2 == insert_line(Adjusted(E1, p, size), line, p)
           F == IF moves THEN F1 ELSE F2
           col == E.currpnt - pos + indent
           c == IF col <= size THEN col ELSE size
           G == [F1 EXCEPT !.currline = p, !.currpnt = c, !.currln = @ + 1,
                          !.curr_window_line = @ + 1]
           A == split(E, line, pos, rest, indent, p)
<1>1. /\ E.text \in Seq(Lines) /\ n \in Nat /\ Distinct(E.text) /\ i \in 1..n
      /\ WRAPMARGIN \in Nat /\ E.currln \in Nat /\ E.currpnt \in Nat
      /\ size \in 0..WRAPMARGIN - 1
  <2>1. E.text \in Seq(Lines) /\ n \in Nat /\ WRAPMARGIN \in Nat /\ Distinct(E.text)
    BY FieldsOf, EditAssumption DEF Listed
  <2>2. E.currpnt \in 0..WRAPMARGIN /\ E.currln \in Nat
    BY FieldsOf
  <2> QED
    BY <2>1, <2>2
<1>2. /\ p \in Lines /\ p \notin Range(E.text) /\ p # line
      /\ moves <=> i = E.currln + 1 /\ pos <= E.currpnt
  <2>1. E.currln + 1 \in 1..n /\ line \in Range(E.text)
    BY <1>1, RangeIs
  <2>2. line = E.currline <=> i = E.currln + 1
    BY <1>1, <2>1 DEF Distinct
  <2> QED
    BY <2>1, <2>2 DEF Unused
<1>3. A = IF moves THEN WindowAdjusted(G) ELSE F2
  BY DEF split
<1>4. /\ Base(F) /\ F.text = Spliced(E.text, i, p)
      /\ F.len = [E.len EXCEPT ![line] = pos, ![p] = size]
      /\ F.mlength = IF moves THEN [E.mlength EXCEPT ![p] = WRAPMARGIN, ![line] = pos]
                     ELSE [E.mlength EXCEPT ![p] = WRAPMARGIN, ![p] = size]
      /\ F.blockln < 0 /\ F.deleted_line = E.deleted_line
      /\ SameCursor(F, E) /\ SameWindow(F, E) /\ SameScreen(F, E)
  <2> HIDE DEF size, moves
  <2>3. LineMade(E, E1, line, pos, size, p)
    <3>1. line \in Lines
      BY <1>1, RangeIs
    <3> QED
      BY <1>1, <1>2, <3>1, LineMadeIs
  <2> HIDE DEF E1
  <2>1. CASE moves
    <3>1. F = F1
      BY <2>1
    <3>2. line = E.text[i] /\ ((line = line /\ pos = pos) \/ (line = p /\ pos = size))
      OBVIOUS
    <3>4. LengthsBut(E, line) /\ pos <= E.mlength[line]
      OBVIOUS
    <3> HIDE DEF F, line
    <3> QED
      <4>1. i \in 1..Len(E.text) /\ size \in 0..WRAPMARGIN - 1
        BY <1>1
      <4> HIDE DEF n, F1, F2, col, c, G, A
      <4>2. F1 = insert_line(Adjusted(E1, line, pos), line, p)
        BY DEF F1
      <4>5. Parted(insert_line(Adjusted(E1, line, pos), line, p), E, i, line, pos, size, line, pos, p)
        BY <2>3, <3>2, <3>4, <4>1, SplitBase
      <4>3. /\ Base(F1) /\ F1.text = Spliced(E.text, i, p)
            /\ F1.len = [E.len EXCEPT ![line] = pos, ![p] = size]
            /\ F1.mlength = [E.mlength EXCEPT ![p] = WRAPMARGIN, ![line] = pos]
            /\ F1.blockln < 0 /\ F1.deleted_line = E.deleted_line
            /\ SameCursor(F1, E) /\ SameWindow(F1, E) /\ SameScreen(F1, E)
        BY <4>2, <4>5 DEF Parted
      <4> QED
        BY <2>1, <3>1, <4>3
  <2>2. CASE ~ moves
    <3>1. F = F2
      BY <2>2
    <3>2. line = E.text[i] /\ ((p = line /\ size = pos) \/ (p = p /\ size = size))
      OBVIOUS
    <3>4. LengthsBut(E, line) /\ pos <= E.mlength[line]
      OBVIOUS
    <3> HIDE DEF F, line
    <3> QED
      <4>1. i \in 1..Len(E.text) /\ size \in 0..WRAPMARGIN - 1
        BY <1>1
      <4> HIDE DEF n, F1, F2, col, c, G, A
      <4>2. F2 = insert_line(Adjusted(E1, p, size), line, p)
        BY DEF F2
      <4>5. Parted(insert_line(Adjusted(E1, p, size), line, p), E, i, line, pos, size, p, size, p)
        BY <2>3, <3>2, <3>4, <4>1, SplitBase
      <4>3. /\ Base(F2) /\ F2.text = Spliced(E.text, i, p)
            /\ F2.len = [E.len EXCEPT ![line] = pos, ![p] = size]
            /\ F2.mlength = [E.mlength EXCEPT ![p] = WRAPMARGIN, ![p] = size]
            /\ F2.blockln < 0 /\ F2.deleted_line = E.deleted_line
            /\ SameCursor(F2, E) /\ SameWindow(F2, E) /\ SameScreen(F2, E)
        BY <4>2, <4>5 DEF Parted
      <4> QED
        BY <2>2, <3>1, <4>3
  <2> QED
    BY <2>1, <2>2
<1> HIDE DEF F, F1, F2
<1>5. /\ Len(F.text) = n + 1
      /\ \A j \in 1..n + 1 :
           F.text[j] = IF j <= i THEN E.text[j] ELSE IF j = i + 1 THEN p ELSE E.text[j - 1]
  <2>1. i \in 0..Len(E.text) /\ p \in Lines \ Range(E.text)
    BY <1>1, <1>2
  <2>2. E.text \in Seq(Lines) /\ Distinct(E.text) /\ F.text = Spliced(E.text, i, p)
    BY <1>1, <1>4
  <2> QED
    <3> DEFINE T == E.text  s == F.text
    <3>1. /\ T \in Seq(Lines) /\ Distinct(T) /\ i \in 0..Len(T)
          /\ p \in Lines \ Range(T) /\ s = Spliced(T, i, p)
      BY <2>1, <2>2
    <3> HIDE DEF T, s
    <3>2. /\ Len(s) = Len(T) + 1
          /\ \A j \in 1..Len(T) + 1 :
                s[j] = IF j <= i THEN T[j] ELSE IF j = i + 1 THEN p ELSE T[j - 1]
      BY <3>1, PutIs
    <3> QED
      BY <3>2 DEF T, s
<1>6. /\ F.len[p] = size /\ F.len[line] = pos
      /\ \A l \in Lines \ {p, line} : F.len[l] = E.len[l]
      /\ line \in Lines /\ E.len \in [Lines -> 0..WRAPMARGIN]
      /\ E.mlength \in [Lines -> 0..WRAPMARGIN]
  <2>1. line \in Lines /\ E.len \in [Lines -> 0..WRAPMARGIN]
        /\ E.mlength \in [Lines -> 0..WRAPMARGIN]
    BY <1>1, RangeIs, FieldsOf
  <2> QED
    BY <1>2, <1>4, <2>1
<1> DEFINE Result ==
             /\ Sound(A) /\ A.blockln < 0 /\ SameScreen(A, E)
             /\ A.text = Spliced(E.text, i, p) /\ A.deleted_line = E.deleted_line
             /\ A.len = [E.len EXCEPT ![E.text[i]] = pos, ![p] = rest + indent]
             /\ IF i = E.currln + 1 /\ pos <= E.currpnt
                THEN A.currline = p /\ Roomy(A) /\ Visible(A)
                ELSE /\ SameCursor(A, E) /\ SameWindow(A, E)
                     /\ A.mlength = [E.mlength EXCEPT ![p] = rest + indent]
<1>7. ASSUME moves PROVE Result
  <2>1. F \in Buffer /\ i = E.currln + 1 /\ pos <= E.currpnt
    BY <1>2, <1>4, <1>7 DEF Base
  <2>2. c \in 0..size /\ c \in 0..WRAPMARGIN
    BY SMTT(60), <1>1, <2>1
  <2>12. F = F1
    BY <1>7 DEF F
  <2> HIDE DEF c, G
  <2>3. /\ G.currline = p /\ G.currpnt = c /\ G.currln = F.currln + 1
        /\ G.curr_window_line = F.curr_window_line + 1 /\ G.top_of_win = F.top_of_win
        /\ SameText(G, F) /\ SameBlock(G, F) /\ SameScreen(G, F)
    BY <2>1, <2>12 DEF G, Buffer, SameText, SameBlock, SameScreen
  <2>4. /\ G.currln = E.currln + 1 /\ G.curr_window_line = E.curr_window_line + 1
        /\ G.top_of_win = E.top_of_win
        /\ E.curr_window_line \in 0..E.currln
    BY <1>4, <2>3 DEF SameCursor, SameWindow, WindowAt
  <2>5. G \in Buffer
    <3>1. G.currline \in Lines /\ G.currpnt \in 0..WRAPMARGIN
      BY <1>2, <2>2, <2>3
    <3>2. G.currln \in Nat /\ G.curr_window_line \in Int
      <4>1. E.currln \in Nat
        BY <1>1
      <4> QED
        BY <2>4, <4>1
    <3> QED
      BY <2>1, <2>12, <3>1, <3>2 DEF G, Buffer
  <2>6. Base(G)
    BY <1>4, <2>3, <2>5, SameBase
  <2>7. CursorAt(G)
    <3>4. /\ i \in 1..n /\ n \in Nat /\ i + 1 \in 1..n + 1 /\ ~ (i + 1 <= i)
          /\ G.text = F.text /\ G.currln = i
      <4>1. i \in 1..n /\ n \in Nat
        BY <1>1
      <4>2. G.text = F.text /\ G.currln = i
        BY <2>1, <2>3, <2>4 DEF SameText
      <4> HIDE DEF n
      <4> QED
        BY <4>1, <4>2
    <3>1. G.text[G.currln + 1] = p
      BY <1>5, <3>4
    <3>2. G.currln \in 0..Len(G.text) - 1
      <4>1. Len(G.text) = n + 1
        BY <1>5, <3>4
      <4> HIDE DEF n
      <4> QED
        BY <3>4, <4>1
    <3>3. G.currpnt \in 0..G.len[p]
      BY <1>6, <2>2, <2>3 DEF SameText
    <3> QED
      BY <2>3, <3>1, <3>2, <3>3 DEF CursorAt
  <2>8. WindowAt(G)
    <3>1. /\ G.curr_window_line \in 0..G.currln
          /\ G.currln - G.curr_window_line + 1 = E.currln - E.curr_window_line + 1
          /\ E.currln - E.curr_window_line + 1 \in 1..i
      BY SMTT(60), <1>1, <2>1, <2>4
    <3>2. G.text[E.currln - E.curr_window_line + 1] = E.text[E.currln - E.curr_window_line + 1]
      BY SMTT(60), <1>1, <1>5, <2>3, <3>1 DEF SameText
    <3> QED
      BY <2>4, <3>1, <3>2 DEF WindowAt
  <2>9. A = WindowAdjusted(G) /\ Near(G)
    BY <1>3, <1>7, <2>6, <2>7, <2>8 DEF Near
  <2> HIDE DEF A
  <2>10. /\ Sound(A) /\ Visible(A) /\ SameText(A, G) /\ SameBlock(A, G)
         /\ SameCursor(A, G) /\ SameScreen(A, G)
    BY <2>9, WindowIs
  <2>11. A.currline = p /\ A.mlength[p] = WRAPMARGIN
    <3>1. F.mlength[p] = WRAPMARGIN
      BY <1>2, <1>4, <1>6, <1>7
    <3> QED
      BY <2>3, <2>10, <3>1 DEF SameText, SameCursor
  <2> QED
    BY <1>4, <2>1, <2>3, <2>10, <2>11
       DEF A, Roomy, SameText, SameBlock, SameScreen
<1>8. ASSUME ~ moves PROVE Result
  <2>1. A = F
    BY <1>3, <1>8 DEF F
  <2>2. F.mlength = [E.mlength EXCEPT ![p] = size]
    BY <1>4, <1>6, <1>8
  <2>3. CursorAt(F)
    <3>1. F.text[F.currln + 1] = F.currline /\ F.currln \in 0..Len(F.text) - 1
      <4>1. F.currln = E.currln /\ F.currline = E.currline
        BY <1>4 DEF SameCursor
      <4>2. E.currln + 1 \in 1..n + 1 /\ E.currln + 1 <= i /\ E.currln \in 0..n
        BY SMTT(60), <1>1
      <4>3. F.text[E.currln + 1] = E.text[E.currln + 1] /\ Len(F.text) - 1 = n
        BY SMTT(60), <1>1, <1>5, <4>2
      <4> QED
        BY <4>1, <4>2, <4>3
    <3>2. F.currline \in Lines /\ F.currline # p /\ E.currline = F.currline
      <4>1. E.currln + 1 \in 1..n
        BY SMTT(60), <1>1
      <4> QED
        BY <1>1, <1>2, <1>4, <4>1, RangeIs DEF SameCursor
    <3>3. F.currpnt <= F.len[F.currline]
      <4>1. CASE i = E.currln + 1
        <5>1. line = E.currline /\ ~ (pos <= E.currpnt)
          BY <1>1, <1>2, <1>8, <4>1
        <5>2. F.len[F.currline] = pos /\ F.currpnt = E.currpnt
          BY <1>4, <1>6, <5>1 DEF SameCursor
        <5>3. pos \in Nat /\ E.currpnt \in Nat
          BY <1>1
        <5>4. E.currpnt <= pos
          BY <5>1, <5>3
        <5> QED
          BY <5>2, <5>4
      <4>2. CASE i # E.currln + 1
        <5>2. E.currln + 1 \in 1..n /\ E.text[E.currln + 1] = E.currline /\ E.currln + 1 # i
          BY <1>1, <4>2
        <5>1. E.currline # line
          BY <1>1, <5>2 DEF Distinct
        <5> QED
          BY SMTT(60), <1>4, <1>6, <3>2, <4>2, <5>1 DEF SameCursor
      <4> QED
        BY <4>1, <4>2
    <3>4. F.currpnt \in Nat /\ F.len[F.currline] \in Nat
      <4>1. F \in Buffer /\ F.currpnt = E.currpnt
        BY <1>4 DEF Base, SameCursor
      <4>2. F.len[F.currline] \in 0..WRAPMARGIN
        BY <3>2, <4>1, FieldsOf
      <4> QED
        BY <1>1, <4>1, <4>2
    <3> QED
      BY <3>1, <3>3, <3>4 DEF CursorAt
  <2>4. WindowAt(F)
    <3>1. /\ F.currln = E.currln /\ F.curr_window_line = E.curr_window_line
          /\ F.top_of_win = E.top_of_win
      BY <1>4 DEF SameCursor, SameWindow
    <3>2. E.currln - E.curr_window_line + 1 \in 1..i
      BY SMTT(60), <1>1 DEF WindowAt
    <3>3. F.text[E.currln - E.curr_window_line + 1] = E.text[E.currln - E.curr_window_line + 1]
      <4>1. \A j \in 1..i : F.text[j] = E.text[j]
        BY SMTT(60), <1>1, <1>5
      <4> QED
        BY <3>2, <4>1
    <3> QED
      BY <3>1, <3>3 DEF WindowAt
  <2> QED
    BY <1>2, <1>4, <1>8, <2>1, <2>2, <2>3, <2>4 DEF Sound
<1>9. Divided(A, E, i, pos, rest, indent, p)
  BY <1>7, <1>8 DEF Divided
<1> QED
  BY <1>9

-----------------------------------------------------------------------------
(* Characters that come into a line or leave it                            *)

\* A is E with k bytes in the current line and the cursor at c.
Filled(A, E, k, c) ==
    /\ A \in Buffer
    /\ A.len = [E.len EXCEPT ![E.currline] = k] /\ A.currpnt = c
    /\ A.text = E.text /\ A.mlength = E.mlength
    /\ A.firstline = E.firstline /\ A.lastline = E.lastline /\ A.totaln = E.totaln
    /\ A.deleted_line = E.deleted_line /\ A.oldcurrline = E.oldcurrline
    /\ A.currline = E.currline /\ A.currln = E.currln
    /\ SameBlock(A, E) /\ SameWindow(A, E) /\ SameScreen(A, E)

\* Another length of the current line, and another column.
LEMMA FilledIs ==
    ASSUME NEW E \in Buffer, NEW k \in 0..WRAPMARGIN, NEW c \in 0..WRAPMARGIN,
           NEW A, A = [E EXCEPT !.len[E.currline] = k, !.currpnt = c]
    PROVE  Filled(A, E, k, c)
<1> DEFINE L == [E.len EXCEPT ![E.currline] = k]
<1>1. L \in [Lines -> 0..WRAPMARGIN]
  BY FieldsOf
<1>2. A = [E EXCEPT !.len = L, !.currpnt = c]
  OBVIOUS
<1> HIDE DEF L
<1>3. /\ A.len = L /\ A.currpnt = c
      /\ A.text = E.text /\ A.mlength = E.mlength
      /\ A.firstline = E.firstline /\ A.lastline = E.lastline /\ A.totaln = E.totaln
      /\ A.deleted_line = E.deleted_line /\ A.oldcurrline = E.oldcurrline
      /\ A.currline = E.currline /\ A.currln = E.currln
      /\ SameBlock(A, E) /\ SameWindow(A, E) /\ SameScreen(A, E)
  BY <1>2 DEF Buffer, SameBlock, SameWindow, SameScreen
<1>4. A \in Buffer
  BY ZenonT(60), <1>1, <1>2 DEF Buffer
<1> QED
  BY <1>3, <1>4 DEF Filled, L

\* That does no harm as long as the line is not full.
LEMMA LineFilled ==
    ASSUME NEW E, Sound(E), Roomy(E), NEW k \in 0..WRAPMARGIN - 1, NEW c \in 0..k,
           NEW A, Filled(A, E, k, c)
    PROVE  Sound(A) /\ Roomy(A) /\ SameWindow(A, E) /\ SameScreen(A, E) /\ SameBlock(A, E)
<1>1. /\ E \in Buffer /\ Base(E) /\ CursorAt(E) /\ WindowAt(E) /\ Listed(E) /\ Lengths(E)
      /\ Selected(E) /\ A \in Buffer /\ WRAPMARGIN \in Nat
      /\ E.text \in Seq(Lines) /\ E.currline \in Lines /\ E.currline \in Range(E.text)
      /\ E.len \in [Lines -> 0..WRAPMARGIN]
  <2>1. E \in Buffer /\ Base(E) /\ CursorAt(E) /\ WindowAt(E) /\ Listed(E) /\ Lengths(E)
        /\ Selected(E) /\ A \in Buffer
    BY DEF Sound, Base, Filled
  <2> QED
    BY <2>1, FieldsOf, CurrentRow, EditAssumption
<1>2. A.len[E.currline] = k /\ \A l \in Lines \ {E.currline} : A.len[l] = E.len[l]
  BY <1>1 DEF Filled
<1>3. Listed(A)
  BY <1>1 DEF Listed, Filled
<1>4. Lengths(A)
  <2>1. ASSUME NEW l \in Range(A.text) PROVE A.len[l] <= A.mlength[l] /\ A.len[l] < WRAPMARGIN
    <3>1. l \in Range(E.text) /\ l \in Lines /\ A.mlength = E.mlength
      BY <1>1, <2>1, RangeIs DEF Filled
    <3>2. CASE l = E.currline
      BY <1>1, <1>2, <3>1, <3>2 DEF Roomy
    <3>3. CASE l # E.currline
      BY <1>1, <1>2, <3>1, <3>3 DEF Lengths
    <3> QED
      BY <3>2, <3>3
  <2>2. ASSUME A.deleted_line # NoLine PROVE A.len[A.deleted_line] < WRAPMARGIN
    <3>1. A.deleted_line = E.deleted_line /\ E.deleted_line \in Lines
          /\ E.deleted_line # E.currline
      BY <1>1, <2>2, FieldsOf DEF Filled, Listed
    <3> QED
      BY <1>1, <1>2, <2>2, <3>1 DEF Lengths
  <2> QED
    BY <1>1, <2>1, <2>2 DEF Lengths, Filled
<1>5. Selected(A)
  BY <1>1 DEF Selected, Filled, SameBlock
<1>6. CursorAt(A) /\ WindowAt(A)
  BY <1>1, <1>2 DEF CursorAt, WindowAt, Filled, SameWindow
<1> QED
  BY <1>1, <1>3, <1>4, <1>5, <1>6 DEF Sound, Base, Roomy, Filled

-----------------------------------------------------------------------------
(* Lines that are taken out                                                *)

\* delete_line, of a list of two lines or more.
LEMMA DeleteIs ==
    ASSUME NEW E, Base(E), E.blockln < 0, NEW i \in 1..Len(E.text), Len(E.text) > 1,
           NEW saved \in BOOLEAN
    PROVE  LET A == delete_line(E, E.text[i], saved) IN
           /\ Base(A) /\ A.text = Without(E.text, i, i)
           /\ A.len = E.len /\ A.mlength = E.mlength /\ A.blockln < 0
           /\ SameCursor(A, E) /\ SameWindow(A, E) /\ SameScreen(A, E)
<1> DEFINE line == E.text[i]  n == Len(E.text)  s == Without(E.text, i, i)
           A == delete_line(E, line, saved)
           first == IF i = 1 THEN E.text[2] ELSE E.firstline
           last == IF i = n THEN E.text[n - 1] ELSE E.lastline
           del == IF saved THEN line ELSE E.deleted_line
           old == IF E.oldcurrline = line THEN NoLine ELSE E.oldcurrline
<1>1. /\ E \in Buffer /\ E.text \in Seq(Lines) /\ Distinct(E.text) /\ n \in Nat /\ n >= 2
      /\ \A j \in 1..n : E.text[j] \in Lines /\ E.text[j] \in Range(E.text)
      /\ E.totaln = n - 1 /\ E.totaln \in Nat /\ E.firstline = E.text[1]
      /\ E.lastline = E.text[n] /\ Listed(E) /\ Lengths(E) /\ Selected(E)
  <2>1. E \in Buffer /\ Listed(E) /\ Lengths(E) /\ Selected(E)
    BY DEF Base
  <2> QED
    BY <2>1, TextOf, FieldsOf
<1>2. Row(E, line) = i
  BY <1>1, RowIs
<1>3. A = [E EXCEPT !.text = s, !.firstline = first, !.lastline = last,
                    !.totaln = n - 2, !.deleted_line = del, !.oldcurrline = old]
  <2>1. E.totaln - 1 = n - 2 /\ n # 1
    BY <1>1
  <2> QED
    BY <1>2, <2>1 DEF delete_line, Without
<1>4. /\ s \in Seq(Lines) /\ Len(s) = n - 1 /\ Distinct(s)
      /\ \A j \in 1..n - 1 : s[j] = IF j < i THEN E.text[j] ELSE E.text[j + 1]
      /\ Range(s) = Range(E.text) \ {line}
  <2> HIDE DEF s
  <2> QED
    BY SMTT(60), <1>1, RemovedIs DEF s
<1> HIDE DEF A, s
<1>5. /\ first \in Lines /\ last \in Lines /\ del \in Lines \cup {NoLine}
      /\ old \in Lines \cup {NoLine} /\ n - 2 \in Nat
  <2>1. 2 \in 1..n /\ n - 1 \in 1..n /\ n - 2 \in Nat
    BY <1>1
  <2> QED
    BY <1>1, <2>1, FieldsOf
<1> HIDE DEF first, last, del, old, line, n
<1>6. /\ A.text = s /\ A.firstline = first /\ A.lastline = last /\ A.totaln = n - 2
      /\ A.deleted_line = del /\ A.oldcurrline = old
      /\ A.len = E.len /\ A.mlength = E.mlength
      /\ SameBlock(A, E) /\ SameCursor(A, E) /\ SameWindow(A, E) /\ SameScreen(A, E)
  BY <1>1, <1>3 DEF Buffer, SameBlock, SameCursor, SameWindow, SameScreen
<1>7. A \in Buffer
  BY <1>1, <1>3, <1>4, <1>5 DEF Buffer
<1>8. Listed(A)
  <2>1. s[1] = first /\ s[n - 1] = last
    <3>1. 1 \in 1..n - 1 /\ n - 1 \in 1..n - 1 /\ i \in 1..n /\ n - 1 + 1 = n
          /\ (1 < i <=> i # 1) /\ (n - 1 < i <=> i = n)
      BY <1>1 DEF n
    <3> QED
      BY <1>1, <1>4, <3>1 DEF first, last
  <2>2. n - 1 >= 1 /\ n - 2 = (n - 1) - 1
    BY <1>1
  <2>3. del \notin Range(s) /\ old \in Range(s) \cup {NoLine}
    BY <1>1, <1>4 DEF Listed, del, old
  <2> QED
    BY <1>4, <1>6, <2>1, <2>2, <2>3 DEF Listed
<1>9. Lengths(A)
  <2>1. line \in Range(E.text)
    BY <1>1 DEF line, n
  <2> QED
    BY <1>1, <1>4, <1>6, <2>1 DEF Lengths, del, old
<1>10. Selected(A) /\ A.blockln < 0
  BY <1>1, <1>6 DEF Selected, SameBlock
<1> QED
  BY <1>6, <1>7, <1>8, <1>9, <1>10 DEF Base, A, s, line

\* Of the next line everything that has room, or nothing, comes to the current one.
LEMMA NextTakenIs ==
    ASSUME NEW E, Sound(E), Roomy(E), E.blockln < 0, E.currln + 2 <= Len(E.text),
           NEW spaces \in BOOLEAN,
           spaces \/ E.len[E.currline] + E.len[E.text[E.currln + 2]] < WRAPMARGIN
    PROVE  Near(NextTaken(E, spaces))
<1> DEFINE cur == E.currline  next == E.text[E.currln + 2]
           k == IF spaces THEN E.len[cur] ELSE E.len[cur] + E.len[next]
           F == [E EXCEPT !.len[cur] = IF spaces THEN @ ELSE @ + E.len[next]]
           A == NextTaken(E, spaces)
<1>1. /\ E \in Buffer /\ Base(E) /\ CursorAt(E) /\ WindowAt(E)
      /\ E.text \in Seq(Lines) /\ Len(E.text) \in Nat /\ Distinct(E.text)
      /\ E.currln \in Nat /\ Row(E, cur) = E.currln + 1
      /\ WRAPMARGIN \in Nat /\ E.currpnt \in 0..E.len[cur] /\ E.curr_window_line \in 0..E.currln
  <2>1. E \in Buffer /\ Base(E) /\ CursorAt(E) /\ WindowAt(E)
    BY DEF Sound, Base
  <2> QED
    BY <2>1, TextOf, FieldsOf, CurrentRow, EditAssumption DEF CursorAt, WindowAt
<1>2. /\ E.currln + 2 \in 1..Len(E.text) /\ next \in Lines /\ cur \in Lines
      /\ E.len[next] \in Nat /\ E.len[cur] \in Nat /\ E.len[cur] < WRAPMARGIN
      /\ E.currpnt \in Nat
  <2>1. E.currln + 2 \in 1..Len(E.text) /\ E.currln + 1 \in 1..Len(E.text)
    BY <1>1
  <2>2. E.text[E.currln + 1] = cur
    BY <1>1 DEF CursorAt
  <2> QED
    BY SMTT(60), <1>1, <2>1, <2>2, TextOf
<1>3. k \in 0..WRAPMARGIN - 1 /\ k >= E.len[cur]
  BY SMTT(60), <1>1, <1>2
<1>4. F = [E EXCEPT !.len[cur] = k, !.currpnt = E.currpnt]
  <2>1. [E EXCEPT !.currpnt = E.currpnt] = E
    BY <1>1 DEF Buffer
  <2>2. F = [E EXCEPT !.len[cur] = k]
    OBVIOUS
  <2>3. [E EXCEPT !.len[cur] = k, !.currpnt = E.currpnt] = [[E EXCEPT !.currpnt = E.currpnt] EXCEPT !.len[cur] = k]
    BY <1>1 DEF Buffer
  <2> QED
    BY <2>1, <2>2, <2>3
<1> HIDE DEF k, F, A
<1>5. Filled(F, E, k, E.currpnt)
  <2>1. k \in 0..WRAPMARGIN /\ E.currpnt \in 0..WRAPMARGIN
    BY <1>1, <1>2, <1>3
  <2> QED
    BY <1>1, <1>4, <2>1, FilledIs
<1>6. Sound(F) /\ F.blockln < 0
  <2>1. E.currpnt \in 0..k
    BY <1>1, <1>2, <1>3
  <2> QED
    BY <1>3, <1>5, <2>1, LineFilled DEF SameBlock
<1>7. F.text = E.text /\ F.currln = E.currln
  BY <1>5 DEF Filled
<1>8. A = delete_line(F, F.text[F.currln + 2], FALSE)
  <2>1. E.currln + 1 + 1 = E.currln + 2
    BY <1>1
  <2> QED
    BY <1>1, <1>7, <2>1 DEF A, NextTaken, F
<1>9. /\ Base(A) /\ A.text = Without(F.text, F.currln + 2, F.currln + 2)
      /\ A.len = F.len /\ SameCursor(A, F) /\ SameWindow(A, F)
  <2>1. Base(F) /\ F.currln + 2 \in 1..Len(F.text) /\ Len(F.text) > 1
    BY <1>1, <1>2, <1>6, <1>7 DEF Sound
  <2> QED
    BY <1>6, <1>8, <2>1, DeleteIs
<1>10. /\ Len(A.text) = Len(E.text) - 1
       /\ \A j \in 1..E.currln + 1 : A.text[j] = E.text[j]
  <2> DEFINE m == E.currln + 2
  <2>1. m \in 1..Len(E.text)
        /\ 1..E.currln + 1 \subseteq 1..Len(E.text) - 1
        /\ \A j \in 1..E.currln + 1 : j < m
    BY SMTT(60), <1>1, <1>2
  <2>2. A.text = Without(E.text, m, m)
    BY <1>7, <1>9
  <2> HIDE DEF m
  <2>3. /\ Len(A.text) = Len(E.text) - 1
        /\ \A j \in 1..Len(E.text) - 1 :
              A.text[j] = IF j < m THEN E.text[j] ELSE E.text[j + 1]
    <3> DEFINE T == E.text  s == A.text
    <3>1. T \in Seq(Lines) /\ Distinct(T) /\ m \in 1..Len(T) /\ s = Without(T, m, m)
      BY <1>1, <2>1, <2>2
    <3> HIDE DEF T, s
    <3>2. /\ Len(s) = Len(T) - 1
          /\ \A j \in 1..Len(T) - 1 : s[j] = IF j < m THEN T[j] ELSE T[j + 1]
      BY <3>1, RemovedIs
    <3> QED
      BY <3>2 DEF T, s
  <2> QED
    BY <2>1, <2>3
<1>11. CursorAt(F) /\ WindowAt(F)
  BY <1>6 DEF Sound
<1>12. CursorAt(A)
  <2>1. E.currln + 1 \in 1..E.currln + 1 /\ E.currln \in 0..Len(A.text) - 1
    BY SMTT(60), <1>1, <1>2, <1>10
  <2> QED
    BY <1>7, <1>9, <1>10, <1>11, <2>1 DEF CursorAt, SameCursor
<1>13. WindowAt(A)
  <2>1. F.currln - F.curr_window_line + 1 \in 1..E.currln + 1
    BY SMTT(60), <1>1, <1>7, <1>11 DEF WindowAt
  <2> QED
    BY <1>7, <1>9, <1>10, <1>11, <2>1 DEF WindowAt, SameCursor, SameWindow
<1> QED
  BY <1>9, <1>12, <1>13 DEF Near, A

\* What is known of a sound buffer and its current line.
LEMMA SoundIs ==
    ASSUME NEW E, Sound(E)
    PROVE  /\ E \in Buffer /\ Base(E) /\ CursorAt(E) /\ WindowAt(E)
           /\ Listed(E) /\ Lengths(E) /\ Selected(E)
           /\ E.text \in Seq(Lines) /\ Len(E.text) \in Nat /\ Distinct(E.text)
           /\ E.currln \in Nat /\ Row(E, E.currline) = E.currln + 1
           /\ E.currln + 1 \in 1..Len(E.text) /\ E.text[E.currln + 1] = E.currline
           /\ E.currline \in Lines /\ E.currline \in Range(E.text)
           /\ E.len[E.currline] \in Nat /\ E.len[E.currline] < WRAPMARGIN
           /\ E.currpnt \in Nat /\ E.currpnt <= E.len[E.currline]
           /\ E.curr_window_line \in Nat /\ E.curr_window_line <= E.currln
           /\ E.text[E.currln - E.curr_window_line + 1] = E.top_of_win
           /\ WRAPMARGIN \in Nat /\ WRAPMARGIN >= 2
<1>1. E \in Buffer /\ Base(E) /\ CursorAt(E) /\ WindowAt(E) /\ Listed(E) /\ Lengths(E)
      /\ Selected(E)
  BY DEF Sound, Base
<1>2. /\ E.text \in Seq(Lines) /\ Len(E.text) \in Nat /\ Distinct(E.text)
      /\ \A i \in 1..Len(E.text) :
            /\ E.text[i] \in Lines /\ E.text[i] \in Range(E.text)
            /\ E.len[E.text[i]] \in Nat /\ E.len[E.text[i]] < WRAPMARGIN
  BY <1>1, TextOf
<1>3. /\ E.currln \in 0..Len(E.text) - 1 /\ E.text[E.currln + 1] = E.currline
      /\ E.currpnt \in 0..E.len[E.currline]
      /\ E.curr_window_line \in 0..E.currln
      /\ E.text[E.currln - E.curr_window_line + 1] = E.top_of_win
  BY <1>1 DEF CursorAt, WindowAt
<1>4. E.currln \in Nat /\ E.currln + 1 \in 1..Len(E.text)
      /\ E.curr_window_line \in Nat /\ E.curr_window_line <= E.currln
  BY <1>2, <1>3
<1>5. /\ E.currline \in Lines /\ E.currline \in Range(E.text)
      /\ E.len[E.currline] \in Nat /\ E.len[E.currline] < WRAPMARGIN
  BY <1>2, <1>3, <1>4
<1>6. E.currpnt \in Nat /\ E.currpnt <= E.len[E.currline]
  BY <1>3, <1>5
<1>7. Row(E, E.currline) = E.currln + 1
  BY <1>1, CurrentRow
<1> QED
  BY <1>1, <1>2, <1>3, <1>4, <1>5, <1>6, <1>7, EditAssumption

\* join, whether it takes the next line, a part of it, or gives up.
LEMMA JoinIs ==
    ASSUME NEW E, Sound(E), Roomy(E), E.blockln < 0, NEW A \in join(E)
    PROVE  Near(A)
<1> DEFINE k == Row(E, E.currline)  next == E.text[k + 1]
<1>1. /\ E \in Buffer /\ Base(E) /\ CursorAt(E) /\ WindowAt(E) /\ Listed(E) /\ Lengths(E)
      /\ Selected(E) /\ E.text \in Seq(Lines) /\ Len(E.text) \in Nat /\ Distinct(E.text)
      /\ E.currln \in Nat /\ k = E.currln + 1 /\ k \in 1..Len(E.text)
      /\ E.text[E.currln + 1] = E.currline
      /\ E.currline \in Range(E.text) /\ E.currline \in Lines
      /\ E.len[E.currline] \in Nat /\ E.len[E.currline] < WRAPMARGIN
      /\ E.currpnt \in Nat /\ E.currpnt <= E.len[E.currline]
      /\ WRAPMARGIN \in Nat
  BY SoundIs
<1>2. CASE k = Len(E.text)
  <2>1. A = E
    BY <1>2 DEF join
  <2> QED
    BY <1>1, <2>1 DEF Near
<1>3. CASE k < Len(E.text)
  <2>1. /\ E.currln + 2 \in 1..Len(E.text) /\ next = E.text[E.currln + 2] /\ next \in Lines
        /\ next # E.currline /\ next \in Range(E.text)
        /\ E.len[next] \in Nat /\ E.len[next] < WRAPMARGIN
        /\ E.len[next] <= E.mlength[next] /\ E.mlength[next] \in Nat
    <3>1. E.currln + 2 \in 1..Len(E.text) /\ k + 1 = E.currln + 2
      BY <1>1, <1>3
    <3>2. next # E.currline
      BY <1>1, <3>1, CurrentRow
    <3> QED
      BY <1>1, <3>1, <3>2, TextOf
  <2>2. \/ A = NextTaken(E, TRUE)
        \/ Fits(E, next) /\ A = NextTaken(E, FALSE)
        \/ A = E
        \/ \E cut \in Cuts(E, next), p \in alloc_line(E), spaces \in BOOLEAN :
              A = NextTaken(split(E, next, cut.pos, cut.rest, 0, p), spaces)
    <3>1. ~ (k = Len(E.text))
      BY <1>1, <1>3
    <3> DEFINE S == {NextTaken(split(E, next, cut.pos, cut.rest, 0, p), spaces) :
                        cut \in Cuts(E, next), p \in alloc_line(E), spaces \in BOOLEAN}
    <3>2. join(E) = IF k = Len(E.text) THEN {E}
                    ELSE {NextTaken(E, TRUE)} \cup
                         IF Fits(E, next) THEN {NextTaken(E, FALSE)} ELSE {E} \cup S
      BY DEF join
    <3>3. A \in S => \E cut \in Cuts(E, next), p \in alloc_line(E), spaces \in BOOLEAN :
              A = NextTaken(split(E, next, cut.pos, cut.rest, 0, p), spaces)
      OBVIOUS
    <3> HIDE DEF S, next, k
    <3> QED
      BY <3>1, <3>2, <3>3
  <2>3. CASE A = NextTaken(E, TRUE)
    <3>1. E.currln + 2 <= Len(E.text)
      BY <1>1, <2>1
    <3> QED
      BY <2>3, <3>1, NextTakenIs
  <2>4. CASE Fits(E, next) /\ A = NextTaken(E, FALSE)
    <3>1. E.currln + 2 <= Len(E.text)
      BY <1>1, <2>1
    <3>2. E.len[E.currline] + E.len[E.text[E.currln + 2]] < WRAPMARGIN
      BY <2>1, <2>4 DEF Fits
    <3> HIDE DEF next, k
    <3> QED
      BY <2>4, <3>1, <3>2, NextTakenIs
  <2>5. CASE A = E
    BY <1>1, <2>5 DEF Near
  <2>6. ASSUME NEW cut \in Cuts(E, next), NEW p \in alloc_line(E), NEW spaces \in BOOLEAN,
               A = NextTaken(split(E, next, cut.pos, cut.rest, 0, p), spaces)
        PROVE  Near(A)
    <3> DEFINE F == split(E, next, cut.pos, cut.rest, 0, p)  i == E.currln + 2
               pos == cut.pos  rest == cut.rest
    <3>1. /\ pos \in 2..WRAPMARGIN - 1 - E.len[E.currline] /\ rest \in 0..WRAPMARGIN
          /\ rest <= E.len[next] - pos
      BY DEF Cuts
    <3>2. p \in Unused(E) /\ p \in Lines /\ p # E.currline /\ p # next
      <4>1. p \in Unused(E)
        BY DEF alloc_line
      <4> QED
        BY <1>1, <2>1, <4>1 DEF Unused
    <3> HIDE DEF F, pos, rest, next, k
    <3>3. /\ pos \in 0..WRAPMARGIN - 1 /\ rest \in Nat /\ 0 \in Nat /\ rest + 0 < WRAPMARGIN
          /\ pos <= E.mlength[next] /\ pos + E.len[E.currline] < WRAPMARGIN
      <4>1. pos \in Nat /\ rest \in Nat
        BY <1>1, <3>1
      <4>2. pos + E.len[E.currline] < WRAPMARGIN
        BY <1>1, <3>1, <4>1
      <4>3. rest < WRAPMARGIN /\ pos <= E.mlength[next] /\ pos < WRAPMARGIN
        <5> DEFINE a == E.len[next]  b == E.mlength[next]
        <5>1. a \in Nat /\ a < WRAPMARGIN /\ a <= b /\ b \in Nat /\ rest <= a - pos
          BY <2>1, <3>1
        <5> HIDE DEF a, b
        <5>2. rest <= a /\ pos <= a
          BY <4>1, <5>1
        <5>3. rest < WRAPMARGIN /\ pos <= b /\ pos < WRAPMARGIN
          BY <1>1, <4>1, <5>1, <5>2
        <5> QED
          BY <5>3 DEF b
      <4> QED
        BY <1>1, <4>1, <4>2, <4>3
    <3>4. i \in E.currln + 1..Len(E.text) /\ i # E.currln + 1 /\ next = E.text[i]
      BY <1>1, <2>1
    <3>5. LengthsBut(E, E.text[i]) /\ E.currpnt <= E.len[E.currline]
      BY <1>1 DEF LengthsBut, Lengths, CursorAt
    <3>6. E.currln \in 0..Len(E.text) - 1 /\ E.text[E.currln + 1] = E.currline
      BY <1>1 DEF CursorAt
    <3> HIDE DEF i
    <3>7. /\ Sound(F) /\ F.blockln < 0 /\ F.text = Spliced(E.text, i, p)
          /\ F.len = [E.len EXCEPT ![next] = pos, ![p] = rest + 0]
          /\ SameCursor(F, E) /\ F.mlength = [E.mlength EXCEPT ![p] = rest + 0]
      <4>1. F = split(E, E.text[i], pos, rest, 0, p)
        BY <3>4 DEF F, pos, rest
      <4>3. next # E.currline /\ pos <= E.mlength[E.text[i]]
        BY <2>1, <3>3, <3>4
      <4>2. Divided(F, E, i, pos, rest, 0, p)
        BY <1>1, <3>2, <3>3, <3>4, <3>5, <3>6, <4>1, <4>3, SplitIs
      <4> QED
        BY <3>4, <4>2 DEF Divided
    <3>8. Roomy(F)
      BY SMTT(60), <1>1, <3>2, <3>7, FieldsOf DEF Roomy, SameCursor
    <3>9. F.currln + 2 <= Len(F.text) /\ F.text[F.currln + 2] = next
      <4>1. p \in Lines \ Range(E.text) /\ i \in 0..Len(E.text)
        BY <1>1, <3>2, <3>4 DEF Unused
      <4>2. /\ Len(F.text) = Len(E.text) + 1
            /\ \A j \in 1..Len(E.text) + 1 :
                  F.text[j] = IF j <= i THEN E.text[j]
                              ELSE IF j = i + 1 THEN p ELSE E.text[j - 1]
        <5>1. F.text = Spliced(E.text, i, p)
          BY <3>7
        <5>2. E.text \in Seq(Lines) /\ Distinct(E.text)
          BY <1>1
        <5> QED
          BY <4>1, <5>1, <5>2, PutIs
      <4>3. i \in 1..Len(E.text) + 1 /\ i <= i /\ i = F.currln + 2
        BY <1>1, <3>4, <3>7 DEF i, SameCursor
      <4> QED
        BY SMTT(60), <1>1, <3>4, <4>1, <4>2, <4>3
    <3>10. F.len[F.currline] + F.len[F.text[F.currln + 2]] < WRAPMARGIN
      <4>1. F.len[next] = pos /\ F.len[E.currline] = E.len[E.currline]
        BY <1>1, <2>1, <3>2, <3>7, FieldsOf
      <4>2. F.currline = E.currline
        BY <3>7 DEF SameCursor
      <4>3. E.len[E.currline] + pos < WRAPMARGIN
        BY <1>1, <3>3
      <4> QED
        BY <3>9, <4>1, <4>2, <4>3
    <3>11. A = NextTaken(F, spaces)
      BY <2>6 DEF F
    <3> QED
      BY <3>7, <3>8, <3>9, <3>10, <3>11, NextTakenIs
  <2> QED
    BY <2>2, <2>3, <2>4, <2>5, <2>6
<1> QED
  BY <1>1, <1>2, <1>3

\* KEY_DEL
LEMMA DeleteHereIs ==
    ASSUME NEW E, Sound(E), Roomy(E), E.blockln < 0, NEW A \in DeleteHere(E)
    PROVE  Near(A)
<1> DEFINE n == E.len[E.currline]
<1>1. E \in Buffer /\ n \in Nat /\ n < WRAPMARGIN /\ E.currpnt \in 0..n /\ WRAPMARGIN \in Nat
  <2>1. /\ E \in Buffer /\ n \in Nat /\ n < WRAPMARGIN /\ E.currpnt \in Nat
        /\ E.currpnt <= n /\ WRAPMARGIN \in Nat
    BY SoundIs
  <2> HIDE DEF n
  <2> QED
    BY <2>1
<1>2. CASE n = E.currpnt
  BY <1>2, JoinIs DEF DeleteHere
<1>3. CASE n # E.currpnt
  <2>7. PICK k \in {1, 2} \cap 1..n - E.currpnt :
           A \in {[delete_chars(E, k) EXCEPT !.currpnt = c] : c \in E.currpnt..n - k}
    BY <1>3 DEF DeleteHere
  <2>1. PICK c \in E.currpnt..n - k : A = [delete_chars(E, k) EXCEPT !.currpnt = c]
    BY <2>7
  <2>2. A = [E EXCEPT !.len[E.currline] = n - k, !.currpnt = c]
    BY <2>1 DEF delete_chars
  <2>3. k \in Nat /\ c \in Nat
    BY <1>1, <2>1
  <2> HIDE DEF n
  <2>4. /\ n - k \in 0..WRAPMARGIN - 1 /\ n - k \in 0..WRAPMARGIN /\ c \in 0..n - k
        /\ c \in 0..WRAPMARGIN
    BY <1>1, <2>1, <2>3
  <2>5. Filled(A, E, n - k, c)
    BY <1>1, <2>2, <2>4, FilledIs
  <2>6. Sound(A)
    BY <2>4, <2>5, LineFilled
  <2> QED
    BY <2>6 DEF Sound, Near
<1> QED
  BY <1>2, <1>3

\* The pointer to the line that the cursor left may go to any with all memory.
LEMMA OldBase ==
    ASSUME NEW E, NEW A \in Buffer, Base(E), SameBlock(A, E),
           A.text = E.text, A.len = E.len, A.mlength = E.mlength,
           A.firstline = E.firstline, A.lastline = E.lastline, A.totaln = E.totaln,
           A.deleted_line = E.deleted_line,
           A.oldcurrline \in Range(E.text), E.mlength[A.oldcurrline] = WRAPMARGIN
    PROVE  Base(A)
  BY DEF Base, Listed, Lengths, Selected, SameBlock

Trimmed(A, E, p, n) ==
    /\ Base(A) /\ A.mlength = [E.mlength EXCEPT ![p] = n]
    /\ A.text = E.text /\ A.len = E.len
    /\ A.firstline = E.firstline /\ A.lastline = E.lastline
    /\ A.totaln = E.totaln /\ A.deleted_line = E.deleted_line
    /\ SameBlock(A, E) /\ SameCursor(A, E) /\ SameWindow(A, E) /\ SameScreen(A, E)

\* adjustline: to no less than is in the line, and all for the current one only.
LEMMA AdjustedBase ==
    ASSUME NEW E, Base(E), NEW p \in Range(E.text), E.currline \in Range(E.text),
           NEW n \in 0..WRAPMARGIN, E.len[p] <= n, n = WRAPMARGIN => E.currline = p,
           NEW A, A = Adjusted(E, p, n)
    PROVE  Trimmed(A, E, p, n)
<1> DEFINE old == IF E.oldcurrline = p THEN NoLine ELSE E.oldcurrline
<1>1. /\ E \in Buffer /\ p \in Lines /\ Listed(E) /\ Lengths(E) /\ Selected(E)
      /\ E.mlength \in [Lines -> 0..WRAPMARGIN]
      /\ \A l \in Range(E.text) : l \in Lines
  <2>1. E \in Buffer /\ Listed(E) /\ Lengths(E) /\ Selected(E)
    BY DEF Base
  <2> QED
    BY <2>1, TextOf, FieldsOf
<1>2. /\ A \in Buffer
      /\ A.text = E.text /\ A.len = E.len /\ A.mlength = [E.mlength EXCEPT ![p] = n]
      /\ A.firstline = E.firstline /\ A.lastline = E.lastline
      /\ A.totaln = E.totaln /\ A.deleted_line = E.deleted_line
      /\ A.oldcurrline = IF old = NoLine /\ n = WRAPMARGIN THEN E.currline ELSE old
      /\ SameBlock(A, E) /\ SameCursor(A, E) /\ SameWindow(A, E) /\ SameScreen(A, E)
  BY <1>1, AdjustedIs
<1>3. A.mlength[p] = n /\ \A l \in Lines \ {p} : A.mlength[l] = E.mlength[l]
  BY <1>1, <1>2
<1>4. /\ A.oldcurrline \in Range(E.text) \cup {NoLine}
      /\ A.oldcurrline # NoLine => A.mlength[A.oldcurrline] = WRAPMARGIN
  <2>1. CASE old = NoLine /\ n = WRAPMARGIN
    BY <1>2, <1>3, <2>1
  <2>2. CASE ~ (old = NoLine /\ n = WRAPMARGIN)
    <3>1. A.oldcurrline = old
      BY <1>2, <2>2
    <3>2. old # NoLine => old = E.oldcurrline /\ old # p /\ old \in Range(E.text)
      BY <1>1 DEF Listed
    <3> QED
      BY <1>1, <1>3, <3>1, <3>2 DEF Lengths
  <2> QED
    BY <2>1, <2>2
<1> HIDE DEF old
<1>5. Listed(A)
  BY <1>1, <1>2, <1>4 DEF Listed
<1>6. Lengths(A)
  <2>1. ASSUME NEW l \in Range(A.text) PROVE A.len[l] <= A.mlength[l] /\ A.len[l] < WRAPMARGIN
    <3>1. l \in Range(E.text) /\ l \in Lines
      BY <1>1, <1>2, <2>1
    <3> QED
      BY <1>1, <1>2, <1>3, <3>1 DEF Lengths
  <2> QED
    BY <1>1, <1>2, <1>4, <2>1 DEF Lengths
<1>7. Selected(A)
  BY <1>1, <1>2 DEF Selected, SameBlock
<1> QED
  BY <1>2, <1>5, <1>6, <1>7 DEF Base, Trimmed

\* KEY_BS: at the start of a line the window may have to follow to the line before it.
LEMMA BackspaceIs ==
    ASSUME NEW E, Sound(E), Roomy(E), E.blockln < 0, NEW A \in Backspace(E)
    PROVE  Near(A)
<1> DEFINE cur == E.currline  k == Row(E, cur)  prev == E.text[k - 1]
           F0 == [E EXCEPT !.curr_window_line = @ - 1, !.currln = @ - 1]
           E1 == Adjusted(F0, cur, E.len[cur])
           F1 == [E1 EXCEPT !.currline = prev]
           G == Adjusted(F1, prev, WRAPMARGIN)
           E2 == [G EXCEPT !.oldcurrline = prev, !.currpnt = E.len[prev]]
           E3 == IF cur = E.top_of_win
                 THEN [E2 EXCEPT !.top_of_win = prev, !.curr_window_line = 0] ELSE E2
<1>1. /\ E \in Buffer /\ Base(E) /\ CursorAt(E) /\ WindowAt(E)
      /\ E.text \in Seq(Lines) /\ Len(E.text) \in Nat /\ Distinct(E.text)
      /\ E.currln \in Nat /\ k = E.currln + 1 /\ k \in 1..Len(E.text)
      /\ E.text[E.currln + 1] = cur
      /\ cur \in Range(E.text) /\ cur \in Lines
      /\ E.len[cur] \in Nat /\ E.len[cur] < WRAPMARGIN
      /\ E.currpnt \in Nat /\ E.currpnt <= E.len[cur]
      /\ E.curr_window_line \in Nat /\ E.curr_window_line <= E.currln
      /\ E.text[E.currln - E.curr_window_line + 1] = E.top_of_win
      /\ WRAPMARGIN \in Nat
  BY SoundIs
<1>2. \/ A = E
      \/ E.currpnt > 0 /\ \E c \in {1, 2} \cap 1..E.currpnt :
                              A = [delete_chars(E, c) EXCEPT !.currpnt = @ - c]
      \/ k > 1 /\ A \in join(E3)
  <2> HIDE DEF E3, k
  <2>1. Backspace(E) = {E} \cup
           IF E.currpnt > 0
           THEN {[delete_chars(E, c) EXCEPT !.currpnt = @ - c] : c \in {1, 2} \cap 1..E.currpnt}
           ELSE IF k > 1 THEN join(E3) ELSE {}
    BY DEF Backspace, E3, k
  <2> QED
    BY <2>1
<1>3. CASE A = E
  BY <1>1, <1>3 DEF Near
<1>4. ASSUME NEW c \in {1, 2} \cap 1..E.currpnt,
             A = [delete_chars(E, c) EXCEPT !.currpnt = @ - c]
      PROVE  Near(A)
  <2> DEFINE m == E.len[cur] - c  x == E.currpnt - c
  <2>1. A = [E EXCEPT !.len[cur] = m, !.currpnt = x]
    BY <1>1, <1>4 DEF delete_chars, Buffer
  <2>2. c \in Nat /\ c >= 1 /\ c <= E.currpnt
    BY <1>1, <1>4
  <2>3. m \in 0..WRAPMARGIN - 1 /\ m \in 0..WRAPMARGIN /\ x \in 0..m /\ x \in 0..WRAPMARGIN
    <3> DEFINE a == E.len[cur]  b == E.currpnt
    <3>1. a \in Nat /\ a < WRAPMARGIN /\ b \in Nat /\ b <= a /\ WRAPMARGIN \in Nat /\ c <= b
      BY <1>1, <2>2
    <3>2. m = a - c /\ x = b - c
      OBVIOUS
    <3> HIDE DEF a, b, m, x
    <3>3. m \in Nat /\ x \in Nat /\ m < WRAPMARGIN /\ x <= m
      BY <2>2, <3>1, <3>2
    <3> QED
      BY <3>1, <3>3
  <2> HIDE DEF m, x
  <2>4. Filled(A, E, m, x)
    BY <1>1, <2>1, <2>3, FilledIs
  <2>5. Sound(A)
    BY <2>3, <2>4, LineFilled
  <2> QED
    BY <2>5 DEF Sound, Near
<1>5. CASE k > 1 /\ A \in join(E3)
  <2>1. /\ k - 1 \in 1..Len(E.text) /\ k - 1 = E.currln /\ prev \in Lines
        /\ prev \in Range(E.text) /\ E.len[prev] \in Nat /\ E.len[prev] < WRAPMARGIN
        /\ E.currln >= 1 /\ E.currln - 1 \in Nat
    <3>1. k - 1 \in 1..Len(E.text) /\ k - 1 = E.currln /\ E.currln >= 1 /\ E.currln - 1 \in Nat
      BY SMTT(60), <1>1, <1>5
    <3> QED
      BY <1>1, <3>1, TextOf
  <2> HIDE DEF F0, E1, F1, G, E2, E3, k, prev, cur
  <2>2. /\ F0 \in Buffer /\ Base(F0) /\ SameText(F0, E) /\ SameBlock(F0, E)
        /\ F0.currline = cur /\ F0.top_of_win = E.top_of_win /\ SameScreen(F0, E)
        /\ F0.currln = E.currln - 1 /\ F0.curr_window_line = E.curr_window_line - 1
    <3>1. /\ F0.currln = E.currln - 1 /\ F0.curr_window_line = E.curr_window_line - 1
          /\ F0.currline = cur /\ F0.top_of_win = E.top_of_win /\ SameScreen(F0, E)
          /\ SameText(F0, E) /\ SameBlock(F0, E)
      BY <1>1 DEF F0, cur, Buffer, SameText, SameBlock, SameScreen
    <3>2. F0.currln \in Nat /\ F0.curr_window_line \in Int
      BY <1>1, <2>1, <3>1
    <3>3. F0 \in Buffer
      BY <1>1, <3>2 DEF F0, Buffer
    <3> QED
      BY <1>1, <3>1, <3>3, SameBase
  <2>3. /\ Base(E1) /\ E1 \in Buffer /\ E1.text = E.text /\ E1.len = E.len /\ SameBlock(E1, E)
        /\ E1.currline = cur /\ E1.top_of_win = E.top_of_win
        /\ E1.currln = E.currln - 1 /\ E1.curr_window_line = E.curr_window_line - 1
    <3>1. /\ cur \in Range(F0.text) /\ F0.currline \in Range(F0.text)
          /\ E.len[cur] \in 0..WRAPMARGIN /\ F0.len[cur] <= E.len[cur]
          /\ E.len[cur] = WRAPMARGIN => F0.currline = cur
      BY SMTT(60), <1>1, <2>2 DEF SameText
    <3>2. Base(E1) /\ E1.text = F0.text /\ E1.len = F0.len /\ SameBlock(E1, F0)
          /\ SameCursor(E1, F0) /\ SameWindow(E1, F0)
      <4> DEFINE m == E.len[cur]
      <4>1. /\ m \in 0..WRAPMARGIN /\ F0.len[cur] <= m /\ (m = WRAPMARGIN => F0.currline = cur)
            /\ E1 = Adjusted(F0, cur, m)
        BY <3>1 DEF E1
      <4> HIDE DEF m
      <4>2. Trimmed(E1, F0, cur, m)
        BY <2>2, <3>1, <4>1, AdjustedBase
      <4> QED
        BY <4>2 DEF Trimmed
    <3> QED
      BY <2>2, <3>2 DEF Base, SameText, SameBlock, SameCursor, SameWindow
  <2>4. /\ F1 \in Buffer /\ Base(F1) /\ F1.text = E.text /\ F1.len = E.len
        /\ SameBlock(F1, E) /\ F1.currline = prev /\ F1.top_of_win = E.top_of_win
        /\ F1.currln = E.currln - 1 /\ F1.curr_window_line = E.curr_window_line - 1
    <3>1. /\ F1.currline = prev /\ F1.top_of_win = E1.top_of_win /\ F1.currln = E1.currln
          /\ F1.curr_window_line = E1.curr_window_line
          /\ SameText(F1, E1) /\ SameBlock(F1, E1)
      BY <2>3 DEF F1, Buffer, SameText, SameBlock
    <3>2. F1 \in Buffer
      BY <2>1, <2>3 DEF F1, Buffer
    <3>3. Base(F1)
      BY <2>3, <3>1, <3>2, SameBase
    <3> QED
      BY <2>3, <3>1, <3>2, <3>3 DEF SameText, SameBlock
  <2>5. /\ Base(G) /\ G \in Buffer /\ G.text = E.text /\ G.len = E.len /\ SameBlock(G, E)
        /\ G.currline = prev /\ G.top_of_win = E.top_of_win
        /\ G.currln = E.currln - 1 /\ G.curr_window_line = E.curr_window_line - 1
        /\ G.mlength[prev] = WRAPMARGIN
    <3>1. /\ prev \in Range(F1.text) /\ F1.currline \in Range(F1.text)
          /\ WRAPMARGIN \in 0..WRAPMARGIN /\ F1.len[prev] <= WRAPMARGIN
          /\ F1.currline = prev
      BY <1>1, <2>1, <2>4
    <3>2. Base(G) /\ G.text = F1.text /\ G.len = F1.len /\ SameBlock(G, F1)
          /\ SameCursor(G, F1) /\ SameWindow(G, F1)
          /\ G.mlength = [F1.mlength EXCEPT ![prev] = WRAPMARGIN]
      <4>1. Trimmed(G, F1, prev, WRAPMARGIN)
        BY <2>4, <3>1, AdjustedBase DEF G
      <4> QED
        BY <4>1 DEF Trimmed
    <3>3. G.mlength[prev] = WRAPMARGIN
      BY <2>1, <2>4, <3>2, FieldsOf
    <3> QED
      BY <2>4, <3>2, <3>3 DEF Base, SameBlock, SameCursor, SameWindow
  <2>6. /\ E2 \in Buffer /\ Base(E2) /\ E2.text = E.text /\ E2.len = E.len
        /\ SameBlock(E2, E) /\ E2.currline = prev /\ E2.top_of_win = E.top_of_win
        /\ E2.currln = E.currln - 1 /\ E2.curr_window_line = E.curr_window_line - 1
        /\ E2.mlength[prev] = WRAPMARGIN /\ E2.currpnt = E.len[prev]
    <3>1. /\ E2.text = G.text /\ E2.len = G.len /\ E2.mlength = G.mlength
          /\ E2.firstline = G.firstline /\ E2.lastline = G.lastline /\ E2.totaln = G.totaln
          /\ E2.deleted_line = G.deleted_line /\ E2.oldcurrline = prev
          /\ E2.currpnt = E.len[prev] /\ E2.currline = G.currline /\ E2.currln = G.currln
          /\ SameBlock(E2, G) /\ SameWindow(E2, G)
      BY <2>5 DEF E2, Buffer, SameBlock, SameWindow
    <3>2. E2.oldcurrline \in Lines \cup {NoLine} /\ E2.currpnt \in 0..WRAPMARGIN
      BY <1>1, <2>1, <3>1
    <3>3. E2 \in Buffer
      BY ZenonT(60), <2>5, <3>2 DEF E2, Buffer
    <3>4. Base(E2)
      BY <2>1, <2>5, <3>1, <3>3, OldBase
    <3> QED
      BY <2>5, <3>1, <3>3, <3>4 DEF SameBlock, SameWindow
  <2>7. /\ E3 \in Buffer /\ SameText(E3, E2) /\ SameBlock(E3, E2) /\ SameCursor(E3, E2)
        /\ E3.curr_window_line \in 0..E3.currln
        /\ E.text[E3.currln - E3.curr_window_line + 1] = E3.top_of_win
    <3>1. CASE cur = E.top_of_win
      <4>1. E3 = [E2 EXCEPT !.top_of_win = prev, !.curr_window_line = 0]
        BY <3>1 DEF E3
      <4>2. /\ E3.top_of_win = prev /\ E3.curr_window_line = 0
            /\ SameText(E3, E2) /\ SameBlock(E3, E2) /\ SameCursor(E3, E2)
        BY <2>6, <4>1 DEF Buffer, SameText, SameBlock, SameCursor
      <4>3. E3.top_of_win \in Lines /\ E3.curr_window_line \in Int
        BY <2>1, <4>2
      <4>4. E3 \in Buffer
        BY <2>6, <4>1, <4>3 DEF Buffer
      <4>5. E3.currln = E.currln - 1
        BY <2>6, <4>2 DEF SameCursor
      <4>6. E3.currln - E3.curr_window_line + 1 = E.currln /\ E.text[E.currln] = prev
        BY SMTT(60), <1>1, <2>1, <4>2, <4>5 DEF prev
      <4> QED
        BY <2>1, <4>2, <4>4, <4>5, <4>6
    <3>2. CASE cur # E.top_of_win
      <4>1. E3 = E2
        BY <3>2 DEF E3
      <4>2. E.curr_window_line # 0
        BY <1>1, <3>2
      <4>3. /\ E2.curr_window_line \in 0..E2.currln
            /\ E2.currln - E2.curr_window_line + 1 = E.currln - E.curr_window_line + 1
        BY SMTT(60), <1>1, <2>6, <4>2
      <4> QED
        BY <1>1, <2>6, <4>1, <4>3 DEF SameText, SameBlock, SameCursor
    <3> QED
      BY <3>1, <3>2
  <2>8. Base(E3) /\ E3.text = E.text /\ E3.blockln < 0
    BY <2>6, <2>7, SameBase DEF SameText, SameBlock
  <2>9. CursorAt(E3)
    <3>1. /\ E3.currln = E.currln - 1 /\ E3.currline = prev /\ E3.currpnt = E.len[prev]
          /\ E3.len[prev] = E.len[prev]
      BY <2>6, <2>7 DEF SameText, SameCursor
    <3>2. E3.currln \in 0..Len(E.text) - 1 /\ E3.currln + 1 = E.currln
      BY <1>1, <2>1, <3>1
    <3>3. E.text[E.currln] = prev
      BY <1>1, <2>1 DEF prev
    <3> QED
      BY <2>1, <2>8, <3>1, <3>2, <3>3 DEF CursorAt
  <2>10. WindowAt(E3) /\ Roomy(E3)
    BY <2>6, <2>7, <2>8 DEF WindowAt, Roomy, SameText, SameCursor
  <2> QED
    BY <1>5, <2>8, <2>9, <2>10, JoinIs DEF Sound
<1> QED
  BY <1>2, <1>3, <1>4, <1>5

\* ^Y: of the only line, of the last one, and of one that others follow.
LEMMA LineDeletedIs ==
    ASSUME NEW E, Sound(E), Roomy(E), E.blockln < 0
    PROVE  Near(LineDeleted(E))
<1> DEFINE cur == E.currline  k == Row(E, cur)  n == Len(E.text)
           last == k = n
           p == IF last THEN E.text[k - 1] ELSE E.text[k + 1]
           win == IF last /\ E.curr_window_line > 0 THEN E.curr_window_line - 1
                  ELSE E.curr_window_line
           ln == IF last THEN E.currln - 1 ELSE E.currln
           top == IF E.top_of_win = cur THEN p ELSE E.top_of_win
           E1 == [E EXCEPT !.curr_window_line = win, !.currln = ln, !.top_of_win = top]
           D == delete_line(E1, cur, TRUE)
           G == [D EXCEPT !.currline = p, !.currpnt = 0]
           A == LineDeleted(E)
<1>1. /\ E \in Buffer /\ Base(E)
      /\ E.text \in Seq(Lines) /\ n \in Nat /\ Distinct(E.text)
      /\ E.currln \in Nat /\ k = E.currln + 1 /\ k \in 1..n
      /\ E.text[k] = cur /\ cur \in Range(E.text) /\ cur \in Lines
      /\ E.curr_window_line \in Nat /\ E.curr_window_line <= E.currln
      /\ E.text[E.currln - E.curr_window_line + 1] = E.top_of_win
      /\ WRAPMARGIN \in Nat /\ WRAPMARGIN >= 2
  BY SoundIs
<1>2. CASE n = 1
  <2>1. A = [E EXCEPT !.len[cur] = 0, !.currpnt = 0]
    BY <1>2 DEF LineDeleted
  <2>2. 0 \in 0..WRAPMARGIN - 1 /\ 0 \in 0..WRAPMARGIN /\ 0 \in 0..0
    BY <1>1
  <2>3. Filled(A, E, 0, 0)
    <3> HIDE DEF A
    <3> QED
      BY <1>1, <2>1, <2>2, FilledIs
  <2>4. Sound(A)
    BY <2>2, <2>3, LineFilled
  <2> QED
    BY <2>4 DEF Sound, Near
<1>3. CASE n # 1
  <2>1. A = Adjusted(G, p, WRAPMARGIN)
    BY <1>3 DEF LineDeleted
  <2> HIDE DEF A
  <2>2. /\ n >= 2 /\ p \in Lines /\ p # cur /\ p \in Range(E.text)
        /\ IF last THEN k = n /\ n - 1 \in 1..n /\ p = E.text[n - 1]
           ELSE k <= n - 1 /\ k + 1 \in 1..n /\ p = E.text[k + 1]
    <3>1. n >= 2
      <4>1. n \in Nat /\ k \in Nat /\ 1 <= k /\ k <= n
        BY <1>1
      <4> HIDE DEF n, k
      <4> QED
        BY <1>3, <4>1
    <3>2. CASE last
      <4>1. n - 1 \in 1..n /\ p = E.text[n - 1] /\ n - 1 # k
        BY <1>1, <3>1, <3>2
      <4> QED
        BY <1>1, <3>1, <3>2, <4>1, TextOf DEF Distinct
    <3>3. CASE ~ last
      <4>1. k + 1 \in 1..n /\ p = E.text[k + 1] /\ k + 1 # k /\ k <= n - 1
        BY <1>1, <3>3
      <4> QED
        BY <1>1, <3>1, <3>3, <4>1, TextOf DEF Distinct
    <3> QED
      BY <3>2, <3>3
  <2>3. /\ ln \in Nat /\ win \in Int /\ top \in Lines
        /\ E.top_of_win \in Lines
    <3>1. E.top_of_win \in Lines
      BY <1>1, FieldsOf
    <3>2. last => E.currln >= 1
      BY <1>1, <2>2
    <3>3. ln \in Nat /\ win \in Int
      <4> HIDE DEF last
      <4> QED
        BY <1>1, <3>2
    <3>4. top \in Lines
      BY <2>2, <3>1
    <3> QED
      BY <3>1, <3>3, <3>4
  <2> HIDE DEF E1, D, G, win, ln, top, p, cur, k, n, last
  <2>4. /\ Base(E1) /\ E1.text = E.text /\ E1.blockln < 0
        /\ E1.currln = ln /\ E1.curr_window_line = win /\ E1.top_of_win = top
    <3>1. /\ E1.currln = ln /\ E1.curr_window_line = win /\ E1.top_of_win = top
          /\ SameText(E1, E) /\ SameBlock(E1, E)
      BY <1>1 DEF E1, Buffer, SameText, SameBlock
    <3>2. E1 \in Buffer
      BY <1>1, <2>3 DEF E1, Buffer
    <3> QED
      BY <1>1, <3>1, <3>2, SameBase DEF SameText, SameBlock
  <2>5. /\ Base(D) /\ D.text = Without(E.text, k, k) /\ D.blockln < 0
        /\ D.currln = ln /\ D.curr_window_line = win /\ D.top_of_win = top
    <3>1. k \in 1..Len(E1.text) /\ Len(E1.text) > 1 /\ cur = E1.text[k] /\ TRUE \in BOOLEAN
      BY <1>1, <2>2, <2>4 DEF n
    <3>2. /\ Base(D) /\ D.text = Without(E1.text, k, k) /\ D.blockln < 0
          /\ SameCursor(D, E1) /\ SameWindow(D, E1)
      BY <2>4, <3>1, DeleteIs DEF D
    <3> QED
      BY <2>4, <3>2 DEF SameCursor, SameWindow
  <2>6. /\ Base(G) /\ G.text = D.text /\ G.currline = p /\ G.currpnt = 0 /\ G.blockln < 0
        /\ G.currln = ln /\ G.curr_window_line = win /\ G.top_of_win = top
    <3>1. /\ G.currline = p /\ G.currpnt = 0 /\ G.currln = D.currln /\ SameWindow(G, D)
          /\ SameText(G, D) /\ SameBlock(G, D)
      BY <2>5 DEF G, Base, Buffer, SameText, SameBlock, SameWindow
    <3>2. G.currpnt \in 0..WRAPMARGIN /\ G.currline \in Lines
      BY <1>1, <2>2, <3>1
    <3>3. G \in Buffer
      BY <2>5, <3>2 DEF G, Base, Buffer
    <3> QED
      BY <2>5, <3>1, <3>3, SameBase DEF SameText, SameBlock, SameWindow
  <2>7. /\ Len(D.text) = n - 1 /\ Range(D.text) = Range(E.text) \ {cur}
        /\ \A j \in 1..n - 1 : D.text[j] = IF j < k THEN E.text[j] ELSE E.text[j + 1]
    <3>1. D.text = Without(E.text, k, k) /\ k \in 1..Len(E.text) /\ E.text[k] = cur
      BY <1>1, <2>5 DEF n
    <3>2. E.text \in Seq(Lines) /\ Distinct(E.text)
      BY <1>1
    <3>3. /\ Len(D.text) = Len(E.text) - 1 /\ Range(D.text) = Range(E.text) \ {E.text[k]}
          /\ \A j \in 1..Len(E.text) - 1 :
                D.text[j] = IF j < k THEN E.text[j] ELSE E.text[j + 1]
      <4> DEFINE t == E.text  d == D.text
      <4>1. t \in Seq(Lines) /\ Distinct(t) /\ k \in 1..Len(t) /\ d = Without(t, k, k)
        BY <3>1, <3>2
      <4> HIDE DEF t, d
      <4>2. /\ Len(d) = Len(t) - 1 /\ Range(d) = Range(t) \ {t[k]}
            /\ \A j \in 1..Len(t) - 1 : d[j] = IF j < k THEN t[j] ELSE t[j + 1]
        BY SMTT(60), <4>1, RemovedIs
      <4> QED
        BY <4>2 DEF t, d
    <3> QED
      BY <3>1, <3>3 DEF n
  <2>8. /\ Base(A) /\ A.text = D.text /\ A.currline = p /\ A.currpnt = 0
        /\ A.currln = ln /\ A.curr_window_line = win /\ A.top_of_win = top
    <3>1. /\ p \in Range(G.text) /\ G.currline \in Range(G.text)
          /\ WRAPMARGIN \in 0..WRAPMARGIN /\ G.len[p] <= WRAPMARGIN /\ G.currline = p
      <4>1. p \in Range(G.text)
        BY <2>2, <2>6, <2>7
      <4>2. G.len[p] \in 0..WRAPMARGIN
        BY <2>2, <2>6, FieldsOf DEF Base
      <4> QED
        BY <1>1, <2>6, <4>1, <4>2
    <3>2. Trimmed(A, G, p, WRAPMARGIN)
      BY <2>1, <2>6, <3>1, AdjustedBase
    <3> QED
      BY <2>6, <3>2 DEF Trimmed, SameCursor, SameWindow
  <2>9. CursorAt(A)
    <3>1. ln \in 0..Len(A.text) - 1 /\ ln + 1 \in 1..n - 1
          /\ (last => ln + 1 = n - 1 /\ ln + 1 < k)
          /\ (~ last => ln + 1 = k /\ ~ (ln + 1 < k))
      <4>1. CASE last
        BY <1>1, <2>2, <2>7, <2>8, <4>1 DEF ln
      <4>2. CASE ~ last
        BY <1>1, <2>2, <2>7, <2>8, <4>2 DEF ln
      <4> QED
        BY <4>1, <4>2
    <3>2. A.text[ln + 1] = p
      BY <2>2, <2>7, <2>8, <3>1
    <3>3. A.len[p] \in Nat
      BY <2>2, <2>8, FieldsOf, EditAssumption DEF Base
    <3> QED
      BY <2>8, <3>1, <3>2, <3>3 DEF CursorAt
  <2>10. WindowAt(A)
    <3>1. CASE E.curr_window_line = 0
      <4>1. E.currln - 0 + 1 = k
        BY <1>1
      <4>2. E.top_of_win = cur
        BY <1>1, <3>1, <4>1
      <4>3. top = p /\ win = 0
        BY <3>1, <4>2 DEF top, win
      <4>4. win \in 0..ln /\ ln - win + 1 = ln + 1
        BY <2>3, <4>3
      <4> QED
        BY <2>8, <2>9, <4>3, <4>4 DEF WindowAt, CursorAt
    <3>2. CASE E.curr_window_line > 0
      <4> DEFINE j == E.currln - E.curr_window_line + 1
      <4>1. j \in 1..n /\ j < k /\ j \in 1..n - 1
        BY <1>1, <3>2
      <4>2. E.top_of_win # cur
        BY <1>1, <4>1 DEF Distinct, n
      <4>3. top = E.text[j] /\ ln - win + 1 = j /\ win \in 0..ln
        <5>1. CASE last
          BY SMTT(60), <1>1, <3>2, <4>2, <5>1 DEF top, ln, win
        <5>2. CASE ~ last
          BY <1>1, <3>2, <4>2, <5>2 DEF top, ln, win
        <5> QED
          BY <5>1, <5>2
      <4> HIDE DEF j
      <4>4. A.text[j] = E.text[j]
        BY <2>7, <2>8, <4>1
      <4> QED
        BY <2>8, <4>3, <4>4 DEF WindowAt
    <3> QED
      BY <1>1, <3>1, <3>2
  <2> QED
    BY <2>8, <2>9, <2>10 DEF Near, A
<1> QED
  BY <1>2, <1>3

\* ^K
LEMMA RestDeletedIs ==
    ASSUME NEW E, Sound(E), Roomy(E), E.blockln < 0, NEW A \in RestDeleted(E)
    PROVE  Near(A)
<1> DEFINE n == E.len[E.currline]  c == E.currpnt
<1>1. /\ E \in Buffer /\ n \in Nat /\ n < WRAPMARGIN /\ c \in Nat /\ c <= n
      /\ WRAPMARGIN \in Nat
  BY SoundIs
<1>2. \/ A = LineDeleted(E) \/ A \in join(E)
      \/ A = [E EXCEPT !.len[E.currline] = E.currpnt]
  BY DEF RestDeleted
<1>3. CASE A = LineDeleted(E)
  BY <1>3, LineDeletedIs
<1>4. CASE A \in join(E)
  BY <1>4, JoinIs
<1>5. CASE A = [E EXCEPT !.len[E.currline] = E.currpnt]
  <2>1. A = [E EXCEPT !.len[E.currline] = c, !.currpnt = c]
    BY <1>1, <1>5 DEF Buffer
  <2>2. c \in 0..WRAPMARGIN - 1 /\ c \in 0..WRAPMARGIN /\ c \in 0..c
    BY <1>1
  <2> HIDE DEF n, c
  <2>3. Filled(A, E, c, c)
    BY <1>1, <2>1, <2>2, FilledIs
  <2>4. Sound(A)
    BY <2>2, <2>3, LineFilled
  <2> QED
    BY <2>4 DEF Sound, Near
<1> QED
  BY <1>2, <1>3, <1>4, <1>5

\* ^U: the clone is linked before the current line, by hand.
LEMMA UndeleteIs ==
    ASSUME NEW E, Sound(E), Roomy(E), E.deleted_line # NoLine, NEW p \in Unused(E),
           NEW A, A = undelete_line(E, p)
    PROVE  E.blockln < 0 => Near(A)
<1> DEFINE cur == E.currline  k == Row(E, cur)  n == Len(E.text)
           m == E.len[E.deleted_line]  s == Spliced(E.text, k - 1, p)
           L == [E.len EXCEPT ![p] = m]  M == [E.mlength EXCEPT ![p] = m]
           top == IF E.top_of_win = cur THEN p ELSE E.top_of_win
           first == IF E.firstline = cur THEN p ELSE E.firstline
           E1 == [E EXCEPT !.text = s, !.len = L, !.mlength = M, !.totaln = n]
           F == Adjusted(E1, cur, E.len[cur])
           E2 == [F EXCEPT !.top_of_win = top,
                           !.firstline = IF @ = cur THEN p ELSE @,
                           !.currline = p, !.currpnt = 0]
<1> SUFFICES ASSUME E.blockln < 0 PROVE Near(A)
  OBVIOUS
<1>1. /\ E \in Buffer /\ Base(E) /\ Listed(E) /\ Lengths(E) /\ Selected(E)
      /\ E.text \in Seq(Lines) /\ n \in Nat /\ Distinct(E.text)
      /\ E.currln \in Nat /\ k = E.currln + 1 /\ k \in 1..n
      /\ E.text[k] = cur /\ cur \in Range(E.text) /\ cur \in Lines
      /\ E.len[cur] \in Nat /\ E.len[cur] < WRAPMARGIN
      /\ E.curr_window_line \in Nat /\ E.curr_window_line <= E.currln
      /\ E.text[E.currln - E.curr_window_line + 1] = E.top_of_win
      /\ WRAPMARGIN \in Nat /\ WRAPMARGIN >= 2
  BY SoundIs
<1>2. /\ E.totaln = n - 1 /\ E.firstline = E.text[1] /\ E.lastline = E.text[n] /\ n >= 1
      /\ E.firstline \in Lines /\ E.top_of_win \in Lines
      /\ E.len \in [Lines -> 0..WRAPMARGIN] /\ E.mlength \in [Lines -> 0..WRAPMARGIN]
      /\ \A j \in 1..n : E.text[j] \in Lines /\ E.text[j] \in Range(E.text)
  BY <1>1, TextOf, FieldsOf
<1>3. /\ p \in Lines /\ p \notin Range(E.text) /\ p # E.deleted_line /\ p # cur
      /\ m \in Nat /\ m < WRAPMARGIN /\ m \in 0..WRAPMARGIN
  <2>1. p \in Lines /\ p \notin Range(E.text) /\ p # E.deleted_line
    BY DEF Unused
  <2>2. m \in 0..WRAPMARGIN /\ m < WRAPMARGIN
    BY <1>1, FieldsOf DEF Lengths
  <2> QED
    BY <1>1, <2>1, <2>2
<1>4. A = Adjusted(E2, p, WRAPMARGIN)
  <2>1. k - 1 + 1 = k /\ E.totaln + 1 = n
    BY <1>1, <1>2
  <2>2. E1 = [E EXCEPT !.text = SubSeq(@, 1, k - 1) \o <<p>> \o SubSeq(@, k, Len(@)),
                       !.len[p] = m, !.mlength[p] = m, !.totaln = @ + 1]
    BY <2>1 DEF Spliced
  <2> HIDE DEF E1, s, L, M, m
  <2> QED
    BY <2>2 DEF undelete_line, undelete_top, m
<1>5. /\ s \in Seq(Lines) /\ Len(s) = n + 1 /\ Distinct(s) /\ Range(s) = Range(E.text) \cup {p}
      /\ \A j \in 1..n + 1 :
            s[j] = IF j <= k - 1 THEN E.text[j] ELSE IF j = k THEN p ELSE E.text[j - 1]
  <2> DEFINE h == k - 1
  <2>1. h \in 0..Len(E.text) /\ p \in Lines \ Range(E.text) /\ h + 1 = k
    BY <1>1, <1>3
  <2>2. s = Spliced(E.text, h, p)
    OBVIOUS
  <2> HIDE DEF h, s
  <2>3. /\ s \in Seq(Lines) /\ Len(s) = Len(E.text) + 1
        /\ Distinct(s) /\ Range(s) = Range(E.text) \cup {p}
        /\ \A j \in 1..Len(E.text) + 1 :
              s[j] = IF j <= h THEN E.text[j] ELSE IF j = h + 1 THEN p ELSE E.text[j - 1]
    <3> DEFINE T == E.text
    <3>1. /\ T \in Seq(Lines) /\ Distinct(T) /\ h \in 0..Len(T)
          /\ p \in Lines \ Range(T) /\ s = Spliced(T, h, p)
      BY <1>1, <2>1, <2>2
    <3> HIDE DEF T
    <3>2. /\ s \in Seq(Lines) /\ Len(s) = Len(T) + 1
          /\ \A j \in 1..Len(T) + 1 :
                s[j] = IF j <= h THEN T[j] ELSE IF j = h + 1 THEN p ELSE T[j - 1]
          /\ Distinct(s) /\ Range(s) = Range(T) \cup {p}
      BY <3>1, PutIs
    <3> QED
      BY <3>2 DEF T
  <2> QED
    BY <2>1, <2>3 DEF h
<1>6. L \in [Lines -> 0..WRAPMARGIN] /\ M \in [Lines -> 0..WRAPMARGIN]
  BY <1>2, <1>3
<1> HIDE DEF s, L, M, E1, F, E2, first, top, m, n, k, cur
<1>7. /\ E1 \in Buffer /\ E1.text = s /\ E1.len = L /\ E1.mlength = M /\ E1.totaln = n
      /\ E1.firstline = E.firstline /\ E1.lastline = E.lastline
      /\ E1.deleted_line = E.deleted_line /\ E1.oldcurrline = E.oldcurrline
      /\ SameBlock(E1, E) /\ SameCursor(E1, E) /\ SameWindow(E1, E)
  <2>1. /\ E1.text = s /\ E1.len = L /\ E1.mlength = M /\ E1.totaln = n
        /\ E1.firstline = E.firstline /\ E1.lastline = E.lastline
        /\ E1.deleted_line = E.deleted_line /\ E1.oldcurrline = E.oldcurrline
        /\ SameBlock(E1, E) /\ SameCursor(E1, E) /\ SameWindow(E1, E)
    BY <1>1 DEF E1, Buffer, SameBlock, SameCursor, SameWindow
  <2>2. E1 \in Buffer
    BY <1>1, <1>5, <1>6 DEF E1, Buffer
  <2> QED
    BY <2>1, <2>2
<1>8. /\ F \in Buffer /\ F.text = s /\ F.len = L /\ F.totaln = n
      /\ F.mlength = [M EXCEPT ![cur] = E.len[cur]]
      /\ F.firstline = E.firstline /\ F.lastline = E.lastline
      /\ F.deleted_line = E.deleted_line
      /\ F.oldcurrline = (IF E.oldcurrline = cur THEN NoLine ELSE E.oldcurrline)
      /\ SameBlock(F, E) /\ SameCursor(F, E) /\ SameWindow(F, E)
  <2> DEFINE w == E.len[cur]
  <2>1. w \in 0..WRAPMARGIN /\ w # WRAPMARGIN /\ F = Adjusted(E1, cur, w)
    BY <1>1 DEF F
  <2> HIDE DEF w
  <2>2. /\ F \in Buffer /\ F.text = E1.text /\ F.len = E1.len /\ F.totaln = E1.totaln
        /\ F.mlength = [E1.mlength EXCEPT ![cur] = w]
        /\ F.firstline = E1.firstline /\ F.lastline = E1.lastline
        /\ F.deleted_line = E1.deleted_line
        /\ F.oldcurrline = (IF E1.oldcurrline = cur THEN NoLine ELSE E1.oldcurrline)
        /\ SameBlock(F, E1) /\ SameCursor(F, E1) /\ SameWindow(F, E1)
    BY SMTT(60), <1>1, <1>7, <2>1, AdjustedIs
  <2> QED
    BY <1>7, <2>2 DEF w, SameBlock, SameCursor, SameWindow
<1>9. /\ E2 \in Buffer /\ E2.text = s /\ E2.len = L /\ E2.totaln = n
      /\ E2.mlength = [M EXCEPT ![cur] = E.len[cur]]
      /\ E2.firstline = first /\ E2.lastline = E.lastline
      /\ E2.deleted_line = E.deleted_line
      /\ E2.oldcurrline = (IF E.oldcurrline = cur THEN NoLine ELSE E.oldcurrline)
      /\ SameBlock(E2, E) /\ E2.currline = p /\ E2.currpnt = 0 /\ E2.currln = E.currln
      /\ E2.top_of_win = top /\ E2.curr_window_line = E.curr_window_line
  <2>1. /\ E2.text = F.text /\ E2.len = F.len /\ E2.totaln = F.totaln
        /\ E2.mlength = F.mlength
        /\ E2.firstline = (IF F.firstline = cur THEN p ELSE F.firstline)
        /\ E2.lastline = F.lastline
        /\ E2.deleted_line = F.deleted_line
        /\ E2.oldcurrline = F.oldcurrline
        /\ SameBlock(E2, F) /\ E2.currline = p /\ E2.currpnt = 0 /\ E2.currln = F.currln
        /\ E2.top_of_win = top /\ E2.curr_window_line = F.curr_window_line
    BY <1>8 DEF E2, Buffer, SameBlock
  <2>2. /\ E2.firstline \in Lines /\ E2.currline \in Lines /\ E2.currpnt \in 0..WRAPMARGIN
        /\ E2.top_of_win \in Lines
    BY <1>1, <1>2, <1>3, <1>8, <2>1 DEF top
  <2>3. E2 \in Buffer
    BY <1>8, <2>2 DEF E2, Buffer
  <2> QED
    BY <1>8, <2>1, <2>3 DEF first, SameBlock, SameCursor, SameWindow
<1>10. Listed(E2)
  <2>1. s[1] = first
    <3>1. CASE k = 1
      <4>1. 1 \in 1..n + 1 /\ ~ (1 <= k - 1) /\ E.firstline = cur
        BY SMTT(60), <1>1, <1>2, <3>1
      <4> QED
        BY <1>5, <3>1, <4>1 DEF first
    <3>2. CASE k # 1
      <4>1. 1 \in 1..n + 1 /\ 1 <= k - 1 /\ 1 \in 1..n
        BY SMTT(60), <1>1, <1>2, <3>2
      <4>2. E.firstline # cur
        BY <1>1, <1>2, <3>2, <4>1 DEF Distinct, n
      <4> QED
        BY <1>2, <1>5, <4>1, <4>2 DEF first
    <3> QED
      BY <3>1, <3>2
  <2>2. s[n + 1] = E.lastline
    <3> DEFINE h == n + 1
    <3>2. h \in 1..n + 1 /\ ~ (h <= k - 1) /\ h # k /\ h - 1 = n
      <4>1. k \in Nat /\ k <= n /\ n \in Nat
        BY <1>1
      <4> QED
        BY <4>1
    <3> HIDE DEF h
    <3>3. s[h] = E.text[h - 1]
      BY <1>5, <3>2
    <3>4. s[h] = E.lastline
      BY <1>2, <3>2, <3>3
    <3> QED
      BY <3>4 DEF h
  <2>3. n + 1 >= 1 /\ n = (n + 1) - 1
    BY <1>1
  <2>4. E2.deleted_line \notin Range(s) /\ E2.oldcurrline \in Range(s) \cup {NoLine}
    BY <1>1, <1>3, <1>5, <1>9 DEF Listed
  <2> QED
    BY <1>5, <1>9, <2>1, <2>2, <2>3, <2>4 DEF Listed
<1>11. Lengths(E2)
  <2>1. /\ \A l \in Lines : L[l] = IF l = p THEN m ELSE E.len[l]
        /\ \A l \in Lines : E2.mlength[l] = IF l = cur THEN E.len[cur]
                                            ELSE IF l = p THEN m ELSE E.mlength[l]
    BY ZenonT(60), <1>1, <1>2, <1>3, <1>6, <1>9 DEF L, M
  <2>2. ASSUME NEW l \in Range(s) PROVE E2.len[l] <= E2.mlength[l] /\ E2.len[l] < WRAPMARGIN
    <3>1. l = p \/ l \in Range(E.text)
      BY <1>5
    <3>2. l \in Lines
      BY <1>3, <1>1, <3>1, RangeIs
    <3>3. E2.len[l] = IF l = p THEN m ELSE E.len[l]
      BY <1>9, <2>1, <3>2
    <3>4. E2.mlength[l] = IF l = cur THEN E.len[cur] ELSE IF l = p THEN m ELSE E.mlength[l]
      BY <2>1, <3>2
    <3>5. CASE l = p
      BY <1>3, <3>3, <3>4, <3>5
    <3>6. CASE l = cur
      BY <1>1, <1>3, <3>3, <3>4, <3>6
    <3>7. CASE l # p /\ l # cur
      BY <1>1, <3>1, <3>3, <3>4, <3>7 DEF Lengths
    <3> QED
      BY <3>5, <3>6, <3>7
  <2>3. E2.deleted_line # NoLine => E2.len[E2.deleted_line] < WRAPMARGIN
    <3>1. E.deleted_line \in Lines
      BY <1>1, FieldsOf
    <3> QED
      BY SMTT(60), <1>1, <1>3, <1>9, <2>1, <3>1 DEF Lengths
  <2>4. ASSUME E2.oldcurrline # NoLine PROVE E2.mlength[E2.oldcurrline] = WRAPMARGIN
    <3>1. E2.oldcurrline = E.oldcurrline /\ E.oldcurrline # cur /\ E.oldcurrline \in Lines
      BY <1>1, <1>9, <2>4, FieldsOf
    <3>2. E.oldcurrline # p
      BY <1>1, <1>3, <3>1, EditAssumption DEF Listed
    <3> QED
      BY <1>1, <2>1, <2>4, <3>1, <3>2 DEF Lengths
  <2> QED
    BY <1>9, <2>2, <2>3, <2>4 DEF Lengths
<1>12. Base(E2) /\ E2.blockln < 0
  BY <1>1, <1>9, <1>10, <1>11 DEF Base, Selected, SameBlock
<1>13. /\ Base(A) /\ A.text = s /\ A.currline = p /\ A.currpnt = 0 /\ A.currln = E.currln
       /\ A.top_of_win = top /\ A.curr_window_line = E.curr_window_line
  <2>1. /\ p \in Range(E2.text) /\ E2.currline \in Range(E2.text) /\ E2.currline = p
        /\ WRAPMARGIN \in 0..WRAPMARGIN /\ E2.len[p] <= WRAPMARGIN
    <3>1. E2.len[p] \in 0..WRAPMARGIN
      BY <1>3, <1>9, FieldsOf
    <3> QED
      BY <1>1, <1>5, <1>9, <3>1
  <2>2. Trimmed(A, E2, p, WRAPMARGIN)
    BY <1>4, <1>12, <2>1, AdjustedBase
  <2> QED
    BY <1>9, <2>2 DEF Trimmed, SameCursor, SameWindow
<1>14. CursorAt(A)
  <2>1. /\ E.currln \in 0..Len(s) - 1 /\ k \in 1..n + 1 /\ ~ (k <= k - 1)
        /\ E.currln + 1 = k
    BY SMTT(60), <1>1, <1>5
  <2>2. s[E.currln + 1] = p
    BY <1>5, <2>1
  <2>3. A.len[p] \in Nat
    BY <1>3, <1>13, FieldsOf, EditAssumption DEF Base
  <2> QED
    BY <1>13, <2>1, <2>2, <2>3 DEF CursorAt
<1>15. WindowAt(A)
  <2> DEFINE j == E.currln - E.curr_window_line + 1
  <2>1. CASE E.curr_window_line = 0
    <3>1. j = k /\ E.currln + 1 = k
      BY <1>1, <2>1
    <3>2. top = p
      BY <1>1, <3>1 DEF top
    <3>3. s[j] = p
      BY <1>13, <1>14, <3>1 DEF CursorAt
    <3> QED
      BY <1>1, <1>13, <3>2, <3>3 DEF WindowAt
  <2>2. CASE E.curr_window_line > 0
    <3>1. j \in 1..n /\ j \in 1..n + 1 /\ j <= k - 1 /\ j # k
      BY SMTT(60), <1>1, <2>2
    <3> HIDE DEF j
    <3>2. E.text[j] = E.top_of_win
      BY <1>1 DEF j
    <3>3. top = E.top_of_win
      BY <1>1, <3>1, <3>2 DEF top, Distinct, n
    <3>4. s[j] = E.text[j]
      BY <1>5, <3>1
    <3> QED
      BY <1>1, <1>13, <3>2, <3>3, <3>4 DEF WindowAt, j
  <2> QED
    BY <1>1, <2>1, <2>2
<1> QED
  BY <1>13, <1>14, <1>15 DEF Near

-----------------------------------------------------------------------------
(* Blocks                                                                  *)

\* t is what is left of x without the lines from lo to hi, and to is line number
\* at of it, where the cursor comes to stand.
Left(t, x, lo, hi, to, at) ==
    /\ t \in Seq(Lines) /\ Distinct(t) /\ to \in Lines /\ to \in Range(t)
    /\ at \in 0..Len(t) - 1 /\ t[at + 1] = to
    /\ t[1] = (IF lo = 1 THEN to ELSE x[1])
    /\ t[Len(t)] = (IF hi = Len(x) THEN to ELSE x[Len(x)])
    /\ to \notin {x[i] : i \in lo..hi}
    /\ \A l \in Range(x) : l \in {x[i] : i \in lo..hi} \/ l \in Range(t)
    /\ \A j \in 1..lo - 1 : t[j] = x[j]

Fewer(t, x, n) == Len(t) = n /\ Range(t) \subseteq Range(x)

\* The cursor goes to the line below the block, ...
LEMMA LeftBelow ==
    ASSUME NEW x \in Seq(Lines), Distinct(x), NEW n \in Nat, n = Len(x),
           NEW lo \in Nat, NEW hi \in Nat, 1 <= lo, lo <= hi, hi < n,
           NEW t, t = Without(x, lo, hi), NEW to, to = x[hi + 1], NEW at, at = lo - 1
    PROVE  /\ Left(t, x, lo, hi, to, at)
           /\ Fewer(t, x, n - (hi - lo + 1))
<1> DEFINE d == hi - lo + 1  block == {x[i] : i \in lo..hi}
<1>1. \A i \in 1..n : x[i] \in Lines /\ x[i] \in Range(x)
  BY RangeIs
<1>2. lo \in 1..Len(x) /\ hi \in lo..Len(x)
  OBVIOUS
<1>3. /\ t \in Seq(Lines) /\ Len(t) = n - d /\ Distinct(t)
      /\ \A i \in 1..n - d : t[i] = IF i < lo THEN x[i] ELSE x[i + d]
      /\ Range(t) = Range(x) \ block
  <2>1. d = hi - lo + 1 /\ block = {x[i] : i \in lo..hi}
    OBVIOUS
  <2> HIDE DEF d, block
  <2>2. CutOut(t, x, lo, d, block)
    BY <1>2, <2>1, CutIs
  <2> QED
    BY <2>2 DEF CutOut
<1>4. /\ hi + 1 \in 1..n /\ hi + 1 \notin lo..hi
      /\ lo \in 1..n - d /\ lo + d = hi + 1 /\ lo - 1 + 1 = lo
      /\ ~ (lo < lo) /\ hi # n /\ lo - 1 \in 0..n - d - 1
      /\ n - d \in 1..n - d /\ ~ (n - d < lo) /\ n - d + d = n
      /\ \A i \in lo..hi : i \in 1..n /\ i # hi + 1
  OBVIOUS
<1>5. t[lo] = x[hi + 1] /\ t[n - d] = x[n]
  BY <1>3, <1>4
<1>6. x[hi + 1] \notin block
  BY <1>4 DEF Distinct
<1>7. t[1] = IF lo = 1 THEN x[hi + 1] ELSE x[1]
  <2>1. CASE lo = 1
    BY <1>5, <2>1
  <2>2. CASE lo # 1
    <3>1. 1 < lo /\ 1 \in 1..n - d
      BY <2>2
    <3> QED
      BY <1>3, <2>2, <3>1
  <2> QED
    BY <2>1, <2>2
<1>8. \A j \in 1..lo - 1 : t[j] = x[j]
  <2>1. \A j \in 1..lo - 1 : j \in 1..n - d /\ j < lo
    OBVIOUS
  <2> QED
    BY <1>3, <2>1
<1> HIDE DEF d, block
<1>9. x[hi + 1] \in Range(t) /\ x[hi + 1] \in Lines
  BY <1>1, <1>3, <1>4, <1>6
<1>10. \A l \in Range(x) : l \in block \/ l \in Range(t)
  BY <1>3
<1> QED
  BY <1>3, <1>4, <1>5, <1>6, <1>7, <1>8, <1>9, <1>10 DEF Left, Fewer, d, block

\* ... or above it, ...
LEMMA LeftAbove ==
    ASSUME NEW x \in Seq(Lines), Distinct(x), NEW n \in Nat, n = Len(x),
           NEW lo \in Nat, NEW hi \in Nat, 1 < lo, lo <= hi, hi = n,
           NEW t, t = Without(x, lo, hi), NEW to, to = x[lo - 1], NEW at, at = lo - 2
    PROVE  /\ Left(t, x, lo, hi, to, at)
           /\ Fewer(t, x, n - (hi - lo + 1))
<1> DEFINE d == hi - lo + 1  block == {x[i] : i \in lo..hi}
<1>1. \A i \in 1..n : x[i] \in Lines /\ x[i] \in Range(x)
  BY RangeIs
<1>2. lo \in 1..Len(x) /\ hi \in lo..Len(x)
  OBVIOUS
<1>3. /\ t \in Seq(Lines) /\ Len(t) = n - d /\ Distinct(t)
      /\ \A i \in 1..n - d : t[i] = IF i < lo THEN x[i] ELSE x[i + d]
      /\ Range(t) = Range(x) \ block
  <2>1. d = hi - lo + 1 /\ block = {x[i] : i \in lo..hi}
    OBVIOUS
  <2> HIDE DEF d, block
  <2>2. CutOut(t, x, lo, d, block)
    BY <1>2, <2>1, CutIs
  <2> QED
    BY <2>2 DEF CutOut
<1>4. /\ lo - 1 \in 1..n /\ lo - 1 \notin lo..hi
      /\ n - d = lo - 1 /\ lo - 2 \in 0..n - d - 1 /\ lo - 2 + 1 = lo - 1
      /\ lo - 1 \in 1..n - d /\ lo - 1 < lo /\ 1 \in 1..n - d /\ 1 < lo
      /\ \A i \in lo..hi : i \in 1..n /\ i # lo - 1
  OBVIOUS
<1>5. t[lo - 1] = x[lo - 1] /\ t[1] = x[1]
  BY <1>3, <1>4
<1>6. x[lo - 1] \notin block
  BY <1>4 DEF Distinct
<1>8. \A j \in 1..lo - 1 : t[j] = x[j]
  <2>1. \A j \in 1..lo - 1 : j \in 1..n - d /\ j < lo
    OBVIOUS
  <2> QED
    BY <1>3, <2>1
<1> HIDE DEF d, block
<1>9. x[lo - 1] \in Range(t) /\ x[lo - 1] \in Lines
  BY <1>1, <1>3, <1>4, <1>6
<1>10. \A l \in Range(x) : l \in block \/ l \in Range(t)
  BY <1>3
<1> QED
  BY <1>3, <1>4, <1>5, <1>6, <1>8, <1>9, <1>10 DEF Left, Fewer, d, block

\* ... or to a new line if none is left.
LEMMA LeftNew ==
    ASSUME NEW x \in Seq(Lines), NEW p \in Lines \ Range(x)
    PROVE  /\ Left(<<p>>, x, 1, Len(x), p, 0) /\ Len(<<p>>) = 1 /\ Range(<<p>>) = {p}
<1> DEFINE t == <<p>>
<1>1. Len(x) \in Nat /\ Range(x) = {x[i] : i \in 1..Len(x)}
  BY RangeIs
<1>2. t \in Seq(Lines) /\ Len(t) = 1 /\ t[1] = p
  OBVIOUS
<1>3. \A i \in 1..1 : i = 1
  OBVIOUS
<1> HIDE DEF t
<1>4. Range(t) = {t[i] : i \in 1..1}
  BY <1>2, RangeIs
<1>5. Range(t) = {p} /\ Distinct(t)
  BY <1>2, <1>3, <1>4 DEF Distinct
<1>6. 0 \in 0..Len(t) - 1 /\ t[0 + 1] = p /\ t[Len(t)] = p
  BY <1>2
<1>7. Left(t, x, 1, Len(x), p, 0)
  <2>1. \A j \in 1..1 - 1 : t[j] = x[j]
    OBVIOUS
  <2>2. p \notin {x[i] : i \in 1..Len(x)} /\ p \in Lines /\ p \in Range(t)
    BY <1>1, <1>5
  <2>3. \A l \in Range(x) : l \in {x[i] : i \in 1..Len(x)} \/ l \in Range(t)
    BY <1>1
  <2> QED
    BY <1>2, <1>5, <1>6, <2>1, <2>2, <2>3 DEF Left
<1> QED
  BY <1>2, <1>5, <1>7 DEF t

\* block_delete, of any block in either direction.
LEMMA BlockDeletedIs ==
    ASSUME NEW E, Sound(E), E.blockln >= 0, NEW p, NEW A, A = BlockDeleted(E, p),
           IF {Row(E, E.currline), Row(E, E.blockline)} = {1, Len(E.text)}
           THEN p \in Unused(E) ELSE p = E.currline
    PROVE  Near(A)
<1> DEFINE c == Row(E, E.currline)  b == Row(E, E.blockline)
           lo == IF E.currln >= E.blockln THEN b ELSE c
           hi == IF E.currln >= E.blockln THEN c ELSE b
           n == Len(E.text)
           block == {E.text[i] : i \in lo..hi}
           count == (IF E.currln > E.blockln THEN E.currln - E.blockln
                     ELSE E.blockln - E.currln) + 1
           ln == IF E.currln > E.blockln THEN E.blockln ELSE E.currln
           to == IF hi < n THEN E.text[hi + 1] ELSE IF lo > 1 THEN E.text[lo - 1] ELSE p
           up == IF hi < n \/ lo = 1 THEN 0 ELSE 1
           none == hi = n /\ lo = 1
           win == E.curr_window_line - (IF E.currln > E.blockln THEN count - 1 ELSE 0)
                                     - (IF hi < n THEN 0 ELSE 1)
           t == IF none THEN <<p>> ELSE Without(E.text, lo, hi)
           L == [E.len EXCEPT ![p] = IF none THEN 0 ELSE @]
           tot == E.totaln - count + IF none THEN 1 ELSE 0
           at == ln - up
           E0 == [E EXCEPT !.text = IF none THEN <<p>>
                                    ELSE SubSeq(@, 1, lo - 1) \o SubSeq(@, hi + 1, n),
                           !.len[p] = IF none THEN 0 ELSE @,
                           !.totaln = @ - count + IF none THEN 1 ELSE 0,
                           !.currln = ln - up,
                           !.currline = to]
           E1 == Adjusted(E0, to, WRAPMARGIN)
           E2 == [E1 EXCEPT !.firstline = IF lo = 1 THEN to ELSE @,
                            !.lastline = IF hi = n THEN to ELSE @,
                            !.curr_window_line = IF win <= 0 THEN 0 ELSE win,
                            !.top_of_win = IF win <= 0 THEN to ELSE @,
                            !.oldcurrline = IF @ \in block THEN NoLine ELSE @,
                            !.currpnt = 0]
<1>1. A = block_cancel(E2)
  BY ZenonT(60) DEF BlockDeleted
<1>12. E0 = [E EXCEPT !.text = t, !.len = L, !.totaln = tot, !.currln = at, !.currline = to]
  BY DEF Without
<1> HIDE DEF E0
<1>2. /\ E \in Buffer /\ Base(E) /\ Listed(E) /\ Lengths(E) /\ Selected(E)
      /\ E.text \in Seq(Lines) /\ n \in Nat /\ Distinct(E.text)
      /\ E.currln \in Nat /\ c = E.currln + 1 /\ E.currln + 1 \in 1..n
      /\ E.currline \in Lines /\ E.currline \in Range(E.text)
      /\ E.curr_window_line \in Nat /\ E.curr_window_line <= E.currln
      /\ E.text[E.currln - E.curr_window_line + 1] = E.top_of_win
      /\ WRAPMARGIN \in Nat /\ WRAPMARGIN >= 2
  BY SoundIs
<1>3. E.totaln = n - 1 /\ E.firstline = E.text[1] /\ E.lastline = E.text[n]
      /\ n >= 1 /\ E.top_of_win \in Lines /\ E.firstline \in Lines /\ E.lastline \in Lines
      /\ E.len \in [Lines -> 0..WRAPMARGIN] /\ E.mlength \in [Lines -> 0..WRAPMARGIN]
  BY <1>2, TextOf, FieldsOf
<1>4. E.blockln \in Nat /\ E.blockln + 1 \in 1..n /\ b = E.blockln + 1
  <2>1. E.blockln \in 0..n - 1 /\ E.text[E.blockln + 1] = E.blockline
    <3>1. ~ (E.blockln < 0)
      BY <1>2, FieldsOf
    <3> QED
      BY <1>2, <3>1 DEF Selected
  <2>2. E.blockln \in Nat /\ E.blockln + 1 \in 1..n
    BY <1>2, <2>1
  <2>3. Row(E, E.text[E.blockln + 1]) = E.blockln + 1
    BY <1>2, <2>2, RowIs
  <2> QED
    BY <2>1, <2>2, <2>3
<1>5. {c, b} = {1, n} <=> none
  <2>1. c \in 1..n /\ b \in 1..n /\ (E.currln >= E.blockln <=> c >= b) /\ n \in Nat
    BY <1>2, <1>4
  <2> HIDE DEF c, b, n
  <2>2. {c, b} = {1, n} <=> (c = 1 /\ b = n) \/ (c = n /\ b = 1)
    OBVIOUS
  <2>3. CASE E.currln >= E.blockln
    <3>1. c >= b /\ lo = b /\ hi = c
      BY <2>1, <2>3
    <3> HIDE DEF lo, hi
    <3> QED
      BY <2>1, <2>2, <3>1
  <2>4. CASE ~ (E.currln >= E.blockln)
    <3>1. ~ (c >= b) /\ lo = c /\ hi = b
      BY <2>1, <2>4
    <3> HIDE DEF lo, hi
    <3> QED
      BY <2>1, <2>2, <3>1
  <2> QED
    BY <2>3, <2>4
<1>6. IF none THEN p \in Unused(E) ELSE p = E.currline
  BY <1>5
<1> HIDE DEF c, b
<1>7. /\ lo \in Nat /\ hi \in Nat /\ 1 <= lo /\ lo <= hi /\ hi <= n
      /\ count = hi - lo + 1 /\ ln = lo - 1
      /\ (E.currln > E.blockln => hi = E.currln + 1)
      /\ (~ (E.currln > E.blockln) => lo = E.currln + 1)
      /\ win = E.curr_window_line - (IF E.currln > E.blockln THEN hi - lo ELSE 0)
                                  - (IF hi < n THEN 0 ELSE 1)
  <2>1. CASE E.currln > E.blockln
    <3>1. lo = E.blockln + 1 /\ hi = E.currln + 1 /\ ln = E.blockln
          /\ count = E.currln - E.blockln + 1 /\ E.currln >= E.blockln
      BY <1>2, <1>4, <2>1
    <3>3. win = E.curr_window_line - (count - 1) - (IF hi < n THEN 0 ELSE 1)
      BY <2>1
    <3> HIDE DEF lo, hi, count, ln, win, n
    <3>2. count - 1 = hi - lo /\ ln = lo - 1 /\ count = hi - lo + 1
      <4> DEFINE x == E.currln  y == E.blockln
      <4>1. x \in Nat /\ y \in Nat /\ lo = y + 1 /\ hi = x + 1 /\ ln = y /\ count = x - y + 1
        BY <1>2, <1>4, <3>1
      <4> HIDE DEF x, y
      <4> QED
        BY <4>1
    <3>4. lo \in Nat /\ hi \in Nat /\ 1 <= lo /\ lo <= hi /\ hi <= n
      BY <1>2, <1>4, <2>1, <3>1
    <3> QED
      BY <2>1, <3>1, <3>2, <3>3, <3>4
  <2>2. CASE ~ (E.currln > E.blockln)
    <3>1. /\ lo = E.currln + 1 /\ hi = E.blockln + 1 /\ ln = E.currln
          /\ count = E.blockln - E.currln + 1
      BY <1>2, <1>4, <2>2
    <3>3. win = E.curr_window_line - 0 - (IF hi < n THEN 0 ELSE 1)
      BY <2>2
    <3> HIDE DEF lo, hi, count, ln, win, n
    <3>2. ln = lo - 1 /\ count = hi - lo + 1
      <4> DEFINE x == E.currln  y == E.blockln
      <4>1. x \in Nat /\ y \in Nat /\ lo = x + 1 /\ hi = y + 1 /\ ln = x /\ count = y - x + 1
        BY <1>2, <1>4, <3>1
      <4> HIDE DEF x, y
      <4> QED
        BY <4>1
    <3>4. lo \in Nat /\ hi \in Nat /\ 1 <= lo /\ lo <= hi /\ hi <= n
      BY SMTT(60), <1>2, <1>4, <2>2, <3>1
    <3> QED
      BY <2>2, <3>1, <3>2, <3>3, <3>4
  <2> QED
    BY <2>1, <2>2
<1> HIDE DEF lo, hi, count, ln, win, n
<1>8. /\ Left(t, E.text, lo, hi, to, at) /\ Len(t) = tot + 1 /\ at \in Nat /\ tot \in Nat
      /\ \A l \in Range(t) : l \in Range(E.text) \/ (none /\ l = p)
  <2>1. CASE hi < n
    <3>1. to = E.text[hi + 1] /\ up = 0 /\ ~ none /\ at = lo - 1 /\ t = Without(E.text, lo, hi)
      BY <1>7, <2>1
    <3>2. tot = n - 1 - (hi - lo + 1)
      BY <1>2, <1>3, <1>7, <3>1
    <3>5. lo \in Nat /\ hi \in Nat /\ n \in Nat /\ 1 <= lo /\ lo <= hi /\ hi < n
      BY <1>2, <1>7, <2>1
    <3> HIDE DEF to, up, none, at, t, tot
    <3>3. /\ Left(t, E.text, lo, hi, to, at)
          /\ Len(t) = n - (hi - lo + 1) /\ Range(t) \subseteq Range(E.text)
      <4> DEFINE x == E.text
      <4>1. /\ x \in Seq(Lines) /\ Distinct(x) /\ n = Len(x) /\ t = Without(x, lo, hi)
            /\ to = x[hi + 1] /\ at = lo - 1
        BY <1>2, <3>1 DEF n
      <4> HIDE DEF x
      <4>2. /\ Left(t, x, lo, hi, to, at)
            /\ Fewer(t, x, n - (hi - lo + 1))
        BY <3>5, <4>1, LeftBelow
      <4> QED
        BY <4>2 DEF x, Fewer
    <3>4. Len(t) = tot + 1 /\ at \in Nat /\ tot \in Nat
      BY <3>1, <3>2, <3>3, <3>5
    <3> QED
      BY <3>1, <3>3, <3>4
  <2>2. CASE hi = n /\ lo > 1
    <3>1. /\ to = E.text[lo - 1] /\ up = 1 /\ ~ none /\ at = lo - 2
          /\ t = Without(E.text, lo, hi)
      <4>1. ~ (hi < n) /\ lo # 1
        BY <1>2, <1>7, <2>2
      <4>2. up = 1 /\ ~ none /\ to = E.text[lo - 1] /\ t = Without(E.text, lo, hi)
        BY <2>2, <4>1
      <4> HIDE DEF up
      <4>3. at = lo - 2
        BY <1>7, <4>2
      <4> QED
        BY <4>2, <4>3
    <3>2. tot = n - 1 - (hi - lo + 1)
      BY <1>2, <1>3, <1>7, <3>1
    <3>5. lo \in Nat /\ hi \in Nat /\ n \in Nat /\ 1 < lo /\ lo <= hi /\ hi = n
      BY <1>2, <1>7, <2>2
    <3> HIDE DEF to, up, none, at, t, tot
    <3>3. /\ Left(t, E.text, lo, hi, to, at)
          /\ Len(t) = n - (hi - lo + 1) /\ Range(t) \subseteq Range(E.text)
      <4> DEFINE x == E.text
      <4>1. /\ x \in Seq(Lines) /\ Distinct(x) /\ n = Len(x) /\ t = Without(x, lo, hi)
            /\ to = x[lo - 1] /\ at = lo - 2
        BY <1>2, <3>1 DEF n
      <4> HIDE DEF x
      <4>2. /\ Left(t, x, lo, hi, to, at)
            /\ Fewer(t, x, n - (hi - lo + 1))
        BY <3>5, <4>1, LeftAbove
      <4> QED
        BY <4>2 DEF x, Fewer
    <3>4. Len(t) = tot + 1 /\ at \in Nat /\ tot \in Nat
      BY <3>1, <3>2, <3>3, <3>5
    <3> QED
      BY <3>1, <3>3, <3>4
  <2>3. CASE hi = n /\ lo = 1
    <3>1. to = p /\ up = 0 /\ none /\ at = 0 /\ t = <<p>> /\ p \in Unused(E)
      BY <1>2, <1>6, <1>7, <2>3
    <3>2. tot = 0
      BY <1>2, <1>3, <1>7, <2>3, <3>1
    <3> HIDE DEF to, up, none, at, t, tot
    <3>3. p \in Lines \ Range(E.text)
      BY <3>1 DEF Unused
    <3>4. Left(t, E.text, lo, hi, p, 0) /\ Len(t) = 1 /\ Range(t) = {p}
      BY <1>2, <2>3, <3>1, <3>3, LeftNew DEF n
    <3> QED
      BY <3>1, <3>2, <3>4
  <2> QED
    BY SMTT(60), <1>2, <1>7, <2>1, <2>2, <2>3
<1>9. /\ L \in [Lines -> 0..WRAPMARGIN] /\ \A l \in Lines : L[l] = IF none /\ l = p THEN 0 ELSE E.len[l]
      /\ p \in Lines
  <2>1. p \in Lines
    BY <1>2, <1>6 DEF Unused
  <2>2. 0 \in 0..WRAPMARGIN
    BY <1>2
  <2> HIDE DEF none
  <2> QED
    BY <1>3, <2>1, <2>2
<1>10. CASE win <= 0 \/ win > 0
  <2> HIDE DEF to, none, t, L, tot, at, E0, E1, E2, up
  <2>1. to \in Lines /\ t \in Seq(Lines)
    BY <1>8 DEF Left
  <2>2. /\ E0 \in Buffer /\ E0.text = t /\ E0.len = L /\ E0.totaln = tot /\ E0.currln = at
        /\ E0.currline = to /\ E0.mlength = E.mlength /\ E0.firstline = E.firstline
        /\ E0.lastline = E.lastline /\ E0.deleted_line = E.deleted_line
        /\ E0.oldcurrline = E.oldcurrline /\ SameBlock(E0, E) /\ SameWindow(E0, E)
    <3>1. E0 \in Buffer
      BY <1>2, <1>8, <1>9, <1>12, <2>1 DEF Buffer
    <3> QED
      BY ZenonT(60), <1>2, <1>12, <3>1 DEF Buffer, SameBlock, SameWindow
  <2>3. /\ E1 \in Buffer /\ E1.text = t /\ E1.len = L /\ E1.totaln = tot /\ E1.currln = at
        /\ E1.currline = to /\ E1.mlength = [E.mlength EXCEPT ![to] = WRAPMARGIN]
        /\ E1.firstline = E.firstline
        /\ E1.lastline = E.lastline /\ E1.deleted_line = E.deleted_line
        /\ E1.oldcurrline \in {to, E.oldcurrline} /\ E1.oldcurrline # NoLine
        /\ SameBlock(E1, E) /\ SameWindow(E1, E)
    <3>1. WRAPMARGIN \in 0..WRAPMARGIN
      BY <1>2
    <3>2. /\ E1 \in Buffer /\ E1.text = E0.text /\ E1.len = E0.len /\ E1.totaln = E0.totaln
          /\ SameCursor(E1, E0) /\ E1.mlength = [E0.mlength EXCEPT ![to] = WRAPMARGIN]
          /\ E1.firstline = E0.firstline
          /\ E1.lastline = E0.lastline /\ E1.deleted_line = E0.deleted_line
          /\ E1.oldcurrline = LET old == IF E0.oldcurrline = to THEN NoLine ELSE E0.oldcurrline
                              IN IF old = NoLine /\ WRAPMARGIN = WRAPMARGIN
                                 THEN E0.currline ELSE old
          /\ SameBlock(E1, E0) /\ SameWindow(E1, E0)
      BY <2>1, <2>2, <3>1, AdjustedIs DEF E1
    <3>3. to # NoLine
      BY <2>1, EditAssumption
    <3> QED
      BY <2>2, <3>2, <3>3 DEF SameBlock, SameWindow, SameCursor
  <2>4. /\ E2 \in Buffer /\ E2.text = t /\ E2.len = L /\ E2.totaln = tot /\ E2.currln = at
        /\ E2.currline = to /\ E2.mlength = [E.mlength EXCEPT ![to] = WRAPMARGIN]
        /\ E2.firstline = (IF lo = 1 THEN to ELSE E.firstline)
        /\ E2.lastline = (IF hi = n THEN to ELSE E.lastline)
        /\ E2.deleted_line = E.deleted_line
        /\ E2.oldcurrline = (IF E1.oldcurrline \in block THEN NoLine ELSE E1.oldcurrline)
        /\ SameBlock(E2, E) /\ E2.currpnt = 0
        /\ E2.curr_window_line = (IF win <= 0 THEN 0 ELSE win)
        /\ E2.top_of_win = (IF win <= 0 THEN to ELSE E.top_of_win)
    <3> HIDE DEF block
    <3>1. /\ E2.text = t /\ E2.len = L /\ E2.totaln = tot /\ E2.currln = at
          /\ E2.currline = to /\ E2.mlength = E1.mlength
          /\ E2.firstline = (IF lo = 1 THEN to ELSE E1.firstline)
          /\ E2.lastline = (IF hi = n THEN to ELSE E1.lastline)
          /\ E2.deleted_line = E1.deleted_line
          /\ E2.oldcurrline = (IF E1.oldcurrline \in block THEN NoLine ELSE E1.oldcurrline)
          /\ SameBlock(E2, E1) /\ E2.currpnt = 0
          /\ E2.curr_window_line = (IF win <= 0 THEN 0 ELSE win)
          /\ E2.top_of_win = (IF win <= 0 THEN to ELSE E1.top_of_win)
      BY <2>3 DEF E2, Buffer, SameBlock
    <3>2. /\ E2.firstline \in Lines /\ E2.lastline \in Lines /\ E2.top_of_win \in Lines
          /\ E2.oldcurrline \in Lines \cup {NoLine} /\ E2.currpnt \in 0..WRAPMARGIN
          /\ E2.curr_window_line \in Int
      <4>1. /\ E1.firstline \in Lines /\ E1.lastline \in Lines /\ E1.top_of_win \in Lines
            /\ E1.oldcurrline \in Lines \cup {NoLine}
        BY <2>3, FieldsOf
      <4>2. win \in Int
        BY <1>2, <1>7
      <4> QED
        BY <1>2, <2>1, <3>1, <4>1, <4>2
    <3>3. E2 \in Buffer
      BY ZenonT(60), <2>3, <3>2 DEF E2, Buffer
    <3> QED
      BY <2>3, <3>1, <3>3 DEF SameBlock, SameWindow
  <2>5. /\ A \in Buffer /\ SameText(A, E2) /\ SameCursor(A, E2) /\ SameWindow(A, E2)
        /\ A.blockln < 0 /\ A.blockline = NoLine
    <3>1. A = [E2 EXCEPT !.blockln = -1, !.blockline = NoLine]
      BY <1>1, <2>4 DEF block_cancel, SameBlock
    <3>2. A.blockln = -1 /\ A.blockline = NoLine
      BY <2>4, <3>1 DEF Buffer
    <3>3. A \in Buffer
      BY ZenonT(60), <2>4, <3>1 DEF Buffer
    <3>4. SameText(A, E2) /\ SameCursor(A, E2) /\ SameWindow(A, E2)
      <4> HIDE DEF E2
      <4> QED
        BY <2>4, <3>1 DEF Buffer, SameText, SameCursor, SameWindow
    <3> QED
      BY <3>2, <3>3, <3>4
  <2>6. Listed(A)
    <3>1. A.totaln = Len(t) - 1 /\ Len(t) >= 1
      BY <1>8, <2>4, <2>5 DEF SameText
    <3>2. t[1] = A.firstline /\ t[Len(t)] = A.lastline /\ Distinct(t)
      BY <1>3, <1>8, <2>4, <2>5 DEF Left, SameText, n
    <3>3. A.deleted_line \notin Range(t)
      BY <1>2, <1>6, <1>8, <2>4, <2>5 DEF SameText, Listed, Unused
    <3>4. A.oldcurrline \in Range(t) \cup {NoLine}
      <4>1. A.oldcurrline = IF E1.oldcurrline \in block THEN NoLine ELSE E1.oldcurrline
        BY <2>4, <2>5 DEF SameText
      <4>2. E1.oldcurrline \in Range(E.text) \/ E1.oldcurrline = to
        BY <1>2, <2>3 DEF Listed
      <4> QED
        BY <1>8, <4>1, <4>2 DEF Left
    <3> QED
      BY <2>4, <2>5, <3>1, <3>2, <3>3, <3>4 DEF Listed, SameText
  <2>7. Lengths(A)
    <3>1. \A l \in Lines : A.mlength[l] = IF l = to THEN WRAPMARGIN ELSE E.mlength[l]
      BY <1>3, <2>1, <2>4, <2>5 DEF SameText
    <3>2. \A l \in Lines : A.len[l] = IF none /\ l = p THEN 0 ELSE E.len[l]
      BY <1>9, <2>4, <2>5 DEF SameText
    <3>3. ASSUME NEW l \in Range(t) PROVE A.len[l] <= A.mlength[l] /\ A.len[l] < WRAPMARGIN
      <4>1. l \in Lines
        BY <2>1, <3>3, RangeIs
      <4>2. E.len[l] \in 0..WRAPMARGIN /\ E.mlength[l] \in 0..WRAPMARGIN
        BY <1>3, <4>1
      <4>3. CASE none /\ l = p
        BY SMTT(60), <1>2, <3>1, <3>2, <4>1, <4>2, <4>3
      <4>4. CASE l \in Range(E.text) /\ ~ (none /\ l = p)
        BY SMTT(60), <1>2, <3>1, <3>2, <4>1, <4>2, <4>4 DEF Lengths
      <4> QED
        BY <1>8, <4>3, <4>4
    <3>4. A.deleted_line # NoLine => A.len[A.deleted_line] < WRAPMARGIN
      <4>1. A.deleted_line = E.deleted_line /\ E.deleted_line \in Lines \cup {NoLine}
        BY <1>2, <2>4, <2>5, FieldsOf DEF SameText
      <4> QED
        BY <1>2, <3>2, <4>1 DEF Lengths
    <3>5. A.oldcurrline # NoLine => A.mlength[A.oldcurrline] = WRAPMARGIN
      <4>1. A.oldcurrline # NoLine => A.oldcurrline \in {to, E.oldcurrline}
        BY <2>3, <2>4, <2>5 DEF SameText
      <4>2. E.oldcurrline \in Lines \cup {NoLine}
        BY <1>2, FieldsOf
      <4> QED
        BY <1>2, <2>1, <3>1, <4>1, <4>2 DEF Lengths
    <3> QED
      BY <2>4, <2>5, <3>3, <3>4, <3>5 DEF Lengths, SameText
  <2>8. Base(A)
    BY <2>5, <2>6, <2>7 DEF Base, Selected
  <2>9. CursorAt(A)
    <3>1. A.len[to] \in Nat
      BY <2>1, <2>5, FieldsOf, EditAssumption
    <3> QED
      BY <1>8, <2>4, <2>5, <3>1 DEF CursorAt, Left, SameText, SameCursor
  <2>10. WindowAt(A)
    <3>1. /\ A.currln = at /\ A.text = t
          /\ A.curr_window_line = (IF win <= 0 THEN 0 ELSE win)
          /\ A.top_of_win = (IF win <= 0 THEN to ELSE E.top_of_win)
      BY <2>4, <2>5 DEF SameText, SameCursor, SameWindow
    <3>2. CASE win <= 0
      <4>1. at - 0 + 1 = at + 1 /\ 0 \in 0..at
        BY <1>8
      <4> QED
        BY <1>8, <3>1, <3>2, <4>1 DEF WindowAt, Left
    <3>3. CASE win > 0
      <4> DEFINE j == E.currln - E.curr_window_line + 1
      <4>1. at - win + 1 = j /\ win \in 0..at /\ j \in 1..lo - 1
        <5>1. at = lo - 1 - (IF hi < n THEN 0 ELSE 1) /\ ~ (hi = n /\ lo = 1)
          <6>1. ~ (hi = n /\ lo = 1)
            BY <1>2, <1>7, <3>3
          <6>2. up = IF hi < n THEN 0 ELSE 1
            BY <1>2, <1>7, <6>1 DEF up
          <6> QED
            BY <1>7, <6>1, <6>2 DEF at
        <5>2. CASE E.currln > E.blockln
          <6> DEFINE w == E.curr_window_line  x == IF hi < n THEN 0 ELSE 1
          <6>1. /\ win = w - (hi - lo) - x /\ hi = E.currln + 1 /\ at = lo - 1 - x
                /\ j = E.currln - w + 1 /\ x \in 0..1 /\ w \in Nat /\ w <= E.currln
            BY <1>2, <1>7, <5>1, <5>2
          <6> DEFINE y == E.currln
          <6>4. /\ win = w - (hi - lo) - x /\ hi = y + 1 /\ at = lo - 1 - x
                /\ j = y - w + 1 /\ x \in 0..1 /\ w \in Nat /\ w <= y /\ y \in Nat
                /\ lo \in Nat /\ hi \in Nat /\ lo <= hi
            BY <1>2, <1>7, <6>1
          <6> HIDE DEF w, x, j, y
          <6>2. at - win + 1 = j /\ win \in Nat
            BY SMTT(60), <3>3, <6>4
          <6>3. j \in Nat /\ j >= 1 /\ j <= lo - 1 /\ win <= at
            BY <3>3, <6>4, <6>2
          <6> QED
            BY <6>4, <6>2, <6>3
        <5>3. CASE ~ (E.currln > E.blockln)
          BY SMTT(60), <1>2, <1>7, <3>3, <5>1, <5>3
        <5> QED
          BY <5>2, <5>3
      <4>2. t[j] = E.text[j] /\ E.text[j] = E.top_of_win
        BY <1>2, <1>8, <4>1 DEF Left
      <4> HIDE DEF j
      <4>3. ~ (win <= 0)
        BY <3>3, <4>1
      <4> QED
        BY <3>1, <4>1, <4>2, <4>3 DEF WindowAt
    <3> QED
      BY <1>10, <3>2, <3>3
  <2> QED
    BY <2>8, <2>9, <2>10 DEF Near
<1>11. win \in Int
  BY <1>2, <1>7
<1> HIDE DEF c, b, lo, hi, n, block, count, ln, to, up, none, win, t, L, tot, at, E0, E1, E2
<1>13. win <= 0 \/ win > 0
  BY <1>11
<1> QED
  BY ZenonT(60), <1>10, <1>13

-----------------------------------------------------------------------------
(* Typing                                                                  *)

\* Cancelling a block leaves room and window as they were.
LEMMA CancelSound ==
    ASSUME NEW E, Sound(E), NEW A, A = block_cancel(E)
    PROVE  /\ Sound(A) /\ A.blockln < 0 /\ SameText(A, E) /\ SameCursor(A, E)
           /\ SameWindow(A, E) /\ SameScreen(A, E)
           /\ (Roomy(E) => Roomy(A)) /\ (Visible(E) => Visible(A))
<1>1. Base(E) /\ CursorAt(E) /\ WindowAt(E)
  BY DEF Sound
<1>2. /\ Base(A) /\ A.blockln < 0 /\ SameText(A, E) /\ SameCursor(A, E)
      /\ SameWindow(A, E) /\ SameScreen(A, E)
  BY <1>1, CancelIs
<1>3. CursorAt(A) /\ WindowAt(A)
  BY <1>1, <1>2 DEF CursorAt, WindowAt, SameText, SameCursor, SameWindow
<1>4. Roomy(E) => Roomy(A)
  BY <1>2 DEF Roomy, SameText, SameCursor
<1>5. Visible(E) => Visible(A)
  BY <1>2 DEF Visible, visible_window_height, SameScreen, SameWindow
<1> QED
  BY <1>2, <1>3, <1>4, <1>5 DEF Sound

\* split at the cursor
LEMMA SplitHere ==
    ASSUME NEW E, Sound(E), Roomy(E), E.blockln < 0, NEW p \in Unused(E),
           NEW rest \in Nat, NEW indent \in Nat, rest + indent < WRAPMARGIN,
           NEW A, A = split(E, E.currline, E.currpnt, rest, indent, p)
    PROVE  Sound(A) /\ Roomy(A) /\ Visible(A) /\ A.blockln < 0 /\ SameScreen(A, E)
<1> DEFINE i == E.currln + 1  pos == E.currpnt
<1>1. /\ E \in Buffer /\ Listed(E) /\ Selected(E) /\ WindowAt(E) /\ Lengths(E)
      /\ E.currln \in 0..Len(E.text) - 1 /\ E.text[E.currln + 1] = E.currline
      /\ i \in E.currln + 1..Len(E.text) /\ E.text[i] = E.currline
      /\ pos \in 0..WRAPMARGIN - 1 /\ pos <= E.mlength[E.currline]
  <2>1. /\ E \in Buffer /\ Listed(E) /\ Selected(E) /\ WindowAt(E) /\ Lengths(E) /\ CursorAt(E)
        /\ Len(E.text) \in Nat /\ E.currln \in Nat /\ i \in 1..Len(E.text)
        /\ E.currline \in Range(E.text) /\ E.len[E.currline] \in Nat
        /\ E.len[E.currline] < WRAPMARGIN /\ pos \in Nat /\ pos <= E.len[E.currline]
        /\ E.text[i] = E.currline /\ WRAPMARGIN \in Nat
    BY SoundIs
  <2>2. E.currln \in 0..Len(E.text) - 1 /\ i \in E.currln + 1..Len(E.text)
    BY <2>1
  <2>3. pos \in 0..WRAPMARGIN - 1 /\ pos <= E.mlength[E.currline]
    BY <2>1 DEF Roomy
  <2> QED
    BY <2>1, <2>2, <2>3
<1>2. LengthsBut(E, E.text[i])
  BY <1>1 DEF LengthsBut, Lengths
<1>3. A = split(E, E.text[i], pos, rest, indent, p)
  BY <1>1
<1>7. i = E.currln + 1 /\ pos = E.currpnt /\ pos <= E.mlength[E.text[i]]
  BY <1>1
<1> HIDE DEF i, pos
<1>4. Divided(A, E, i, pos, rest, indent, p)
  BY <1>1, <1>2, <1>3, <1>7, SplitIs
<1>5. pos <= E.currpnt
  BY <1>1, <1>7
<1>6. A.currline = p /\ Roomy(A) /\ Visible(A)
  BY <1>4, <1>5, <1>7 DEF Divided
<1> QED
  BY <1>4, <1>6 DEF Divided

\* A line gets another length.
LEMMA LenSet ==
    ASSUME NEW E, Sound(E), NEW l \in Range(E.text), NEW k \in 0..WRAPMARGIN - 1,
           k <= E.mlength[l], l = E.currline => E.currpnt <= k,
           NEW A, A = [E EXCEPT !.len[l] = k]
    PROVE  /\ Sound(A) /\ A.mlength = E.mlength /\ SameBlock(A, E) /\ SameCursor(A, E)
           /\ SameWindow(A, E) /\ SameScreen(A, E)
<1> DEFINE L == [E.len EXCEPT ![l] = k]
<1>1. /\ E \in Buffer /\ Listed(E) /\ Lengths(E) /\ Selected(E) /\ CursorAt(E) /\ WindowAt(E)
      /\ E.currline \in Lines /\ E.currpnt \in Nat /\ E.currpnt <= E.len[E.currline]
      /\ E.len[E.currline] \in Nat
      /\ WRAPMARGIN \in Nat /\ E.text \in Seq(Lines)
  BY SoundIs
<1>2. l \in Lines /\ E.len \in [Lines -> 0..WRAPMARGIN] /\ k \in Nat /\ k < WRAPMARGIN
      /\ k \in 0..WRAPMARGIN
  BY SMTT(60), <1>1, FieldsOf, RangeIs
<1>3. /\ L \in [Lines -> 0..WRAPMARGIN] /\ L[l] = k
      /\ \A x \in Lines \ {l} : L[x] = E.len[x]
  BY <1>2
<1>4. A = [E EXCEPT !.len = L]
  OBVIOUS
<1> HIDE DEF L
<1>5. /\ A.len = L /\ A.text = E.text /\ A.mlength = E.mlength
      /\ A.firstline = E.firstline /\ A.lastline = E.lastline /\ A.totaln = E.totaln
      /\ A.deleted_line = E.deleted_line /\ A.oldcurrline = E.oldcurrline
      /\ SameBlock(A, E) /\ SameCursor(A, E) /\ SameWindow(A, E) /\ SameScreen(A, E)
  BY <1>1, <1>4 DEF Buffer, SameBlock, SameCursor, SameWindow, SameScreen
<1>6. A \in Buffer
  BY ZenonT(60), <1>1, <1>3, <1>4 DEF Buffer
<1>7. Listed(A)
  BY <1>1, <1>5 DEF Listed
<1>8. Lengths(A)
  <2>1. ASSUME NEW x \in Range(A.text) PROVE A.len[x] <= A.mlength[x] /\ A.len[x] < WRAPMARGIN
    <3>1. x \in Range(E.text) /\ x \in Lines
      BY <1>1, <1>5, <2>1, RangeIs
    <3>2. CASE x = l
      BY <1>2, <1>3, <1>5, <3>2
    <3>3. CASE x # l
      BY <1>1, <1>3, <1>5, <3>1, <3>3 DEF Lengths
    <3> QED
      BY <3>2, <3>3
  <2>2. ASSUME A.deleted_line # NoLine PROVE A.len[A.deleted_line] < WRAPMARGIN
    <3>1. A.deleted_line = E.deleted_line /\ E.deleted_line \in Lines /\ E.deleted_line # l
      BY <1>1, <1>5, <2>2, FieldsOf DEF Listed
    <3> QED
      BY <1>1, <1>3, <1>5, <2>2, <3>1 DEF Lengths
  <2> QED
    BY <1>1, <1>5, <2>1, <2>2 DEF Lengths
<1>9. Selected(A)
  BY <1>1, <1>5 DEF Selected, SameBlock
<1>10. CursorAt(A)
  <2>1. E.currpnt \in 0..L[E.currline]
    BY <1>1, <1>2, <1>3
  <2> QED
    BY <1>1, <1>5, <2>1 DEF CursorAt, SameCursor
<1>11. WindowAt(A)
  BY <1>1, <1>5 DEF WindowAt, SameCursor, SameWindow
<1> QED
  BY <1>5, <1>6, <1>7, <1>8, <1>9, <1>10, <1>11 DEF Sound, Base

\* What typing keeps: there is room to go on, and the window is as good as before.
Typed(A, E) ==
    /\ Sound(A) /\ Roomy(A) /\ A.blockln < 0 /\ SameScreen(A, E)
    /\ Visible(A) \/ SameWindow(A, E)

\* A full line breaks: the cursor goes along or stays, and a space may be added to what follows.
LEMMA WrappedIs ==
    ASSUME NEW E, Sound(E), Roomy(E), E.blockln < 0, E.len[E.currline] + 1 = WRAPMARGIN,
           NEW E1, Filled(E1, E, WRAPMARGIN, E.currpnt + 1),
           NEW w \in Breaks, NEW p \in Unused(E), NEW A, A = Wrapped(E1, w, p)
    PROVE  Typed(A, E)
<1> DEFINE i == E.currln + 1  pos == w.pos  rest == w.rest
           S == split(E1, E1.currline, pos, rest, 0, p)
           S2 == IF w.word /\ p # S.currline THEN Adjusted(S, p, S.len[p] + 1) ELSE S
<1>1. /\ E \in Buffer /\ Listed(E) /\ Lengths(E) /\ Selected(E) /\ CursorAt(E) /\ WindowAt(E)
      /\ E.currline \in Lines /\ E.currline \in Range(E.text)
      /\ E.currln \in Nat /\ Len(E.text) \in Nat /\ E.text \in Seq(Lines) /\ Distinct(E.text)
      /\ i \in 1..Len(E.text) /\ E.text[i] = E.currline
      /\ WRAPMARGIN \in Nat /\ WRAPMARGIN >= 2
  BY SoundIs
<1>2. /\ pos \in Nat /\ pos \in 0..WRAPMARGIN - 1 /\ rest \in Nat /\ 0 \in Nat
      /\ rest + 0 < WRAPMARGIN /\ pos <= WRAPMARGIN /\ rest + 0 = rest
      /\ w.word \in BOOLEAN /\ w.blank \in BOOLEAN
      /\ (w.word => rest + 1 < WRAPMARGIN) /\ (w.blank => w.word)
  <2>1. /\ pos \in 1..WRAPMARGIN - 1 /\ rest \in 0..WRAPMARGIN /\ w.word \in BOOLEAN
        /\ w.blank \in BOOLEAN
        /\ IF w.word THEN pos >= 2 /\ rest = WRAPMARGIN - pos
           ELSE pos = WRAPMARGIN - 1 /\ rest <= 1 /\ ~ w.blank
    BY DEF Breaks
  <2> HIDE DEF pos, rest
  <2>2. pos \in Nat /\ rest \in Nat /\ pos < WRAPMARGIN
    BY <1>1, <2>1
  <2>3. rest < WRAPMARGIN /\ (w.word => rest + 1 < WRAPMARGIN) /\ (w.blank => w.word)
    BY <1>1, <2>1, <2>2
  <2> QED
    BY <1>1, <2>1, <2>2, <2>3
<1>3. p \in Lines /\ p \notin Range(E.text) /\ p # E.currline
  BY <1>1 DEF Unused
<1>4. /\ E1 \in Buffer /\ E1.text = E.text /\ E1.mlength = E.mlength /\ E1.currline = E.currline
      /\ E1.currln = E.currln /\ E1.deleted_line = E.deleted_line /\ E1.blockln < 0
      /\ E1.oldcurrline = E.oldcurrline /\ SameBlock(E1, E) /\ SameWindow(E1, E)
      /\ SameScreen(E1, E) /\ E1.firstline = E.firstline /\ E1.lastline = E.lastline
      /\ E1.totaln = E.totaln
      /\ E1.len = [E.len EXCEPT ![E.currline] = WRAPMARGIN]
  BY DEF Filled, SameBlock
<1>5. Listed(E1) /\ Selected(E1) /\ WindowAt(E1) /\ p \in Unused(E1)
      /\ E1.currln \in 0..Len(E1.text) - 1 /\ E1.text[E1.currln + 1] = E1.currline
  <2>1. Listed(E1) /\ Selected(E1)
    BY <1>1, <1>4 DEF Listed, Selected, SameBlock
  <2>2. WindowAt(E1) /\ E1.currln \in 0..Len(E1.text) - 1
        /\ E1.text[E1.currln + 1] = E1.currline
    BY <1>1, <1>4 DEF WindowAt, CursorAt, SameWindow
  <2> QED
    BY <1>4, <2>1, <2>2 DEF Unused
<1>6. LengthsBut(E1, E1.currline)
  <2>1. \A l \in Lines \ {E.currline} : E1.len[l] = E.len[l]
    BY <1>1, <1>4, FieldsOf
  <2>2. \A l \in Range(E.text) : l \in Lines
    BY <1>1, RangeIs
  <2>3. E.deleted_line # NoLine => E.deleted_line \in Lines \ {E.currline}
    BY <1>1, FieldsOf DEF Listed
  <2> QED
    BY <1>1, <1>4, <2>1, <2>2, <2>3 DEF LengthsBut, Lengths
<1> HIDE DEF pos, rest, i
<1>7. Divided(S, E1, i, pos, rest, 0, p)
  <2>1. /\ i \in E1.currln + 1..Len(E1.text) /\ E1.text[i] = E1.currline
        /\ i = E1.currln + 1 /\ pos <= E1.mlength[E1.currline]
    BY <1>1, <1>2, <1>4 DEF i, Roomy
  <2>2. S = split(E1, E1.text[i], pos, rest, 0, p)
    BY <2>1
  <2> HIDE DEF S
  <2> QED
    BY <1>2, <1>4, <1>5, <1>6, <2>1, <2>2, SplitIs
<1>8. A = IF w.blank THEN [S2 EXCEPT !.len[p] = @ + 1] ELSE S2
  BY DEF Wrapped, pos, rest
<1> HIDE DEF S, S2
<1>9. /\ Sound(S) /\ S.blockln < 0 /\ SameScreen(S, E1) /\ S.text = Spliced(E.text, i, p)
      /\ S.len[p] = rest /\ p \in Range(S.text)
  <2>1. /\ Sound(S) /\ S.blockln < 0 /\ SameScreen(S, E1) /\ S.text = Spliced(E1.text, i, p)
        /\ S.len = [E1.len EXCEPT ![E1.text[i]] = pos, ![p] = rest + 0]
    BY <1>7 DEF Divided
  <2>2. E1.text[i] = E.currline
    BY <1>1, <1>4
  <2>3. S.len[p] = rest
    BY SMTT(60), <1>2, <1>3, <1>4, <2>1, <2>2, FieldsOf
  <2>4. p \in Range(S.text)
    <3>1. i \in 0..Len(E.text) /\ p \in Lines \ Range(E.text) /\ S.text = Spliced(E.text, i, p)
      BY <1>1, <1>3, <1>4, <2>1
    <3> QED
      BY <1>1, <3>1, PutIs
  <2> QED
    BY <1>4, <2>1, <2>3, <2>4
<1>10. /\ Typed(S2, E) /\ S2.len[p] = rest /\ p \in Range(S2.text)
       /\ (w.word => rest + 1 <= S2.mlength[p])
       /\ (p = S2.currline => S2.currpnt <= rest)
  <2>1. CASE i = E1.currln + 1 /\ pos <= E1.currpnt
    <3>1. S.currline = p /\ Roomy(S) /\ Visible(S)
      BY <1>7, <2>1 DEF Divided
    <3>2. S2 = S
      BY <3>1 DEF S2
    <3>3. S.currpnt <= rest
      BY <1>9, <3>1, SoundIs
    <3>4. w.word => rest + 1 <= S.mlength[p]
      BY <1>1, <1>2, <3>1 DEF Roomy
    <3> QED
      BY <1>4, <1>9, <3>1, <3>2, <3>3, <3>4 DEF Typed, SameScreen
  <2>2. CASE ~ (i = E1.currln + 1 /\ pos <= E1.currpnt)
    <3>1. /\ SameCursor(S, E1) /\ SameWindow(S, E1)
          /\ S.mlength = [E1.mlength EXCEPT ![p] = rest + 0]
      BY <1>7, <2>2 DEF Divided
    <3>2. /\ S.currline = E.currline /\ S.currline # p /\ Roomy(S) /\ SameWindow(S, E)
          /\ SameScreen(S, E)
      <4>1. S.currline = E.currline /\ S.currline # p
        BY <1>3, <1>4, <3>1 DEF SameCursor
      <4>2. S.mlength[E.currline] = E.mlength[E.currline]
        <5>1. E1.mlength \in [Lines -> 0..WRAPMARGIN] /\ p # E.currline /\ E.currline \in Lines
          BY <1>1, <1>3, <1>4, FieldsOf
        <5>2. S.mlength[E.currline] = E1.mlength[E.currline]
          BY <3>1, <5>1
        <5> QED
          BY <1>4, <5>2
      <4> QED
        BY <1>4, <1>9, <3>1, <4>1, <4>2 DEF Roomy, SameWindow, SameScreen
    <3>3. CASE ~ w.word
      <4>1. S2 = S
        BY <3>3 DEF S2
      <4> QED
        BY <1>9, <3>2, <3>3, <4>1 DEF Typed
    <3>4. CASE w.word
      <4> DEFINE m == rest + 1
      <4>1. S2 = Adjusted(S, p, m) /\ m \in 0..WRAPMARGIN /\ m # WRAPMARGIN /\ S.len[p] <= m
        BY <1>1, <1>2, <1>9, <3>2, <3>4 DEF S2
      <4> HIDE DEF m
      <4>2. Base(S) /\ S.currline \in Range(S.text) /\ CursorAt(S) /\ WindowAt(S) /\ S \in Buffer
        BY <1>9, SoundIs
      <4>3. Trimmed(S2, S, p, m)
        BY <1>9, <4>1, <4>2, AdjustedBase
      <4>4. CursorAt(S2) /\ WindowAt(S2)
        BY <4>2, <4>3 DEF Trimmed, CursorAt, WindowAt, SameCursor, SameWindow
      <4>5. S2.mlength[p] = m /\ S2.mlength[S.currline] = WRAPMARGIN
        BY <1>1, <1>3, <3>2, <4>2, <4>3, FieldsOf DEF Trimmed, Roomy
      <4>6. Roomy(S2) /\ S2.currline # p
        BY <3>2, <4>3, <4>5 DEF Roomy, Trimmed, SameCursor
      <4>7. Typed(S2, E)
        BY <1>9, <3>2, <4>3, <4>4, <4>6
           DEF Typed, Trimmed, Sound, SameScreen, SameWindow, SameBlock
      <4> QED
        BY <1>1, <1>2, <1>9, <4>3, <4>5, <4>6, <4>7 DEF Trimmed, m
    <3> QED
      BY <1>2, <3>3, <3>4
  <2> QED
    BY <2>1, <2>2
<1>11. CASE ~ w.blank
  BY <1>8, <1>10, <1>11
<1>12. CASE w.blank
  <2> DEFINE m == rest + 1
  <2>1. /\ m \in 0..WRAPMARGIN - 1 /\ m <= S2.mlength[p] /\ (p = S2.currline => S2.currpnt <= m)
        /\ Sound(S2)
    <3>1. S2.currpnt \in Nat /\ Sound(S2)
      BY <1>10, SoundIs DEF Typed
    <3>2. m \in 0..WRAPMARGIN - 1
      BY <1>1, <1>2, <1>12
    <3>3. p = S2.currline => S2.currpnt <= m
      BY <1>2, <1>10, <3>1
    <3> QED
      BY <1>2, <1>10, <1>12, <3>1, <3>2, <3>3
  <2>2. A = [S2 EXCEPT !.len[p] = m]
    BY <1>8, <1>10, <1>12
  <2> HIDE DEF m
  <2>3. /\ Sound(A) /\ A.mlength = S2.mlength /\ SameBlock(A, S2) /\ SameCursor(A, S2)
        /\ SameWindow(A, S2) /\ SameScreen(A, S2)
    BY <1>10, <2>1, <2>2, LenSet
  <2> QED
    BY <1>10, <2>3
       DEF Typed, Roomy, Visible, visible_window_height, SameBlock, SameCursor, SameWindow,
           SameScreen
<1> QED
  BY <1>2, <1>11, <1>12

\* A character more in the current line, which is broken if it is full then.
LEMMA InsertedIs ==
    ASSUME NEW E, Sound(E), Roomy(E), E.blockln < 0, NEW A \in Inserted(E)
    PROVE  Typed(A, E)
<1> DEFINE k == E.len[E.currline] + 1  c == E.currpnt + 1
           E1 == [E EXCEPT !.len[E.currline] = @ + 1, !.currpnt = @ + 1]
<1>1. /\ E \in Buffer /\ E.currline \in Lines /\ E.len[E.currline] \in Nat
      /\ E.len[E.currline] < WRAPMARGIN /\ E.currpnt \in Nat
      /\ E.currpnt <= E.len[E.currline] /\ WRAPMARGIN \in Nat
  BY SoundIs
<1>2. k \in Nat /\ k <= WRAPMARGIN /\ k \in 0..WRAPMARGIN /\ c \in 0..WRAPMARGIN /\ c \in 0..k
  BY <1>1
<1>3. E1 = [E EXCEPT !.len[E.currline] = k, !.currpnt = c]
  BY <1>1 DEF Buffer
<1>4. IF E1.len[E.currline] < WRAPMARGIN THEN A = E1
      ELSE \E w \in Breaks, p \in alloc_line(E) : A = Wrapped(E1, w, p)
  BY DEF Inserted
<1> HIDE DEF E1
<1>5. Filled(E1, E, k, c)
  <2> HIDE DEF k, c
  <2> QED
    BY <1>1, <1>2, <1>3, FilledIs
<1>6. E1.len[E.currline] = k
  <2> HIDE DEF k, c
  <2>1. E.len \in [Lines -> 0..WRAPMARGIN]
    BY <1>1, FieldsOf
  <2> QED
    BY <1>1, <1>5, <2>1 DEF Filled
<1>7. CASE k < WRAPMARGIN
  <2>1. A = E1 /\ k \in 0..WRAPMARGIN - 1
    BY <1>1, <1>2, <1>4, <1>6, <1>7
  <2> HIDE DEF k, c
  <2>2. /\ Sound(E1) /\ Roomy(E1) /\ SameWindow(E1, E) /\ SameScreen(E1, E)
        /\ SameBlock(E1, E)
    BY <1>2, <1>5, <2>1, LineFilled
  <2> QED
    BY <2>1, <2>2 DEF Typed, SameBlock
<1>8. CASE ~ (k < WRAPMARGIN)
  <2>1. E.len[E.currline] + 1 = WRAPMARGIN /\ k = WRAPMARGIN
    BY <1>1, <1>8
  <2>2. PICK w \in Breaks, p \in alloc_line(E) : A = Wrapped(E1, w, p)
    BY <1>4, <1>6, <1>8
  <2>3. p \in Unused(E)
    BY DEF alloc_line
  <2>4. Filled(E1, E, WRAPMARGIN, E.currpnt + 1)
    BY <1>5, <2>1
  <2> HIDE DEF k, c
  <2> QED
    BY <2>1, <2>2, <2>3, <2>4, WrappedIs
<1> QED
  BY <1>7, <1>8

\* One that is overwritten.
LEMMA OverwrittenIs ==
    ASSUME NEW E, Sound(E), Roomy(E), E.blockln < 0, NEW A \in Overwritten(E)
    PROVE  Typed(A, E)
<1>1. PICK c \in E.currpnt + 1..E.len[E.currline] : A = [E EXCEPT !.currpnt = c]
  BY DEF Overwritten
<1>2. /\ Base(E) /\ WindowAt(E) /\ CursorAt(E) /\ E \in Buffer
      /\ E.len[E.currline] \in Nat /\ E.len[E.currline] < WRAPMARGIN
      /\ E.currpnt \in Nat /\ WRAPMARGIN \in Nat
  BY SoundIs
<1>3. c \in 0..E.len[E.currline] /\ c \in 0..WRAPMARGIN
  BY <1>2
<1>4. /\ A.currpnt = c /\ A.currline = E.currline /\ A.currln = E.currln
      /\ SameText(A, E) /\ SameBlock(A, E) /\ SameWindow(A, E) /\ SameScreen(A, E)
  BY <1>1, <1>2 DEF Buffer, SameText, SameBlock, SameWindow, SameScreen
<1>5. A \in Buffer
  BY <1>1, <1>2, <1>3 DEF Buffer
<1>6. Base(A)
  BY <1>2, <1>4, <1>5, SameBase
<1>7. CursorAt(A) /\ WindowAt(A)
  BY <1>2, <1>3, <1>4 DEF CursorAt, WindowAt, SameText, SameWindow
<1> QED
  BY <1>4, <1>6, <1>7 DEF Typed, Sound, Roomy, SameText, SameBlock

\* What is typed while a block is selected cancels it.
LEMMA CharIs ==
    ASSUME NEW E, Sound(E), Roomy(E), NEW A \in insert_char(E)
    PROVE  Typed(A, E)
<1> DEFINE F == block_cancel(E)
<1>1. /\ Sound(F) /\ F.blockln < 0 /\ Roomy(F) /\ SameWindow(F, E) /\ SameScreen(F, E)
  BY CancelSound
<1>2. A \in Inserted(F) \/ A \in Overwritten(F)
  BY DEF insert_char
<1> HIDE DEF F
<1>3. Typed(A, F)
  BY <1>1, <1>2, InsertedIs, OverwrittenIs
<1> QED
  BY <1>1, <1>3 DEF Typed, SameWindow, SameScreen

\* Cancelling a block takes and frees no line.
LEMMA CancelUnused ==
    ASSUME NEW E, Sound(E), NEW p \in alloc_line(E)
    PROVE  p \in Unused(block_cancel(E))
<1>1. SameText(block_cancel(E), E)
  BY CancelSound
<1> QED
  BY <1>1 DEF alloc_line, Unused, SameText

\* A line that ends at the cursor.
LEMMA NewLineIs ==
    ASSUME NEW E, Sound(E), Roomy(E), NEW A \in NewLine(E)
    PROVE  Typed(A, E)
<1> DEFINE F == block_cancel(E)
<1>1. /\ Sound(F) /\ F.blockln < 0 /\ Roomy(F) /\ SameText(F, E) /\ SameCursor(F, E)
      /\ SameScreen(F, E)
  BY CancelSound
<1>2. PICK rest \in 0..E.len[E.currline] - E.currpnt, p \in alloc_line(E) :
         A = split(F, E.currline, E.currpnt, rest, 0, p)
  BY DEF NewLine
<1>3. p \in Unused(F)
  BY CancelUnused
<1> HIDE DEF F
<1>4. A = split(F, F.currline, F.currpnt, rest, 0, p)
  BY <1>1, <1>2 DEF SameCursor
<1>5. rest \in Nat /\ 0 \in Nat /\ rest + 0 < WRAPMARGIN
  <2>1. /\ E.len[E.currline] \in Nat /\ E.len[E.currline] < WRAPMARGIN
        /\ E.currpnt \in Nat /\ WRAPMARGIN \in Nat
    BY SoundIs
  <2> QED
    BY <2>1
<1>6. Sound(A) /\ Roomy(A) /\ Visible(A) /\ A.blockln < 0 /\ SameScreen(A, F)
  BY <1>1, <1>3, <1>4, <1>5, SplitHere
<1> QED
  BY <1>1, <1>6 DEF Typed, SameScreen

-----------------------------------------------------------------------------
(* Keys                                                                    *)

\* Where a key leads to, if each of its outcomes is near.
LEMMA KeyIs ==
    ASSUME NEW S, \A E \in S : Near(E), Key(S)
    PROVE  EditInv'
  BY KeyEndsWell DEF Key

\* What is sound can be shown.
LEMMA SoundNear ==
    ASSUME NEW E, Sound(E)
    PROVE  Near(E)
  BY DEF Sound, Near

\* StringEnds keeps the invariant.
LEMMA StringEndsWell ==
    ASSUME EditInv, StringEnds
    PROVE  EditInv'
  BY SoundNear, KeyEndsWell DEF EditInv, StringEnds

\* EnterKey keeps the invariant.
LEMMA EnterKeyWell ==
    ASSUME EditInv, EnterKey
    PROVE  EditInv'
<1> DEFINE E == block_cancel(ed)
           n == E.len[E.currline]
           S == IF E.totaln >= EDIT_LINE_LIMIT \/ E.totaln = MAX_EDIT_LINE THEN {E}
                ELSE {split(E, E.currline, E.currpnt, cut.rest, cut.indent, p) :
                         cut \in {c \in [rest : 0..n - E.currpnt, indent : 0..WRAPMARGIN - 1] :
                                     c.rest > 0 => c.indent <= n - c.rest},
                         p \in alloc_line(E)}
<1>1. Key(S)
  BY DEF EnterKey
<1>2. Sound(E) /\ Roomy(E) /\ E.blockln < 0
  BY <1>1, CancelSound DEF EditInv, Key
<1> HIDE DEF E
<1>3. ASSUME NEW A \in S PROVE Near(A)
  <2>1. CASE A = E
    BY <1>2, <2>1, SoundNear
  <2>2. CASE A # E
    <3>1. PICK cut \in {c \in [rest : 0..n - E.currpnt, indent : 0..WRAPMARGIN - 1] :
                           c.rest > 0 => c.indent <= n - c.rest}, p \in alloc_line(E) :
             A = split(E, E.currline, E.currpnt, cut.rest, cut.indent, p)
      BY <1>3, <2>2
    <3>2. /\ n \in Nat /\ n < WRAPMARGIN /\ E.currpnt \in Nat /\ WRAPMARGIN \in Nat
      BY <1>2, SoundIs
    <3> HIDE DEF n, S
    <3>3. /\ cut.rest \in 0..n - E.currpnt /\ cut.indent \in 0..WRAPMARGIN - 1
          /\ cut.rest > 0 => cut.indent <= n - cut.rest
      BY <3>1
    <3> DEFINE r == cut.rest  m == cut.indent
    <3> HIDE DEF r, m
    <3>4. r \in Nat /\ m \in Nat /\ r + m < WRAPMARGIN
      <4>1. /\ r \in 0..n - E.currpnt /\ m \in 0..WRAPMARGIN - 1
            /\ r > 0 => m <= n - r
        BY <3>3 DEF r, m
      <4> QED
        BY <3>2, <4>1
    <3>5. p \in Unused(E) /\ A = split(E, E.currline, E.currpnt, r, m, p)
      BY <3>1 DEF alloc_line, r, m
    <3>6. Sound(A)
      BY <1>2, <3>4, <3>5, SplitHere
    <3> QED
      BY <3>6, SoundNear
  <2> QED
    BY <2>1, <2>2
<1> HIDE DEF S
<1> QED
  BY <1>1, <1>3, KeyIs

\* DeletingKeys keeps the invariant.
LEMMA DeletingKeysWell ==
    ASSUME EditInv, DeletingKeys
    PROVE  EditInv'
<1> DEFINE E == block_cancel(ed)
           S == Backspace(E) \cup DeleteHere(E) \cup {LineDeleted(E)} \cup RestDeleted(E)
<1>1. Key(S)
  BY DEF DeletingKeys
<1>2. Sound(E) /\ Roomy(E) /\ E.blockln < 0
  BY <1>1, CancelSound DEF EditInv, Key
<1> HIDE DEF E
<1>3. \A A \in S : Near(A)
  BY <1>2, BackspaceIs, DeleteHereIs, LineDeletedIs, RestDeletedIs
<1> HIDE DEF S
<1> QED
  BY <1>1, <1>3, KeyIs

\* Undelete keeps the invariant.
LEMMA UndeleteWell ==
    ASSUME EditInv, Undelete
    PROVE  EditInv'
<1> DEFINE E == block_cancel(ed)
           S == {undelete_line(E, p) : p \in alloc_line(ed)}
<1>1. Key(S) /\ ed.deleted_line # NoLine
  BY DEF Undelete
<1>2. Sound(ed) /\ Roomy(ed)
  BY <1>1 DEF EditInv, Key
<1>3. Sound(E) /\ Roomy(E) /\ E.blockln < 0 /\ E.deleted_line # NoLine
  BY <1>1, <1>2, CancelSound DEF SameText
<1>4. \A p \in alloc_line(ed) : p \in Unused(E)
  BY <1>2, CancelUnused
<1> HIDE DEF E
<1>5. \A A \in S : Near(A)
  BY <1>3, <1>4, UndeleteIs
<1> HIDE DEF S
<1> QED
  BY <1>1, <1>5, KeyIs

\* Block keeps the invariant.
LEMMA BlockWell ==
    ASSUME EditInv, Block
    PROVE  EditInv'
<1>1. phase = "key" /\ Sound(ed) /\ Roomy(ed)
  BY DEF EditInv, Block, Key
<1>2. /\ ed \in Buffer /\ Base(ed) /\ CursorAt(ed) /\ WindowAt(ed) /\ Listed(ed)
      /\ Lengths(ed) /\ ed.currln \in Nat /\ ed.currline \in Lines
  BY <1>1, SoundIs
<1>3. CASE ed.blockln < 0
  <2> DEFINE A == block_select(ed)
  <2>1. Key({A})
    BY <1>3 DEF Block
  <2>2. A = [ed EXCEPT !.blockln = ed.currln, !.blockline = ed.currline]
    BY DEF block_select
  <2> HIDE DEF A
  <2>3. /\ A.blockln = ed.currln /\ A.blockline = ed.currline
        /\ SameText(A, ed) /\ SameCursor(A, ed) /\ SameWindow(A, ed) /\ SameScreen(A, ed)
    BY <1>2, <2>2 DEF Buffer, SameText, SameCursor, SameWindow, SameScreen
  <2>4. A \in Buffer
    BY <1>2, <2>2 DEF Buffer
  <2>5. Selected(A)
    BY <1>2, <2>3 DEF Selected, CursorAt, SameText
  <2>6. Base(A) /\ CursorAt(A) /\ WindowAt(A)
    BY <1>2, <2>3, <2>4, <2>5
       DEF Base, Listed, Lengths, CursorAt, WindowAt, SameText, SameCursor, SameWindow
  <2>7. \A F \in {A} : Near(F)
    BY <2>6 DEF Near
  <2> QED
    BY <2>1, <2>7, KeyIs
<1>4. CASE ~ (ed.blockln < 0)
  <2> DEFINE S == {block_cancel(ed)} \cup block_delete(ed)
  <2>1. Key(S)
    BY <1>4 DEF Block
  <2>2. Near(block_cancel(ed))
    BY <1>1, CancelSound, SoundNear
  <2>3. ASSUME NEW A \in block_delete(ed) PROVE Near(A)
    <3> DEFINE all == {Row(ed, ed.currline), Row(ed, ed.blockline)} = {1, Len(ed.text)}
    <3>1. PICK p \in IF all THEN alloc_line(ed) ELSE {ed.currline} : A = BlockDeleted(ed, p)
      BY <2>3 DEF block_delete
    <3>2. IF all THEN p \in Unused(ed) ELSE p = ed.currline
      BY <3>1 DEF alloc_line
    <3>3. ed.blockln >= 0
      BY <1>2, <1>4, FieldsOf
    <3> QED
      BY <1>1, <3>1, <3>2, <3>3, BlockDeletedIs
  <2>4. \A A \in S : Near(A)
    BY <2>2, <2>3
  <2> HIDE DEF S
  <2> QED
    BY <2>1, <2>4, KeyIs
<1> QED
  BY <1>3, <1>4

\* Move keeps the invariant.
LEMMA MoveWell ==
    ASSUME EditInv, Move
    PROVE  EditInv'
<1> DEFINE S == LineUp(ed) \cup LineDown(ed) \cup InLine(ed)
                \cup {PageUp(ed), PageDown(ed), StartOfFile(ed), TailOfFile(ed)}
                \cup {goto_line(ed, n) : n \in 1..ed.totaln + 1}
                \cup search_str(ed) \cup match_paren(ed)
<1>1. Key(S) /\ Sound(ed)
  BY DEF Move, EditInv
<1>2. ASSUME NEW A \in S PROVE Near(A)
  <2>1. CASE A \in LineUp(ed) \cup LineDown(ed) \cup InLine(ed)
    BY <1>1, <2>1, LineUpIs, LineDownIs, InLineIs
  <2>2. CASE A \in {PageUp(ed), PageDown(ed), StartOfFile(ed), TailOfFile(ed)}
    BY <1>1, <2>2, PagesAre, StartIs, TailIs
  <2>3. CASE A \in {goto_line(ed, n) : n \in 1..ed.totaln + 1}
    BY <1>1, <2>3, GotoIs
  <2>4. CASE A \in search_str(ed) \cup match_paren(ed)
    BY <1>1, <2>4, SearchIs, MatchIs
  <2> QED
    BY <1>2, <2>1, <2>2, <2>3, <2>4
<1> HIDE DEF S
<1> QED
  BY <1>1, <1>2, KeyIs

\* SwitchPhone keeps the invariant.
LEMMA SwitchPhoneWell ==
    ASSUME EditInv, SwitchPhone
    PROVE  EditInv'
<1> DEFINE A == [ed EXCEPT !.phone_mode = ~ @]
<1>1. Key({A}) /\ Sound(ed)
  BY DEF SwitchPhone, EditInv
<1>2. /\ ed \in Buffer /\ Base(ed) /\ CursorAt(ed) /\ WindowAt(ed)
      /\ ed.phone_mode \in BOOLEAN
  BY <1>1, SoundIs, FieldsOf
<1>3. SameText(A, ed) /\ SameBlock(A, ed) /\ SameCursor(A, ed) /\ SameWindow(A, ed)
  BY <1>2 DEF Buffer, SameText, SameBlock, SameCursor, SameWindow
<1>4. A \in Buffer
  BY <1>2 DEF Buffer
<1> HIDE DEF A
<1>5. Base(A)
  BY <1>2, <1>3, <1>4, SameBase
<1>6. CursorAt(A) /\ WindowAt(A)
  BY <1>2, <1>3 DEF CursorAt, WindowAt, SameText, SameCursor, SameWindow
<1>7. \A F \in {A} : Near(F)
  BY <1>5, <1>6 DEF Near
<1> QED
  BY <1>1, <1>7, KeyIs

\* The current line loses a byte, and the cursor is put somewhere in it.
LEMMA ShorterIs ==
    ASSUME NEW E, Sound(E), Roomy(E), NEW c \in 0..E.len[E.currline] - 1,
           NEW A, A = [E EXCEPT !.len[E.currline] = E.len[E.currline] - 1, !.currpnt = c]
    PROVE  Sound(A)
<1> DEFINE n == E.len[E.currline]  k == n - 1
<1>1. E \in Buffer /\ n \in Nat /\ n < WRAPMARGIN /\ WRAPMARGIN \in Nat
  BY SoundIs
<1>2. A = [E EXCEPT !.len[E.currline] = k, !.currpnt = c] /\ c \in 0..n - 1
  OBVIOUS
<1> HIDE DEF n
<1>3. c \in 0..k /\ c \in 0..WRAPMARGIN /\ k \in 0..WRAPMARGIN - 1 /\ k \in 0..WRAPMARGIN
  BY <1>1, <1>2
<1> HIDE DEF k
<1>4. Filled(A, E, k, c)
  BY <1>1, <1>2, <1>3, FilledIs
<1> QED
  BY <1>3, <1>4, LineFilled

\* ChangeLine keeps the invariant.
LEMMA ChangeLineWell ==
    ASSUME EditInv, ChangeLine
    PROVE  EditInv'
<1> DEFINE p == ed.currline
           n == ed.len[p]
           F == block_cancel(ed)
           S1 == {[ed EXCEPT !.len[p] = k] : k \in ed.currpnt..n - 1}
           S2 == {[ed EXCEPT !.len[p] = n - 1, !.currpnt = c] :
                     c \in {x \in 0..n - 1 : ed.currpnt <= x \/ x = n - 1}}
           S3 == IF n < WRAPMARGIN - 1 THEN {[F EXCEPT !.len[p] = n + 1]} ELSE {}
<1>1. Key(S1 \cup S2 \cup S3) /\ Sound(ed) /\ Roomy(ed)
  BY DEF ChangeLine, EditInv, Key
<1>2. /\ ed \in Buffer /\ p \in Range(ed.text) /\ p \in Lines /\ n \in Nat /\ n < WRAPMARGIN
      /\ ed.currpnt \in Nat /\ ed.currpnt <= n /\ WRAPMARGIN \in Nat
      /\ ed.mlength[p] = WRAPMARGIN
  BY <1>1, SoundIs DEF Roomy
<1>3. ASSUME NEW A \in S1 PROVE Near(A)
  <2>1. PICK k \in ed.currpnt..n - 1 : A = [ed EXCEPT !.len[p] = k]
    BY <1>3
  <2> HIDE DEF n
  <2>2. k \in 0..WRAPMARGIN - 1 /\ k <= ed.mlength[p] /\ ed.currpnt <= k
    BY <1>2
  <2> HIDE DEF p
  <2>3. Sound(A)
    BY <1>1, <1>2, <2>1, <2>2, LenSet DEF p
  <2> QED
    BY <2>3, SoundNear
<1>4. ASSUME NEW A \in S2 PROVE Near(A)
  <2>1. PICK c \in 0..n - 1 : A = [ed EXCEPT !.len[p] = n - 1, !.currpnt = c]
    BY <1>4
  <2>2. c \in 0..ed.len[ed.currline] - 1
    BY <2>1
  <2>3. A = [ed EXCEPT !.len[ed.currline] = ed.len[ed.currline] - 1, !.currpnt = c]
    BY <2>1
  <2>4. Sound(A)
    BY <1>1, <2>2, <2>3, ShorterIs
  <2> QED
    BY <2>4, SoundNear
<1>5. ASSUME NEW A \in S3 PROVE Near(A)
  <2> DEFINE k == n + 1
  <2>1. n < WRAPMARGIN - 1 /\ A = [F EXCEPT !.len[p] = k]
    BY <1>5
  <2>2. k \in 0..WRAPMARGIN - 1 /\ k <= WRAPMARGIN /\ ed.currpnt <= k
    BY <1>2, <2>1
  <2> HIDE DEF F
  <2>3. /\ Sound(F) /\ F.text = ed.text /\ F.mlength = ed.mlength
        /\ F.currline = p /\ F.currpnt = ed.currpnt
    BY ZenonT(60), <1>1, CancelSound DEF F, SameText, SameCursor
  <2> HIDE DEF n, k, p, S3
  <2>4. p \in Range(F.text) /\ k <= F.mlength[p] /\ F.currpnt <= k
    BY <1>2, <2>2, <2>3
  <2>5. Sound(A)
    BY <2>1, <2>2, <2>3, <2>4, LenSet
  <2> QED
    BY <2>5, SoundNear
<1>6. \A A \in S1 \cup S2 \cup S3 : Near(A)
  BY <1>3, <1>4, <1>5
<1> HIDE DEF S1, S2, S3
<1> QED
  BY SMTT(60), <1>1, <1>6, KeyIs

-----------------------------------------------------------------------------
(* Characters, the window and the loop                                     *)

\* The window stays or follows, so that the cursor is in it if it was.
LEMMA TypedVisible ==
    ASSUME NEW E, NEW A, Typed(A, E), Visible(E)
    PROVE  Visible(A)
  BY DEF Typed, Visible, visible_window_height, SameWindow, SameScreen

\* What holds after a character, in any phase but one.
LEMMA TypedWell ==
    ASSUME EditInv, Typed(ed', ed), UNCHANGED shrunk, phase' # "key",
           phase' \in {"load", "top", "key", "string", "char"}
    PROVE  EditInv'
<1>1. Sound(ed') /\ Roomy(ed') /\ ed'.blockln < 0
  BY DEF Typed
<1>2. Visible(ed') \/ shrunk'
  BY TypedVisible DEF EditInv
<1> QED
  BY <1>1, <1>2 DEF EditInv, Sound, Roomy, Visible, Base, Buffer, Listed, Distinct, Lengths,
         Selected, CursorAt, WindowAt, visible_window_height

\* Load keeps the invariant.
LEMMA LoadWell ==
    ASSUME EditInv, Load
    PROVE  EditInv'
<1>1. /\ Sound(ed) /\ Roomy(ed) /\ ed.blockln < 0
      /\ ed' \in Inserted(ed) \/ ed' \in NewLine(ed)
  BY DEF EditInv, Load
<1>2. Typed(ed', ed)
  BY <1>1, InsertedIs, NewLineIs
<1> QED
  BY <1>2, TypedWell DEF Load

\* Type keeps the invariant.
LEMMA TypeWell ==
    ASSUME EditInv, Type
    PROVE  EditInv'
<1>1. Sound(ed) /\ Roomy(ed) /\ ed' \in insert_char(ed)
  BY DEF EditInv, Type
<1>2. Typed(ed', ed)
  BY <1>1, CharIs
<1> QED
  BY <1>2, TypedWell DEF Type

\* TypeString keeps the invariant.
LEMMA TypeStringWell ==
    ASSUME EditInv, TypeString
    PROVE  EditInv'
<1>1. /\ Sound(ed) /\ Roomy(ed)
      /\ ed' \in insert_char(ed) \/ ed' \in NewLine(ed)
  BY DEF EditInv, TypeString
<1>2. Typed(ed', ed)
  BY <1>1, CharIs, NewLineIs
<1> QED
  BY <1>2, TypedWell DEF TypeString

\* Resize keeps the invariant: shrunk remembers a window that may be too small.
LEMMA ResizeWell ==
    ASSUME EditInv, Resize
    PROVE  EditInv'
<1>1. PICK size \in Sizes : /\ ed' = [ed EXCEPT !.b_lines = size]
                            /\ shrunk' = (shrunk \/ size < ed.b_lines)
                            /\ phase = "key" /\ phase' = "key"
  BY DEF Resize
<1>2. /\ Sound(ed) /\ ed \in Buffer /\ Base(ed) /\ CursorAt(ed) /\ WindowAt(ed)
      /\ ed.b_lines \in Nat /\ ed.curr_window_line \in Nat /\ ed.phone_mode \in BOOLEAN
      /\ size \in Nat /\ Roomy(ed) /\ ed.oldcurrline = ed.currline /\ shrunk \in BOOLEAN
      /\ Visible(ed) \/ shrunk
  BY <1>1, SoundIs, FieldsOf, EditAssumption DEF EditInv
<1> DEFINE A == [ed EXCEPT !.b_lines = size]
<1>3. /\ SameText(A, ed) /\ SameBlock(A, ed) /\ SameCursor(A, ed) /\ SameWindow(A, ed)
      /\ A.b_lines = size /\ A.phone_mode = ed.phone_mode
  BY <1>2 DEF Buffer, SameText, SameBlock, SameCursor, SameWindow
<1>4. A \in Buffer
  BY <1>2 DEF Buffer
<1>5. ed' = A
  BY <1>1
<1> HIDE DEF A
<1>6. Base(A)
  BY <1>2, <1>3, <1>4, SameBase
<1>7. CursorAt(A) /\ WindowAt(A)
  BY <1>2, <1>3 DEF CursorAt, WindowAt, SameText, SameCursor, SameWindow
<1>8. Visible(A) \/ shrunk'
  <2>1. CASE shrunk \/ size < ed.b_lines
    BY <1>1, <2>1
  <2>2. CASE ~ shrunk /\ ~ (size < ed.b_lines)
    <3>1. visible_window_height(ed) \in Nat /\ visible_window_height(A) \in Nat
          /\ visible_window_height(ed) <= visible_window_height(A)
      <4> DEFINE b == ed.b_lines
      <4>1. b \in Nat /\ b <= size
        BY <1>2, <2>2
      <4>2. visible_window_height(ed) = (IF ed.phone_mode THEN b - 1 ELSE b)
            /\ visible_window_height(A) = (IF ed.phone_mode THEN size - 1 ELSE size)
        BY <1>3 DEF visible_window_height
      <4>3. visible_window_height(ed) \in Nat /\ visible_window_height(A) \in Nat
        BY <1>2, <1>4, HeightIs
      <4> HIDE DEF b
      <4> QED
        BY <1>2, <4>1, <4>2, <4>3
    <3>2. ed.curr_window_line < visible_window_height(ed)
          /\ A.curr_window_line = ed.curr_window_line
      BY <1>2, <1>3, <2>2 DEF Visible, SameWindow
    <3> QED
      BY <1>2, <3>1, <3>2 DEF Visible
  <2> QED
    BY <2>1, <2>2
<1>9. Roomy(A) /\ A.oldcurrline = A.currline
  BY <1>2, <1>3 DEF Roomy, SameText, SameCursor
<1>10. Sound(ed') /\ Roomy(ed') /\ ed'.oldcurrline = ed'.currline /\ (Visible(ed') \/ shrunk')
  BY <1>5, <1>6, <1>7, <1>8, <1>9 DEF Sound
<1>11. phase' = "key" /\ shrunk' \in BOOLEAN
  BY <1>1, <1>2
<1> QED
  BY <1>10, <1>11 DEF EditInv

\* The list is as it was and the lines that gave memory back keep enough.
LEMMA Settled ==
    ASSUME NEW E, NEW A \in Buffer, Base(E), SameBlock(A, E),
           A.text = E.text, A.len = E.len,
           A.firstline = E.firstline, A.lastline = E.lastline, A.totaln = E.totaln,
           A.deleted_line = E.deleted_line,
           \A l \in Range(E.text) : E.len[l] <= A.mlength[l],
           A.oldcurrline \in Range(E.text), A.mlength[A.oldcurrline] = WRAPMARGIN
    PROVE  Base(A)
  BY DEF Base, Listed, Lengths, Selected, SameBlock

\* The memory that the current line gets is taken from the line that the cursor left.
LEMMA ExchangedIs ==
    ASSUME NEW E, Sound(E), NEW A, A = Exchanged(E)
    PROVE  /\ Sound(A) /\ Roomy(A) /\ A.oldcurrline = A.currline
           /\ SameBlock(A, E) /\ SameWindow(A, E) /\ SameScreen(A, E)
<1> DEFINE cur == E.currline
           old == E.oldcurrline
           G == Adjusted(E, old, E.len[old])
           E1 == IF old = NoLine THEN E ELSE [G EXCEPT !.oldcurrline = old]
           H == Adjusted(E1, cur, WRAPMARGIN)
<1>1. /\ E \in Buffer /\ Base(E) /\ CursorAt(E) /\ WindowAt(E) /\ Listed(E) /\ Lengths(E)
      /\ cur \in Lines /\ cur \in Range(E.text) /\ E.text \in Seq(Lines)
      /\ WRAPMARGIN \in Nat /\ WRAPMARGIN \in 0..WRAPMARGIN
      /\ E.len[cur] \in Nat /\ E.len[cur] < WRAPMARGIN
      /\ E.len \in [Lines -> 0..WRAPMARGIN] /\ E.mlength \in [Lines -> 0..WRAPMARGIN]
      /\ old \in Lines \cup {NoLine}
  <2>1. WRAPMARGIN \in 0..WRAPMARGIN
    BY EditAssumption
  <2> QED
    BY <2>1, SoundIs, FieldsOf
<1>2. A = IF old = cur THEN E ELSE [H EXCEPT !.oldcurrline = cur]
  BY DEF Exchanged
<1>3. CASE old = cur
  <2>1. A = E
    BY <1>2, <1>3
  <2>2. E.mlength[cur] = WRAPMARGIN
    BY <1>1, <1>3, EditAssumption DEF Lengths
  <2> QED
    BY <1>3, <2>1, <2>2 DEF Roomy, SameBlock, SameWindow, SameScreen
<1>4. CASE old # cur
  <2>1. A = [H EXCEPT !.oldcurrline = cur]
    BY <1>2, <1>4
  <2>2. /\ E1 \in Buffer /\ E1.text = E.text /\ E1.len = E.len
        /\ E1.firstline = E.firstline /\ E1.lastline = E.lastline
        /\ E1.totaln = E.totaln /\ E1.deleted_line = E.deleted_line
        /\ SameBlock(E1, E) /\ SameCursor(E1, E) /\ SameWindow(E1, E) /\ SameScreen(E1, E)
        /\ \A l \in Range(E.text) : E.len[l] <= E1.mlength[l]
    <3>1. CASE old = NoLine
      BY <1>1, <3>1 DEF Lengths, SameBlock, SameCursor, SameWindow, SameScreen
    <3>2. CASE old # NoLine
      <4>1. old \in Lines /\ E.len[old] \in 0..WRAPMARGIN
        BY <1>1, <3>2
      <4>2. /\ G \in Buffer /\ G.text = E.text /\ G.len = E.len
            /\ G.mlength = [E.mlength EXCEPT ![old] = E.len[old]]
            /\ G.firstline = E.firstline /\ G.lastline = E.lastline
            /\ G.totaln = E.totaln /\ G.deleted_line = E.deleted_line
            /\ SameBlock(G, E) /\ SameCursor(G, E) /\ SameWindow(G, E) /\ SameScreen(G, E)
        BY <1>1, <4>1, AdjustedIs
      <4>3. E1 = [G EXCEPT !.oldcurrline = old]
        BY <3>2
      <4> HIDE DEF G, E1
      <4>4. /\ E1.text = G.text /\ E1.len = G.len /\ E1.mlength = G.mlength
            /\ E1.firstline = G.firstline /\ E1.lastline = G.lastline
            /\ E1.totaln = G.totaln /\ E1.deleted_line = G.deleted_line
            /\ SameBlock(E1, G) /\ SameCursor(E1, G) /\ SameWindow(E1, G) /\ SameScreen(E1, G)
        BY <4>2, <4>3 DEF Buffer, SameBlock, SameCursor, SameWindow, SameScreen
      <4>5. E1 \in Buffer
        BY <4>1, <4>2, <4>3 DEF Buffer
      <4>6. ASSUME NEW l \in Range(E.text) PROVE E.len[l] <= E1.mlength[l]
        <5>1. l \in Lines /\ E.len[l] <= E.mlength[l] /\ E.len[l] \in Nat
          BY <1>1, <4>6, RangeIs DEF Lengths
        <5>2. E1.mlength[l] = IF l = old THEN E.len[l] ELSE E.mlength[l]
          BY <1>1, <4>1, <4>2, <4>4, <5>1
        <5> QED
          BY <5>1, <5>2
      <4>7. SameBlock(E1, E) /\ SameCursor(E1, E) /\ SameWindow(E1, E) /\ SameScreen(E1, E)
        BY <4>2, <4>4 DEF SameBlock, SameCursor, SameWindow, SameScreen
      <4> QED
        BY <4>2, <4>4, <4>5, <4>6, <4>7
    <3> QED
      BY <3>1, <3>2
  <2> HIDE DEF G, E1
  <2>3. /\ H \in Buffer /\ H.text = E1.text /\ H.len = E1.len
        /\ H.mlength = [E1.mlength EXCEPT ![cur] = WRAPMARGIN]
        /\ H.firstline = E1.firstline /\ H.lastline = E1.lastline
        /\ H.totaln = E1.totaln /\ H.deleted_line = E1.deleted_line
        /\ SameBlock(H, E1) /\ SameCursor(H, E1) /\ SameWindow(H, E1) /\ SameScreen(H, E1)
    BY <1>1, <2>2, AdjustedIs
  <2> HIDE DEF H
  <2>4. /\ A.text = H.text /\ A.len = H.len /\ A.mlength = H.mlength
        /\ A.firstline = H.firstline /\ A.lastline = H.lastline
        /\ A.totaln = H.totaln /\ A.deleted_line = H.deleted_line
        /\ A.oldcurrline = cur
        /\ SameBlock(A, H) /\ SameCursor(A, H) /\ SameWindow(A, H) /\ SameScreen(A, H)
    BY <2>1, <2>3 DEF Buffer, SameBlock, SameCursor, SameWindow, SameScreen
  <2>5. A \in Buffer
    BY <1>1, <2>1, <2>3 DEF Buffer
  <2>6. SameBlock(A, E) /\ SameCursor(A, E) /\ SameWindow(A, E) /\ SameScreen(A, E)
    BY <2>2, <2>3, <2>4 DEF SameBlock, SameCursor, SameWindow, SameScreen
  <2>7. E1.mlength \in [Lines -> 0..WRAPMARGIN]
    BY <2>2, FieldsOf
  <2>8. A.mlength[cur] = WRAPMARGIN
    BY <1>1, <2>3, <2>4, <2>7
  <2>9. ASSUME NEW l \in Range(E.text) PROVE E.len[l] <= A.mlength[l]
    <3>1. l \in Lines /\ E.len[l] <= E1.mlength[l] /\ E.len[l] <= WRAPMARGIN
      <4>1. l \in Lines
        BY <1>1, <2>9, RangeIs
      <4>2. E.len[l] \in 0..WRAPMARGIN
        BY <1>1, <4>1
      <4> QED
        BY <1>1, <2>2, <2>9, <4>1, <4>2
    <3>2. A.mlength[l] = IF l = cur THEN WRAPMARGIN ELSE E1.mlength[l]
      BY <1>1, <2>3, <2>4, <2>7, <3>1
    <3> QED
      BY <3>1, <3>2
  <2>10. Base(A)
    BY <1>1, <2>2, <2>3, <2>4, <2>5, <2>6, <2>8, <2>9, Settled
  <2>11. CursorAt(A) /\ WindowAt(A)
    BY <1>1, <2>2, <2>3, <2>4, <2>6 DEF CursorAt, WindowAt, SameCursor, SameWindow
  <2> QED
    BY <2>4, <2>6, <2>8, <2>10, <2>11 DEF Sound, Roomy, SameCursor
<1> QED
  BY <1>3, <1>4

\* A new buffer has one line, which is empty.
Fresh(A) ==
    Sound(A) /\ Roomy(A) /\ Visible(A) /\ A.blockln < 0

\* A new buffer is sound.
LEMMA ConstructedIs ==
    ASSUME NEW p \in Lines, NEW size \in Sizes, NEW A, A = Constructed(p, size)
    PROVE  Fresh(A)
<1> DEFINE L == [l \in Lines |-> 0]
           M == [l \in Lines |-> IF l = p THEN WRAPMARGIN ELSE 0]
<1>1. /\ A.text = <<p>> /\ A.len = L /\ A.mlength = M
      /\ A.firstline = p /\ A.lastline = p /\ A.currline = p /\ A.top_of_win = p
      /\ A.blockline = NoLine /\ A.deleted_line = NoLine /\ A.oldcurrline = p
      /\ A.currln = 0 /\ A.totaln = 0 /\ A.curr_window_line = 0 /\ A.blockln = -1
      /\ A.currpnt = 0 /\ A.phone_mode = FALSE /\ A.b_lines = size
  BY DEF Constructed
<1>2. /\ WRAPMARGIN \in Nat /\ WRAPMARGIN >= 2 /\ size \in Nat /\ size >= 3
      /\ NoLine \notin Lines /\ p # NoLine
  BY EditAssumption
<1>3. L \in [Lines -> 0..WRAPMARGIN] /\ M \in [Lines -> 0..WRAPMARGIN]
      /\ L[p] = 0 /\ M[p] = WRAPMARGIN
  BY <1>2
<1>4. <<p>> \in Seq(Lines) /\ Len(<<p>>) = 1 /\ <<p>>[1] = p /\ Range(<<p>>) = {p}
  <2>1. <<p>> \in Seq(Lines) /\ Len(<<p>>) = 1 /\ <<p>>[1] = p
    OBVIOUS
  <2> DEFINE t == <<p>>
  <2>2. Range(t) = {t[i] : i \in 1..Len(t)}
    BY <2>1, RangeIs
  <2>3. 1..Len(t) = {1}
    BY <2>1
  <2> HIDE DEF t
  <2>4. Range(t) = {t[1]}
    BY <2>2, <2>3
  <2> QED
    BY <2>1, <2>4 DEF t
<1> HIDE DEF L, M
<1>5. A \in Buffer
  BY <1>2, <1>3, <1>4 DEF Constructed, Buffer, L, M
<1>6. Listed(A)
  BY <1>1, <1>2, <1>4 DEF Listed, Distinct
<1>7. Lengths(A) /\ Selected(A)
  BY <1>1, <1>2, <1>3, <1>4 DEF Lengths, Selected
<1>8. CursorAt(A) /\ WindowAt(A)
  BY <1>1, <1>3, <1>4 DEF CursorAt, WindowAt
<1>9. Visible(A)
  BY <1>1, <1>5, HeightIs DEF Visible
<1> QED
  BY <1>1, <1>3, <1>5, <1>6, <1>7, <1>8, <1>9 DEF Fresh, Sound, Base, Roomy

\* Again keeps the invariant.
LEMMA AgainWell ==
    ASSUME EditInv, Again
    PROVE  EditInv'
<1>1. ed.firstline \in Lines /\ ed.b_lines \in Sizes
  BY SoundIs, FieldsOf DEF EditInv
<1>2. Fresh(ed')
  BY <1>1, ConstructedIs DEF Again
<1>3. Sound(ed') /\ Roomy(ed') /\ Visible(ed') /\ ed'.blockln < 0
  BY <1>2 DEF Fresh
<1>4. phase' = "load" /\ shrunk' = FALSE
  BY DEF Again
<1> QED
  BY <1>3, <1>4 DEF EditInv

\* LoopTop keeps the invariant.
LEMMA LoopTopWell ==
    ASSUME EditInv, LoopTop
    PROVE  EditInv'
<1>1. CASE Again
  BY <1>1, AgainWell
<1>2. CASE ~ Again
  <2>1. /\ ed' = Exchanged(ed) /\ Visible(ed) /\ phase' = "key" /\ shrunk' = shrunk
        /\ Sound(ed) /\ shrunk \in BOOLEAN
    BY <1>2 DEF LoopTop, EditInv, Visible
  <2>2. /\ Sound(ed') /\ Roomy(ed') /\ ed'.oldcurrline = ed'.currline
        /\ SameWindow(ed', ed) /\ SameScreen(ed', ed)
    BY <2>1, ExchangedIs
  <2>3. Visible(ed')
    BY <2>1, <2>2 DEF Visible, visible_window_height, SameWindow, SameScreen
  <2> QED
    BY <2>1, <2>2, <2>3 DEF EditInv
<1> QED
  BY <1>1, <1>2

\* LoadEnds keeps the invariant.
LEMMA LoadEndsWell ==
    ASSUME EditInv, LoadEnds
    PROVE  EditInv'
<1> DEFINE first == ed.firstline
           G == Adjusted(ed, first, WRAPMARGIN)
           E1 == [G EXCEPT !.oldcurrline = first, !.currline = first, !.top_of_win = first]
           E2 == IF ed.oldcurrline # first \/ ed.currline # first THEN E1 ELSE ed
           A == [E2 EXCEPT !.currpnt = 0, !.currln = 0, !.curr_window_line = 0]
<1>1. /\ ed' = A /\ phase' = "top" /\ shrunk' = shrunk
      /\ Sound(ed) /\ shrunk \in BOOLEAN
  BY DEF LoadEnds, EditInv
<1>2. /\ ed \in Buffer /\ Base(ed) /\ Listed(ed) /\ Lengths(ed) /\ CursorAt(ed) /\ WindowAt(ed)
      /\ ed.text \in Seq(Lines) /\ Len(ed.text) \in Nat /\ Distinct(ed.text)
      /\ ed.currln \in Nat /\ ed.currln + 1 \in 1..Len(ed.text)
      /\ ed.text[ed.currln + 1] = ed.currline
      /\ ed.curr_window_line \in Nat /\ ed.curr_window_line <= ed.currln
      /\ ed.text[ed.currln - ed.curr_window_line + 1] = ed.top_of_win
      /\ WRAPMARGIN \in Nat /\ WRAPMARGIN \in 0..WRAPMARGIN
      /\ ed.len \in [Lines -> 0..WRAPMARGIN] /\ ed.mlength \in [Lines -> 0..WRAPMARGIN]
  <2>1. WRAPMARGIN \in 0..WRAPMARGIN
    BY EditAssumption
  <2> QED
    BY <1>1, <2>1, SoundIs, FieldsOf
<1>3. /\ first \in Lines /\ first \in Range(ed.text) /\ first = ed.text[1] /\ Len(ed.text) >= 1
      /\ ed.len[first] \in Nat /\ first # NoLine
  <2>1. first = ed.text[1] /\ Len(ed.text) >= 1
    BY <1>2, TextOf
  <2>2. 1 \in 1..Len(ed.text)
    BY <1>2, <2>1
  <2>3. /\ ed.text[1] \in Lines /\ ed.text[1] \in Range(ed.text)
        /\ ed.len[ed.text[1]] \in Nat
    BY <1>2, <2>2, TextOf
  <2> QED
    BY <2>1, <2>3, EditAssumption
<1>4. /\ E2 \in Buffer /\ E2.text = ed.text /\ E2.len = ed.len
      /\ E2.firstline = ed.firstline /\ E2.lastline = ed.lastline
      /\ E2.totaln = ed.totaln /\ E2.deleted_line = ed.deleted_line
      /\ E2.currline = first /\ E2.top_of_win = first /\ E2.oldcurrline = first
      /\ SameBlock(E2, ed) /\ SameScreen(E2, ed)
      /\ E2.mlength[first] = WRAPMARGIN
      /\ \A l \in Range(ed.text) : ed.len[l] <= E2.mlength[l]
  <2>1. CASE ed.oldcurrline # first \/ ed.currline # first
    <3>1. E2 = E1
      BY <2>1
    <3>2. /\ G \in Buffer /\ G.text = ed.text /\ G.len = ed.len
          /\ G.mlength = [ed.mlength EXCEPT ![first] = WRAPMARGIN]
          /\ G.firstline = ed.firstline /\ G.lastline = ed.lastline
          /\ G.totaln = ed.totaln /\ G.deleted_line = ed.deleted_line
          /\ SameBlock(G, ed) /\ SameScreen(G, ed)
      BY ZenonT(60), <1>2, <1>3, AdjustedIs
    <3> HIDE DEF G, E2, A
    <3>3. /\ E1.text = G.text /\ E1.len = G.len /\ E1.mlength = G.mlength
          /\ E1.firstline = G.firstline /\ E1.lastline = G.lastline
          /\ E1.totaln = G.totaln /\ E1.deleted_line = G.deleted_line
          /\ E1.currline = first /\ E1.top_of_win = first /\ E1.oldcurrline = first
          /\ SameBlock(E1, G) /\ SameScreen(E1, G)
      BY <3>2 DEF Buffer, SameBlock, SameScreen
    <3>4. E1 \in Buffer
      BY <1>3, <3>2 DEF Buffer
    <3> HIDE DEF E1
    <3>5. E1.mlength[first] = WRAPMARGIN
      BY <1>2, <1>3, <3>2, <3>3
    <3>6. ASSUME NEW l \in Range(ed.text) PROVE ed.len[l] <= E1.mlength[l]
      <4>1. l \in Lines /\ ed.len[l] <= ed.mlength[l] /\ ed.len[l] <= WRAPMARGIN
        <5>1. l \in Lines
          BY <1>2, <3>6, RangeIs
        <5>2. ed.len[l] \in 0..WRAPMARGIN
          BY <1>2, <5>1
        <5> QED
          BY <1>2, <3>6, <5>1, <5>2 DEF Lengths
      <4>2. E1.mlength[l] = IF l = first THEN WRAPMARGIN ELSE ed.mlength[l]
        BY <1>2, <1>3, <3>2, <3>3, <4>1
      <4> QED
        BY <4>1, <4>2
    <3> QED
      BY <3>1, <3>2, <3>3, <3>4, <3>5, <3>6 DEF SameBlock, SameScreen
  <2>2. CASE ~ (ed.oldcurrline # first \/ ed.currline # first)
    <3>1. E2 = ed /\ ed.currline = first /\ ed.oldcurrline = first
      BY <2>2
    <3>2. ed.currln = 0
      <4>1. 1 \in 1..Len(ed.text) /\ ed.text[ed.currln + 1] = ed.text[1]
        BY <1>2, <1>3, <3>1
      <4>2. ed.currln + 1 = 1
        BY <1>2, <4>1 DEF Distinct
      <4> QED
        BY <1>2, <4>2
    <3>3. ed.top_of_win = first
      BY <1>2, <1>3, <3>2
    <3>4. ed.mlength[first] = WRAPMARGIN /\ \A l \in Range(ed.text) : ed.len[l] <= ed.mlength[l]
      BY <1>2, <1>3, <3>1 DEF Lengths
    <3> HIDE DEF E2, A
    <3> QED
      BY <1>2, <3>1, <3>3, <3>4 DEF SameBlock, SameScreen
  <2> QED
    BY <2>1, <2>2
<1> HIDE DEF G, E1, E2
<1>5. /\ A.text = E2.text /\ A.len = E2.len /\ A.mlength = E2.mlength
      /\ A.firstline = E2.firstline /\ A.lastline = E2.lastline
      /\ A.totaln = E2.totaln /\ A.deleted_line = E2.deleted_line
      /\ A.currline = E2.currline /\ A.top_of_win = E2.top_of_win
      /\ A.oldcurrline = E2.oldcurrline
      /\ A.currpnt = 0 /\ A.currln = 0 /\ A.curr_window_line = 0
      /\ SameBlock(A, E2) /\ SameScreen(A, E2)
  BY <1>4 DEF Buffer, SameBlock, SameScreen
<1>6. A \in Buffer
  <2>1. 0 \in Nat /\ 0 \in Int /\ 0 \in 0..WRAPMARGIN
    BY <1>2
  <2> QED
    BY <1>4, <2>1 DEF Buffer
<1> HIDE DEF A
<1>7. Base(A)
  <2>1. SameBlock(A, ed)
    BY <1>4, <1>5 DEF SameBlock
  <2> QED
    BY <1>2, <1>3, <1>4, <1>5, <1>6, <2>1, Settled
<1>8. CursorAt(A) /\ WindowAt(A)
  <2>1. 0 \in 0..Len(A.text) - 1 /\ A.text[0 + 1] = first /\ 0 \in 0..A.len[first]
        /\ 0 \in 0..0 /\ A.text[0 - 0 + 1] = first
    BY <1>2, <1>3, <1>4, <1>5
  <2> QED
    BY <1>4, <1>5, <2>1 DEF CursorAt, WindowAt
<1>9. Visible(A)
  BY <1>5, <1>6, HeightIs DEF Visible
<1> QED
  BY <1>1, <1>7, <1>8, <1>9 DEF EditInv, Sound

\* The initial states satisfy the invariant.
LEMMA EditStarts == EditInit => EditInv
<1> SUFFICES ASSUME EditInit PROVE EditInv
  OBVIOUS
<1>1. PICK p \in Lines, size \in Sizes : ed = Constructed(p, size)
  BY DEF EditInit
<1>2. Fresh(ed)
  BY <1>1, ConstructedIs
<1> QED
  BY <1>2 DEF EditInit, EditInv, Fresh

\* A step that changes nothing keeps it.
LEMMA EditStutters ==
    ASSUME EditInv, UNCHANGED editVars
    PROVE  EditInv'
<1>1. ed' = ed /\ phase' = phase /\ shrunk' = shrunk
  BY DEF editVars
<1>2. /\ Sound(ed') /\ (phase' # "top" => Roomy(ed')) /\ (Visible(ed') \/ shrunk')
      /\ (phase' = "key" => ed'.oldcurrline = ed'.currline)
      /\ (phase' = "load" => ed'.blockln < 0)
  BY <1>1 DEF EditInv
<1>3. phase' \in {"load", "top", "key", "string", "char"} /\ shrunk' \in BOOLEAN
  BY <1>1 DEF EditInv
<1> QED
  BY <1>2, <1>3 DEF EditInv

\* Every step keeps it.
LEMMA EditSteps == EditInv /\ [EditNext]_editVars => EditInv'
<1> SUFFICES ASSUME EditInv, [EditNext]_editVars PROVE EditInv'
  OBVIOUS
<1>1. CASE Load
  BY <1>1, LoadWell
<1>2. CASE LoadEnds
  BY <1>2, LoadEndsWell
<1>3. CASE LoopTop
  BY <1>3, LoopTopWell
<1>4. CASE Resize
  BY <1>4, ResizeWell
<1>5. CASE Type
  BY <1>5, TypeWell
<1>6. CASE TypeString
  BY <1>6, TypeStringWell
<1>7. CASE StringEnds
  BY <1>7, StringEndsWell
<1>8. CASE EnterKey
  BY <1>8, EnterKeyWell
<1>9. CASE DeletingKeys
  BY <1>9, DeletingKeysWell
<1>10. CASE Undelete
  BY <1>10, UndeleteWell
<1>11. CASE ChangeLine
  BY <1>11, ChangeLineWell
<1>12. CASE Block
  BY <1>12, BlockWell
<1>13. CASE Move
  BY <1>13, MoveWell
<1>14. CASE SwitchPhone
  BY <1>14, SwitchPhoneWell
<1>15. CASE LeaveEditor
  BY <1>15, AgainWell DEF LeaveEditor
<1>16. CASE UNCHANGED editVars
  BY <1>16, EditStutters
<1> QED
  BY <1>1, <1>2, <1>3, <1>4, <1>5, <1>6, <1>7, <1>8, <1>9, <1>10, <1>11, <1>12, <1>13,
     <1>14, <1>15, <1>16 DEF EditNext

\* After every step of vedit2 the buffer is sound: its pointers and numbers fit the
\* list, no line outgrows its memory, and the current one has room for a whole line.
THEOREM EditInvariant == EditSpec => []EditInv
  BY EditStarts, EditSteps, PTL DEF EditSpec

\* With the invariant the type of the line of the window is a natural number.
LEMMA EditTyped == EditInv => EditTypeOK
<1> SUFFICES ASSUME EditInv PROVE EditTypeOK
  OBVIOUS
<1>1. ed \in Buffer /\ ed.curr_window_line \in Nat
  BY SoundIs DEF EditInv
<1> DEFINE w == ed.curr_window_line
<1>2. ed = [ed EXCEPT !.curr_window_line = w]
  BY <1>1 DEF Buffer
<1>3. ed \in EditBuffer
  BY <1>1 DEF Buffer, EditBuffer
<1> QED
  BY <1>3 DEF EditInv, EditTypeOK

\* The fields of the editor's buffer never leave their types: in particular the line
\* of the window never stays negative and the column never passes WRAPMARGIN.
THEOREM EditTyping == EditSpec => []EditTypeOK
  BY EditInvariant, EditTyped, PTL

LEMMA EditHealthy == EditInv => ListHealthy
<1> SUFFICES ASSUME EditInv PROVE ListHealthy
  OBVIOUS
<1>1. /\ Sound(ed) /\ ed \in Buffer /\ CursorAt(ed) /\ WindowAt(ed) /\ Listed(ed) /\ Lengths(ed)
      /\ Selected(ed) /\ ed.text \in Seq(Lines)
  BY SoundIs DEF EditInv
<1>2. \A i \in 1..Len(ed.text) : ed.text[i] \in Range(ed.text)
  BY <1>1, RangeIs
<1> QED
  BY <1>1, <1>2 DEF ListHealthy, Listed, Distinct, Lengths, Selected, CursorAt, WindowAt

\* edit_check_healthy never finds anything wrong, with any number of lines: whatever
\* is typed, joined, split, cut out or brought back, pointers and numbers fit the list.
THEOREM ListsHealthy == EditSpec => []ListHealthy
  BY EditInvariant, EditHealthy, PTL

LEMMA EditRoomy == EditInv => RoomToType
  BY DEF EditInv, Roomy, RoomToType, Sound, Base, Lengths

\* The current line can always take a character more without leaving its memory.
THEOREM AlwaysRoom == EditSpec => []RoomToType
  BY EditInvariant, EditRoomy, PTL

LEMMA EditShown == EditInv => CursorInWindow
  BY DEF EditInv, Visible, CursorInWindow

\* The cursor is in the window at the top of the loop unless the screen shrank since.
THEOREM CursorShown == EditSpec => []CursorInWindow
  BY EditInvariant, EditShown, PTL
=============================================================================
