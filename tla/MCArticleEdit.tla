--------------------------- MODULE MCArticleEdit ---------------------------
(* A small instance of ArticleFile and of Editor for TLC: how an article   *)
(* is edited, and how what was written replaces its file.  The editor      *)
(* works on its own list of lines and knows nothing of the comments, the   *)
(* file does not depend on the keys, so that it is enough to explore the   *)
(* behaviours in which one of the two is at rest.                          *)
EXTENDS MCArticleFile, Editor

CONSTANTS l1, l2, l3, l4, l5, MaxSize

VARIABLE part

EditVars == <<vars, editVars, part>>

ArticleInit == Init /\ EditInit /\ part \in {"file", "text"}

ArticleNext ==
    \/ part = "file" /\ Next /\ UNCHANGED <<editVars, part>>
    \/ part = "text" /\ EditNext /\ UNCHANGED <<vars, part>>

ArticleSpec == ArticleInit /\ [][ArticleNext]_EditVars

\* What the lines of the editor hold, with their ends and the deleted line.
TextSize ==
    FoldFunctionOnSet(+, 0, [l \in Lines |-> ed.len[l] + 1],
                      Range(ed.text) \cup ({ed.deleted_line} \ {NoLine}))

\* The longest texts are made, but nothing is done with them.
TextIsShort == TextSize <= MaxSize

\* It does not matter where in memory a line is, nor what is in free memory.
LineNo(p) == IF p \in Range(ed.text) THEN Row(ed, p) ELSE 0
EditorView ==
    <<[i \in DOMAIN ed.text |-> <<ed.len[ed.text[i]], ed.mlength[ed.text[i]]>>],
      IF ed.deleted_line = NoLine THEN -1 ELSE ed.len[ed.deleted_line],
      LineNo(ed.firstline), LineNo(ed.lastline), LineNo(ed.currline),
      LineNo(ed.top_of_win), LineNo(ed.blockline), LineNo(ed.oldcurrline),
      ed.currln, ed.totaln, ed.curr_window_line, ed.blockln, ed.currpnt,
      ed.phone_mode, ed.b_lines, phase, shrunk>>

MemoryUnseen == <<part, IF part = "file" THEN vars ELSE EditorView>>
=============================================================================
