------------------------------ MODULE RecordLog ------------------------------
(***************************************************************************)
(* What a listing whose entries are only appended and safely deleted       *)
(* promises its readers (common/bbs/filehdr.c, safe_article_delete in      *)
(* mbbsd/record.c): entry numbers never shift, an entry changes in one     *)
(* piece, and its name only ever turns into FN_SAFEDEL, for good.          *)
(***************************************************************************)
EXTENDS Integers, Sequences

CONSTANTS Names, FN_SAFEDEL

VARIABLES log,  \* the entries
          spent \* names that have entered the log, or were given up

Header == Names \cup {FN_SAFEDEL}

LogInit ==
    /\ log \in Seq(Header)
    /\ spent = {log[i] : i \in 1..Len(log)}
    /\ FN_SAFEDEL \notin spent

\* A new header goes to the end, under a name no header ever had.
AppendEntry(h) ==
    /\ h \in Names \ spent
    /\ log' = Append(log, h)
    /\ spent' = spent \cup {h}

\* Entry i is replaced by one with the same name or by a deleted one.
RewriteEntry(i, h) ==
    /\ h \in {log[i], FN_SAFEDEL}
    /\ log' = [log EXCEPT ![i] = h]
    /\ UNCHANGED spent

\* A writer died holding a name it had stamped.
GiveUp(n) ==
    /\ n \in Names \ spent
    /\ spent' = spent \cup {n}
    /\ UNCHANGED log

LogNext ==
    \/ \E h \in Header : AppendEntry(h)
    \/ \E i \in 1..Len(log), h \in Header : RewriteEntry(i, h)
    \/ \E n \in Names : GiveUp(n)

LogSpec == LogInit /\ [][LogNext]_<<log, spent>>
=============================================================================
