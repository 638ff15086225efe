---------------------------- MODULE MCUserFiles ----------------------------
(* Small instances of ReadMarks and of Favourites for TLC: the two files   *)
(* that a session of a user loads and saves.  They share no variable, and  *)
(* what a command does to one never depends on the other, also where it    *)
(* saves both, so that it is enough to explore the behaviours in which one *)
(* of the two is at rest.                                                  *)
EXTENDS ReadMarks, Favourites, TLC

CONSTANTS b1, b2, b3, w1, f0, f1, f2

\* Favourites in which ^A brings more lines or folders into one folder than a
\* char counts.
Gather == INSTANCE Favourites WITH
    FavBoards <- {}, CHAR_MAX <- 1, MAX_FOLDER <- 1, MAX_LINE <- 1,
    MAX_FAV <- 4, MaxEntries <- 5, MaxMissed <- 0

VARIABLE part

userVars == <<vars, favVars, part>>

UserInit == Init /\ FavInit /\ part \in {"marks", "favourites", "gathering"}

\* Articles that come after Now are not modified.
NewStay == \A i \in DOMAIN brc_list :
    brc_list[i].create > Now => brc_list[i].modified = brc_list[i].create

\* A user has no more than two kinds of entries at a time.
Kinds == {t \in Types : \E d \in Dirs : \E e \in Range(fav_t[d].items) : e.type = t}
FewKinds == Cardinality(Kinds) <= 2

\* Who was in a folder beyond the stack changes nothing more, but lists, enters,
\* leaves, saves and dies: no command but Leave looks at missed.
MissedIsShort == missed' = 0 \/ saving' \/ fav_t' = fav_t

UserNext ==
    \/ part = "marks" /\ Next /\ NewStay' /\ UNCHANGED <<favVars, part>>
    \/ /\ part = "favourites" /\ FavNext /\ FewKinds' /\ MissedIsShort
       /\ UNCHANGED <<vars, part>>
    \/ part = "gathering" /\ Gather!FavNext /\ UNCHANGED <<vars, part>>

UserSpec == UserInit /\ [][UserNext]_userVars

\* While the user is in, the file is not read before it is written again.
MarksView == <<buffer, IF at = "out" THEN user_brc3 ELSE {}, brc_expire_time,
               current, at, history>>

\* While there are changes, the file is not read before it is written again,
\* unless the session dies: then it is loaded as it was when it was written.
\* So is the backup, which was the file when it was made.
FavouritesView == <<tables, screen, IF dirty THEN NoFile ELSE fav_file>>

FilesUnread ==
    <<part, IF part = "marks" THEN MarksView ELSE FavouritesView>>

Alike == Permutations(Boards) \cup Permutations(Dirs \ {Root})
=============================================================================
