------------------------------- MODULE Thread -------------------------------
(***************************************************************************)
(* What an article with smart merging promises its readers: a body that    *)
(* its author may replace, and below it the comments in the order they     *)
(* were made.  A comment is never lost, moved or repeated by an edit.      *)
(***************************************************************************)
EXTENDS Sequences, Naturals

CONSTANTS Bodies, Comments

VARIABLES body, comments

Made == {comments[i] : i \in 1..Len(comments)}

ThreadInit == body \in Bodies /\ comments = <<>>

AddComment ==
    /\ \E c \in Comments \ Made : comments' = Append(comments, c)
    /\ UNCHANGED body

EditBody ==
    /\ body' \in Bodies \ {body}
    /\ UNCHANGED comments

ThreadSpec ==
    ThreadInit /\ [][AddComment \/ EditBody]_<<body, comments>>
=============================================================================
