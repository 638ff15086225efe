---------------------------- MODULE ArticleFile -----------------------------
(***************************************************************************)
(* One article of a board: its text file, the header of it in .DIR, and    *)
(* the processes that comment on it, edit it and delete it                 *)
(* (do_add_recommend, edit_post, append_merge_replace, modify_dir_lite and *)
(* del_post of mbbsd/bbs.c, with EDITPOST_SMARTMERGE and                   *)
(* SAFE_ARTICLE_DELETE as sample/main.conf sets them).                     *)
(*                                                                         *)
(* A text is a sequence of items: the body, then the comments.  An edit    *)
(* replaces the file: it works on a copy, another inode, and renames the   *)
(* copy over the path, so that a process may hold a descriptor of a file   *)
(* that no longer is the article.  flock() belongs to the inode.           *)
(***************************************************************************)
EXTENDS Integers, Sequences, FiniteSets

CONSTANTS
    Procs,          \* mbbsd processes
    Authors,        \* those logged in as the article's owner
    Comments,       \* comment lines that can be made
    Good, Bad,      \* those made with RECTYPE_GOOD and with RECTYPE_BAD
    Bodies, Body0,  \* versions of the body; the one first posted
    Inodes, Inode0, \* files of the board directory; the article's first
    NoInode,        \* a name that does not exist, a failed open()
    Nobody,         \* holder of a lock that is free
    LockRetry,      \* lock_retry of do_add_recommend
    MAX_RECOMMENDS,
    Ops             \* what processes do in this instance

ASSUME ArticleAssumption ==
    /\ Authors \subseteq Procs
    /\ Good \subseteq Comments /\ Bad \subseteq Comments /\ Good \cap Bad = {}
    /\ Body0 \in Bodies /\ Bodies \cap Comments = {}
    /\ Inode0 \in Inodes /\ NoInode \notin Inodes
    /\ Nobody \notin Procs
    /\ LockRetry \in Nat /\ MAX_RECOMMENDS \in Nat
    /\ Ops \subseteq {"comment", "edit", "delete", "crash"}

VARIABLES
    text,  \* what is in each inode
    path,  \* the inode the article's name leads to
    flk,   \* who holds flock() on each inode
    dir,   \* the article's entry in .DIR
    pc,    \* what each process is about to do
    call,  \* its locals
    used,  \* bodies and comments written by somebody
    acked  \* history: comments whose author was not shown an error

vars == <<text, path, flk, dir, pc, call, used, acked>>

-----------------------------------------------------------------------------
Item == Bodies \cup Comments
File == Inodes \cup {NoInode}

\* live: the name is still the article's, not FN_SAFEDEL.  title stands for
\* what an edit changes in the header (title, modified).
Header == [live : BOOLEAN, score : -MAX_RECOMMENDS..MAX_RECOMMENDS, title : Bodies]

\* item: the comment made, the body written; update: of the score; fd: the
\* article as opened; ino: fpath of edit_post, the copy; old: what was
\* copied (oldsum, oldsz); tries: lock_retry; hdr: the entry as read.
Call == [item : Item, update : {-1, 0, 1}, fd : File, ino : File,
         old : Seq(Item), tries : 0..LockRetry, hdr : Header]
NoCall == [item |-> Body0, update |-> 0, fd |-> NoInode, ino |-> NoInode,
           old |-> <<>>, tries |-> 0,
           hdr |-> [live |-> TRUE, score |-> 0, title |-> Body0]]

Labels == {"idle", "c_open", "c_flock", "c_reopen", "c_write", "c_unlock",
           "c_stat", "e_copy", "e_edit", "e_hash", "e_open", "e_size",
           "e_flock", "e_merge", "e_unlink", "e_rename", "e_unlock",
           "m_read", "m_write", "d_unlink"}

Goto(p, l) == pc' = [pc EXCEPT ![p] = l]
Return(p) == Goto(p, "idle") /\ call' = [call EXCEPT ![p] = NoCall]

Size(f) == IF f = NoInode THEN -1 ELSE Len(text[f])

\* Inodes that no name and no descriptor leads to; stampfile() gets the
\* first of them.
Free == Inodes \ ({path} \cup {call[p].fd : p \in Procs} \cup {call[p].ino : p \in Procs})

Init ==
    /\ text = [f \in Inodes |-> IF f = Inode0 THEN <<Body0>> ELSE <<>>]
    /\ path = Inode0
    /\ flk = [f \in Inodes |-> Nobody]
    /\ dir = [live |-> TRUE, score |-> 0, title |-> Body0]
    /\ pc = [p \in Procs |-> "idle"]
    /\ call = [p \in Procs |-> NoCall]
    /\ used = {Body0}
    /\ acked = {}

-----------------------------------------------------------------------------
(* do_add_recommend                                                        *)

\* +1 or -1 by type, as long as the header on the screen is below the cap.
Vote(c) == IF c \in Good /\ dir.score < MAX_RECOMMENDS THEN 1
           ELSE IF c \in Bad /\ dir.score > -MAX_RECOMMENDS THEN -1
           ELSE 0

CallComment(p) ==
    /\ "comment" \in Ops
    /\ pc[p] = "idle"
    /\ dir.live
    /\ \E c \in Comments \ used :
        /\ used' = used \cup {c}
        /\ call' = [call EXCEPT ![p] = [NoCall EXCEPT !.item = c,
                        !.update = Vote(c), !.tries = LockRetry]]
    /\ Goto(p, "c_open")
    /\ UNCHANGED <<text, path, flk, dir, acked>>

\* A file that is not there is reported as deleted.
COpen(p) ==
    /\ pc[p] = "c_open"
    /\ IF path = NoInode
       THEN Return(p)
       ELSE Goto(p, "c_flock") /\ call' = [call EXCEPT ![p].fd = path]
    /\ UNCHANGED <<text, path, flk, dir, used, acked>>

\* Variant: the lock is not looked at.
CanLockAlways(f) == f # NoInode

CanLock(f) == f # NoInode /\ flk[f] = Nobody

\* Variant: goto error is forgotten.
GiveUpNot(p) == Goto(p, "c_stat") /\ UNCHANGED call

\* "the file is being edited", goto error
GiveUp(p) == Return(p)

\* flock(LOCK_EX | LOCK_NB), at most LockRetry times
CFlock(p) ==
    /\ pc[p] = "c_flock"
    /\ \/ /\ call[p].tries = 0
          /\ GiveUp(p)
          /\ UNCHANGED flk
       \/ /\ call[p].tries > 0
          /\ CanLock(call[p].fd)
          /\ flk' = [flk EXCEPT ![call[p].fd] = p]
          /\ Goto(p, "c_write")
          /\ UNCHANGED call
       \/ /\ call[p].tries > 0
          /\ ~ CanLock(call[p].fd)
          /\ Goto(p, "c_reopen")
          /\ call' = [call EXCEPT ![p].tries = @ - 1, ![p].fd = NoInode]
          /\ UNCHANGED flk
    /\ UNCHANGED <<text, path, dir, used, acked>>

\* edit_post creates a new file; the open may fail
CReopen(p) ==
    /\ pc[p] = "c_reopen"
    /\ call' = [call EXCEPT ![p].fd = path]
    /\ Goto(p, "c_flock")
    /\ UNCHANGED <<text, path, flk, dir, used, acked>>

\* one write() with O_APPEND
CWrite(p) ==
    /\ pc[p] = "c_write"
    /\ text' = [text EXCEPT ![call[p].fd] = Append(@, call[p].item)]
    /\ Goto(p, "c_unlock")
    /\ UNCHANGED <<path, flk, dir, call, used, acked>>

\* Nothing that follows tells the user that the comment was not made.
CUnlock(p) ==
    /\ pc[p] = "c_unlock"
    /\ flk' = [flk EXCEPT ![call[p].fd] = Nobody]
    /\ call' = [call EXCEPT ![p].fd = NoInode]
    /\ acked' = acked \cup {call[p].item}
    /\ Goto(p, "c_stat")
    /\ UNCHANGED <<text, path, dir, used>>

\* fhdr->modified = dasht(path); .DIR is left alone if that fails
CStat(p) ==
    /\ pc[p] = "c_stat"
    /\ IF path = NoInode THEN Return(p) ELSE Goto(p, "m_read") /\ UNCHANGED call
    /\ UNCHANGED <<text, path, flk, dir, used, acked>>

-----------------------------------------------------------------------------
(* modify_dir_lite: read the entry, check its name, change it, write the   *)
(* whole of it back.  Its PttLock calls are commented out.                 *)

\* Variant: no cap.
ClampNot(n) == n

Clamp(n) == IF n > MAX_RECOMMENDS THEN MAX_RECOMMENDS
            ELSE IF n < -MAX_RECOMMENDS THEN -MAX_RECOMMENDS ELSE n

\* An edit passes its title and 0, a comment passes no title and its update.
Modified(p) ==
    [dir EXCEPT !.score = Clamp(@ + call[p].update),
                !.title = IF call[p].item \in Bodies THEN call[p].item ELSE @]

ModifyRead(p) ==
    /\ pc[p] = "m_read"
    /\ IF dir.live
       THEN Goto(p, "m_write") /\ call' = [call EXCEPT ![p].hdr = Modified(p)]
       ELSE Return(p)
    /\ UNCHANGED <<text, path, flk, dir, used, acked>>

ModifyWrite(p) ==
    /\ pc[p] = "m_write"
    /\ dir' = call[p].hdr
    /\ Return(p)
    /\ UNCHANGED <<text, path, flk, used, acked>>

-----------------------------------------------------------------------------
(* edit_post and append_merge_replace.  Texts are compared, copied and     *)
(* measured in items: a hash tells two prefixes apart.                     *)

CallEdit(p) ==
    /\ "edit" \in Ops
    /\ p \in Authors
    /\ pc[p] = "idle"
    /\ dir.live /\ path # NoInode
    /\ Goto(p, "e_copy")
    /\ UNCHANGED <<text, path, flk, dir, call, used, acked>>

\* stampfile(), Copy(), dashs() and the hash of the copy.  Without the
\* article, which Copy() does not report, the copy is empty.
ECopy(p) ==
    /\ pc[p] = "e_copy"
    /\ \E i \in Free :
        LET t == IF path = NoInode THEN <<>> ELSE text[path] IN
        /\ text' = [text EXCEPT ![i] = t]
        /\ call' = [call EXCEPT ![p].ino = i, ![p].old = t]
    /\ Goto(p, "e_edit")
    /\ UNCHANGED <<path, flk, dir, used, acked>>

\* vedit2: the author rewrites the body and saves, or aborts.
Rewritten(t, b) == IF t = <<>> THEN <<b>> ELSE [t EXCEPT ![1] = b]

EEdit(p) ==
    /\ pc[p] = "e_edit"
    /\ \/ /\ \E b \in Bodies \ used :
              /\ used' = used \cup {b}
              /\ text' = [text EXCEPT ![call[p].ino] = Rewritten(@, b)]
              /\ call' = [call EXCEPT ![p].item = b]
          /\ Goto(p, "e_hash")
       \/ Return(p) /\ UNCHANGED <<text, used>>
    /\ UNCHANGED <<path, flk, dir, acked>>

\* Variant: sizes are compared, not texts.
UnchangedBySize(p) == path # NoInode /\ Len(text[path]) >= Len(call[p].old)

\* hash_partial_file(genbuf, oldsz) gives the hash of the copy.
UnchangedSoFar(p) ==
    /\ path # NoInode
    /\ Len(text[path]) >= Len(call[p].old)
    /\ SubSeq(text[path], 1, Len(call[p].old)) = call[p].old

\* A changed article sends the new text to buf.0.
EHash(p) ==
    /\ pc[p] = "e_hash"
    /\ IF UnchangedSoFar(p)
       THEN Goto(p, "e_open") /\ UNCHANGED call
       ELSE Return(p)
    /\ UNCHANGED <<text, path, flk, dir, used, acked>>

\* append_merge_replace opens ref_fn; its result 0 is ignored by edit_post.
EOpen(p) ==
    /\ pc[p] = "e_open"
    /\ Goto(p, IF path = NoInode THEN "m_read" ELSE "e_size")
    /\ call' = [call EXCEPT ![p].fd = path]
    /\ UNCHANGED <<text, path, flk, dir, used, acked>>

\* (size_t) dashs(ref_fn) < sz_orig: the -1 of a missing file is not less.
ESize(p) ==
    /\ pc[p] = "e_size"
    /\ IF path # NoInode /\ Size(path) < Len(call[p].old)
       THEN Goto(p, "m_read") /\ call' = [call EXCEPT ![p].fd = NoInode]
       ELSE Goto(p, "e_flock") /\ UNCHANGED call
    /\ UNCHANGED <<text, path, flk, dir, used, acked>>

EFlock(p) ==
    /\ pc[p] = "e_flock"
    /\ CanLock(call[p].fd)
    /\ flk' = [flk EXCEPT ![call[p].fd] = p]
    /\ Goto(p, "e_merge")
    /\ UNCHANGED <<text, path, dir, call, used, acked>>

\* Variant: the merge starts one item late.
AppendedLate(p) ==
    LET t == text[call[p].fd] IN SubSeq(t, Len(call[p].old) + 2, Len(t))

\* What was appended to ref_fn since it was copied.
Appended(p) ==
    LET t == text[call[p].fd] IN SubSeq(t, Len(call[p].old) + 1, Len(t))

EMerge(p) ==
    /\ pc[p] = "e_merge"
    /\ text' = [text EXCEPT ![call[p].ino] = @ \o Appended(p)]
    /\ Goto(p, "e_unlink")
    /\ UNCHANGED <<path, flk, dir, call, used, acked>>

\* Rename is not tried when unlink fails.
EUnlink(p) ==
    /\ pc[p] = "e_unlink"
    /\ path' = NoInode
    /\ Goto(p, IF path = NoInode THEN "e_unlock" ELSE "e_rename")
    /\ UNCHANGED <<text, flk, dir, call, used, acked>>

ERename(p) ==
    /\ pc[p] = "e_rename"
    /\ path' = call[p].ino
    /\ Goto(p, "e_unlock")
    /\ UNCHANGED <<text, flk, dir, call, used, acked>>

EUnlock(p) ==
    /\ pc[p] = "e_unlock"
    /\ flk' = [flk EXCEPT ![call[p].fd] = Nobody]
    /\ call' = [call EXCEPT ![p].fd = NoInode, ![p].ino = NoInode]
    /\ Goto(p, "m_read")
    /\ UNCHANGED <<text, path, dir, used, acked>>

-----------------------------------------------------------------------------
(* del_post: safe_article_delete rewrites the entry (RecordFile has its    *)
(* steps), then cancelpost takes the file away.                            *)

SafeDelete(p) ==
    /\ "delete" \in Ops
    /\ p \in Authors
    /\ pc[p] = "idle"
    /\ dir.live
    /\ dir' = [dir EXCEPT !.live = FALSE]
    /\ Goto(p, "d_unlink")
    /\ UNCHANGED <<text, path, flk, call, used, acked>>

DUnlink(p) ==
    /\ pc[p] = "d_unlink"
    /\ path' = NoInode
    /\ Return(p)
    /\ UNCHANGED <<text, flk, dir, used, acked>>

\* The process dies between two system calls; the kernel closes its files.
Crash(p) ==
    /\ "crash" \in Ops
    /\ pc[p] # "idle"
    /\ flk' = [f \in Inodes |-> IF flk[f] = p THEN Nobody ELSE flk[f]]
    /\ Return(p)
    /\ UNCHANGED <<text, path, dir, used, acked>>

AddRecommend(p) == CallComment(p) \/ COpen(p) \/ CFlock(p) \/ CReopen(p)
                     \/ CWrite(p) \/ CUnlock(p) \/ CStat(p)
ModifyDirLite(p) == ModifyRead(p) \/ ModifyWrite(p)
EditPost(p) == CallEdit(p) \/ ECopy(p) \/ EEdit(p) \/ EHash(p)
AppendMergeReplace(p) == EOpen(p) \/ ESize(p) \/ EFlock(p) \/ EMerge(p)
                           \/ EUnlink(p) \/ ERename(p) \/ EUnlock(p)
DelPost(p) == SafeDelete(p) \/ DUnlink(p)

Next == \E p \in Procs :
    \/ AddRecommend(p) \/ ModifyDirLite(p)
    \/ EditPost(p) \/ AppendMergeReplace(p)
    \/ DelPost(p) \/ Crash(p)

Spec == Init /\ [][Next]_vars

-----------------------------------------------------------------------------
(* Properties                                                              *)

\* Every variable keeps to its type.
TypeOK ==
    /\ text \in [Inodes -> Seq(Item)]
    /\ path \in File
    /\ flk \in [Inodes -> Procs \cup {Nobody}]
    /\ dir \in Header
    /\ pc \in [Procs -> Labels]
    /\ call \in [Procs -> Call]
    /\ used \subseteq Item
    /\ acked \subseteq Comments

\* The article: what its name leads to, or is about to lead to.
Renaming == {p \in Procs : pc[p] = "e_rename"}
Article ==
    IF path # NoInode THEN text[path]
    ELSE IF Renaming # {} THEN text[call[CHOOSE p \in Renaming : TRUE].ino]
    ELSE <<>>

ItemsOf(t) == {t[i] : i \in 1..Len(t)}

\* With one session of the author at work, whoever comments: an edit
\* replaces the body and keeps every comment the article shows, in order
\* and once, also those made while the author was writing
\* (append_merge_replace, bbs.c:1740, under the assumptions it states).
AThread == INSTANCE Thread WITH
    body <- Head(Article), comments <- Tail(Article)

ImplementsThread == AThread!ThreadSpec

\* The score may fall short of the votes, as bbs.c:2651 says, but counts no
\* vote that was not made and none twice: neither lost updates nor edits
\* that write the header back put it outside the votes cast.
ScoreWithinVotes ==
    /\ dir.score <= Cardinality(acked \cap Good)
    /\ -dir.score <= Cardinality(acked \cap Bad)

\* Who writes to the article or replaces it has the lock of the inode it
\* works on, alone, and whoever has a lock is about to release it, also after
\* edits that changed the inode under its name and after deaths
\* (bbs.c:2664-2677, 1777-1793).
AtWork == {"c_write", "c_unlock", "e_merge", "e_unlink", "e_rename", "e_unlock"}
LocksGuardWork ==
    /\ \A p \in Procs : pc[p] \in AtWork => flk[call[p].fd] = p
    /\ \A f \in Inodes : flk[f] # Nobody =>
            pc[flk[f]] \in AtWork /\ call[flk[f]].fd = f

\* A comment its author was not told to be refused is in the article for as
\* long as nobody deletes it.
CommentsStay == dir.live => acked \subseteq ItemsOf(Article)

=============================================================================
